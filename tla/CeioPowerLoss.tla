--------------------------- MODULE CeioPowerLoss ----------------------------
(***************************************************************************)
(* The file of CeioFile on a disk that may lose power.  What a process     *)
(* writes is in the page cache at first; the system writes it back when it *)
(* likes, its data, its size, and the directory entry of a new file apart. *)
(* Only msync of the mmap backend waits for the disk, for the file and not *)
(* for its entry: nothing in src/io_backend.c syncs the directory, and the *)
(* write backend closes the file without fsync.                            *)
(***************************************************************************)
EXTENDS CeioFile

VARIABLES
  disk,      \* the content of the file on the disk; Missing when it has none
  entry,     \* the file's directory entry is on the disk
  synced     \* history: the save that was told to have succeeded after msync;
             \* 0 when a call touched the file since

durable == <<disk, entry, synced>>
varsOnDisk == <<vars, durable>>

InitOnDisk == Init /\ disk = Missing /\ entry = FALSE /\ synced = 0

\* What the file will be after a power loss: without an entry nobody finds it.
AfterPowerLoss == IF entry THEN disk ELSE Missing

\* The disk when the size of the file is brought to it: new blocks are zero.
Resized == [i \in DOMAIN file |-> IF disk # Missing /\ i <= Len(disk) THEN disk[i] ELSE Zero]

\* The number of the save that an editor is at.
SaveNumber(e) == CHOOSE n \in DOMAIN saves : Image(n) = job[e].image

\* Mutant: msync(MS_ASYNC), which only asks for the write-back.
MsyncToDiskAsync(e) ==
  /\ Msync(e)
  /\ UNCHANGED <<disk, entry>>
  /\ synced' = IF answer'[e] = OK THEN SaveNumber(e) ELSE 0

\* msync(MS_SYNC) has brought the mapped cells and the size of the file to the
\* disk when it succeeds; munmap or close may still make the save fail.
MsyncToDisk(e) ==
  /\ Msync(e)
  /\ \/ disk' = [i \in DOMAIN file |-> IF i \in DOMAIN job[e].image THEN file[i] ELSE Resized[i]]
     \/ answer'[e] = ERROR /\ UNCHANGED disk
  /\ synced' = IF answer'[e] = OK THEN SaveNumber(e) ELSE 0
  /\ UNCHANGED entry

\* Every other step of the calls works on the page cache.
InCache(e) ==
  /\ \/ Call(e) \/ Kill(e)
     \/ OpenForWriting(e) \/ WriteChunk(e) \/ Close(e)
     \/ FtruncateAndMmap(e) \/ Memcpy(e)
     \/ ReadChunk(e) \/ Parse(e)
  /\ synced' = IF file' = file THEN synced ELSE 0
  /\ UNCHANGED <<disk, entry>>

\* The system writes back the size of the file, a cell of it, or its entry in
\* the directory, which may be there before any of its content.
Writeback ==
  /\ file # Missing
  /\ \/ disk' = Resized /\ UNCHANGED entry
     \/ /\ disk # Missing
        /\ \E i \in DOMAIN file \cap DOMAIN disk : disk' = [disk EXCEPT ![i] = file[i]]
        /\ UNCHANGED entry
     \/ disk' = (IF disk = Missing THEN << >> ELSE disk) /\ entry' = TRUE
  /\ UNCHANGED <<vars, synced>>

\* The power fails: every process ends, and of the file there is what the disk
\* has of it.
PowerLoss ==
  /\ file' = AfterPowerLoss
  /\ disk' = AfterPowerLoss
  /\ pc' = [e \in Editor |-> "idle"]
  /\ job' = [e \in Editor |-> NoJob]
  /\ answer' = [e \in Editor |-> None]
  /\ UNCHANGED <<saves, entry, synced>>

NextOnDisk ==
  \/ \E e \in Editor : MsyncToDisk(e) \/ InCache(e)
  \/ Writeback \/ PowerLoss

SpecOnDisk == InitOnDisk /\ [][NextOnDisk]_varsOnDisk
-----------------------------------------------------------------------------
(* Properties.                                                             *)

\* A save with mmap that returned success survives power losses, however
\* much later, until the file is opened for writing again, if the directory
\* entry of the file has reached the disk: the file is there with its image,
\* whole, and a load brings back its text and no other.
SyncedSaveSurvives ==
  synced # 0 /\ entry =>
    /\ AfterPowerLoss = Image(synced)
    /\ Loaded(AfterPowerLoss, saves[synced].key) = {saves[synced].text}

\* Whatever part of which saves reached the disk before the power failed, a
\* load of it returns a text that was saved, or fails.
DiskHoldsSavedText ==
  disk # Missing =>
    \A k \in Key : \A t \in Loaded(disk, k) : \E n \in DOMAIN saves : saves[n].text = t
=============================================================================
