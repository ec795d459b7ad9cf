----------------------------- MODULE EditorMain -----------------------------
(***************************************************************************)
(* The editor program: main of src/main.c and editor_ui_ncurses_run of     *)
(* src/editor_ui_ncurses.c.  The command line is read, the app is made,    *)
(* ncurses takes the terminal, the file is opened and edited with the      *)
(* steps of KeyMemory, and on every way out the terminal, the key and the  *)
(* app are given back.  What the operations do is in module EditorSession. *)
(***************************************************************************)
EXTENDS KeyMemory, SequencesExt

CONSTANTS
  Argv,       \* the command lines
  Names       \* the arguments that are file names

NoName  == "none"
Options == {"--io=write", "--io=mmap", "--io=?", "--help"}   \* "--io=?" stands for no mode

\* An argument that is not an option is a file name.
ASSUME EditorMainAssumption ==
  /\ Argv \subseteq Seq(Names \cup Options)
  /\ Names \cap (Options \cup {NoName}) = {}

VARIABLES
  argv, at,   \* the command line, and the argument that is next
  filename, io_mode,
  pc,
  app,        \* the app is initialized
  screen,     \* who has the terminal: "shell" or "curses"
  status,     \* app->status_message
  stderr,     \* what was written to stderr
  exit        \* the exit status

command   == <<argv, at, filename, io_mode>>
main_vars == <<command, pc, app, screen, status, stderr, exit, vars>>

MainInit ==
  /\ Init
  /\ argv \in Argv /\ at = 1
  /\ filename = NoName /\ io_mode = "write"
  /\ pc = "args" /\ app = FALSE /\ screen = "shell"
  /\ status = "" /\ stderr = {} /\ exit = "running"

Say(message) == stderr' = stderr \cup {[message |-> message, screen |-> screen]}
Exit(result) == pc' = "ended" /\ exit' = result

-----------------------------------------------------------------------------
(* The arguments.                                                          *)

\* Mutant: a second file name replaces the first.
RefusedLater(a) == a = "--io=?"

\* An argument that ends the program with a failure: a mode that is none, or
\* a second file name.
Refused(a) == a = "--io=?" \/ (a \in Names /\ filename # NoName)

Modes == [a \in {"--io=write", "--io=mmap"} |-> IF a = "--io=mmap" THEN "mmap" ELSE "write"]

ReadArgument ==
  LET a == argv[at] IN
  /\ pc = "args" /\ at <= Len(argv)
  /\ at' = at + 1
  /\ IF Refused(a) \/ a = "--help"
     THEN /\ Say("usage") /\ Exit(IF a = "--help" THEN "SUCCESS" ELSE "FAILURE")
          /\ UNCHANGED <<filename, io_mode>>
     ELSE /\ IF a \in DOMAIN Modes
             THEN io_mode' = Modes[a] /\ UNCHANGED filename
             ELSE filename' = a /\ UNCHANGED io_mode
          /\ UNCHANGED <<pc, stderr, exit>>
  /\ UNCHANGED <<argv, app, screen, status, vars>>

\* No file name, or editor_app_init without memory.
BeginApp ==
  /\ pc = "args" /\ at > Len(argv)
  /\ \/ /\ filename # NoName
        /\ app' = TRUE /\ status' = "Ready" /\ pc' = "initscr"
        /\ UNCHANGED <<stderr, exit>>
     \/ /\ Say(IF filename = NoName THEN "usage" ELSE "init")
        /\ Exit("FAILURE")
        /\ UNCHANGED <<app, status>>
  /\ UNCHANGED <<command, screen, vars>>

-----------------------------------------------------------------------------
(* editor_ui_ncurses_run.                                                  *)

\* initscr without a usable terminal says so and ends the process, the app with
\* it.
Initscr ==
  /\ pc = "initscr"
  /\ \/ /\ screen' = "curses" /\ pc' = "run"
        /\ UNCHANGED <<app, stderr, exit>>
     \/ /\ Say("terminal") /\ Exit("FAILURE")
        /\ app' = FALSE /\ UNCHANGED screen
  /\ UNCHANGED <<command, status, vars>>

\* What editor_app_load or editor_app_save, and its caller, say of an operation.
Outcome == IF phase = "done" THEN (IF opening THEN "File loaded" ELSE "File saved")
           ELSE IF opening THEN "Load failed; check key" ELSE "Save failed"

\* editor_ui_load_existing_file, and the loop while the editor runs.  An edit
\* does not touch the key.
RunEditor ==
  /\ pc = "run"
  /\ \/ /\ BeginPrompt \/ (\E c \in Char : TypeChar(c)) \/ Backspace \/ Enter
           \/ editor_app_set_key \/ Derive \/ EndCipher
        /\ UNCHANGED status
     \/ Cancel /\ status' = "Key entry cancelled"
     \/ WipeBuffer /\ status' = IF phase = "rejected" THEN "Could not store key" ELSE status
     \/ EndOperation /\ status' = Outcome
     \/ phase = "idle" /\ ~ opening /\ UNCHANGED vars /\ status' = "Insert failed"
  /\ UNCHANGED <<command, pc, app, screen, stderr, exit>>

\* Mutant: the terminal is left as it is when the file was not opened.
EndwinOnQuit ==
  /\ pc = "run"
  /\ \/ phase = "quit" /\ pc' = "message" /\ UNCHANGED screen
     \/ phase = "idle" /\ ~ opening /\ pc' = "free" /\ screen' = "shell"
  /\ UNCHANGED <<command, app, status, stderr, exit, vars>>

\* endwin, when the file was not opened or the user quits the editor.
Endwin ==
  /\ pc = "run"
  /\ \/ phase = "quit" /\ pc' = "message"
     \/ phase = "idle" /\ ~ opening /\ pc' = "free"
  /\ screen' = "shell"
  /\ UNCHANGED <<command, app, status, stderr, exit, vars>>

-----------------------------------------------------------------------------
(* The end of main.                                                        *)

\* The status is the reason that the user sees.
PrintStatus ==
  /\ pc = "message"
  /\ Say(status) /\ pc' = "free_failed"
  /\ UNCHANGED <<command, app, screen, status, exit, vars>>

\* editor_app_free, and the exit status.
FreeApp ==
  /\ pc \in {"free", "free_failed"}
  /\ Quit
  /\ app' = FALSE
  /\ Exit(IF pc = "free" THEN "SUCCESS" ELSE "FAILURE")
  /\ UNCHANGED <<command, screen, status, stderr>>

Ended == pc = "ended" /\ UNCHANGED main_vars

MainNext == \/ ReadArgument \/ BeginApp
            \/ Initscr \/ RunEditor \/ Endwin
            \/ PrintStatus \/ FreeApp \/ Ended

MainSpec == MainInit /\ [][MainNext]_main_vars
-----------------------------------------------------------------------------
(* Properties.                                                             *)

\* What the command line asks for, said without a loop.
NamesAt == {i \in DOMAIN argv : argv[i] \in Names}
EndsAt  == {i \in DOMAIN argv :
              \/ argv[i] \in {"--help", "--io=?"}
              \/ i \in NamesAt /\ i # Min(NamesAt)}
ModesAt == {i \in DOMAIN argv : argv[i] \in DOMAIN Modes}

\* The editor opens the one file that is named, with the mode that is given
\* last, wherever the options stand; any other command line opens none.
OpensWhatWasAsked ==
  /\ app => /\ EndsAt = {} /\ NamesAt # {}
            /\ filename = argv[Min(NamesAt)]
            /\ io_mode = IF ModesAt = {} THEN "write" ELSE Modes[argv[Max(ModesAt)]]
  /\ exit = "SUCCESS" /\ EndsAt # {} => argv[Min(EndsAt)] = "--help"

\* Every way out gives back the terminal, the app and the locked pages and
\* leaves no key in memory; every message is written when the terminal is the
\* user's again and no key is in use; and a failure always has a message.
TerminalComesBack ==
  /\ pc = "ended" =>
       /\ screen = "shell" /\ ~ app
       /\ used = {} /\ locked = {} /\ words = << >>
       /\ \A i \in Offsets : buffer[i] \notin Char /\ \A b \in Block : heap[b][i] \notin Char
  /\ \A m \in stderr : m.screen = "shell"
  /\ stderr # {} => key = NoBlock
  /\ exit = "FAILURE" => stderr # {}
=============================================================================
