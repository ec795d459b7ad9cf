SPECIFICATION MainSpec
CONSTANTS
  Char = {a, b}
  Zero = Zero
  Junk = Junk
  Capacity = 4
  Block = {1, 2, 3}
  NoBlock = 0
  Pages <- BlockPages
  Argv <- CommandLines
  Names <- TwoNames
INVARIANTS
  TypeOK
  SecretsWhereNeeded
  KeyIsWhatWasTyped
  KeyStaysLocked
  OpensWhatWasAsked
  TerminalComesBack
