SPECIFICATION FairSpec
CONSTANTS
  App = {a1, a2}
  Cli = {c1, c2}
  File = {todos, journal}
  MaxFaults = 2
  NoDir = NoDir
  Nobody = Nobody
  Ghost = Ghost
INVARIANTS NothingStranded OneWriterPerDirectory
PROPERTIES WritesSelected SwitchedOnce Settles
CHECK_DEADLOCK FALSE
