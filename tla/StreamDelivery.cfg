SPECIFICATION FairSpec
CONSTANTS
  Channels = {m, t}
  a = a
  Records = {a, b}
  ChunkRecords = 1
  Killable = TRUE
  MaxRecords = 2
  MaxKept = 1
CONSTRAINT FirstIsA
INVARIANTS CompleteIsWhole NeverWedged
PROPERTIES ImplementsPrefixMirror Arrives
CHECK_DEADLOCK FALSE
