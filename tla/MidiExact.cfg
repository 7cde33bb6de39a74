CONSTANTS
  DataBytes = {d0}
  Chunk = 6
  SysexCap = 20
  None = None
  MaxRun = 8
SPECIFICATION Spec
INVARIANTS EveryDumpArrives
