CONSTANTS
  DataBytes = {d0, d1}
  Chunk = 2
  SysexCap = 5
  None = None
  MaxRun = 7
SPECIFICATION Spec
INVARIANTS TypeOK NoCorruptDump UnevenDumpsArrive
PROPERTIES RunningStatusHolds
