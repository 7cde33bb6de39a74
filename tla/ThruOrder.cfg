CONSTANTS
  Inputs = {in1, in2}
  Outputs = {out1}
  Notes = {1}
  Channels <- OneNote
  NoLink = NoLink
  Transforms <- PassOrBlock
  Gaps = {1, 2}
  MaxGap = 2
  Faulty = {}
  UserOps = {"link", "map", "mute", "gap", "panic", "close", "open"}
  QueueCap = 2
  HangCap = 2
  MaxEvents = 3
  MaxBacklog = 0
  MaxTimers = 0
SPECIFICATION Spec
INVARIANTS TypeOK QuietSincePanic
PROPERTIES WireInOrder
