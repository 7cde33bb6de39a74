CONSTANTS
  Inputs = {in1}
  Outputs = {out1}
  Notes = {}
  Channels <- NoNotes
  NoLink = NoLink
  Transforms <- JustPass
  Gaps = {0, 1, 2}
  MaxGap = 2
  Faulty = {out1}
  UserOps = {"link", "gap", "close", "open", "script"}
  QueueCap = 2
  HangCap = 1
  MaxEvents = 2
  MaxBacklog = 1
  MaxTimers = 1
SPECIFICATION FairSpec
INVARIANTS PacedThru
PROPERTIES CaptureIsDrained QueuedLeaves
