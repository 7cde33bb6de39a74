CONSTANTS
  Inputs = {in1}
  Outputs = {out1, out2}
  Notes = {1, 2}
  Channels <- OneChannel
  NoLink = NoLink
  Transforms <- JustPass
  Gaps = {0, 1}
  MaxGap = 1
  Faulty = {out2}
  UserOps = {"link", "gap", "off", "inject"}
  QueueCap = 1
  HangCap = 1
  MaxEvents = 2
  MaxBacklog = 0
  MaxTimers = 0
SPECIFICATION Spec
INVARIANTS MissedForACause
