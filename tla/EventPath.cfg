CONSTANTS
  MaxSounding = 2
  MaxHanging = 2
  MaxVoices = 1
  ClockCap = 2
  NoteCap = 2
  MaxEvents = 3
  MaxTime = 400000
  Probes <- Compared
  TextStreams <- Streams
  MaxTexts = 2
  MaxPieces = 3
SPECIFICATION MCSpec
INVARIANTS ProtocolsAgree RecordingPlaysBack AssembledWhole
PROPERTIES LearnedEntriesMatch
CHECK_DEADLOCK FALSE
