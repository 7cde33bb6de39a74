CONSTANTS
  QueueCap = 2
  MaxMade = 3
  MaxCables = 1
  Faulty = TRUE
  Refusing = TRUE
SPECIFICATION FairSpec
INVARIANTS OpenEndsAreServed TornOnlyByLoss BufferOutlivesDriver
PROPERTIES ClosedCablesAreSilent LossIsReported CallsReturn
CHECK_DEADLOCK FALSE
