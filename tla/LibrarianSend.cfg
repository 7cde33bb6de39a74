CONSTANTS
  MaxDumps = 3
  Tries = 2
  Faulty = TRUE
  MaxAsks = 2
SPECIFICATION FairSpec
PROPERTIES HandshakeHolds InSequence SaidSent JobEnds
