CONSTANTS
  in1 = in1
  in2 = in2
  out1 = out1
  out2 = out2
  out3 = out3
  Inputs = {in1, in2}
  Outputs = {out1}
  Wiring <- Merged
  UserOps = {"link", "unlink", "close", "arm", "disarm", "cut", "lose"}
  Faulty = {out1}
  MaxPackets = 3
  MaxDumps = 2
SPECIFICATION Spec
INVARIANTS DumpsAreFramed
