CONSTANTS
  in1 = in1
  in2 = in2
  out1 = out1
  out2 = out2
  out3 = out3
  Inputs = {in1, in2}
  Outputs = {out1, out2, out3}
  Wiring <- OneSource
  UserOps = {"link", "cut", "arm", "clear"}
  Faulty = {out2}
  MaxPackets = 3
  MaxDumps = 3
SPECIFICATION Spec
INVARIANTS ThruDumpsAreWhole LibrarianDumpsAreWhole
PROPERTIES RelaysDumps
