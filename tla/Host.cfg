CONSTANTS
  Agents = {a1}
  Outputs = {o1, o2}
  None = None
  MaxCalls = 2
  MaxPolled = 1
  Tempi = {120, 300}
  CatchUp = 3
  LateBy = {13000, 45000}
  MaxHost = 110000
  Programs <- MCPrograms
  MaxScheduled = 2
  MaxCount = 2
  LastTick = 3
  MasterClicks = 3
  ScriptClicks = 5
SPECIFICATION MCSpec
INVARIANTS PanicIsComplete ClockKeepsTime TimersOnce
PROPERTIES EachGateHolds FramesGoOn TimersFire ScriptComesBack
CHECK_DEADLOCK FALSE
