SPECIFICATION Spec
CONSTANTS
  Pid = {p1, p2}
  Shell = Shell
  MaxPipeline = 2
  Keys = {}
PROPERTY ForegroundLeavesIdle
CHECK_DEADLOCK FALSE
