SPECIFICATION Spec
CONSTANTS
  Pid = {p1}
  Shell = Shell
  MaxPipeline = 2
  Keys = {}
INVARIANT WaitSeesChildren
CHECK_DEADLOCK FALSE
