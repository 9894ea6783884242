SPECIFICATION Spec
CONSTANTS
  Pid = {p1}
  Shell = Shell
  MaxPipeline = 2
  Keys = {"INT"}
PROPERTY KeyboardIsForwarded
CHECK_DEADLOCK FALSE
