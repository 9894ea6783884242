SPECIFICATION FairSpec
CONSTANTS
  Pid = {p1, p2}
  Shell = Shell
  MaxPipeline = 2
  Keys = {"TSTP", "QUIT"}
PROPERTY LaunchWaitEnds
PROPERTY KeyboardHitsShellInFgOnly
CHECK_DEADLOCK FALSE
