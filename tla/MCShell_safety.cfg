SPECIFICATION Spec
CONSTANTS
  Pid = {p1, p2, p3}
  Shell = Shell
  MaxPipeline = 2
  Keys = {"INT"}
SYMMETRY PidSymmetry
INVARIANT TypeOK
INVARIANT ForegroundIsAttended
INVARIANT JobGroupsAreLive
INVARIANT ChildrenAreListed
INVARIANT ListLagsByReportsOnly
INVARIANT NoLostWakeup
PROPERTY LaunchedJobLeavesIdle
CHECK_DEADLOCK FALSE
