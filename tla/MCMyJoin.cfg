CONSTANTS
  Some = {8}
  Graph <- MCGraph
  Query <- MCQuery
  Moments <- MCMoments
  Hops = {4}
  MaxCalls <- MCMaxCalls
  JoinThreshold = 3
  ClearRatio = 1
  TaskMax = 4
  BaseNode = 5
  BaseEdge = 6
  HostCores = 2
  Method = {"MY_JOIN"}
SPECIFICATION Spec
INVARIANT CompleteIsExact
CHECK_DEADLOCK FALSE
