CONSTANTS
  Some = {3, 5, 8}
  Graph <- MCGraph
  Query <- MCQuery
  Moments <- MCMoments
  Hops = {1, 2, 3, 4, 5}
  MaxCalls <- MCMaxCalls
  JoinThreshold = 3
  ClearRatio = 1
  TaskMax = 4
  BaseNode = 5
  BaseEdge = 6
  HostCores = 2
  Method = {"C_DFS", "T_DFS", "T_DFS2", "BC_DFS", "BC_DFS_Earlier", "BC_DFS_Induced",
            "BC_DFS_BlockInited", "BC_JOIN", "IDX_DFS", "IDX_JOIN", "IDX_ENUM",
            "MY_DFS", "MY_DFS_Earlier", "MY_DFS_Earliest", "MY_DFS2", "MY_DFS3", "PEFP_DFS", "MY_JOIN",
            "FPGA_PEFP", "FPGA_MYDFS", "FPGA_MYDFS_R", "FPGA_MYDFS_Multi",
            "FPGA_IDX_DFS", "FPGA_IDX_DFS_Multi"}
SPECIFICATION Spec
INVARIANTS
  TypeOK
  SearchesExact
  BarriersExact
  IndexExact
  NeverTooMany
  NoFutileCall
  StaysInBounds
CHECK_DEADLOCK FALSE
