SPECIFICATION Spec
CONSTANTS
  MaxStringLen = 3
  Records <- MCRecords
  Kinds = {"decision", "inference", "override"}
  ChainIds = {"a", "b"}
  MaxRecords = {1, 2}
  ReuseId = FALSE
  MaxLogged = 3
  MaxFaults = 1
  ReportOpts <- MCOpts
  Threads = {t1, t2}
  MaxTime = 4
  MaxCalls = 3
  MonitorOpts <- MCMonitor
  Policies <- MCPolicies
  LogDir <- MCLogDir
  Samples <- MCSamples
INVARIANTS TrailComplete WrittenVerifies ReportHonest ReportSound OversightTimely
CHECK_DEADLOCK FALSE
