SPECIFICATION FairSpec
CONSTANTS
  Absent = Absent
  Null = Null
  GlobalFile = "_global.yaml"
  Builtin <- MCBuiltin
  Millisecond = 1
  Word = 64
  IPLiteral = {"192.0.2.1"}
  Blank = {""}
  LocalIP = {"10.0.0.1"}
  Hostname = {"example.org"}
  Files <- MCFiles
  Starts <- MCStarts
  EditDocs <- MCEditDocs
  OpsDocs <- TwoOps
  MaxLoads = 2
INVARIANTS ActiveRunnable DefaultsReachEveryProbe OneChangeIsAtomic IcmpDumpFeedsBack
PROPERTY LoadReturns
CHECK_DEADLOCK FALSE
