SPECIFICATION Spec
CONSTANTS
  Absent = Absent
  Null = Null
  GlobalFile = "_global.yaml"
  Builtin <- MCBuiltin
  Millisecond = 1
  Word = 64
  IPLiteral = {"192.0.2.1"}
  Blank = {""}
  LocalIP = {"10.0.0.1"}
  Hostname = {"example.org"}
  Files <- MCFiles
  Starts <- FixedStarts
  EditDocs <- MCEditDocs
  OpsDocs <- TwoOps
  MaxLoads = 1
INVARIANT IntervalsPositive
CHECK_DEADLOCK FALSE
