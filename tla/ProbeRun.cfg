CONSTANTS
  a1 = a1
  a2 = a2
  a3 = a3
  n1 = n1
  n2 = n2
  Kinds <- AllKinds
  TargetLists <- NameAndIP
  Address <- MCAddress
  Answers <- MCAnswers
  MaxResolvedIPs = 2
  Count = 2
  PacketInterval = 1
  Timeout = 3
  Interval = 4
SPECIFICATION Spec
INVARIANTS GaugesTellOutcome HttpGaugesTellOutcome RunBounded PromptRunsComplete EveryTargetReported
