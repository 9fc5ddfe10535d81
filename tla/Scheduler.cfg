CONSTANTS
  p1 = p1
  k1 = k1
  k2 = k2
  Probe = {p1}
  Config = {k1, k2}
  ProbesOf <- MCProbesOf
  Unbuildable <- MCUnbuildable
  Worker = {w1, w2}
  Caller = {c1, c2}
  NoWorker = NoWorker
  NoCaller = NoCaller
  MaxRuns = 1
  MaxTargets = 1
SPECIFICATION SchedFairSpec
INVARIANTS MapHoldsRunningWorkers WorkersAccountedFor CancelledAreAwaited
PROPERTIES CallsReturn CancelledExit
