CONSTANTS
  p1 = p1
  k1 = k1
  k2 = k2
  k3 = k3
  Probe = {p1}
  Config = {k1, k2}
  ProbesOf <- TwoConfigs
  Unbuildable = {}
  Worker = {w1, w2}
  Main = Main
  Handler = {h1}
  Caller = {Main, h1}
  NoWorker = NoWorker
  NoCaller = NoCaller
  NoHandler = NoHandler
  Config0 = k1
  MaxRuns = 2
  MaxTargets = 1
  Result <- MCResult
  BufferSize = 1
  NumExporters = 1
  MaxSends = 0
SPECIFICATION Spec
INVARIANT StopGuarantee
