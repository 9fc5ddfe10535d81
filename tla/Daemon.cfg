CONSTANTS
  p1 = p1
  k1 = k1
  k2 = k2
  k3 = k3
  Probe = {p1}
  Config = {k1, k2, k3}
  ProbesOf <- ThreeConfigs
  Unbuildable = {}
  Worker = {w1, w2}
  Main = Main
  Handler = {h1, h2}
  Caller = {Main, h1, h2}
  NoWorker = NoWorker
  NoCaller = NoCaller
  NoHandler = NoHandler
  Config0 = k3
  MaxRuns = 1
  MaxTargets = 1
  Result <- MCResult
  BufferSize = 1
  NumExporters = 1
  MaxSends = 0
SPECIFICATION FairSpec
INVARIANTS TypeOK GenerationsInOrder NothingLostAtExit ResultsAccountedFor ConfigIsActive PanicNeedsOverlap StoppedBeforeCancel OneWorkerPerProbe
PROPERTIES SignalEndsProcess RequestsAnswered
