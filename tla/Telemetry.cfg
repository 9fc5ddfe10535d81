CONSTANTS
  Probe = {"ping", "web"}
  ProbesOf <- MCProbesOf
  Config0 = "k1"
  Address = {"a1", "a2"}
  Answers <- MCAnswers
  Outcomes <- MCOutcomes
  Format = "json"
  BufferSize = 1
  MaxRuns = 2
SPECIFICATION FairSpec
INVARIANTS CountersAccount GaugesOfLastResult StaleOnlyByMove LinesTellMeasured FlushedAtExit
PROPERTY EventuallyPushed
