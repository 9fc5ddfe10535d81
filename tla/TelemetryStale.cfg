CONSTANTS
  Probe = {"ping", "web"}
  ProbesOf <- MCProbesOf
  Config0 = "k1"
  Address = {"a1", "a2"}
  Answers <- MCAnswers
  Outcomes <- MCOutcomes
  Format = "text"
  BufferSize = 1
  MaxRuns = 2
SPECIFICATION Spec
INVARIANT NoStaleUp
