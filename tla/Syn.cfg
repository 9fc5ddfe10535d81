CONSTANTS
  Attempt = {a1, a2}
  Addr <- MCAddr
  Local <- MCLocal
  Port = {443, 17700}
  SrcPort = {40000, 40001}
  Seq32 <- MCSeq32
  HeaderModes = {TRUE, FALSE}
  Noise <- MCNoise
  MaxUnread = 1
  NoSyn = NoSyn
SPECIFICATION FairSpec
INVARIANTS SegmentsVerify VerdictIsOwn AnswerIsSeenElsewhere
PROPERTY AttemptEnds
CHECK_DEADLOCK FALSE
