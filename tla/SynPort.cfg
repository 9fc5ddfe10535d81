CONSTANTS
  Attempt = {a1}
  Addr <- MCAddr
  Local <- MCLocal
  Port = {443, 17700}
  SrcPort = {40000, 40001}
  Seq32 <- MCSeq32
  HeaderModes = {TRUE, FALSE}
  Noise = {}
  MaxUnread = 1
  NoSyn = NoSyn
SPECIFICATION Spec
INVARIANT AnswerIsSeen
CHECK_DEADLOCK FALSE
