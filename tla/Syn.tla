-------------------------------- MODULE Syn --------------------------------
(***************************************************************************)
(* Half-open attempts of the TCP probe (internal/probe/tcp/syn.go): the    *)
(* segment an attempt sends, and what it makes of the segments its raw     *)
(* socket delivers.  A segment is a sequence of 16-bit words, an address a *)
(* sequence of words too, and a sequence number two of them, hi and lo.    *)
(*                                                                         *)
(* The network keeps every reply: it delivers one late, twice, after other *)
(* ones, or never.  A raw socket sees the TCP traffic of the whole host,   *)
(* the replies to other attempts included.                                 *)
(***************************************************************************)
EXTENDS Integers, Sequences, Functions

CONSTANTS
  Attempt,     \* the attempts, of one probe or of several
  Addr,        \* targets
  Local,       \* source addresses: source_ip, or the route's
  Port,        \* configured target ports
  SrcPort,     \* 1024 + rand.IntN(...)
  Seq32,       \* what rand.Uint32 may yield
  HeaderModes, \* whether ReadFrom leaves the IP header: subset of BOOLEAN
  Noise,       \* segments in the network that answer no attempt
  MaxUnread,   \* segments the socket buffers
  NoSyn        \* the SYN of an attempt that has sent none

Byte == 256
Word == Byte * Byte
Words == 0..(Word - 1)
Uint32 == [hi : Words, lo : Words]

\* The SYNs attempts may send.
Syns == [src : Local, dst : Addr, port : Port, sport : SrcPort, seq : Seq32]

ASSUME SynAssumption ==
  /\ Addr \subseteq Seq(Words) /\ Local \subseteq Seq(Words)
  /\ Port \subseteq Words /\ SrcPort \subseteq Words
  /\ Seq32 \subseteq Uint32
  /\ HeaderModes \subseteq BOOLEAN
  /\ MaxUnread \in Nat \ {0}
  /\ NoSyn \notin Syns

VARIABLES
  st,    \* [Attempt -> {"idle", "waiting", "open", "closed", "silent", "error"}]
  syn,   \* [Attempt -> the addresses, ports and number of the SYN it sent]
  hdr,   \* ReadFrom returns packets with their IP header
  air,   \* segments sent: where from, the segment, which SYN (history)
  sock,  \* [Attempt -> sequence of replies its socket holds]
  heard  \* [Attempt -> ReadFrom has returned an answer to its SYN] (history)

vars == <<st, syn, hdr, air, sock, heard>>

flagSYN == 2
flagRST == 4
flagACK == 16

\* flags & f # 0
Has(flags, f) == (flags \div f) % 2 = 1

IsIPv4(ip) == Len(ip) = 2

Zero == [hi |-> 0, lo |-> 0]

Successor(n) ==
  IF n.lo < Word - 1 THEN [hi |-> n.hi, lo |-> n.lo + 1]
                     ELSE [hi |-> (n.hi + 1) % Word, lo |-> 0]

-----------------------------------------------------------------------------
(* Segments *)

\* addBytes; every segment here has an even length.
AddWords(ws) == SumFunctionOnSet(ws, 1..Len(ws))

\* Mutant: the carry is added once.
FoldOnce(n) == ((n % Word) + (n \div Word)) % Word

CarryLoop[n \in Nat] ==
  IF n \div Word = 0 THEN n ELSE CarryLoop[(n % Word) + (n \div Word)]

FoldCarry(n) == CarryLoop[n]

Pseudo(src, dst, seg) == src \o dst \o <<6, 2 * Len(seg)>>

tcpChecksum(src, dst, seg) == (Word - 1) - FoldCarry(AddWords(Pseudo(src, dst, seg) \o seg))

\* Data offset 5 and flags in word 7, checksum in word 9.
Header(sport, dport, n, ack, flags, window) ==
  <<sport, dport, n.hi, n.lo, ack.hi, ack.lo, 5 * 16 * Byte + flags, window, 0, 0>>

buildSYN(s) ==
  LET h == Header(s.sport, s.port, s.seq, Zero, flagSYN, Word - 1)
  IN  [h EXCEPT ![9] = tcpChecksum(s.src, s.dst, h)]

parseTCPSegment(b) ==
  [srcPort |-> b[1], dstPort |-> b[2], seq |-> [hi |-> b[3], lo |-> b[4]],
   ack |-> [hi |-> b[5], lo |-> b[6]], flags |-> b[7] % Byte]

stripIPv4Header(b) ==
  LET first == b[1] \div Byte
      ihl   == (first % 16) * 2
  IN  IF Len(b) >= 10 /\ first \div 16 = 4 /\ ihl \in 10..Len(b)
      THEN SubSeq(b, ihl + 1, Len(b))
      ELSE b

\* Mutant: any SYN/ACK between the two ports opens.
AnyAck(seg, s) ==
  IF seg.srcPort # s.port \/ seg.dstPort # s.sport THEN "ignored"
  ELSE IF Has(seg.flags, flagSYN) /\ Has(seg.flags, flagACK) THEN "open"
  ELSE IF Has(seg.flags, flagRST) THEN "closed"
  ELSE "ignored"

\* Mutant: the number expected does not wrap.
WideAck(seg, s) ==
  IF seg.srcPort # s.port \/ seg.dstPort # s.sport THEN "ignored"
  ELSE IF Has(seg.flags, flagSYN) /\ Has(seg.flags, flagACK) /\ seg.ack = [s.seq EXCEPT !.lo = @ + 1] THEN "open"
  ELSE IF Has(seg.flags, flagRST) THEN "closed"
  ELSE "ignored"

classifyReply(seg, s) ==
  IF seg.srcPort # s.port \/ seg.dstPort # s.sport THEN "ignored"
  ELSE IF Has(seg.flags, flagSYN) /\ Has(seg.flags, flagACK) /\ seg.ack = Successor(s.seq) THEN "open"
  ELSE IF Has(seg.flags, flagRST) THEN "closed"
  ELSE "ignored"

-----------------------------------------------------------------------------
(* The target, external *)

\* What a receiver checks: in ones' complement the words add up to zero.
Verifies(src, dst, seg) == AddWords(Pseudo(src, dst, seg) \o seg) % (Word - 1) = 0

\* A SYN/ACK carries one option, the maximum segment size.
SynAck(s) ==
  Header(s.port, s.sport, Zero, Successor(s.seq), flagSYN + flagACK, Word - 1) \o <<516, 1460>>
RstAck(s) == Header(s.port, s.sport, Zero, Successor(s.seq), flagRST + flagACK, 0)

\* The end of an established connection; seq is its own number.
Rst(s) == Header(s.port, s.sport, s.seq, Zero, flagRST, 0)

\* re and kind are history: which SYN is answered, or connection reset, and how.
Reply(s, kind) ==
  [from |-> s.dst, re |-> s, kind |-> kind,
   seg  |-> CASE kind = "open"   -> SynAck(s)
              [] kind = "closed" -> RstAck(s)
              [] kind = "reset"  -> Rst(s)]

\* Of the host's other traffic, the segments that could be taken for an answer:
\* those that answer a SYN of another program, and those that reset a connection.
ASSUME NoiseAssumption ==
  \A p \in Noise :
    /\ p.kind \in {"open", "closed", "reset"} /\ p = Reply(p.re, p.kind)
    /\ p.re.port \in Words /\ p.re.sport \in Words /\ p.re.seq \in Uint32

IPHeader == <<69 * Byte, 0, 0, 0, 0, 0, 0, 0, 0, 0>>

Sent == {a \in Attempt : syn[a] # NoSyn}

-----------------------------------------------------------------------------
Init ==
  /\ st = [a \in Attempt |-> "idle"]
  /\ syn = [a \in Attempt |-> NoSyn]
  /\ hdr \in HeaderModes
  /\ air = Noise
  /\ sock = [a \in Attempt |-> <<>>]
  /\ heard = [a \in Attempt |-> FALSE]

\* An address that is not IPv4, no route, no raw socket, no deadline, no send.
SetupFails(a) ==
  /\ st[a] = "idle"
  /\ st' = [st EXCEPT ![a] = "error"]
  /\ UNCHANGED <<syn, hdr, air, sock, heard>>

\* synAttempt up to WriteTo.
SendSyn(a) ==
  /\ st[a] = "idle"
  /\ \E s \in Syns :
       /\ IsIPv4(s.dst) /\ IsIPv4(s.src)
       /\ syn' = [syn EXCEPT ![a] = s]
  /\ st' = [st EXCEPT ![a] = "waiting"]
  /\ UNCHANGED <<hdr, air, sock, heard>>

\* The target answers a SYN it has received whole; a port may be opened or
\* closed between two copies of it.
Answer(a) ==
  /\ a \in Sent
  /\ Verifies(syn[a].src, syn[a].dst, buildSYN(syn[a]))
  /\ \E kind \in {"open", "closed"} : air' = air \cup {Reply(syn[a], kind)}
  /\ UNCHANGED <<st, syn, hdr, sock, heard>>

\* The kernel copies a segment to every raw socket.
Deliver(a) ==
  /\ st[a] = "waiting"
  /\ Len(sock[a]) < MaxUnread
  /\ \E p \in air : sock' = [sock EXCEPT ![a] = Append(@, p)]
  /\ UNCHANGED <<st, syn, hdr, air, heard>>

Buffer(p) == IF hdr THEN IPHeader \o p.seg ELSE p.seg

\* What the loop makes of one packet.
Verdict(a, p) ==
  LET b == stripIPv4Header(Buffer(p))
  IN  IF p.from # syn[a].dst \/ Len(b) < 10 THEN "ignored"
      ELSE classifyReply(parseTCPSegment(b), syn[a])

\* One turn of the loop; Close throws the unread packets away.
ReadFrom(a) ==
  /\ st[a] = "waiting" /\ sock[a] # <<>>
  /\ heard' = [heard EXCEPT ![a] = @ \/ Head(sock[a]).re = syn[a]]
  /\ LET v == Verdict(a, Head(sock[a]))
     IN  IF v = "ignored"
         THEN sock' = [sock EXCEPT ![a] = Tail(@)] /\ UNCHANGED st
         ELSE sock' = [sock EXCEPT ![a] = <<>>] /\ st' = [st EXCEPT ![a] = v]
  /\ UNCHANGED <<syn, hdr, air>>

\* Mutant: the deadline is that of one read.
DeadlineWhenQuiet(a) ==
  /\ st[a] = "waiting" /\ sock[a] = <<>>
  /\ st' = [st EXCEPT ![a] = "silent"]
  /\ UNCHANGED <<syn, hdr, air, sock, heard>>

\* Past the deadline ReadFrom fails, whatever the socket holds.
Deadline(a) ==
  /\ st[a] = "waiting"
  /\ st' = [st EXCEPT ![a] = "silent"]
  /\ sock' = [sock EXCEPT ![a] = <<>>]
  /\ UNCHANGED <<syn, hdr, air, heard>>

Next ==
  \E a \in Attempt :
    \/ SetupFails(a) \/ SendSyn(a) \/ ReadFrom(a) \/ Deadline(a)
    \/ Answer(a) \/ Deliver(a)

Spec == Init /\ [][Next]_vars

\* SetDeadline is a timer of the runtime's.  The network owes nothing.
FairSpec == Spec /\ \A a \in Attempt : WF_vars(Deadline(a))

-----------------------------------------------------------------------------
\* Every SYN on the wire is one its receiver accepts, and says what buildSYN
\* was given: it parses back to the attempt's ports and number and SYN alone.
SegmentsVerify ==
  \A a \in Sent :
    LET b == buildSYN(syn[a])
        s == parseTCPSegment(b)
    IN  /\ Verifies(syn[a].src, syn[a].dst, b)
        /\ s = [srcPort |-> syn[a].sport, dstPort |-> syn[a].port, seq |-> syn[a].seq,
                ack |-> Zero, flags |-> flagSYN]

\* A verdict is the target's own, however many attempts share the host's TCP
\* traffic and however late or often replies arrive: an open port acknowledged
\* this very SYN; for a closed one the target sent a RST from this port to this
\* source port, be it for another SYN or connection: classifyReply looks at no
\* number of a RST.
VerdictIsOwn ==
  \A a \in Attempt :
    st[a] \in {"open", "closed"} =>
      \E p \in air :
        /\ p.kind = "open" <=> st[a] = "open"
        /\ p.re.dst = syn[a].dst /\ p.re.port = syn[a].port /\ p.re.sport = syn[a].sport
        /\ st[a] = "open" => p.re.seq = syn[a].seq

\* synAttempt's comment: "A SYN/ACK is an open port, a RST is a
\* closed-but-reachable port, and no reply within timeout is unreachable".  An
\* attempt that was handed the answer to its SYN does not end unreachable.
AnswerIsSeen ==
  \A a \in Attempt :
    ~(st[a] = "silent" /\ heard[a])

\* stripIPv4Header takes a segment from one of these ports for a packet with an
\* IP header.
LooksLikeIPv4(port) == port \div Byte \in {69, 70}

\* As AnswerIsSeen, for the other ports, and for every port where ReadFrom
\* leaves the header.
AnswerIsSeenElsewhere ==
  \A a \in Attempt :
    st[a] = "silent" /\ heard[a] => ~hdr /\ LooksLikeIPv4(syn[a].port)

\* An attempt ends although the socket delivers unrelated packets for ever: the
\* deadline is set once, for the whole loop.
AttemptEnds == \A a \in Attempt : st[a] = "waiting" ~> st[a] # "waiting"
=============================================================================
