----------------------------- MODULE SynProofs -----------------------------
(***************************************************************************)
(* What a half-open attempt reports, for any number of attempts, targets,  *)
(* ports and sequence numbers that share the host's TCP traffic.           *)
(***************************************************************************)
EXTENDS Syn, DataLemmas

\* A SYN or a connection of this host's.
IsSyn(s) == s.port \in Words /\ s.sport \in Words /\ s.seq \in Uint32

\* A segment that answers or resets one.
IsReply(p) == p.kind \in {"open", "closed", "reset"} /\ IsSyn(p.re) /\ p = Reply(p.re, p.kind)

Flags(kind) == IF kind = "open" THEN 18 ELSE IF kind = "closed" THEN 20 ELSE 4

\* What the attempt's loop looks at in a segment.
Fields(b, s, kind) ==
  /\ Len(b) = IF kind = "open" THEN 12 ELSE 10
  /\ b[1] = s.port /\ b[2] = s.sport
  /\ kind = "open" => b[5] = Successor(s.seq).hi /\ b[6] = Successor(s.seq).lo
  /\ b[7] = 5 * 16 * Byte + Flags(kind)

\* Sixteen-bit words and their successor.
LEMMA WordFacts ==
  /\ Word \in Nat /\ Word > 1
  /\ \A n \in Words : n \in Nat /\ n < Word
  /\ \A n \in Words : (n + 1) % Word = IF n = Word - 1 THEN 0 ELSE n + 1
BY DEF Word, Byte, Words

\* seq+1 is a sequence number.
LEMMA SuccessorType == ASSUME NEW n \in Uint32 PROVE Successor(n) \in Uint32
<1>1. n.hi \in Words /\ n.lo \in Words
  BY Zenon DEF Uint32
<1>2. (n.hi + 1) % Word \in Words /\ 0 \in Words /\ (n.lo < Word - 1 => n.lo + 1 \in Words)
  BY <1>1, WordFacts DEF Words
<1> QED BY <1>1, <1>2, Zenon DEF Successor, Uint32

\* seq+1 tells sequence numbers apart, the wrap included.
LEMMA SuccessorInjective ==
  ASSUME NEW m \in Uint32, NEW n \in Uint32, Successor(m) = Successor(n)
  PROVE  m = n
<1>1. m.hi \in Words /\ m.lo \in Words /\ n.hi \in Words /\ n.lo \in Words
  BY Zenon DEF Uint32
<1>2. Successor(m).lo = Successor(n).lo /\ Successor(m).hi = Successor(n).hi
  OBVIOUS
<1>3. m.lo = n.lo
  BY <1>1, <1>2, WordFacts DEF Successor
<1>4. m.hi = n.hi
  BY <1>1, <1>2, <1>3, WordFacts DEF Successor
<1> QED BY <1>3, <1>4 DEF Uint32

\* Ten words before a sequence.
LEMMA Prefixed ==
  ASSUME NEW h \in Seq(Int), NEW g \in Seq(Int), Len(h) = 10
  PROVE  /\ h \o g \in Seq(Int) /\ Len(h \o g) = 10 + Len(g)
         /\ \A i \in 1..10 : (h \o g)[i] = h[i]
         /\ \A i \in 1..Len(g) : (h \o g)[10 + i] = g[i]
<1> DEFINE c == h \o g
<1>1. /\ c \in Seq(Int) /\ Len(c) = Len(h) + Len(g)
      /\ \A i \in 1..Len(h) + Len(g) : c[i] = IF i <= Len(h) THEN h[i] ELSE g[i - Len(h)]
  BY ConcatProperties, Zenon
<1>2. Len(g) \in Nat
  OBVIOUS
<1> HIDE DEF c
<1>3. ASSUME NEW i \in 1..10 PROVE c[i] = h[i]
  <2>1. i \in 1..Len(h) + Len(g) /\ i <= Len(h)
    BY <1>2
  <2> QED BY <1>1, <2>1, Zenon
<1>4. ASSUME NEW i \in 1..Len(g) PROVE c[10 + i] = g[i]
  <2>1. 10 + i \in 1..Len(h) + Len(g) /\ ~(10 + i <= Len(h)) /\ (10 + i) - Len(h) = i
    BY <1>2
  <2> QED BY <1>1, <2>1, Zenon
<1>5. c \in Seq(Int) /\ Len(c) = 10 + Len(g)
  BY <1>1, Zenon
<1> QED BY <1>3, <1>4, <1>5, Zenon DEF c

\* What is left of a segment whose first words are taken for an IP header.
LEMMA Remainder ==
  ASSUME NEW g \in Seq(Int), Len(g) \in {10, 12}, NEW k \in 10..Len(g)
  PROVE  Len(SubSeq(g, k + 1, Len(g))) < 10
<1> DEFINE n == Len(g)
<1>1. n \in Int /\ \A i \in k + 1..n : g[i] \in Int
  OBVIOUS
<1>0. n \in {10, 12} /\ k \in 10..n
  OBVIOUS
<1> HIDE DEF n
<1>2. n <= 12 /\ k >= 10 /\ k <= n /\ k \in Int
  BY <1>0
<1>3. Len(SubSeq(g, k + 1, n)) = IF k + 1 <= n THEN n - (k + 1) + 1 ELSE 0
  BY <1>1, <1>2, SubSeqProperties
<1> QED BY <1>1, <1>2, <1>3 DEF n

\* Version 4 and a length that fits: 16#45 or 16#46.
LEMMA Nibbles ==
  ASSUME NEW f \in Nat, f < 256, f \div 16 = 4, (f % 16) * 2 \in 10..12
  PROVE  f \in {69, 70}
OBVIOUS

\* The words of a target's answer that the code looks at.
LEMMA ReplyFields ==
  ASSUME NEW s, IsSyn(s), NEW kind \in {"open", "closed", "reset"}
  PROVE  /\ Reply(s, kind).seg \in Seq(Int)
         /\ Fields(Reply(s, kind).seg, s, kind)
<1> DEFINE x == Successor(s.seq).hi
           y == Successor(s.seq).lo
           u == s.seq.hi
           w == s.seq.lo
<1>1. /\ s.port \in Int /\ s.sport \in Int /\ x \in Int /\ y \in Int
      /\ u \in Int /\ w \in Int
  <2>1. Successor(s.seq) \in Uint32 /\ s.port \in Words /\ s.sport \in Words
    BY SuccessorType, Zenon DEF IsSyn
  <2>2. x \in Words /\ y \in Words /\ u \in Words /\ w \in Words
    BY <2>1, Zenon DEF IsSyn, Uint32
  <2> QED BY <2>1, <2>2, WordFacts
<1>2. CASE kind = "open"
  <2> DEFINE f == 5 * 16 * Byte + 18
             h == <<s.port, s.sport, 0, 0, x, y, f, Word - 1, 0, 0>>
             o == <<516, 1460>>
  <2>1. Reply(s, kind).seg = h \o o
    BY <1>2 DEF Reply, SynAck, Header, Zero, flagSYN, flagACK
  <2>f. f \in Int
    BY DEF Byte
  <2> HIDE DEF x, y, f
  <2>2. h \in Seq(Int) /\ Len(h) = 10
    BY <1>1, <2>f, WordFacts
  <2>3. o \in Seq(Int) /\ Len(o) = 2
    OBVIOUS
  <2>4. h[1] = s.port /\ h[2] = s.sport /\ h[5] = x /\ h[6] = y /\ h[7] = f
    OBVIOUS
  <2> DEFINE b == h \o o
  <2> HIDE DEF h, o
  <2>5. b \in Seq(Int) /\ Len(b) = 12 /\ \A i \in 1..10 : b[i] = h[i]
    <3>1. b \in Seq(Int) /\ Len(b) = 10 + Len(o) /\ \A i \in 1..10 : b[i] = h[i]
      BY <2>2, <2>3, Prefixed, Zenon
    <3> HIDE DEF b
    <3> QED BY <2>3, <3>1
  <2> HIDE DEF b
  <2>6. b[1] = h[1] /\ b[2] = h[2] /\ b[5] = h[5] /\ b[6] = h[6] /\ b[7] = h[7]
    BY <2>5
  <2>7. Reply(s, kind).seg = b
    BY <2>1, Zenon DEF b
  <2> QED BY <1>2, <2>4, <2>5, <2>6, <2>7, Zenon DEF Fields, Flags, x, y, f
<1>3. CASE kind = "closed"
  <2> DEFINE f == 5 * 16 * Byte + 20
             h == <<s.port, s.sport, 0, 0, x, y, f, 0, 0, 0>>
  <2>1. Reply(s, kind).seg = h
    BY <1>3 DEF Reply, RstAck, Header, Zero, flagRST, flagACK
  <2>f. f \in Int
    BY DEF Byte
  <2> HIDE DEF x, y, f
  <2>2. h \in Seq(Int) /\ Len(h) = 10
    BY <1>1, <2>f, WordFacts
  <2>3. h[1] = s.port /\ h[2] = s.sport /\ h[5] = x /\ h[6] = y /\ h[7] = f
    OBVIOUS
  <2> HIDE DEF h
  <2> QED BY <1>3, <2>1, <2>2, <2>3, Zenon DEF Fields, Flags, f
<1>4. CASE kind = "reset"
  <2> DEFINE f == 5 * 16 * Byte + 4
             h == <<s.port, s.sport, u, w, 0, 0, f, 0, 0, 0>>
  <2>1. Reply(s, kind).seg = h
    BY <1>4 DEF Reply, Rst, Header, Zero, flagRST
  <2>f. f \in Int
    BY DEF Byte
  <2> HIDE DEF u, w, f
  <2>2. h \in Seq(Int) /\ Len(h) = 10
    BY <1>1, <2>f
  <2>3. h[1] = s.port /\ h[2] = s.sport /\ h[7] = f
    OBVIOUS
  <2> HIDE DEF h
  <2> QED BY <1>4, <2>1, <2>2, <2>3, Zenon DEF Fields, Flags, f
<1> QED BY <1>2, <1>3, <1>4, Zenon

\* The same of a segment under way.
LEMMA SegFields ==
  ASSUME NEW p, IsReply(p)
  PROVE  /\ p.seg \in Seq(Int) /\ Fields(p.seg, p.re, p.kind)
         /\ Len(p.seg) \in {10, 12} /\ p.seg[1] = p.re.port /\ p.re.port \in Words
<1>1. p.kind \in {"open", "closed", "reset"} /\ IsSyn(p.re) /\ p.seg = Reply(p.re, p.kind).seg
  BY Zenon DEF IsReply
<1>2. p.seg \in Seq(Int) /\ Fields(p.seg, p.re, p.kind)
  BY <1>1, ReplyFields, Zenon
<1> QED BY <1>1, <1>2, Zenon DEF Fields, IsSyn

\* stripIPv4Header leaves the segment, or too little to be one; it leaves the
\* segment when there was a header, and when the port does not look like one.
LEMMA Stripped ==
  ASSUME NEW p, IsReply(p), hdr \in BOOLEAN
  PROVE  /\ stripIPv4Header(Buffer(p)) = p.seg \/ Len(stripIPv4Header(Buffer(p))) < 10
         /\ hdr \/ ~LooksLikeIPv4(p.re.port) => stripIPv4Header(Buffer(p)) = p.seg
<1> DEFINE g == p.seg
           n == Len(g)
<1>1. g \in Seq(Int) /\ n \in {10, 12} /\ g[1] = p.re.port /\ p.re.port \in Words
  BY SegFields, Zenon
<1>2. CASE hdr
  <2> DEFINE c == IPHeader \o g
  <2>1. c \in Seq(Int) /\ Len(c) = 10 + n /\ c[1] = 69 * Byte
    <3>1. IPHeader \in Seq(Int) /\ Len(IPHeader) = 10
      BY DEF IPHeader, Byte
    <3>2. IPHeader[1] = 69 * Byte
      BY Zenon DEF IPHeader
    <3> HIDE DEF g
    <3> QED BY <1>1, <3>1, <3>2, Prefixed
  <2>2. \A i \in 1..n : c[10 + i] = g[i]
    <3>1. IPHeader \in Seq(Int) /\ Len(IPHeader) = 10
      BY DEF IPHeader, Byte
    <3> HIDE DEF g
    <3> QED BY <1>1, <3>1, Prefixed, Zenon
  <2>3. Buffer(p) = c
    BY <1>2, Zenon DEF Buffer
  <2> HIDE DEF c, g
  <2>4. SubSeq(c, 11, Len(c)) = g
    BY <1>1, <2>1, <2>2
  <2>5. stripIPv4Header(c) = SubSeq(c, 11, Len(c))
    <3>1. c[1] \div Byte = 69
      BY <2>1 DEF Byte
    <3>2. 69 \div 16 = 4 /\ (69 % 16) * 2 = 10
      OBVIOUS
    <3>3. Len(c) >= 10 /\ 10 \in 10..Len(c)
      BY <1>1, <2>1
    <3>4. (c[1] \div Byte) \div 16 = 4 /\ ((c[1] \div Byte) % 16) * 2 = 10
      BY <3>1, <3>2, Zenon
    <3> QED BY <3>3, <3>4, SMTT(30) DEF stripIPv4Header
  <2> QED BY <2>3, <2>4, <2>5, Zenon DEF g
<1>3. CASE ~hdr
  <2> DEFINE first == g[1] \div Byte
             ihl   == (first % 16) * 2
             skip  == first \div 16 = 4 /\ ihl \in 10..n
  <2>1. Buffer(p) = g
    BY <1>3, Zenon DEF Buffer
  <2>2. first \in Int /\ first >= 0 /\ first < 256 /\ n >= 10
    <3>1. g[1] \in Nat /\ g[1] < Byte * Byte
      BY <1>1, WordFacts, Zenon DEF Word
    <3> HIDE DEF g
    <3>2. n >= 10
      <4> HIDE DEF n
      <4> QED BY <1>1
    <3>3. first \in Int /\ first >= 0 /\ first < 256
      BY <3>1 DEF Byte
    <3> QED BY <3>2, <3>3, Zenon
  <2>3. stripIPv4Header(g) = IF skip THEN SubSeq(g, ihl + 1, n) ELSE g
    BY <2>2, Zenon DEF stripIPv4Header
  <2>4. CASE skip
    <3>1. first \in {69, 70}
      <4>1. first \div 16 = 4 /\ (first % 16) * 2 \in 10..12
        <5>1. first \div 16 = 4 /\ ihl \in 10..n
          BY <2>4, Zenon
        <5> HIDE DEF first, g, n
        <5> QED BY <1>1, <5>1
      <4> HIDE DEF first
      <4> QED BY <2>2, <4>1, Nibbles
    <3>2. LooksLikeIPv4(p.re.port)
      BY <1>1, <3>1, Zenon DEF LooksLikeIPv4
    <3>3. ihl \in 10..n
      BY <2>4, Zenon
    <3> HIDE DEF ihl, g
    <3>4. Len(SubSeq(g, ihl + 1, n)) < 10
      BY <1>1, <3>3, Remainder, Zenon
    <3> QED BY <1>3, <2>1, <2>3, <2>4, <3>2, <3>4, Zenon DEF g
  <2>5. CASE ~skip
    BY <2>1, <2>3, <2>5, Zenon
  <2> QED BY <2>4, <2>5, Zenon
<1> QED BY <1>2, <1>3, Zenon

\* What classifyReply makes of an answer: nothing, if the ports differ or a
\* SYN/ACK acknowledges another number; else open for a SYN/ACK, closed for a RST.
LEMMA Classified ==
  ASSUME NEW p, IsReply(p), NEW s, IsSyn(s)
  PROVE  classifyReply(parseTCPSegment(p.seg), s) =
           IF /\ p.re.port = s.port /\ p.re.sport = s.sport
              /\ p.kind = "open" => p.re.seq = s.seq
           THEN IF p.kind = "open" THEN "open" ELSE "closed"
           ELSE "ignored"
<1> DEFINE b == p.seg
           f == parseTCPSegment(b)
<1>1. Fields(b, p.re, p.kind) /\ IsSyn(p.re)
  BY SegFields, Zenon DEF IsReply
<1>2. /\ f.srcPort = p.re.port /\ f.dstPort = p.re.sport
      /\ p.kind = "open" => f.ack = Successor(p.re.seq)
      /\ f.flags = Flags(p.kind)
  <2>1. f.srcPort = b[1] /\ f.dstPort = b[2] /\ f.ack = [hi |-> b[5], lo |-> b[6]]
        /\ f.flags = b[7] % Byte
    BY Zenon DEF parseTCPSegment
  <2>2. p.kind = "open" => [hi |-> b[5], lo |-> b[6]] = Successor(p.re.seq)
    <3>1. Successor(p.re.seq) \in [hi : Words, lo : Words]
      BY <1>1, SuccessorType, Zenon DEF IsSyn, Uint32
    <3> QED BY <1>1, <3>1, Zenon DEF Fields
  <2>3. (5 * 16 * Byte + 18) % Byte = 18 /\ (5 * 16 * Byte + 20) % Byte = 20
        /\ (5 * 16 * Byte + 4) % Byte = 4
    BY DEF Byte
  <2> HIDE DEF f
  <2> QED BY <1>1, <2>1, <2>2, <2>3, Zenon DEF Fields, Flags
<1>3. (Successor(p.re.seq) = Successor(s.seq)) <=> (p.re.seq = s.seq)
  BY SuccessorInjective, Zenon DEF IsReply, IsSyn
<1>4. /\ Has(18, flagSYN) /\ Has(18, flagACK) /\ ~Has(18, flagRST)
      /\ ~Has(20, flagSYN) /\ Has(20, flagRST) /\ ~Has(4, flagSYN) /\ Has(4, flagRST)
  BY DEF Has, flagSYN, flagRST, flagACK
<1> HIDE DEF f
<1>5. p.kind \in {"open", "closed", "reset"}
  BY Zenon DEF IsReply
<1> QED BY <1>2, <1>3, <1>4, <1>5, Zenon DEF classifyReply, Flags, f

\* What one turn of the loop makes of an answer to a SYN.
LEMMA Verdicts ==
  ASSUME NEW a \in Attempt, IsSyn(syn[a]), hdr \in BOOLEAN, NEW p, IsReply(p)
  PROVE  /\ Verdict(a, p) \in {"open", "closed", "ignored"}
         /\ Verdict(a, p) # "ignored" =>
              /\ Verdict(a, p) = "open" <=> p.kind = "open"
              /\ p.re.dst = syn[a].dst /\ p.re.port = syn[a].port /\ p.re.sport = syn[a].sport
              /\ p.kind = "open" => p.re.seq = syn[a].seq
         /\ p.re = syn[a] /\ (hdr \/ ~LooksLikeIPv4(syn[a].port)) => Verdict(a, p) # "ignored"
<1> DEFINE b == stripIPv4Header(Buffer(p))
           c == classifyReply(parseTCPSegment(p.seg), syn[a])
<1>1. /\ b = p.seg \/ Len(b) < 10
      /\ hdr \/ ~LooksLikeIPv4(p.re.port) => b = p.seg
  BY Stripped, Zenon
<1>2. c = IF /\ p.re.port = syn[a].port /\ p.re.sport = syn[a].sport
             /\ p.kind = "open" => p.re.seq = syn[a].seq
          THEN IF p.kind = "open" THEN "open" ELSE "closed"
          ELSE "ignored"
  BY Classified, Zenon
<1>3. p.kind \in {"open", "closed", "reset"} /\ p.from = p.re.dst /\ ~(Len(p.seg) < 10)
  <2>1. Len(p.seg) \in {10, 12}
    BY SegFields, Zenon
  <2>2. p.from = Reply(p.re, p.kind).from
    BY Zenon DEF IsReply
  <2>3. Reply(p.re, p.kind).from = p.re.dst
    BY Zenon DEF Reply
  <2>4. ~(Len(p.seg) < 10)
    <3> DEFINE n == Len(p.seg)
    <3>1. n \in {10, 12}
      BY <2>1, Zenon
    <3> HIDE DEF n
    <3>2. ~(n < 10)
      BY <3>1
    <3> QED BY <3>2, Zenon DEF n
  <2> QED BY <2>2, <2>3, <2>4, Zenon DEF IsReply
<1>4. Verdict(a, p) = IF p.from # syn[a].dst \/ Len(b) < 10 THEN "ignored"
                      ELSE classifyReply(parseTCPSegment(b), syn[a])
  BY Zenon DEF Verdict
<1>5. Verdict(a, p) = IF p.from # syn[a].dst \/ b # p.seg THEN "ignored" ELSE c
  <2> HIDE DEF b
  <2> QED BY <1>1, <1>3, <1>4, Zenon
<1> HIDE DEF b, c
<1> QED BY <1>1, <1>2, <1>3, <1>5, Zenon

-----------------------------------------------------------------------------
Ended == {"open", "closed", "silent"}

\* Every segment on its way is one that could be taken for an answer; a socket holds such
\* segments; an attempt that has not ended has missed no answer, save the ones
\* stripIPv4Header misreads.
SynInv ==
  /\ hdr \in BOOLEAN
  /\ st \in [Attempt -> {"idle", "waiting", "error"} \cup Ended]
  /\ syn \in [Attempt -> Syns \cup {NoSyn}]
  /\ heard \in [Attempt -> BOOLEAN]
  /\ sock \in [Attempt -> Seq(air)]
  /\ \A a \in Attempt : st[a] = "waiting" \/ st[a] \in Ended <=> syn[a] # NoSyn
  /\ \A a \in Attempt : st[a] = "idle" => ~heard[a]
  /\ \A a \in Attempt :
       st[a] = "waiting" /\ heard[a] => ~hdr /\ LooksLikeIPv4(syn[a].port)
  /\ \A p \in air : IsReply(p)

OwnInv == SynInv /\ VerdictIsOwn /\ AnswerIsSeenElsewhere

\* The SYNs an attempt may send are well formed.
LEMMA SynsAreSyn == \A s \in Syns : IsSyn(s)
<1> TAKE s \in Syns
<1>1. s.port \in Port /\ s.sport \in SrcPort /\ s.seq \in Seq32
  BY Zenon DEF Syns
<1> QED BY <1>1, SynAssumption, Zenon DEF SynAssumption, IsSyn

\* Before any attempt there is no traffic.
LEMMA SynInitInv == Init => OwnInv
<1> SUFFICES ASSUME Init PROVE OwnInv
  OBVIOUS
<1>1. \A p \in air : IsReply(p)
  BY NoiseAssumption, Zenon DEF Init, NoiseAssumption, IsReply, IsSyn
<1>2. SynInv
  BY <1>1, SynAssumption DEF Init, SynInv, SynAssumption, Ended
<1>3. VerdictIsOwn /\ AnswerIsSeenElsewhere
  BY Zenon DEF Init, VerdictIsOwn, AnswerIsSeenElsewhere
<1> QED BY <1>2, <1>3, Zenon DEF OwnInv

\* An attempt that cannot open its socket or send has seen nothing.
LEMMA SetupFailsInv == ASSUME OwnInv, NEW a \in Attempt, SetupFails(a) PROVE OwnInv'
<1>1. /\ st[a] = "idle" /\ st' = [st EXCEPT ![a] = "error"]
      /\ UNCHANGED <<syn, hdr, air, sock, heard>>
  BY Zenon DEF SetupFails
<1>2. SynInv'
  BY <1>1 DEF OwnInv, SynInv, Ended, IsReply, LooksLikeIPv4
<1>3. VerdictIsOwn'
  BY <1>1, Zenon DEF OwnInv, SynInv, VerdictIsOwn
<1>4. AnswerIsSeenElsewhere'
  BY <1>1 DEF OwnInv, SynInv, AnswerIsSeenElsewhere, LooksLikeIPv4
<1> QED BY <1>2, <1>3, <1>4, Zenon DEF OwnInv

\* A fresh SYN: no answer to it is under way yet.
LEMMA SendSynInv == ASSUME OwnInv, NEW a \in Attempt, SendSyn(a) PROVE OwnInv'
<1>1. PICK s \in Syns : /\ st[a] = "idle" /\ st' = [st EXCEPT ![a] = "waiting"]
                        /\ syn' = [syn EXCEPT ![a] = s]
                        /\ UNCHANGED <<hdr, air, sock, heard>>
  BY Zenon DEF SendSyn
<1>2. s # NoSyn
  BY SynAssumption, Zenon DEF SynAssumption
<1>3. SynInv'
  BY <1>1, <1>2 DEF OwnInv, SynInv, Ended, IsReply, LooksLikeIPv4
<1>4. VerdictIsOwn'
  <2> SUFFICES ASSUME NEW c \in Attempt, st'[c] \in {"open", "closed"}
               PROVE  \E p \in air :
                        /\ p.kind = "open" <=> st'[c] = "open"
                        /\ p.re.dst = syn'[c].dst /\ p.re.port = syn'[c].port
                        /\ p.re.sport = syn'[c].sport
                        /\ st'[c] = "open" => p.re.seq = syn'[c].seq
    BY <1>1, Zenon DEF VerdictIsOwn
  <2>1. c # a /\ st'[c] = st[c] /\ syn'[c] = syn[c]
    BY <1>1 DEF OwnInv, SynInv
  <2> QED BY <2>1, Zenon DEF OwnInv, VerdictIsOwn
<1>5. AnswerIsSeenElsewhere'
  BY <1>1 DEF OwnInv, SynInv, AnswerIsSeenElsewhere, LooksLikeIPv4
<1> QED BY <1>3, <1>4, <1>5, Zenon DEF OwnInv

\* The target answers the SYN it got.
LEMMA AnswerInv == ASSUME OwnInv, NEW a \in Attempt, Answer(a) PROVE OwnInv'
<1>1. PICK kind \in {"open", "closed"} :
        /\ a \in Sent /\ air' = air \cup {Reply(syn[a], kind)}
        /\ UNCHANGED <<st, syn, hdr, sock, heard>>
  BY Zenon DEF Answer
<1>2. IsSyn(syn[a])
  BY <1>1, SynsAreSyn, Zenon DEF OwnInv, SynInv, Sent
<1>3. IsReply(Reply(syn[a], kind))
  BY <1>2, Zenon DEF IsReply, Reply
<1>4. sock' \in [Attempt -> Seq(air')]
  BY <1>1 DEF OwnInv, SynInv
<1>5. SynInv'
  BY <1>1, <1>3, <1>4, Zenon DEF OwnInv, SynInv
<1>6. VerdictIsOwn' /\ AnswerIsSeenElsewhere'
  BY <1>1 DEF OwnInv, VerdictIsOwn, AnswerIsSeenElsewhere, LooksLikeIPv4
<1> QED BY <1>5, <1>6, Zenon DEF OwnInv

\* The kernel copies a segment to an attempt's socket, early, late or again.
LEMMA DeliverInv == ASSUME OwnInv, NEW a \in Attempt, Deliver(a) PROVE OwnInv'
<1>1. PICK p \in air : /\ sock' = [sock EXCEPT ![a] = Append(@, p)]
                       /\ UNCHANGED <<st, syn, hdr, air, heard>>
  BY Zenon DEF Deliver
<1>2. SynInv'
  BY <1>1 DEF OwnInv, SynInv, LooksLikeIPv4
<1>3. VerdictIsOwn' /\ AnswerIsSeenElsewhere'
  BY <1>1, Zenon DEF OwnInv, VerdictIsOwn, AnswerIsSeenElsewhere, LooksLikeIPv4
<1> QED BY <1>2, <1>3, Zenon DEF OwnInv

\* A segment that is no answer to this SYN is skipped; one that is ends the
\* attempt with the target's verdict.
LEMMA ReadFromInv == ASSUME OwnInv, NEW a \in Attempt, ReadFrom(a) PROVE OwnInv'
<1> DEFINE p == Head(sock[a])
           v == Verdict(a, p)
<1>1. /\ st[a] = "waiting" /\ sock[a] # <<>>
      /\ heard' = [heard EXCEPT ![a] = @ \/ p.re = syn[a]]
      /\ UNCHANGED <<syn, hdr, air>>
  BY Zenon DEF ReadFrom
<1>2. \/ /\ v = "ignored" /\ st' = st
         /\ sock' = [sock EXCEPT ![a] = Tail(@)]
      \/ /\ v # "ignored" /\ st' = [st EXCEPT ![a] = v]
         /\ sock' = [sock EXCEPT ![a] = <<>>]
  BY Zenon DEF ReadFrom
<1>3. p \in air /\ IsReply(p)
  BY <1>1 DEF OwnInv, SynInv
<1>4. IsSyn(syn[a])
  BY <1>1, SynsAreSyn, Zenon DEF OwnInv, SynInv
<1>5. /\ v \in {"open", "closed", "ignored"}
      /\ v # "ignored" =>
           /\ v = "open" <=> p.kind = "open"
           /\ p.re.dst = syn[a].dst /\ p.re.port = syn[a].port /\ p.re.sport = syn[a].sport
           /\ p.kind = "open" => p.re.seq = syn[a].seq
      /\ p.re = syn[a] /\ (hdr \/ ~LooksLikeIPv4(syn[a].port)) => v # "ignored"
  BY <1>3, <1>4, Verdicts, Zenon DEF OwnInv, SynInv
<1> HIDE DEF v
<1>6. sock' \in [Attempt -> Seq(air')]
  <2>1. Tail(sock[a]) \in Seq(air) /\ <<>> \in Seq(air)
    BY <1>1 DEF OwnInv, SynInv
  <2>2. sock \in [Attempt -> Seq(air)] /\ air' = air
    BY <1>1, Zenon DEF OwnInv, SynInv
  <2> QED BY <1>2, <2>1, <2>2, Zenon
<1> HIDE DEF p
<1>7. heard' \in [Attempt -> BOOLEAN]
  BY <1>1, Zenon DEF OwnInv, SynInv
<1>8. SynInv'
  <2>1. \A c \in Attempt : st'[c] = "waiting" /\ heard'[c] => ~hdr /\ LooksLikeIPv4(syn[c].port)
    BY <1>1, <1>2, <1>5, Zenon DEF OwnInv, SynInv, Ended
  <2>2. st' \in [Attempt -> {"idle", "waiting", "error"} \cup Ended]
    BY <1>2, <1>5, Zenon DEF OwnInv, SynInv, Ended
  <2>3. \A c \in Attempt : /\ st'[c] = "waiting" \/ st'[c] \in Ended <=> syn[c] # NoSyn
                           /\ st'[c] = "idle" => ~heard'[c]
    BY <1>1, <1>2, <1>5, Zenon DEF OwnInv, SynInv, Ended
  <2> QED BY <1>1, <1>6, <1>7, <2>1, <2>2, <2>3, Zenon DEF OwnInv, SynInv, LooksLikeIPv4
<1>9. VerdictIsOwn'
  <2> SUFFICES ASSUME NEW c \in Attempt, st'[c] \in {"open", "closed"}
               PROVE  \E q \in air :
                        /\ q.kind = "open" <=> st'[c] = "open"
                        /\ q.re.dst = syn[c].dst /\ q.re.port = syn[c].port
                        /\ q.re.sport = syn[c].sport
                        /\ st'[c] = "open" => q.re.seq = syn[c].seq
    BY <1>1, Zenon DEF VerdictIsOwn
  <2>1. CASE st'[c] = st[c]
    BY <2>1, Zenon DEF OwnInv, VerdictIsOwn
  <2>2. CASE st'[c] # st[c]
    <3>1. c = a /\ v # "ignored" /\ st'[c] = v
      BY <1>2, <2>2, Zenon DEF OwnInv, SynInv
    <3> QED BY <1>3, <1>5, <3>1, Zenon
  <2> QED BY <2>1, <2>2, Zenon
<1>10. AnswerIsSeenElsewhere'
  BY <1>1, <1>2, <1>5 DEF OwnInv, SynInv, AnswerIsSeenElsewhere, LooksLikeIPv4
<1> QED BY <1>8, <1>9, <1>10, Zenon DEF OwnInv

\* The deadline passes.
LEMMA DeadlineInv == ASSUME OwnInv, NEW a \in Attempt, Deadline(a) PROVE OwnInv'
<1>1. /\ st[a] = "waiting" /\ st' = [st EXCEPT ![a] = "silent"]
      /\ sock' = [sock EXCEPT ![a] = <<>>]
      /\ UNCHANGED <<syn, hdr, air, heard>>
  BY Zenon DEF Deadline
<1>2. sock' \in [Attempt -> Seq(air')]
  BY <1>1 DEF OwnInv, SynInv
<1>3. SynInv'
  BY <1>1, <1>2 DEF OwnInv, SynInv, Ended, LooksLikeIPv4
<1>4. VerdictIsOwn' /\ AnswerIsSeenElsewhere'
  BY <1>1 DEF OwnInv, SynInv, VerdictIsOwn, AnswerIsSeenElsewhere, LooksLikeIPv4
<1> QED BY <1>3, <1>4, Zenon DEF OwnInv

\* One step per action.
LEMMA SynNextInv == OwnInv /\ [Next]_vars => OwnInv'
<1>1. OwnInv /\ UNCHANGED vars => OwnInv'
  BY DEF OwnInv, SynInv, VerdictIsOwn, AnswerIsSeenElsewhere, LooksLikeIPv4, vars
<1> QED BY <1>1, SetupFailsInv, SendSynInv, AnswerInv, DeliverInv, ReadFromInv, DeadlineInv, Zenon
        DEF Next

\* An open port acknowledged this attempt's SYN, and for a closed one the target
\* sent a RST from that port to this source port, for any traffic that shares the
\* host (classifyReply, the loop of synAttempt).
THEOREM VerdictsAreOwn == Spec => []VerdictIsOwn
<1>1. OwnInv => VerdictIsOwn
  BY Zenon DEF OwnInv
<1> QED BY <1>1, SynInitInv, SynNextInv, PTL DEF Spec

\* An attempt that ReadFrom handed its answer does not end unreachable, but for
\* the 512 ports whose segments stripIPv4Header takes for IP packets.
THEOREM AnswersAreSeen == Spec => []AnswerIsSeenElsewhere
<1>1. OwnInv => AnswerIsSeenElsewhere
  BY Zenon DEF OwnInv
<1> QED BY <1>1, SynInitInv, SynNextInv, PTL DEF Spec

-----------------------------------------------------------------------------
(* The checksum *)

\* Division by the width of a word, and remainders of sums of multiples.
LEMMA Divided ==
  ASSUME NEW W \in Nat, W > 1, NEW n \in Nat
  PROVE  /\ n \div W \in Nat /\ n % W \in Nat /\ n % W < W
         /\ n = W * (n \div W) + (n % W)
<1>1. n \div W \in Int /\ n \div W >= 0
  OBVIOUS
<1>2. n % W \in Nat /\ n % W < W
  OBVIOUS
<1>3. n = W * (n \div W) + (n % W)
  OBVIOUS
<1> QED BY <1>1, <1>2, <1>3

\* A multiple of the modulus does not change a remainder.
LEMMA Residue ==
  ASSUME NEW M \in Nat, M > 0, NEW k \in Nat, NEW x \in Nat
  PROVE  (M * k + x) % M = x % M
<1>0. PICK m \in Nat : m = M * k
  OBVIOUS
<1> DEFINE n == m + x
<1>1. n \in Nat
  OBVIOUS
<1>2. PICK p \in Int : p = n \div M
  BY <1>1
<1>3. PICK q \in Int : q = x \div M
  OBVIOUS
<1>4. PICK r \in Nat : r = n % M /\ r < M
  BY <1>1
<1>5. PICK s \in Nat : s = x % M /\ s < M
  OBVIOUS
<1>6. n = M * p + r
  BY <1>1, <1>2, <1>4
<1>7. x = M * q + s
  BY <1>3, <1>5
<1>8. PICK d \in Int : d = p - k - q
  OBVIOUS
<1>9. M * d = M * p - M * k - M * q
  BY <1>8
<1>10. M * d = s - r
  BY <1>0, <1>6, <1>7, <1>9
<1>11. d = 0
  <2>1. d >= 1 => M * d >= M
    OBVIOUS
  <2>2. d <= -1 => M * d <= -M
    OBVIOUS
  <2> QED BY <1>4, <1>5, <1>10, <2>1, <2>2
<1>12. s = r
  BY <1>10, <1>11
<1> QED BY <1>0, <1>4, <1>5, <1>12, Zenon

\* A number below the modulus is its remainder.
LEMMA Small0 ==
  ASSUME NEW M \in Nat, M > 0, NEW x \in Nat, x < M
  PROVE  x % M = x
OBVIOUS

\* One turn of the loop that adds the carry: the number gets smaller and keeps
\* its remainder.
LEMMA CarryTurn ==
  ASSUME NEW n \in Nat
  PROVE  LET q == n \div Word
             r == n % Word
         IN  /\ q \in Nat /\ r \in Nat /\ r + q \in Nat
             /\ q = 0 => n < Word
             /\ q # 0 => r + q < n /\ r + q > 0
             /\ n = (Word - 1) * q + (r + q)
<1> DEFINE q == n \div Word
           r == n % Word
<1>1. q \in Nat /\ r \in Nat /\ r < Word /\ n = Word * q + r
  BY Divided, WordFacts, Zenon
<1>2. Word \in Nat /\ Word > 1
  BY WordFacts, Zenon
<1>3. PICK W \in Nat : W = Word
  BY <1>2, Zenon
<1> HIDE DEF q, r
<1>4. q = 0 => n < W
  BY <1>1, <1>3
<1>5. q # 0 => r + q < W * q + r /\ r + q > 0
  BY <1>1, <1>2, <1>3
<1>6. W * q + r = (W - 1) * q + (r + q)
  BY <1>1, <1>2, <1>3
<1> QED BY <1>1, <1>3, <1>4, <1>5, <1>6 DEF q, r

\* The loop as an equation, and what solves it.
CarryAt(f, n) == IF n \div Word = 0 THEN n ELSE f[(n % Word) + (n \div Word)]
Carries(f) == f = [n \in Nat |-> CarryAt(f, n)]

\* The loop comes to an end for every sum: its result is the remainder of the sum
\* by Word - 1, taken from 1..Word - 1 unless the sum is 0.
LEMMA CarryExists == \E f : Carries(f)
<1> DEFINE M == Word - 1
           F == [n \in Nat |-> IF n = 0 THEN 0 ELSE 1 + ((n - 1) % M)]
<1>0. M \in Nat /\ M > 0 /\ Word = M + 1
  BY WordFacts
<1> HIDE DEF M
<1>1. ASSUME NEW n \in Nat PROVE F[n] = CarryAt(F, n)
  <2>1. PICK q : q = n \div Word
    BY Zenon
  <2>2. PICK r : r = n % Word
    BY Zenon
  <2>3. /\ q \in Nat /\ r \in Nat /\ r + q \in Nat
        /\ q = 0 => n < Word
        /\ q # 0 => r + q < n /\ r + q > 0
        /\ n = M * q + (r + q)
    BY CarryTurn, <2>1, <2>2, Zenon DEF M
  <2>4. CASE q = 0
    <3>1. n < M + 1
      BY <1>0, <2>3, <2>4, Zenon
    <3>2. n # 0 => (n - 1) % M = n - 1
      BY <1>0, <3>1, Small0
    <3> QED BY <2>1, <2>4, <3>2 DEF CarryAt
  <2>5. CASE q # 0
    <3>1. r + q > 0 /\ n # 0
      BY <2>3, <2>5
    <3>2. PICK x \in Nat : x = (r + q) - 1
      BY <2>3, <3>1
    <3>3. PICK m : m = M * q
      BY Zenon
    <3>4. m \in Nat
      BY <1>0, <2>3, <3>3
    <3>5. n - 1 = m + x
      BY <2>3, <3>2, <3>3, <3>4
    <3>6. (n - 1) % M = x % M
      <4>1. (M * q + x) % M = x % M
        BY <1>0, <2>3, Residue, ZenonT(30)
      <4> QED BY <3>3, <3>5, <4>1, Zenon
    <3>7. F[n] = 1 + (x % M) /\ F[r + q] = 1 + (x % M)
      BY <2>3, <3>1, <3>2, <3>6
    <3> HIDE DEF F
    <3> QED BY <2>1, <2>2, <2>5, <3>7, Zenon DEF CarryAt
  <2> QED BY <2>4, <2>5, Zenon
<1>2. F = [n \in Nat |-> F[n]]
  OBVIOUS
<1> HIDE DEF F
<1>3. Carries(F)
  BY <1>1, <1>2, Zenon DEF Carries
<1> QED BY <1>3, Zenon

\* foldCarry leaves a word that differs from the number by a multiple of the
\* largest word: the ones' complement sum.
LEMMA CarryFolds ==
  ASSUME NEW n \in Nat
  PROVE  /\ FoldCarry(n) \in Nat /\ FoldCarry(n) < Word
         /\ \E k \in Nat : n = (Word - 1) * k + FoldCarry(n)
<1>1. Carries(CarryLoop)
  <2> DEFINE C == CHOOSE f : Carries(f)
  <2>1. CarryLoop = C
    BY Zenon DEF CarryLoop, Carries, CarryAt
  <2>2. Carries(C)
    BY CarryExists, Zenon
  <2> QED BY <2>1, <2>2, Zenon
<1>2. \A m \in Nat : CarryLoop[m] = CarryAt(CarryLoop, m)
  BY <1>1, Zenon DEF Carries
<1> DEFINE Good(m) == /\ CarryLoop[m] \in Nat /\ CarryLoop[m] < Word
                      /\ \E k \in Nat : m = (Word - 1) * k + CarryLoop[m]
           I == {m \in Nat : \A i \in 0..m : Good(i)}
<1>3. ASSUME NEW m \in Nat, \A i \in Nat : i < m => Good(i)
      PROVE  Good(m)
  <2>1. PICK q : q = m \div Word
    BY Zenon
  <2>2. PICK r : r = m % Word
    BY Zenon
  <2>3. /\ q \in Nat /\ r \in Nat /\ r + q \in Nat
        /\ q = 0 => m < Word
        /\ q # 0 => r + q < m /\ r + q > 0
        /\ m = (Word - 1) * q + (r + q)
    BY CarryTurn, <2>1, <2>2, Zenon
  <2>4. CASE q = 0
    <3>1. CarryLoop[m] = m /\ m < Word
      BY <1>2, <2>1, <2>3, <2>4, Zenon DEF CarryAt
    <3>2. m = (Word - 1) * 0 + m
      BY WordFacts
    <3> QED BY <3>1, <3>2, Zenon
  <2>5. CASE q # 0
    <3>1. CarryLoop[m] = CarryLoop[r + q]
      BY <1>2, <2>1, <2>2, <2>5, Zenon DEF CarryAt
    <3>2. Good(r + q)
      BY <1>3, <2>3, <2>5, Zenon
    <3>3. PICK c \in Nat : c = CarryLoop[r + q] /\ c < Word
      BY <3>2, Zenon
    <3>4. PICK k \in Nat : r + q = (Word - 1) * k + c
      BY <3>2, <3>3, Zenon
    <3>5. PICK M \in Nat : M = Word - 1
      BY WordFacts
    <3>6. M * q + (M * k + c) = M * (q + k) + c
      BY <2>3
    <3>7. m = M * (q + k) + c /\ q + k \in Nat
      BY <2>3, <3>4, <3>5, <3>6
    <3> QED BY <3>1, <3>3, <3>5, <3>7, Zenon
  <2> QED BY <2>4, <2>5, Zenon
<1> HIDE DEF Good
<1>4. 0 \in I
  BY <1>3
<1>5. ASSUME NEW m \in Nat, m \in I PROVE m + 1 \in I
  <2>1. Good(m + 1)
    BY <1>3, <1>5
  <2> QED BY <1>5, <2>1
<1>6. Nat \subseteq I
  <2> HIDE DEF I
  <2> QED BY <1>4, <1>5, Induction, Zenon
<1>7. Good(n)
  BY <1>6
<1> QED BY <1>7, Zenon DEF Good, FoldCarry

\* Filling in one word of a segment.
LEMMA Filled ==
  ASSUME NEW g \in Seq(Nat), NEW k \in 1..Len(g), NEW c \in Nat,
         NEW b, b = [g EXCEPT ![k] = c]
  PROVE  /\ b \in Seq(Nat) /\ Len(b) = Len(g) /\ b[k] = c
         /\ \A i \in 1..Len(g) : i # k => b[i] = g[i]
OBVIOUS

\* The word that completes a sum to a multiple of M.
LEMMA Completed ==
  ASSUME NEW M \in Nat, M > 0, NEW f \in Nat, f <= M, NEW k \in Nat
  PROVE  ((M * k + f) + (M - f)) % M = 0
<1>1. PICK j \in Nat : j = k + 1
  OBVIOUS
<1>2. (M * k + f) + (M - f) = M * j + 0
  BY <1>1
<1>3. (M * j + 0) % M = 0 % M
  BY Residue, Zenon
<1>4. 0 % M = 0
  BY Small0, Zenon
<1> QED BY <1>2, <1>3, <1>4, Zenon

\* The checksum is taken over a pseudo header h and the segment g; filling in a
\* word that was zero adds it to the sum.
LEMMA SummedWords ==
  ASSUME NEW h \in Seq(Nat), NEW g \in Seq(Nat), NEW k \in 1..Len(g), g[k] = 0, NEW c \in Nat
  PROVE  /\ AddWords(h \o g) \in Nat
         /\ AddWords(h \o [g EXCEPT ![k] = c]) = AddWords(h \o g) + c
<1> DEFINE b == [g EXCEPT ![k] = c]
           ws == h \o g
           vs == h \o b
<1>1. /\ b \in Seq(Nat) /\ Len(b) = Len(g) /\ b[k] = c
      /\ \A i \in 1..Len(g) : i # k => b[i] = g[i]
  <2>1. b = [g EXCEPT ![k] = c]
    OBVIOUS
  <2> HIDE DEF b
  <2> QED BY <2>1, Filled
<1> HIDE DEF b
<1>2. PICK p \in Nat : p = Len(h)
  OBVIOUS
<1>3. PICK q \in Nat : q = Len(g)
  OBVIOUS
<1>4. /\ ws \in Seq(Nat) /\ Len(ws) = p + q
      /\ \A i \in 1..(p + q) : ws[i] = IF i <= p THEN h[i] ELSE g[i - p]
  BY <1>2, <1>3, ConcatProperties, ZenonT(30)
<1>5. /\ Len(vs) = p + q
      /\ \A i \in 1..(p + q) : vs[i] = IF i <= p THEN h[i] ELSE b[i - p]
  <2>1. /\ Len(vs) = Len(h) + Len(b)
        /\ \A i \in 1..Len(h) + Len(b) : vs[i] = IF i <= Len(h) THEN h[i] ELSE b[i - Len(h)]
    <3>1. b \in Seq(Nat)
      BY <1>1, Zenon
    <3> QED BY <3>1, ConcatProperties, Zenon
  <2>2. Len(b) = q
    BY <1>1, <1>3, Zenon
  <2> QED BY <1>2, <2>1, <2>2, Zenon
<1>6. \A i \in 1..(p + q) : ws[i] \in Nat
  BY <1>4, ElementOfSeq, Zenon
<1> HIDE DEF ws, vs
<1>7. PICK n \in Nat : n = p + q
  OBVIOUS
<1>8. PICK j \in 1..n : j = p + k /\ ~(j <= p) /\ j - p = k
  <2>1. k \in 1..q
    BY <1>3, Zenon
  <2>2. p + k \in 1..n /\ ~(p + k <= p) /\ (p + k) - p = k
    BY <1>7, <2>1
  <2> QED BY <2>2, Zenon
<1>9. ws[j] = 0 /\ vs[j] = c
  BY <1>1, <1>4, <1>5, <1>7, <1>8, Zenon
<1>10. ASSUME NEW i \in (1..n) \ {j} PROVE vs[i] = ws[i]
  <2>1. CASE i <= p
    BY <1>4, <1>5, <1>7, <2>1, Zenon
  <2>2. CASE ~(i <= p)
    <3>1. PICK l \in 1..q : l = i - p /\ l # k
      BY <1>7, <1>8, <2>2
    <3>2. b[l] = g[l]
      BY <1>1, <1>3, <3>1, Zenon
    <3>3. vs[i] = b[l] /\ ws[i] = g[l]
      BY <1>4, <1>5, <1>7, <2>2, <3>1, ZenonT(30)
    <3> QED BY <3>2, <3>3, Zenon
  <2> QED BY <2>1, <2>2, Zenon
<1>11. /\ SumFunctionOnSet(ws, 1..n) \in Nat
       /\ SumFunctionOnSet(vs, 1..n) = SumFunctionOnSet(ws, 1..n) + c
  <2>1. \A i \in 1..n : ws[i] \in Nat
    BY <1>6, <1>7, Zenon
  <2>2. \A i \in (1..n) \ {j} : vs[i] = ws[i]
    BY <1>10, Zenon
  <2>3. PICK S : S = 1..n
    BY Zenon
  <2>4. IsFiniteSet(S)
    <3>1. IsFiniteSet(1..n)
      BY FS_Interval
    <3> QED BY <2>3, <3>1, Zenon
  <2>5. /\ j \in S /\ \A i \in S : ws[i] \in Nat
        /\ ws[j] = 0 /\ vs[j] = c /\ vs[j] \in Nat
        /\ \A i \in S \ {j} : vs[i] = ws[i]
    BY <1>9, <2>1, <2>2, <2>3, Zenon
  <2>6. PICK m \in Nat : m = SumFunctionOnSet(ws, S)
    <3>1. SumFunctionOnSet(ws, S) \in Nat
      BY <2>4, <2>5, SumNat, Zenon
    <3> QED BY <3>1, Zenon
  <2>7. SumFunctionOnSet(vs, S) = SumFunctionOnSet(ws, S) + (vs[j] - ws[j])
    <3>1. \A i \in S : ws[i] \in Int
      BY <2>5
    <3>2. vs[j] \in Int
      BY <2>5
    <3>3. \A i \in S \ {j} : vs[i] = ws[i]
      BY <2>5, Zenon
    <3>4. j \in S
      BY <2>5, Zenon
    <3> QED BY <2>4, <3>1, <3>2, <3>3, <3>4, SumChange, ZenonT(30)
  <2>8. SumFunctionOnSet(vs, S) = m + (c - 0)
    BY <2>5, <2>6, <2>7, Zenon
  <2>9. m + (c - 0) = m + c
    OBVIOUS
  <2> QED BY <2>3, <2>6, <2>8, <2>9, Zenon
<1> QED BY <1>4, <1>5, <1>7, <1>11, Zenon DEF AddWords, ws, vs, b

\* A checksum put where the segment had a zero makes its receiver's sum a
\* multiple of the largest word.
LEMMA ChecksumVerifies ==
  ASSUME NEW src \in Seq(Words), NEW dst \in Seq(Words),
         NEW g \in Seq(Nat), 9 \in 1..Len(g), g[9] = 0
  PROVE  Verifies(src, dst, [g EXCEPT ![9] = tcpChecksum(src, dst, g)])
<1> DEFINE c == tcpChecksum(src, dst, g)
           b == [g EXCEPT ![9] = c]
           h == Pseudo(src, dst, g)
           m == AddWords(h \o g)
<1>1. h \in Seq(Nat)
  <2>1. src \in Seq(Nat) /\ dst \in Seq(Nat)
    BY WordFacts
  <2>2. src \o dst \in Seq(Nat)
    BY <2>1, ConcatProperties, Zenon
  <2>3. <<6, 2 * Len(g)>> \in Seq(Nat)
    OBVIOUS
  <2> QED BY <2>2, <2>3, ConcatProperties, Zenon DEF Pseudo
<1>2. c = (Word - 1) - FoldCarry(m)
  BY Zenon DEF tcpChecksum
<1>3. 0 \in Nat
  OBVIOUS
<1> HIDE DEF h, c, b
<1>4. m \in Nat
  BY <1>1, <1>3, SummedWords, Zenon
<1> HIDE DEF m
<1>5. PICK f \in Nat : f = FoldCarry(m) /\ f < Word /\ \E k \in Nat : m = (Word - 1) * k + f
  BY <1>4, CarryFolds, Zenon
<1>6. PICK M \in Nat : M = Word - 1 /\ M > 0 /\ f <= M
  <2>1. Word - 1 \in Nat /\ Word - 1 > 0 /\ f <= Word - 1
    BY <1>5, WordFacts
  <2> QED BY <2>1, Zenon
<1>7. PICK k \in Nat : m = M * k + f
  BY <1>5, <1>6, Zenon
<1>8. c = M - f
  BY <1>2, <1>5, <1>6, Zenon
<1>9. c \in Nat
  BY <1>6, <1>8
<1>10. AddWords(h \o b) = m + c
  BY <1>1, <1>9, SummedWords, Zenon DEF b, m
<1>11. Len(b) = Len(g)
  <2>1. b = [g EXCEPT ![9] = c]
    BY Zenon DEF b
  <2> QED BY <1>9, <2>1, Filled
<1>12. (m + c) % M = 0
  <2>1. ((M * k + f) + (M - f)) % M = 0
    BY <1>6, Completed, Zenon
  <2> QED BY <1>7, <1>8, <2>1, Zenon
<1> QED BY <1>6, <1>10, <1>11, <1>12, Zenon DEF Verifies, Pseudo, h, b, c

\* buildSYN's segment, and what parseTCPSegment reads in it.
LEMMA SynSegment ==
  ASSUME NEW s \in Syns, IsIPv4(s.src), IsIPv4(s.dst)
  PROVE  /\ Verifies(s.src, s.dst, buildSYN(s))
         /\ parseTCPSegment(buildSYN(s)) =
              [srcPort |-> s.sport, dstPort |-> s.port, seq |-> s.seq, ack |-> Zero,
               flags |-> flagSYN]
<1> DEFINE h == Header(s.sport, s.port, s.seq, Zero, flagSYN, Word - 1)
           c == tcpChecksum(s.src, s.dst, h)
           f == 5 * 16 * Byte + 2
<1>1. /\ s.src \in Seq(Words) /\ s.dst \in Seq(Words)
      /\ s.port \in Nat /\ s.sport \in Nat /\ s.seq.hi \in Nat /\ s.seq.lo \in Nat
      /\ s.seq = [hi |-> s.seq.hi, lo |-> s.seq.lo]
  <2>1. IsSyn(s) /\ s.src \in Local /\ s.dst \in Addr
    BY SynsAreSyn, Zenon DEF Syns
  <2>2. s.src \in Seq(Words) /\ s.dst \in Seq(Words)
    BY <2>1, SynAssumption, Zenon DEF SynAssumption
  <2>3. s.seq.hi \in Words /\ s.seq.lo \in Words /\ s.seq = [hi |-> s.seq.hi, lo |-> s.seq.lo]
    BY <2>1, Zenon DEF IsSyn, Uint32
  <2> QED BY <2>1, <2>2, <2>3, WordFacts, Zenon DEF IsSyn
<1>2. f \in Nat /\ f % Byte = 2
  BY DEF Byte
<1>3. Word - 1 \in Nat
  BY WordFacts
<1>4. h = <<s.sport, s.port, s.seq.hi, s.seq.lo, 0, 0, f, Word - 1, 0, 0>>
  BY Zenon DEF Header, Zero, flagSYN
<1>5. buildSYN(s) = [h EXCEPT ![9] = c]
  BY Zenon DEF buildSYN
<1> HIDE DEF f, h, c
<1>6. h \in Seq(Nat) /\ Len(h) = 10
  BY <1>1, <1>2, <1>3, <1>4
<1>7. /\ h[1] = s.sport /\ h[2] = s.port /\ h[3] = s.seq.hi /\ h[4] = s.seq.lo
      /\ h[5] = 0 /\ h[6] = 0 /\ h[7] = f /\ h[9] = 0
  BY <1>4, Zenon
<1>8. Verifies(s.src, s.dst, [h EXCEPT ![9] = c])
  <2>1. 9 \in 1..Len(h)
    BY <1>6
  <2> QED BY <1>1, <1>6, <1>7, <2>1, ChecksumVerifies, Zenon DEF c
<1> DEFINE b == [h EXCEPT ![9] = c]
<1>9. \A i \in 1..10 : i # 9 => b[i] = h[i]
  BY <1>6
<1> HIDE DEF b
<1>10. /\ b[1] = s.sport /\ b[2] = s.port /\ b[3] = s.seq.hi /\ b[4] = s.seq.lo
       /\ b[5] = 0 /\ b[6] = 0 /\ b[7] = f
  BY <1>7, <1>9
<1>11. parseTCPSegment(b) =
         [srcPort |-> s.sport, dstPort |-> s.port, seq |-> s.seq, ack |-> Zero, flags |-> flagSYN]
  BY <1>1, <1>2, <1>10, ZenonT(30) DEF parseTCPSegment, Zero, flagSYN
<1> QED BY <1>5, <1>8, <1>11, Zenon DEF b

\* synAttempt sends to and from IPv4 addresses only.
SentInv ==
  /\ syn \in [Attempt -> Syns \cup {NoSyn}]
  /\ \A a \in Sent : IsIPv4(syn[a].src) /\ IsIPv4(syn[a].dst)

\* No SYN is sent at the start.
LEMMA SentInitInv == Init => SentInv
BY Zenon DEF Init, SentInv, Sent

\* Every SYN that is sent is one of Syns, between IPv4 addresses.
LEMMA SentNextInv == SentInv /\ [Next]_vars => SentInv'
<1> SUFFICES ASSUME SentInv, [Next]_vars PROVE SentInv'
  OBVIOUS
<1>1. CASE UNCHANGED syn
  BY <1>1, Zenon DEF SentInv, Sent
<1>2. ASSUME NEW a \in Attempt, SendSyn(a) PROVE SentInv'
  <2>1. PICK s \in Syns : /\ IsIPv4(s.dst) /\ IsIPv4(s.src)
                          /\ syn' = [syn EXCEPT ![a] = s]
    BY <1>2, ZenonT(30) DEF SendSyn
  <2> QED BY <2>1, Zenon DEF SentInv, Sent
<1> QED BY <1>1, <1>2, Zenon DEF Next, vars, SetupFails, ReadFrom, Deadline, Answer, Deliver

\* Every SYN an attempt sends verifies at its receiver and parses back to what
\* buildSYN was given, for all addresses, ports and sequence numbers: the loop
\* of foldCarry ends in the ones' complement sum.
THEOREM SynsVerify == Spec => []SegmentsVerify
<1>1. SentInv => SegmentsVerify
  <2> SUFFICES ASSUME SentInv, NEW a \in Sent
               PROVE  /\ Verifies(syn[a].src, syn[a].dst, buildSYN(syn[a]))
                      /\ parseTCPSegment(buildSYN(syn[a])) =
                           [srcPort |-> syn[a].sport, dstPort |-> syn[a].port,
                            seq |-> syn[a].seq, ack |-> Zero, flags |-> flagSYN]
    BY Zenon DEF SegmentsVerify
  <2>1. syn[a] \in Syns /\ IsIPv4(syn[a].src) /\ IsIPv4(syn[a].dst)
    BY Zenon DEF SentInv, Sent
  <2> QED BY <2>1, SynSegment, Zenon
<1> QED BY <1>1, SentInitInv, SentNextInv, PTL DEF Spec
=============================================================================
