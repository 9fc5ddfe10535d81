--------------------------- MODULE ProbeRunProofs ---------------------------
(***************************************************************************)
(* Proofs about ProbeRun, for every list of targets, all answers of the    *)
(* resolver, any cap, count, packet interval and timeout.  The invariant   *)
(* RunInv says of each work item how late it may be, what its counters are *)
(* and what it has reported, and of the items how they cover the entries.  *)
(***************************************************************************)
EXTENDS ProbeRun, DataLemmas

\* g is the recursion of UniqueCapped over the first n of addrs.
SeenAt(g, addrs, i) == IF i = 0 THEN <<>> ELSE AddUnique(g[i - 1], addrs[i])
Accumulates(g, addrs, n) == g = [i \in 0..n |-> SeenAt(g, addrs, i)]

Capped(s) == MaxResolvedIPs > 0 /\ Len(s) >= MaxResolvedIPs

\* What the addresses seen so far have to do with the first n of addrs.
SeenInv(s, addrs, n) ==
  /\ s \in Seq(Address)
  /\ \A i, k \in 1..Len(s) : s[i] = s[k] => i = k
  /\ \A i \in 1..Len(s) : \E k \in 1..n : s[i] = addrs[k]
  /\ MaxResolvedIPs > 0 => Len(s) <= MaxResolvedIPs
  /\ Capped(s) \/ \A k \in 1..n : \E i \in 1..Len(s) : s[i] = addrs[k]
  /\ n > 0 => s # <<>>

\* One more address: it is seen already, over the cap, or added.
LEMMA SeenStep ==
  ASSUME NEW addrs \in Seq(Address), NEW n \in Nat, n + 1 \in 1..Len(addrs),
         NEW s, SeenInv(s, addrs, n)
  PROVE  SeenInv(AddUnique(s, addrs[n + 1]), addrs, n + 1)
<1> DEFINE a == addrs[n + 1]
<1>0. /\ s \in Seq(Address) /\ Len(s) \in Nat /\ a \in Address /\ MaxResolvedIPs \in Nat
      /\ s = <<>> <=> Len(s) = 0
  BY ElementOfSeq, ProbeRunAssumption DEF SeenInv, ProbeRunAssumption
<1>1. CASE a \in Range(s)
  <2>1. AddUnique(s, a) = s /\ \E i \in 1..Len(s) : s[i] = a
    BY <1>1 DEF AddUnique, Range
  <2>2. \A k \in 1..(n + 1) : k \in 1..n \/ k = n + 1
    OBVIOUS
  <2>3. s # <<>>
    BY <1>0, <2>1
  <2> QED BY <2>1, <2>2, <2>3, SMTT(30) DEF SeenInv
<1>2. CASE a \notin Range(s) /\ Capped(s)
  <2>1. AddUnique(s, a) = s
    BY <1>2, Zenon DEF AddUnique, Capped
  <2>2. s # <<>>
    BY <1>0, <1>2 DEF Capped
  <2>3. \A k \in 1..n : k \in 1..(n + 1)
    OBVIOUS
  <2> QED BY <1>2, <2>1, <2>2, <2>3, Zenon DEF SeenInv
<1>3. CASE a \notin Range(s) /\ ~Capped(s)
  <2> DEFINE t == Append(s, a)
  <2>1. AddUnique(s, a) = t
    BY <1>3, Zenon DEF AddUnique, Capped
  <2>2. /\ t \in Seq(Address) /\ Len(t) = Len(s) + 1 /\ t # <<>>
        /\ \A i \in 1..Len(s) : t[i] = s[i]
        /\ t[Len(s) + 1] = a
    BY <1>0
  <2> HIDE DEF t
  <2>3. \A i \in 1..Len(t) : i \in 1..Len(s) \/ i = Len(s) + 1
    BY <1>0, <2>2
  <2>4. \A i \in 1..Len(s) : s[i] # a
    BY <1>3 DEF Range
  <2>5. \A i, k \in 1..Len(t) : t[i] = t[k] => i = k
    BY <1>0, <2>2, <2>3, <2>4 DEF SeenInv
  <2>6. \A i \in 1..Len(t) : \E k \in 1..(n + 1) : t[i] = addrs[k]
    <3> SUFFICES ASSUME NEW i \in 1..Len(t) PROVE \E k \in 1..(n + 1) : t[i] = addrs[k]
      OBVIOUS
    <3>1. CASE i \in 1..Len(s)
      <4>1. PICK k \in 1..n : s[i] = addrs[k]
        BY <3>1, Zenon DEF SeenInv
      <4>2. k \in 1..(n + 1) /\ t[i] = addrs[k]
        BY <2>2, <3>1, <4>1
      <4> QED BY <4>2, Zenon
    <3>2. CASE i = Len(s) + 1
      <4>1. n + 1 \in 1..(n + 1)
        OBVIOUS
      <4> QED BY <2>2, <3>2, <4>1, Zenon
    <3> QED BY <2>3, <3>1, <3>2, Zenon
  <2>7. MaxResolvedIPs > 0 => Len(t) <= MaxResolvedIPs
    BY <1>0, <1>3, <2>2 DEF Capped
  <2>8. \A k \in 1..(n + 1) : \E i \in 1..Len(t) : t[i] = addrs[k]
    <3> SUFFICES ASSUME NEW k \in 1..(n + 1) PROVE \E i \in 1..Len(t) : t[i] = addrs[k]
      OBVIOUS
    <3>1. CASE k \in 1..n
      <4>1. PICK i \in 1..Len(s) : s[i] = addrs[k]
        BY <1>3, <3>1, Zenon DEF SeenInv
      <4>2. i \in 1..Len(t) /\ t[i] = addrs[k]
        BY <1>0, <2>2, <4>1
      <4> QED BY <4>2, Zenon
    <3>2. CASE k = n + 1
      <4>1. Len(s) + 1 \in 1..Len(t)
        BY <1>0, <2>2
      <4> QED BY <2>2, <3>2, <4>1, Zenon
    <3> QED BY <3>1, <3>2
  <2> QED BY <2>1, <2>2, <2>5, <2>6, <2>7, <2>8 DEF SeenInv
<1> QED BY <1>1, <1>2, <1>3, Zenon

\* The recursion of UniqueCapped has a solution for any number of addresses.
LEMMA AccumulationExists ==
  ASSUME NEW addrs, NEW n \in Nat
  PROVE  \E g : Accumulates(g, addrs, n)
<1> DEFINE I == {k \in Nat : \E g : Accumulates(g, addrs, k)}
<1>1. 0 \in I
  <2> DEFINE g == [i \in 0..0 |-> <<>>]
  <2>1. \A i \in 0..0 : i = 0
    OBVIOUS
  <2>2. Accumulates(g, addrs, 0)
    BY <2>1, Zenon DEF Accumulates, SeenAt
  <2> QED BY <2>2, Zenon
<1>2. ASSUME NEW k \in Nat, k \in I PROVE k + 1 \in I
  <2>1. PICK g : Accumulates(g, addrs, k)
    BY <1>2, Zenon
  <2> DEFINE h == [i \in 0..(k + 1) |-> SeenAt(g, addrs, i)]
  <2>2. \A i \in 0..k : h[i] = g[i]
    BY <2>1 DEF Accumulates
  <2>3. \A i \in 0..(k + 1) : h[i] = SeenAt(h, addrs, i)
    <3> SUFFICES ASSUME NEW i \in 0..(k + 1) PROVE SeenAt(g, addrs, i) = SeenAt(h, addrs, i)
      OBVIOUS
    <3>1. CASE i = 0
      BY <3>1, Zenon DEF SeenAt
    <3>2. CASE i # 0
      <4>1. h[i - 1] = g[i - 1]
        BY <3>2, <2>2
      <4> HIDE DEF h
      <4> QED BY <3>2, <4>1, Zenon DEF SeenAt
    <3> QED BY <3>1, <3>2, Zenon
  <2>4. h = [i \in 0..(k + 1) |-> h[i]]
    OBVIOUS
  <2> HIDE DEF h
  <2>5. Accumulates(h, addrs, k + 1)
    BY <2>3, <2>4, Zenon DEF Accumulates
  <2> QED BY <2>5
<1>3. Nat \subseteq I
  <2> HIDE DEF I
  <2> QED BY <1>1, <1>2, Induction, Zenon
<1> QED BY <1>3, Zenon

\* The loop over a lookup's addresses keeps distinct ones of them, all unless it
\* stopped at the cap (ExpandTargets).
LEMMA UniqueCappedIs ==
  ASSUME NEW addrs \in Seq(Address)
  PROVE  SeenInv(UniqueCapped(addrs), addrs, Len(addrs))
<1> DEFINE n == Len(addrs)
           G == CHOOSE g : Accumulates(g, addrs, n)
           I == {k \in Nat : k <= n => SeenInv(G[k], addrs, k)}
<1>1. n \in Nat
  OBVIOUS
<1>2. UniqueCapped(addrs) = G[n]
  BY Zenon DEF UniqueCapped, Accumulates, SeenAt
<1>3. \E g : Accumulates(g, addrs, n)
  BY <1>1, AccumulationExists, Zenon
<1>4. Accumulates(G, addrs, n)
  BY <1>3, Zenon
<1> HIDE DEF G, n
<1>5. \A i \in 0..n : G[i] = SeenAt(G, addrs, i)
  BY <1>4, Zenon DEF Accumulates
<1>6. 0 \in I
  <2>1. G[0] = <<>>
    BY <1>1, <1>5 DEF SeenAt
  <2>2. SeenInv(<<>>, addrs, 0)
    BY ProbeRunAssumption DEF SeenInv, ProbeRunAssumption
  <2> QED BY <2>1, <2>2, Zenon
<1>7. ASSUME NEW k \in Nat, k \in I PROVE k + 1 \in I
  <2> SUFFICES ASSUME k + 1 <= n PROVE SeenInv(G[k + 1], addrs, k + 1)
    OBVIOUS
  <2>1. SeenInv(G[k], addrs, k) /\ k + 1 \in 1..Len(addrs)
    BY <1>1, <1>7 DEF n
  <2>2. G[k + 1] = SeenAt(G, addrs, k + 1) /\ (k + 1) - 1 = k /\ k + 1 # 0
    BY <1>1, <1>5
  <2>3. G[k + 1] = AddUnique(G[k], addrs[k + 1])
    BY <2>2, Zenon DEF SeenAt
  <2> QED BY <2>1, <2>3, SeenStep, Zenon
<1>8. Nat \subseteq I
  <2> HIDE DEF I
  <2> QED BY <1>6, <1>7, Induction, Zenon
<1>9. n \in I
  BY <1>1, <1>8, Zenon
<1> QED BY <1>1, <1>2, <1>9 DEF n

-----------------------------------------------------------------------------
(* The state of a run *)

Outcomes == {"silent", "open", "closed", "fatal", "unbuilt", "mismatch", "good", "expiring",
             "expired"}

Statuses == {"", "success", "partial", "failure", "error"}
ErrorTypes == {"", "resolve_error", "init_error", "probe_error", "run_error", "timeout",
               "cancelled", "network_error"}
Losses == {"zero", "some", "all"}
Entries == Address \cup DOMAIN Answers

Item == [entry : Nat, ip : Entries, st : {"new", "attempt", "pause", "done"}, since : Nat,
         sent : Nat, rcvd : Nat, open : BOOLEAN, status : Statuses, etype : ErrorTypes,
         loss : Losses, port : {"nil", "true", "false"}, dur : BOOLEAN,
         refused : BOOLEAN, hist : Seq(Outcomes), delay : Nat]

RunTypeOK ==
  /\ kind \in Kinds /\ (kind # "http" => validateTimings)
  /\ targets \in TargetLists
  /\ now \in Nat
  /\ ctx \in {"live", "deadline", "cancelled"}
  /\ pc \in {"expanding", "probing", "returned"}
  /\ next \in Nat \ {0}
  /\ pc = "expanding" => next <= Len(targets)
  /\ items \in Seq(Item)
  /\ lookedUp \in Nat

\* The clock passes the timeout only while something goes on that does not look
\* at the context.
ClockInv ==
  /\ ctx = "live" \/ pc = "expanding" => now <= Timeout
  /\ ctx = "deadline" => now >= Timeout
  /\ lookedUp <= now

Limit == (IF kind = "udp" THEN 2 ELSE 1) * Timeout

\* No goroutine waits beyond the limit: a fresh one begins at once, a udp attempt
\* begun in time takes at most another timeout.
Timely(it) ==
  /\ pc = "expanding" => it.st = "new"
  /\ pc = "returned" => it.st = "done"
  /\ it.st = "new" => now <= Timeout /\ (pc # "expanding" => now = lookedUp)
  /\ it.st \in {"attempt", "pause"} => it.since <= now /\ now <= Limit
  /\ it.st = "attempt" => it.since <= Timeout

\* The counters of an item are those of its attempts, and nothing is reported
\* before its loop is over.
Tallied(it) ==
  /\ it.sent <= MaxSent /\ it.rcvd <= it.sent
  /\ it.st \in {"attempt", "pause"} => it.sent < MaxSent
  /\ it.st = "new" => it.sent = 0 /\ it.hist = <<>> /\ it.delay = 0
  /\ it.st # "done" => /\ it.loss = "zero" /\ it.port = "nil" /\ it.dur = FALSE
                       /\ it.status = "" /\ it.etype = ""
                       /\ "fatal" \notin Range(it.hist)
  /\ it.st # "done" /\ kind \notin LoopKinds =>
       it.st # "pause" /\ it.sent = 0 /\ it.hist = <<>>
  /\ kind \in LoopKinds => /\ it.sent = Len(it.hist)
                           /\ it.rcvd = Cardinality(Answered(it))
                           /\ it.open <=> "open" \in Range(it.hist)

\* The attempts begin at most a packet interval apart, besides the time they take.
Scheduled(it) ==
  /\ it.st = "attempt" => it.since <= lookedUp + it.delay + it.sent * PacketInterval
  /\ it.st = "pause" => /\ it.since + PacketInterval <= lookedUp + it.delay + it.sent * PacketInterval
                        /\ now <= it.since + PacketInterval
  /\ it.st = "done" /\ kind \in LoopKinds /\ it.hist # <<>> =>
       \/ ctx = "cancelled" \/ lookedUp > 0 \/ it.delay > 0
       \/ "fatal" \in Range(it.hist) \/ it.sent = Count

\* What a finished loop reports.
LoopTold(it) ==
  IF "fatal" \in Range(it.hist) /\ it.rcvd = 0
  THEN it.status = "error" /\ it.port = "nil"
  ELSE /\ it.loss = LossRatio(it.sent, it.rcvd)
       /\ it.status = StatusFromLoss(it.loss)
       /\ it.port = PortOpen(it)

\* What a finished request reports.
HttpTold(it) ==
  LET o == it.hist[1] IN
  /\ it.port = "nil"
  /\ o = "unbuilt" => it.status = "error" /\ it.dur = FALSE
  /\ o = "silent" => /\ it.loss = "all" /\ it.dur = FALSE
                     /\ it.status = "failure" \/ (it.status = "error" /\ ctx # "live")
  /\ o = "mismatch" => it.loss = "all" /\ it.dur = TRUE /\ it.status = "failure"
  /\ o \in {"good", "expiring", "expired"} =>
       it.loss = "zero" /\ it.dur = TRUE /\ it.status = HttpStatus(o)
  /\ o \in {"unbuilt", "silent", "mismatch", "good", "expiring", "expired"}

Told(it) ==
  /\ it.st = "done" => it.status # ""
  /\ it.st = "done" /\ it.hist # <<>> => /\ kind \in LoopKinds => LoopTold(it)
                                         /\ kind = "http" => HttpTold(it)
  /\ it.st # "new" /\ Unresolved(it) => it.st = "done" /\ it.etype = "resolve_error"

ItemInv(it) == Timely(it) /\ Tallied(it) /\ Scheduled(it) /\ Told(it)

\* The entries expanded so far, in order; each has its own items.
Mine(j) == {i \in 1..Len(items) : items[i].entry = j}
IpsOf(j) == {items[i].ip : i \in Mine(j)}

Covered(j) ==
  /\ Mine(j) # {}
  /\ \A i, k \in Mine(j) : items[i].ip = items[k].ip => i = k
  /\ \/ IpsOf(j) = {targets[j]}
     \/ /\ ~Verbatim(targets[j])
        /\ MaxResolvedIPs > 0 => Cardinality(Mine(j)) <= MaxResolvedIPs
        /\ \E a \in Answers[targets[j]] :
             /\ IpsOf(j) \subseteq Range(a)
             /\ IpsOf(j) = Range(a) \/ Cardinality(Mine(j)) = MaxResolvedIPs

EntriesInv ==
  /\ \A i \in 1..Len(items) : items[i].entry \in 1..(next - 1)
  /\ \A i, k \in 1..Len(items) : i < k => items[i].entry <= items[k].entry
  /\ \A j \in 1..(next - 1) : Covered(j)
  /\ pc # "expanding" => next = Len(targets) + 1

ItemsInv == \A i \in 1..Len(items) : ItemInv(items[i])

RunInv == RunTypeOK /\ ClockInv /\ ItemsInv /\ EntriesInv

USE ProbeRunAssumption

\* How long a run may take.
LEMMA LimitIs == /\ Limit \in Nat /\ Timeout <= Limit /\ (kind = "udp" => Limit = Timeout + Timeout)
                 /\ (kind # "udp" => Limit = Timeout)
BY DEF ProbeRunAssumption, Limit

\* How much it may send.
LEMMA MaxSentIs == /\ MaxSent \in Nat /\ Count \in Nat
                   /\ kind = "http" => MaxSent = 1
                   /\ kind # "http" => MaxSent = Count
BY DEF ProbeRunAssumption, MaxSent

\* A fresh item.
LEMMA NewItemType ==
  ASSUME NEW j \in Nat, NEW addr \in Entries
  PROVE  NewItem(j, addr) \in Item
BY DEF NewItem, Item, Statuses, ErrorTypes, Losses

\* What an entry expands to: a sequence of addresses, or the entry itself.
LEMMA ExpansionType ==
  ASSUME RunTypeOK, pc = "expanding", NEW addrs \in Expansions(targets[next])
  PROVE  /\ addrs \in Seq(Entries) /\ Len(addrs) \in Nat \ {0}
         /\ targets[next] \in Entries
         /\ \/ addrs = <<targets[next]>>
            \/ /\ ~Verbatim(targets[next])
               /\ \E a \in Answers[targets[next]] :
                    a \in Seq(Address) /\ SeenInv(addrs, a, Len(a))
<1>1. targets[next] \in Entries
  BY DEF RunTypeOK, ProbeRunAssumption, Entries
<1>2. CASE addrs = <<targets[next]>>
  BY <1>1, <1>2
<1>3. CASE addrs # <<targets[next]>>
  <2>1. ~Verbatim(targets[next])
    BY <1>3, Zenon DEF Expansions
  <2>2. PICK a \in Answers[targets[next]] : a # <<>> /\ addrs = UniqueCapped(a)
    BY <1>3, <2>1, Zenon DEF Expansions
  <2>3. a \in Seq(Address)
    BY <1>1, <2>1, <2>2, Zenon DEF ProbeRunAssumption, Verbatim, Entries
  <2>4. SeenInv(addrs, a, Len(a)) /\ Len(a) > 0
    BY <2>2, <2>3, UniqueCappedIs
  <2>5. addrs \in Seq(Address) /\ addrs # <<>>
    BY <2>4, Zenon DEF SeenInv
  <2>6. addrs \in Seq(Entries)
    BY <2>5 DEF Entries
  <2> QED BY <1>1, <2>1, <2>2, <2>3, <2>4, <2>5, <2>6
<1> QED BY <1>2, <1>3, Zenon

\* The items after an expansion: those before, and one per address.
LEMMA ExpandedItems ==
  ASSUME RunTypeOK, pc = "expanding", NEW addrs \in Expansions(targets[next]),
         items' = items \o [k \in 1..Len(addrs) |-> NewItem(next, addrs[k])]
  PROVE  /\ items' \in Seq(Item)
         /\ Len(items) \in Nat /\ Len(items') = Len(items) + Len(addrs)
         /\ \A i \in 1..Len(items) : items'[i] = items[i]
         /\ \A k \in 1..Len(addrs) : items'[Len(items) + k] = NewItem(next, addrs[k])
<1> DEFINE new == [k \in 1..Len(addrs) |-> NewItem(next, addrs[k])]
<1>1. addrs \in Seq(Entries) /\ Len(addrs) \in Nat
  BY ExpansionType, Zenon
<1>2. \A k \in 1..Len(addrs) : NewItem(next, addrs[k]) \in Item
  BY <1>1, NewItemType, ElementOfSeq, Zenon DEF RunTypeOK
<1>3. new \in Seq(Item) /\ Len(new) = Len(addrs)
  BY <1>1, <1>2
<1>4. \A k \in 1..Len(addrs) : new[k] = NewItem(next, addrs[k])
  OBVIOUS
<1>5. items \in Seq(Item) /\ items' = items \o new
  BY Zenon DEF RunTypeOK
<1> HIDE DEF new
<1>6. /\ items' \in Seq(Item) /\ Len(items) \in Nat /\ Len(items') = Len(items) + Len(new)
      /\ \A i \in 1..(Len(items) + Len(new)) :
           items'[i] = IF i <= Len(items) THEN items[i] ELSE new[i - Len(items)]
  <2>1. items \in Seq(Item) /\ new \in Seq(Item)
    BY <1>3, <1>5, Zenon
  <2>2. /\ items \o new \in Seq(Item) /\ Len(items \o new) = Len(items) + Len(new)
        /\ \A i \in 1..(Len(items) + Len(new)) :
           (items \o new)[i] = IF i <= Len(items) THEN items[i] ELSE new[i - Len(items)]
    BY <2>1, ConcatProperties, ZenonT(30)
  <2>3. Len(items) \in Nat
    BY <2>1
  <2> QED BY <1>5, <2>2, <2>3, Zenon
<1>7. \A i \in 1..Len(items) : items'[i] = items[i]
  BY <1>1, <1>3, <1>6
<1>8. ASSUME NEW k \in 1..Len(addrs) PROVE items'[Len(items) + k] = NewItem(next, addrs[k])
  <2>1. /\ Len(items) + k \in 1..(Len(items) + Len(new)) /\ ~(Len(items) + k <= Len(items))
        /\ (Len(items) + k) - Len(items) = k
    BY <1>1, <1>3, <1>6
  <2> QED BY <1>4, <1>6, <2>1, Zenon
<1> QED BY <1>3, <1>6, <1>7, <1>8, Zenon

\* A step of one goroutine: what remains to be shown for it.
LEMMA SetItemInv ==
  ASSUME RunInv, pc = "probing", NEW i \in 1..Len(items), NEW it \in Item, SetItem(i, it),
         it.entry = items[i].entry, it.ip = items[i].ip, ItemInv(it)
  PROVE  RunInv'
<1>1. /\ items \in Seq(Item) /\ items' \in Seq(Item) /\ Len(items') = Len(items)
      /\ items'[i] = it /\ \A k \in 1..Len(items) : k # i => items'[k] = items[k]
  BY DEF RunInv, RunTypeOK, SetItem
<1>2. UNCHANGED <<kind, targets, now, ctx, pc, next, noServer, lookedUp>>
  BY Zenon DEF SetItem
<1>3. RunTypeOK'
  BY <1>1, <1>2, Zenon DEF RunInv, RunTypeOK
<1>4. ClockInv'
  BY <1>2, Zenon DEF RunInv, ClockInv
<1>5. ItemsInv'
  <2> SUFFICES ASSUME NEW k \in 1..Len(items) PROVE ItemInv(items[k])'
    BY <1>1, Zenon DEF ItemsInv
  <2>1. PICK x \in Item : x = items'[k] /\ ItemInv(x)
    BY <1>1 DEF RunInv, ItemsInv
  <2>2. Timely(items[k])' /\ Scheduled(items[k])'
    BY <1>2, <2>1, Zenon DEF ItemInv, Timely, Scheduled, Limit
  <2>3. Tallied(items[k])'
    <3>1. Answered(items[k])' = Answered(x)
      BY <2>1, Zenon DEF Answered
    <3> QED BY <1>2, <2>1, <3>1, Zenon DEF ItemInv, Tallied, MaxSent
  <2>4. Told(items[k])'
    BY <1>2, <2>1, ZenonT(30) DEF ItemInv, Told, LoopTold, HttpTold, Unresolved, Verbatim, PortOpen
  <2> QED BY <2>2, <2>3, <2>4, Zenon DEF ItemInv
<1>6. EntriesInv'
  <2>1. \A k \in 1..Len(items) : items'[k].entry = items[k].entry /\ items'[k].ip = items[k].ip
    BY <1>1, Zenon
  <2>2. \A j : Mine(j)' = Mine(j)
    BY <1>1, <2>1, Zenon DEF Mine
  <2>3. \A j : IpsOf(j)' = IpsOf(j)
    BY <1>1, <2>1, <2>2, SMTT(30) DEF IpsOf, Mine
  <2>4. ASSUME NEW j \in 1..(next - 1) PROVE Covered(j)'
    <3>1. Covered(j)
      BY Zenon DEF RunInv, EntriesInv
    <3>2. \A k \in Mine(j) : items'[k].ip = items[k].ip
      BY <2>1, Zenon DEF Mine
    <3> QED BY <1>2, <2>2, <2>3, <3>1, <3>2, Zenon DEF Covered, Verbatim
  <2> QED BY <1>1, <1>2, <2>1, <2>4, Zenon DEF RunInv, EntriesInv
<1> QED BY <1>3, <1>4, <1>5, <1>6, Zenon DEF RunInv

\* An item that fails before any attempt is counted.
LEMMA FailedInv ==
  ASSUME NEW it \in Item, ItemInv(it), it.hist = <<>>, NEW e \in ErrorTypes,
         pc = "probing", Unresolved(it) => e = "resolve_error"
  PROVE  /\ Failed(it, e) \in Item /\ ItemInv(Failed(it, e))
         /\ Failed(it, e).entry = it.entry /\ Failed(it, e).ip = it.ip
<1> DEFINE r == Failed(it, e)
<1>1. /\ r \in Item /\ r.entry = it.entry /\ r.ip = it.ip /\ r.hist = it.hist /\ r.sent = it.sent
      /\ r.rcvd = it.rcvd /\ r.open = it.open /\ r.st = "done" /\ r.status = "error"
      /\ r.etype = e
  <2>1. "error" \in Statuses
    BY Zenon DEF Statuses
  <2> QED BY <2>1, Zenon DEF Failed, Item
<1>2. Answered(r) = Answered(it)
  BY <1>1, Zenon DEF Answered
<1> HIDE DEF r
<1>3. Timely(r) /\ Scheduled(r)
  BY <1>1, Zenon DEF Timely, Scheduled
<1>4. Tallied(r)
  <2>1. r.st \notin {"new", "attempt", "pause"}
    BY <1>1, Zenon
  <2> QED BY <1>1, <1>2, <2>1, Zenon DEF ItemInv, Tallied
<1>5. Told(r)
  BY <1>1, Zenon DEF Told, Unresolved
<1> QED BY <1>1, <1>3, <1>4, <1>5, Zenon DEF ItemInv, r

\* A work item begins: it waits for its first attempt, or its name could not be
\* resolved or there is no resolver to ask (dns) and it ends at once.
LEMMA BeginItemInv ==
  ASSUME RunInv, NEW i \in 1..Len(items), BeginItem(i)
  PROVE  RunInv'
<1>1. PICK it \in Item : it = items[i] /\ ItemInv(it)
  BY DEF RunInv, RunTypeOK, ItemsInv
<1>2. pc = "probing" /\ it.st = "new" /\ it.hist = <<>> /\ it.sent = 0 /\ it.delay = 0
  BY <1>1, Zenon DEF BeginItem, Running, ItemInv, Tallied
<1>3. CASE Unresolved(it)
  <2>1. SetItem(i, Failed(it, "resolve_error"))
    BY <1>1, <1>3, Zenon DEF BeginItem
  <2>2. "resolve_error" \in ErrorTypes
    BY Zenon DEF ErrorTypes
  <2> QED BY <1>1, <1>2, <2>1, <2>2, FailedInv, SetItemInv, Zenon
<1>4. CASE ~Unresolved(it) /\ noServer
  <2>1. SetItem(i, Failed(it, "init_error"))
    BY <1>1, <1>4, Zenon DEF BeginItem
  <2>2. "init_error" \in ErrorTypes
    BY Zenon DEF ErrorTypes
  <2> QED BY <1>1, <1>2, <1>4, <2>1, <2>2, FailedInv, SetItemInv, Zenon
<1>5. CASE ~Unresolved(it) /\ ~noServer
  <2> DEFINE r == [it EXCEPT !.st = "attempt", !.since = now, !.refused = ctx # "live"]
  <2>1. SetItem(i, r)
    BY <1>1, <1>5, Zenon DEF BeginItem
  <2>2. /\ r \in Item /\ r.entry = it.entry /\ r.ip = it.ip /\ r.hist = it.hist /\ r.sent = it.sent
        /\ r.rcvd = it.rcvd /\ r.open = it.open /\ r.st = "attempt" /\ r.since = now
        /\ r.delay = it.delay /\ r.status = it.status /\ r.etype = it.etype /\ r.loss = it.loss
        /\ r.port = it.port /\ r.dur = it.dur
    BY Zenon DEF RunInv, RunTypeOK, Item
  <2>3. Answered(r) = Answered(it)
    BY <2>2, Zenon DEF Answered
  <2> HIDE DEF r
  <2>4. Timely(r)
    BY <1>1, <1>2, <2>2, LimitIs DEF ItemInv, Timely, RunInv, RunTypeOK, ProbeRunAssumption
  <2>5. Tallied(r)
    <3>1. r.sent < MaxSent
      <4>1. MaxSent > 0
        BY MaxSentIs DEF RunInv, RunTypeOK, validateTimings
      <4> QED BY <1>2, <2>2, <4>1, MaxSentIs
    <3> QED BY <1>1, <1>2, <2>2, <2>3, <3>1, ZenonT(30) DEF ItemInv, Tallied
  <2>6. Scheduled(r)
    <3>1. now = lookedUp /\ 0 * PacketInterval = 0 /\ now \in Nat
      BY <1>1, <1>2 DEF ItemInv, Timely, RunInv, RunTypeOK, ProbeRunAssumption
    <3> QED BY <1>2, <2>2, <3>1 DEF Scheduled
  <2>7. Told(r)
    BY <1>5, <2>2, Zenon DEF Told, Unresolved
  <2> QED BY <1>1, <1>2, <2>1, <2>2, <2>4, <2>5, <2>6, <2>7, SetItemInv, Zenon DEF ItemInv
<1> QED BY <1>3, <1>4, <1>5, Zenon

\* What the counters of a loop say about its history.
Counts(it) == /\ it.sent <= MaxSent /\ it.rcvd <= it.sent
              /\ it.sent = Len(it.hist)
              /\ it.rcvd = Cardinality(Answered(it))
              /\ it.open <=> "open" \in Range(it.hist)

\* RunLoop's end.
LEMMA ConcludeInv ==
  ASSUME NEW it \in Item, NEW fatal \in BOOLEAN, pc = "probing", kind \in LoopKinds,
         Counts(it), fatal <=> "fatal" \in Range(it.hist), ~Unresolved(it), it.port = "nil",
         \/ ctx = "cancelled" \/ lookedUp > 0 \/ it.delay > 0
         \/ "fatal" \in Range(it.hist) \/ it.sent = Count
  PROVE  /\ Conclude(it, fatal) \in Item /\ ItemInv(Conclude(it, fatal))
         /\ Conclude(it, fatal).entry = it.entry /\ Conclude(it, fatal).ip = it.ip
<1> DEFINE r == Conclude(it, fatal)
<1>1. /\ LossRatio(it.sent, it.rcvd) \in Losses
      /\ StatusFromLoss(LossRatio(it.sent, it.rcvd)) \in Statuses \ {""}
      /\ PortOpen(it) \in {"nil", "true", "false"} /\ "error" \in Statuses
      /\ "probe_error" \in ErrorTypes
  BY Zenon DEF LossRatio, StatusFromLoss, PortOpen, Losses, Statuses, ErrorTypes
<1>2. /\ r \in Item /\ r.entry = it.entry /\ r.ip = it.ip /\ r.hist = it.hist /\ r.sent = it.sent
      /\ r.rcvd = it.rcvd /\ r.open = it.open /\ r.delay = it.delay /\ r.st = "done"
      /\ IF fatal /\ it.rcvd = 0 THEN r.status = "error" /\ r.port = "nil"
         ELSE /\ r.loss = LossRatio(it.sent, it.rcvd)
              /\ r.status = StatusFromLoss(r.loss)
              /\ r.port = PortOpen(it)
  <2>1. CASE fatal /\ it.rcvd = 0
    BY <1>1, <2>1, Zenon DEF Conclude, Failed, Item
  <2>2. CASE ~(fatal /\ it.rcvd = 0)
    BY <1>1, <2>2, Zenon DEF Conclude, Item
  <2> QED BY <2>1, <2>2, Zenon
<1>3. Answered(r) = Answered(it) /\ PortOpen(r) = PortOpen(it)
  BY <1>2, Zenon DEF Answered, PortOpen
<1> HIDE DEF r
<1>4. Timely(r)
  BY <1>2, Zenon DEF Timely
<1>5. Tallied(r)
  <2>1. r.st \notin {"new", "attempt", "pause"}
    BY <1>2, Zenon
  <2> QED BY <1>2, <1>3, <2>1, Zenon DEF Counts, Tallied
<1>6. Scheduled(r)
  BY <1>2, Zenon DEF Scheduled
<1>7. Told(r)
  <2>1. LoopTold(r) /\ kind # "http"
    BY <1>2, <1>3, Zenon DEF LoopTold, LoopKinds
  <2>2. r.status # "" /\ ~Unresolved(r)
    BY <1>1, <1>2, Zenon DEF Unresolved
  <2> QED BY <1>2, <2>1, <2>2, Zenon DEF Told
<1> QED BY <1>2, <1>4, <1>5, <1>6, <1>7, Zenon DEF ItemInv, r

\* One more attempt in the history.
LEMMA CountedIs ==
  ASSUME NEW it \in Item, NEW o \in {"silent", "open", "closed", "fatal"}, Counts(it),
         it.sent < MaxSent, "fatal" \notin Range(it.hist), now \in Nat, it.since <= now
  PROVE  LET r == Counted(it, o)
         IN /\ r \in Item /\ r.entry = it.entry /\ r.ip = it.ip /\ r.st = it.st
            /\ r.port = it.port /\ r.loss = it.loss /\ r.dur = it.dur /\ r.since = it.since
            /\ r.status = it.status /\ r.etype = it.etype
            /\ r.sent = it.sent + 1 /\ r.delay = it.delay + (now - it.since)
            /\ Counts(r) /\ r.hist[Len(r.hist)] = o
            /\ o = "fatal" <=> "fatal" \in Range(r.hist)
<1> DEFINE r == Counted(it, o)
           n == Len(it.hist)
           b == IF o \in {"open", "closed"} THEN 1 ELSE 0
<1>1. it.hist \in Seq(Outcomes) /\ o \in Outcomes /\ n \in Nat
  BY DEF Item, Outcomes
<1>2. /\ Append(it.hist, o) \in Seq(Outcomes) /\ Len(Append(it.hist, o)) = n + 1
      /\ \A k \in 1..n : Append(it.hist, o)[k] = it.hist[k]
      /\ Append(it.hist, o)[n + 1] = o
  BY <1>1
<1>3. it.sent \in Nat /\ it.rcvd \in Nat /\ it.since \in Nat /\ it.delay \in Nat /\ b \in {0, 1}
  BY Zenon DEF Item
<1>4. /\ r.entry = it.entry /\ r.ip = it.ip /\ r.st = it.st
      /\ r.port = it.port /\ r.loss = it.loss /\ r.dur = it.dur /\ r.since = it.since
      /\ r.status = it.status /\ r.etype = it.etype
      /\ r.sent = it.sent + 1 /\ r.rcvd = it.rcvd + b /\ r.delay = it.delay + (now - it.since)
      /\ r.hist = Append(it.hist, o) /\ r.open = (it.open \/ o = "open")
  BY Zenon DEF Counted, Item
<1>5. r \in Item
  <2>1. /\ it.sent + 1 \in Nat /\ it.rcvd + b \in Nat /\ it.delay + (now - it.since) \in Nat
        /\ (it.open \/ o = "open") \in BOOLEAN
    <3>1. now - it.since \in Nat
      BY <1>3
    <3> HIDE DEF b, r
    <3>2. it.sent + 1 \in Nat /\ it.delay + (now - it.since) \in Nat
      BY <1>3, <3>1
    <3>3. it.rcvd + b \in Nat
      BY <1>3
    <3> QED BY <3>2, <3>3, Zenon
  <2> HIDE DEF b
  <2>2. r = [it EXCEPT !.sent = it.sent + 1, !.rcvd = it.rcvd + b,
                       !.open = it.open \/ o = "open", !.hist = Append(it.hist, o),
                       !.delay = it.delay + (now - it.since)]
    BY Zenon DEF Counted, b, Item
  <2> HIDE DEF r
  <2> QED BY <1>2, <2>1, <2>2, Zenon DEF Item
<1> HIDE DEF r
<1>h. /\ Len(r.hist) = n + 1 /\ r.hist[n + 1] = o
      /\ \A k \in 1..n : r.hist[k] = it.hist[k] /\ k \in 1..(n + 1)
      /\ \A k \in 1..(n + 1) : k \in 1..n \/ k = n + 1
      /\ n + 1 \in 1..(n + 1) /\ n + 1 \notin 1..n
  BY <1>1, <1>2, <1>4
<1>6. r.rcvd = Cardinality(Answered(r))
  <2>1. IsFiniteSet(Answered(it)) /\ Answered(it) = {k \in 1..n : it.hist[k] \in {"open", "closed"}}
    <3>1. Answered(it) \subseteq 1..n
      BY Zenon DEF Answered
    <3>2. IsFiniteSet(1..n)
      <4>1. PICK m \in Nat : m = n
        BY <1>1, Zenon
      <4>2. IsFiniteSet(1..m)
        BY FS_Interval
      <4> QED BY <4>1, <4>2, Zenon
    <3>3. IsFiniteSet(Answered(it))
      BY <3>1, <3>2, FS_Subset, Zenon
    <3> QED BY <3>3, Zenon DEF Answered
  <2>2. Answered(r) = {k \in 1..(n + 1) : r.hist[k] \in {"open", "closed"}}
    BY <1>h, Zenon DEF Answered
  <2>3. CASE o \in {"open", "closed"}
    <3>1. Answered(r) = Answered(it) \cup {n + 1} /\ n + 1 \notin Answered(it)
      <4> HIDE DEF n
      <4> QED BY <1>h, <2>1, <2>2, <2>3, Zenon
    <3>2. Cardinality(Answered(r)) = Cardinality(Answered(it)) + 1
      <4>1. IsFiniteSet(Answered(it))
        BY <2>1, Zenon
      <4> HIDE DEF n
      <4> QED BY <3>1, <4>1, FS_AddElement, Zenon
    <3> QED BY <1>3, <1>4, <2>3, <3>2, Zenon DEF Counts
  <2>4. CASE o \notin {"open", "closed"}
    <3>1. Answered(r) = Answered(it)
      <4> HIDE DEF n
      <4> QED BY <1>h, <2>1, <2>2, <2>4, Zenon
    <3> QED BY <1>3, <1>4, <2>4, <3>1 DEF Counts
  <2> QED BY <2>3, <2>4, Zenon
<1>7. r.open <=> "open" \in Range(r.hist)
  <2>1. "open" \in Range(r.hist) <=> "open" \in Range(it.hist) \/ o = "open"
    <3>1. /\ "open" \in Range(r.hist) <=> \E k \in 1..(n + 1) : r.hist[k] = "open"
          /\ "open" \in Range(it.hist) <=> \E k \in 1..n : it.hist[k] = "open"
      BY <1>h DEF Range
    <3> HIDE DEF n
    <3> QED BY <1>h, <3>1, Zenon
  <2> QED BY <1>4, <2>1, Zenon DEF Counts
<1>8. o = "fatal" <=> "fatal" \in Range(r.hist)
  <2>1. /\ "fatal" \in Range(r.hist) <=> \E k \in 1..(n + 1) : r.hist[k] = "fatal"
        /\ ~\E k \in 1..n : it.hist[k] = "fatal"
    BY <1>h DEF Range
  <2> HIDE DEF n
  <2> QED BY <1>h, <2>1, Zenon
<1>9. r.hist[Len(r.hist)] = o
  BY <1>2, <1>4, Zenon
<1>10. Counts(r)
  BY <1>1, <1>2, <1>3, <1>4, <1>6, <1>7, MaxSentIs DEF Counts
<1> QED BY <1>4, <1>5, <1>8, <1>9, <1>10, Zenon DEF r

\* An attempt of RunLoop ends and is counted; the loop goes on or reports.
LEMMA AttemptEndsInv ==
  ASSUME RunInv, NEW i \in 1..Len(items), AttemptEnds(i)
  PROVE  RunInv'
<1>1. PICK it \in Item : it = items[i] /\ ItemInv(it)
  BY DEF RunInv, RunTypeOK, ItemsInv
<1>2. pc = "probing" /\ it.st = "attempt" /\ kind \in LoopKinds
  BY <1>1, Zenon DEF AttemptEnds, Running
<1>3. PICK o \in Meets(it) :
        LET c == Counted(it, o)
        IN SetItem(i, IF LoopOver(c) THEN Conclude(c, o = "fatal")
                      ELSE [c EXCEPT !.st = "pause", !.since = now])
  BY <1>1, Zenon DEF AttemptEnds
<1>4. o \in {"silent", "open", "closed", "fatal"}
  BY <1>2, <1>3, Zenon DEF Meets, ConnectMeets, SynMeets, UdpMeets, DnsMeets, SetupFails, LoopKinds
<1> DEFINE c == Counted(it, o)
<1>5. /\ Counts(it) /\ it.sent < MaxSent /\ "fatal" \notin Range(it.hist) /\ it.port = "nil"
      /\ it.loss = "zero" /\ it.dur = FALSE /\ it.status = "" /\ it.etype = ""
      /\ it.since <= now /\ now <= Limit /\ now \in Nat /\ ~Unresolved(it)
      /\ it.since <= lookedUp + it.delay + it.sent * PacketInterval
  <2>1. Counts(it) /\ it.sent < MaxSent /\ "fatal" \notin Range(it.hist) /\ it.port = "nil"
      /\ it.loss = "zero" /\ it.dur = FALSE /\ it.status = "" /\ it.etype = ""
    BY <1>1, <1>2, Zenon DEF ItemInv, Tallied, Counts
  <2>2. it.since <= now /\ now <= Limit /\ now \in Nat
    BY <1>1, <1>2, Zenon DEF ItemInv, Timely, RunInv, RunTypeOK
  <2>3. ~Unresolved(it) /\ it.since <= lookedUp + it.delay + it.sent * PacketInterval
    BY <1>1, <1>2, Zenon DEF ItemInv, Scheduled, Told
  <2> QED BY <2>1, <2>2, <2>3, Zenon
<1>6. /\ c \in Item /\ c.entry = it.entry /\ c.ip = it.ip /\ c.st = it.st
      /\ c.port = it.port /\ c.loss = it.loss /\ c.dur = it.dur /\ c.since = it.since
      /\ c.status = it.status /\ c.etype = it.etype
      /\ c.sent = it.sent + 1 /\ c.delay = it.delay + (now - it.since)
      /\ Counts(c) /\ c.hist[Len(c.hist)] = o
      /\ o = "fatal" <=> "fatal" \in Range(c.hist)
  BY <1>4, <1>5, CountedIs, ZenonT(30)
<1>7. SetItem(i, IF LoopOver(c) THEN Conclude(c, o = "fatal")
                 ELSE [c EXCEPT !.st = "pause", !.since = now])
  BY <1>3, Zenon
<1> HIDE DEF c
<1>8. ~Unresolved(c)
  BY <1>5, <1>6, Zenon DEF Unresolved
<1>9. CASE LoopOver(c)
  <2>1. SetItem(i, Conclude(c, o = "fatal"))
    BY <1>7, <1>9, Zenon
  <2>2. "fatal" \in Range(c.hist) \/ c.sent = Count
    BY <1>6, <1>9, Zenon DEF LoopOver
  <2>3. PICK fatal \in BOOLEAN : fatal = (o = "fatal")
    BY Zenon
  <2>4. fatal <=> "fatal" \in Range(c.hist)
    BY <1>6, <2>3, Zenon
  <2>5. SetItem(i, Conclude(c, fatal))
    BY <2>1, <2>3, Zenon
  <2>6. c.port = "nil"
    BY <1>5, <1>6, Zenon
  <2>7. /\ Conclude(c, fatal) \in Item /\ ItemInv(Conclude(c, fatal))
        /\ Conclude(c, fatal).entry = c.entry /\ Conclude(c, fatal).ip = c.ip
    BY <1>2, <1>6, <1>8, <2>2, <2>4, <2>6, ConcludeInv, Zenon
  <2> QED BY <1>1, <1>2, <1>6, <2>5, <2>7, SetItemInv, Zenon
<1>10. CASE ~LoopOver(c)
  <2> DEFINE r == [c EXCEPT !.st = "pause", !.since = now]
  <2>1. SetItem(i, r)
    BY <1>7, <1>10, Zenon
  <2>2. /\ r \in Item /\ r.entry = c.entry /\ r.ip = c.ip /\ r.hist = c.hist /\ r.sent = c.sent
        /\ r.rcvd = c.rcvd /\ r.open = c.open /\ r.st = "pause" /\ r.since = now
        /\ r.delay = c.delay /\ r.status = c.status /\ r.etype = c.etype /\ r.loss = c.loss
        /\ r.port = c.port /\ r.dur = c.dur
    BY <1>5, <1>6, Zenon DEF Item
  <2>3. Answered(r) = Answered(c)
    BY <2>2, Zenon DEF Answered
  <2> HIDE DEF r
  <2>4. r.sent < MaxSent /\ "fatal" \notin Range(r.hist)
    <3>1. MaxSent = Count
      BY <1>2, MaxSentIs, Zenon DEF LoopKinds
    <3> QED BY <1>6, <1>10, <2>2, <3>1, MaxSentIs, SMTT(30) DEF LoopOver, Counts, Item
  <2>a. now \in Nat /\ r.since = now /\ r.st = "pause" /\ now <= Limit
    BY <1>5, <2>2, Zenon
  <2>5. Timely(r)
    BY <1>2, <2>a DEF Timely
  <2>6. Tallied(r)
    <3>1. r.st # "new"
      BY <2>2, Zenon
    <3> QED BY <1>2, <1>5, <1>6, <2>2, <2>3, <2>4, <3>1, Zenon DEF Counts, Tallied
  <2>7. Scheduled(r)
    <3>1. it.sent \in Nat /\ it.delay \in Nat /\ it.since \in Nat /\ lookedUp \in Nat
      BY Zenon DEF Item, RunInv, RunTypeOK
    <3>2. PacketInterval \in Nat /\ it.sent * PacketInterval \in Nat
      BY <3>1, Times DEF ProbeRunAssumption
    <3>3. (it.sent + 1) * PacketInterval = it.sent * PacketInterval + PacketInterval
      BY <3>1, <3>2, Times
    <3>4. /\ it.since <= lookedUp + it.delay + it.sent * PacketInterval
          /\ r.delay = it.delay + (now - it.since) /\ r.sent = it.sent + 1
      BY <1>5, <1>6, <2>2, Zenon
    <3>5. r.since + PacketInterval <= lookedUp + r.delay + r.sent * PacketInterval
      <4>1. PICK m \in Nat : m = it.sent * PacketInterval
        BY <3>2, Zenon
      <4>2. r.sent * PacketInterval = m + PacketInterval
        BY <3>3, <3>4, <4>1, Zenon
      <4>3. PICK n : n = r.sent * PacketInterval
        OBVIOUS
      <4>4. /\ n = m + PacketInterval /\ it.since <= lookedUp + it.delay + m
        BY <3>4, <4>1, <4>2, <4>3, Zenon
      <4>5. r.since + PacketInterval <= lookedUp + r.delay + n
        <5>1. r.delay = it.delay + (now - it.since)
          BY <3>4, Zenon
        <5>2. PICK d : d = r.delay
          BY Zenon
        <5>3. PICK e \in Nat : e = it.delay
          BY <3>1, Zenon
        <5>4. PICK s \in Nat : s = it.since
          BY <3>1, Zenon
        <5>5. d = e + (now - s) /\ s <= lookedUp + e + m
          BY <4>4, <5>1, <5>2, <5>3, <5>4, Zenon
        <5>6. now + PacketInterval <= lookedUp + d + n
          BY <2>a, <3>1, <3>2, <4>4, <5>5
        <5> QED BY <2>a, <5>2, <5>6, Zenon
      <4> QED BY <4>3, <4>5, Zenon
    <3>6. now <= r.since + PacketInterval
      BY <2>a, <3>2
    <3> QED BY <2>a, <3>5, <3>6, Zenon DEF Scheduled
  <2>8. Told(r)
    BY <1>8, <2>2, Zenon DEF Told, Unresolved
  <2> QED BY <1>1, <1>2, <1>6, <2>1, <2>2, <2>5, <2>6, <2>7, <2>8, SetItemInv, Zenon DEF ItemInv
<1> QED BY <1>9, <1>10, Zenon

\* The wait between two attempts ends: by the timer, or the context is done.
LEMMA PauseEndsInv ==
  ASSUME RunInv, NEW i \in 1..Len(items), PauseEnds(i)
  PROVE  RunInv'
<1>1. PICK it \in Item : it = items[i] /\ ItemInv(it)
  BY DEF RunInv, RunTypeOK, ItemsInv
<1>2. pc = "probing" /\ it.st = "pause" /\ kind \in LoopKinds
  BY <1>1, Zenon DEF PauseEnds, Running, ItemInv, Tallied
<1>3. /\ Counts(it) /\ it.sent < MaxSent /\ "fatal" \notin Range(it.hist) /\ it.port = "nil"
      /\ ~Unresolved(it)
  BY <1>1, <1>2, Zenon DEF ItemInv, Tallied, Counts, Told
<1>4. /\ now \in Nat /\ lookedUp \in Nat /\ it.delay \in Nat /\ it.since \in Nat /\ it.sent \in Nat
      /\ PacketInterval \in Nat /\ Count \in Nat /\ Timeout \in Nat
  BY Zenon DEF RunInv, RunTypeOK, Item, ProbeRunAssumption
<1>5. /\ it.since + PacketInterval <= lookedUp + it.delay + it.sent * PacketInterval
      /\ now <= it.since + PacketInterval
  BY <1>1, <1>2, Zenon DEF ItemInv, Scheduled
<1>6. it.sent * PacketInterval \in Nat /\ it.sent * PacketInterval < Timeout
  <2>1. it.sent * PacketInterval \in Nat /\ it.sent * PacketInterval <= Count * PacketInterval
    <3>1. it.sent < Count
      BY <1>2, <1>3, MaxSentIs, Zenon DEF LoopKinds
    <3> QED BY <1>4, <3>1, Times
  <2>2. Count * PacketInterval < Timeout /\ Count * PacketInterval \in Nat
    <3>1. PacketInterval * Count < Timeout
      BY <1>2, Zenon DEF RunInv, RunTypeOK, validateTimings, LoopKinds
    <3> QED BY <1>4, <3>1, Times
  <2> QED BY <1>4, <2>1, <2>2
<1>7. now <= lookedUp + it.delay + it.sent * PacketInterval
  <2>1. PICK m \in Nat : m = it.sent * PacketInterval
    BY <1>6, Zenon
  <2>2. it.since + PacketInterval <= lookedUp + it.delay + m
    BY <1>5, <2>1, Zenon
  <2>3. now <= it.since + PacketInterval
    BY <1>5, Zenon
  <2>4. now <= lookedUp + it.delay + m
    <3>1. PICK a \in Nat, d \in Nat : a = it.since /\ d = it.delay
      BY <1>4, Zenon
    <3>2. a + PacketInterval <= lookedUp + d + m /\ now <= a + PacketInterval
      BY <2>2, <2>3, <3>1, Zenon
    <3>3. now <= lookedUp + d + m
      <4>1. now \in Nat /\ lookedUp \in Nat /\ PacketInterval \in Nat
        BY <1>4, Zenon
      <4> QED BY <3>2, <4>1
    <3> QED BY <3>1, <3>3, Zenon
  <2> QED BY <2>1, <2>4, Zenon
<1>8. CASE ctx # "live"
  <2>1. SetItem(i, Conclude(it, FALSE))
    BY <1>1, <1>8, Zenon DEF PauseEnds
  <2>2. ctx = "cancelled" \/ lookedUp > 0 \/ it.delay > 0
    <3>1. ctx = "cancelled" \/ now >= Timeout
      BY <1>8, Zenon DEF RunInv, RunTypeOK, ClockInv
    <3>2. PICK m \in Nat : m = it.sent * PacketInterval
      BY <1>6, Zenon
    <3>3. m < Timeout /\ now <= lookedUp + it.delay + m
      BY <1>6, <1>7, <3>2, Zenon
    <3> QED BY <1>4, <3>1, <3>3
  <2>3. FALSE <=> "fatal" \in Range(it.hist)
    BY <1>3, Zenon
  <2>4. /\ Conclude(it, FALSE) \in Item /\ ItemInv(Conclude(it, FALSE))
        /\ Conclude(it, FALSE).entry = it.entry /\ Conclude(it, FALSE).ip = it.ip
    BY <1>2, <1>3, <2>2, <2>3, ConcludeInv, Zenon
  <2> QED BY <1>1, <1>2, <2>1, <2>4, SetItemInv, Zenon
<1>9. CASE ctx = "live"
  <2> DEFINE r == [it EXCEPT !.st = "attempt", !.since = now]
  <2>1. SetItem(i, r)
    BY <1>1, <1>9, Zenon DEF PauseEnds
  <2>2. /\ r \in Item /\ r.entry = it.entry /\ r.ip = it.ip /\ r.hist = it.hist /\ r.sent = it.sent
        /\ r.rcvd = it.rcvd /\ r.open = it.open /\ r.st = "attempt" /\ r.since = now
        /\ r.delay = it.delay /\ r.status = it.status /\ r.etype = it.etype /\ r.loss = it.loss
        /\ r.port = it.port /\ r.dur = it.dur
    BY <1>4, Zenon DEF Item
  <2>3. Answered(r) = Answered(it)
    BY <2>2, Zenon DEF Answered
  <2> HIDE DEF r
  <2>4. Timely(r)
    <3>1. now <= Timeout /\ Timeout <= Limit /\ Limit \in Nat
      BY <1>9, LimitIs, Zenon DEF RunInv, ClockInv
    <3> QED BY <1>2, <1>4, <2>2, <3>1 DEF Timely
  <2>5. Tallied(r)
    <3>1. r.st \notin {"new", "done", "pause"} /\ it.st # "done"
      BY <1>2, <2>2, Zenon
    <3> QED BY <1>1, <1>2, <1>3, <2>2, <2>3, <3>1, ZenonT(30) DEF ItemInv, Tallied
  <2>6. Scheduled(r)
    <3>1. r.since <= lookedUp + r.delay + r.sent * PacketInterval
      BY <1>7, <2>2, Zenon
    <3> QED BY <2>2, <3>1, Zenon DEF Scheduled
  <2>7. Told(r)
    BY <1>3, <2>2, Zenon DEF Told, Unresolved
  <2> QED BY <1>1, <1>2, <2>1, <2>2, <2>4, <2>5, <2>6, <2>7, SetItemInv, Zenon DEF ItemInv
<1> QED BY <1>8, <1>9, Zenon

\* The pinger returns.
LEMMA PingEndsInv ==
  ASSUME RunInv, NEW i \in 1..Len(items), PingEnds(i)
  PROVE  RunInv'
<1>1. PICK it \in Item : it = items[i] /\ ItemInv(it)
  BY DEF RunInv, RunTypeOK, ItemsInv
<1>2. pc = "probing" /\ it.st = "attempt" /\ kind \notin LoopKinds /\ kind = "icmp"
  BY <1>1, Zenon DEF PingEnds, Running, LoopKinds
<1>3. it.hist = <<>> /\ ~Unresolved(it)
  BY <1>1, <1>2, Zenon DEF ItemInv, Tallied, Told
<1>4. ASSUME NEW e \in ErrorTypes, SetItem(i, Failed(it, e)) PROVE RunInv'
  BY <1>1, <1>2, <1>3, <1>4, FailedInv, SetItemInv, Zenon
<1>5. {"run_error", "init_error", "timeout", ""} \subseteq ErrorTypes
  BY Zenon DEF ErrorTypes
<1>6. ASSUME NEW s \in 1..Count, NEW r \in 0..s,
             SetItem(i, [it EXCEPT !.st = "done", !.sent = s, !.rcvd = r,
                           !.loss = LossRatio(s, r), !.status = StatusFromLoss(LossRatio(s, r))])
      PROVE  RunInv'
  <2> DEFINE x == [it EXCEPT !.st = "done", !.sent = s, !.rcvd = r,
                     !.loss = LossRatio(s, r), !.status = StatusFromLoss(LossRatio(s, r))]
  <2>1. /\ LossRatio(s, r) \in Losses /\ StatusFromLoss(LossRatio(s, r)) \in Statuses \ {""}
        /\ s \in Nat /\ r \in Nat /\ s <= MaxSent /\ r <= s
    BY <1>2, MaxSentIs DEF LossRatio, StatusFromLoss, Losses, Statuses, ProbeRunAssumption
  <2>2. /\ x \in Item /\ x.entry = it.entry /\ x.ip = it.ip /\ x.hist = it.hist /\ x.sent = s
        /\ x.rcvd = r /\ x.st = "done" /\ x.status # "" /\ SetItem(i, x)
    BY <1>6, <2>1, Zenon DEF Item
  <2> HIDE DEF x
  <2>3. Timely(x) /\ Scheduled(x)
    BY <1>2, <2>2, Zenon DEF Timely, Scheduled
  <2>4. Tallied(x)
    BY <1>2, <2>1, <2>2, Zenon DEF Tallied
  <2>5. Told(x)
    BY <1>3, <2>2, Zenon DEF Told, Unresolved
  <2> QED BY <1>1, <1>2, <2>2, <2>3, <2>4, <2>5, SetItemInv, Zenon DEF ItemInv
<1>7. \/ SetItem(i, Failed(it, "run_error")) \/ SetItem(i, Failed(it, "init_error"))
      \/ SetItem(i, Failed(it, "timeout")) \/ SetItem(i, Failed(it, ""))
      \/ \E s \in 1..Count : \E r \in 0..s :
           SetItem(i, [it EXCEPT !.st = "done", !.sent = s, !.rcvd = r,
                         !.loss = LossRatio(s, r), !.status = StatusFromLoss(LossRatio(s, r))])
  BY <1>1, Zenon DEF PingEnds
<1> QED BY <1>4, <1>5, <1>6, <1>7, Zenon

\* The result x of item it's request, which met o.
Reported(x, it, o) ==
  /\ x.entry = it.entry /\ x.ip = it.ip /\ x.st = "done" /\ x.port = it.port /\ x.hist = <<o>>
  /\ x.sent <= MaxSent /\ x.rcvd <= x.sent /\ x.status # ""
  /\ o = "unbuilt" => x.status = "error" /\ x.dur = FALSE
  /\ o = "silent" => /\ x.loss = "all" /\ x.dur = FALSE
                     /\ x.status = "failure" \/ (x.status = "error" /\ ctx # "live")
  /\ o = "mismatch" => x.loss = "all" /\ x.dur = TRUE /\ x.status = "failure"
  /\ o \in {"good", "expiring", "expired"} =>
       x.loss = "zero" /\ x.dur = TRUE /\ x.status = HttpStatus(o)

\* The request ends.
LEMMA RequestEndsInv ==
  ASSUME RunInv, NEW i \in 1..Len(items), RequestEnds(i)
  PROVE  RunInv'
<1>1. PICK it \in Item : it = items[i] /\ ItemInv(it)
  BY DEF RunInv, RunTypeOK, ItemsInv
<1>2. pc = "probing" /\ it.st = "attempt" /\ kind \notin LoopKinds /\ kind = "http"
  BY <1>1, Zenon DEF RequestEnds, Running, LoopKinds
<1>3. /\ it.port = "nil" /\ it.dur = FALSE /\ it.rcvd = 0 /\ ~Unresolved(it)
      /\ it.since <= now /\ now \in Nat /\ now - it.since \in Nat
  <2>1. it.port = "nil" /\ it.dur = FALSE /\ it.rcvd = 0 /\ ~Unresolved(it)
    <3>1. it.port = "nil" /\ it.dur = FALSE /\ it.sent = 0 /\ it.rcvd <= it.sent
      BY <1>1, <1>2, Zenon DEF ItemInv, Tallied
    <3>2. it.rcvd \in Nat
      BY Zenon DEF Item
    <3>3. ~Unresolved(it)
      BY <1>1, <1>2, Zenon DEF ItemInv, Told
    <3> QED BY <3>1, <3>2, <3>3
  <2>2. it.since <= now /\ now \in Nat /\ it.since \in Nat
    BY <1>1, <1>2, Zenon DEF ItemInv, Timely, RunInv, RunTypeOK, Item
  <2> QED BY <2>1, <2>2
<1> DEFINE c(o) == [it EXCEPT !.sent = 1, !.st = "done", !.hist = <<o>>, !.delay = now - it.since]
           r(o) == CASE o = "unbuilt" -> Failed([c(o) EXCEPT !.sent = 0], "init_error")
              [] o = "silent" /\ ctx # "live" ->
                   [Failed(c(o), "cancelled") EXCEPT !.loss = "all"]
              [] o = "silent" /\ ctx = "live" ->
                   [c(o) EXCEPT !.loss = "all", !.status = "failure", !.etype = "network_error"]
              [] OTHER ->
                   [c(o) EXCEPT !.rcvd = IF o = "mismatch" THEN 0 ELSE 1,
                              !.loss = IF o = "mismatch" THEN "all" ELSE "zero",
                              !.status = HttpStatus(o), !.dur = TRUE]
<1>4. PICK o \in HttpMeets(it) : SetItem(i, r(o))
  BY <1>1, Zenon DEF RequestEnds
<1>5. o \in {"unbuilt", "silent", "mismatch", "good", "expiring", "expired"}
  BY Zenon DEF HttpMeets
<1>6. {"error", "failure", "success", "partial"} \subseteq Statuses
      /\ {"init_error", "cancelled", "network_error"} \subseteq ErrorTypes
      /\ {"all", "zero"} \subseteq Losses /\ o \in Outcomes
      /\ HttpStatus(o) \in {"failure", "success", "partial"}
  BY <1>5, Zenon DEF Statuses, ErrorTypes, Losses, Outcomes, HttpStatus
<1>7. PICK x \in Item : SetItem(i, x) /\ Reported(x, it, o)
  <2>1. <<o>> \in Seq(Outcomes) /\ MaxSent = 1
    BY <1>2, <1>6, MaxSentIs
  <2>2. /\ c(o) \in Item /\ c(o).entry = it.entry /\ c(o).ip = it.ip /\ c(o).st = "done"
        /\ c(o).port = it.port /\ c(o).hist = <<o>> /\ c(o).sent = 1 /\ c(o).rcvd = 0
        /\ c(o).dur = FALSE
    BY <1>3, <2>1, Zenon DEF Item
  <2>a. PICK y \in Item : y = c(o)
    BY <2>2, Zenon
  <2>b. /\ y.entry = it.entry /\ y.ip = it.ip /\ y.st = "done" /\ y.port = it.port
        /\ y.hist = <<o>> /\ y.sent = 1 /\ y.rcvd = 0 /\ y.dur = FALSE
    BY <2>2, <2>a, Zenon
  <2>c. y.sent <= MaxSent /\ y.rcvd <= y.sent /\ 0 <= MaxSent
    BY <2>1, <2>b
  <2>3. CASE o = "unbuilt"
    <3> DEFINE z == [y EXCEPT !.sent = 0]
               x == Failed(z, "init_error")
    <3>1. SetItem(i, x)
      BY <1>4, <2>a, <2>3, Zenon
    <3> HIDE DEF c, r
    <3>2. /\ z \in Item /\ z.entry = y.entry /\ z.ip = y.ip /\ z.port = y.port
          /\ z.hist = y.hist /\ z.sent = 0 /\ z.rcvd = y.rcvd /\ z.dur = y.dur
      BY Zenon DEF Item
    <3> HIDE DEF z
    <3>3. /\ x \in Item /\ x.entry = z.entry /\ x.ip = z.ip /\ x.port = z.port
          /\ x.hist = z.hist /\ x.sent = z.sent /\ x.rcvd = z.rcvd /\ x.dur = z.dur
          /\ x.status = "error" /\ x.st = "done"
      <4>1. "error" \in Statuses /\ "init_error" \in ErrorTypes
        BY <1>6, Zenon
      <4> QED BY <3>2, <4>1, Zenon DEF Failed, Item
    <3> HIDE DEF x
    <3>4. x.sent <= MaxSent /\ x.rcvd <= x.sent /\ x.status # ""
      BY <2>b, <2>c, <3>2, <3>3
    <3>5. o \notin {"silent", "mismatch", "good", "expiring", "expired"}
      BY <2>3, Zenon
    <3>6. Reported(x, it, o)
      BY <2>b, <3>2, <3>3, <3>4, <3>5, Zenon DEF Reported
    <3> QED BY <3>1, <3>3, <3>6, Zenon
  <2>4. CASE o = "silent" /\ ctx # "live"
    <3> DEFINE z == Failed(y, "cancelled")
               x == [z EXCEPT !.loss = "all"]
    <3>1. SetItem(i, x)
      BY <1>4, <2>a, <2>4, Zenon
    <3> HIDE DEF c, r
    <3>2. /\ z \in Item /\ z.entry = y.entry /\ z.ip = y.ip /\ z.port = y.port
          /\ z.hist = y.hist /\ z.sent = y.sent /\ z.rcvd = y.rcvd /\ z.dur = y.dur
          /\ z.status = "error" /\ z.st = "done"
      <4>1. "error" \in Statuses /\ "cancelled" \in ErrorTypes
        BY <1>6, Zenon
      <4> QED BY <4>1, Zenon DEF Failed, Item
    <3> HIDE DEF z
    <3>3. /\ x \in Item /\ x.entry = z.entry /\ x.ip = z.ip /\ x.port = z.port
          /\ x.hist = z.hist /\ x.sent = z.sent /\ x.rcvd = z.rcvd /\ x.dur = z.dur
          /\ x.status = z.status /\ x.st = z.st /\ x.loss = "all"
      <4>1. "all" \in Losses
        BY <1>6, Zenon
      <4> QED BY <3>2, <4>1, Zenon DEF Item
    <3> HIDE DEF x
    <3>4. x.sent <= MaxSent /\ x.rcvd <= x.sent /\ x.status # ""
      BY <2>c, <3>2, <3>3, Zenon
    <3>5. o \notin {"unbuilt", "mismatch", "good", "expiring", "expired"}
      BY <2>4, Zenon
    <3>6. Reported(x, it, o)
      BY <2>b, <2>4, <3>2, <3>3, <3>4, <3>5, Zenon DEF Reported
    <3> QED BY <3>1, <3>3, <3>6, Zenon
  <2>5. CASE o = "silent" /\ ctx = "live"
    <3> DEFINE x == [y EXCEPT !.loss = "all", !.status = "failure", !.etype = "network_error"]
    <3>1. SetItem(i, x)
      BY <1>4, <2>a, <2>5, Zenon
    <3> HIDE DEF c, r
    <3>2. /\ x \in Item /\ x.entry = y.entry /\ x.ip = y.ip /\ x.port = y.port
          /\ x.hist = y.hist /\ x.sent = y.sent /\ x.rcvd = y.rcvd
          /\ x.dur = y.dur /\ x.status = "failure" /\ x.st = y.st /\ x.loss = "all"
      <4>1. "all" \in Losses /\ "failure" \in Statuses /\ "network_error" \in ErrorTypes
        BY <1>6, Zenon
      <4> QED BY <4>1, Zenon DEF Item
    <3> HIDE DEF x
    <3>3. x.sent <= MaxSent /\ x.rcvd <= x.sent /\ x.status # ""
      BY <2>c, <3>2, Zenon
    <3>4. o \notin {"unbuilt", "mismatch", "good", "expiring", "expired"}
      BY <2>5, Zenon
    <3>5. Reported(x, it, o)
      BY <2>b, <2>5, <3>2, <3>3, <3>4, Zenon DEF Reported
    <3> QED BY <3>1, <3>2, <3>5, Zenon
  <2>6. CASE o \notin {"unbuilt", "silent"}
    <3> DEFINE n == IF o = "mismatch" THEN 0 ELSE 1
               l == IF o = "mismatch" THEN "all" ELSE "zero"
               x == [y EXCEPT !.rcvd = n, !.loss = l, !.status = HttpStatus(o), !.dur = TRUE]
    <3>1. SetItem(i, x)
      BY <1>4, <2>a, <2>6, Zenon
    <3>2. n \in Nat /\ n <= 1 /\ l \in Losses
      BY <1>6
    <3>3. /\ o = "mismatch" => HttpStatus(o) = "failure" /\ l = "all"
          /\ o # "mismatch" => l = "zero"
      BY Zenon DEF HttpStatus
    <3> HIDE DEF c, r, n, l
    <3>4. /\ x \in Item /\ x.entry = y.entry /\ x.ip = y.ip /\ x.port = y.port
          /\ x.hist = y.hist /\ x.sent = y.sent /\ x.rcvd = n
          /\ x.dur = TRUE /\ x.status = HttpStatus(o) /\ x.st = y.st /\ x.loss = l
      <4>1. HttpStatus(o) \in Statuses
        BY <1>6, Zenon
      <4> QED BY <3>2, <4>1, Zenon DEF Item
    <3> HIDE DEF x
    <3>5. x.sent <= MaxSent /\ x.rcvd <= x.sent /\ x.status # ""
      BY <1>6, <2>b, <2>c, <3>2, <3>4, Zenon
    <3>6. "mismatch" \notin {"good", "expiring", "expired"}
      OBVIOUS
    <3>7. Reported(x, it, o)
      BY <2>6, <2>b, <3>3, <3>4, <3>5, <3>6, Zenon DEF Reported
    <3> QED BY <3>1, <3>4, <3>7, Zenon
  <2> QED BY <2>3, <2>4, <2>5, <2>6, Zenon
<1> HIDE DEF c, r
<1>8. Timely(x) /\ Scheduled(x)
  BY <1>2, <1>7, Zenon DEF Reported, Timely, Scheduled
<1>9. Tallied(x)
  BY <1>2, <1>7, Zenon DEF Reported, Tallied
<1>10. Told(x)
  <2>1. x.hist[1] = o
    <3>1. x.hist = <<o>>
      BY <1>7, Zenon DEF Reported
    <3> QED BY <3>1
  <2>2. HttpTold(x)
    <3>1. x.port = "nil"
      BY <1>3, <1>7, Zenon DEF Reported
    <3> QED BY <1>5, <1>7, <2>1, <3>1, Zenon DEF Reported, HttpTold
  <2> QED BY <1>2, <1>3, <1>7, <2>2, Zenon DEF Reported, Told, Unresolved
<1> QED BY <1>1, <1>2, <1>7, <1>8, <1>9, <1>10, SetItemInv, Zenon DEF Reported, ItemInv

\* The next entry is expanded: the items there were are still fresh, and the new
\* ones are the entry's.
LEMMA ExpandNextInv == RunInv /\ ExpandNext => RunInv'
<1> SUFFICES ASSUME RunInv, ExpandNext PROVE RunInv'
  OBVIOUS
<1>1. PICK addrs \in Expansions(targets[next]) :
        items' = items \o [k \in 1..Len(addrs) |-> NewItem(next, addrs[k])]
  BY Zenon DEF ExpandNext
<1>2. /\ pc = "expanding" /\ next' = next + 1 /\ lookedUp' = now
      /\ pc' = IF next = Len(targets) THEN "probing" ELSE pc
      /\ UNCHANGED <<kind, targets, now, ctx, noServer>>
  BY Zenon DEF ExpandNext
<1>3. RunTypeOK
  BY Zenon DEF RunInv
<1> DEFINE L == Len(items)
           n == Len(addrs)
<1>4. /\ items' \in Seq(Item) /\ L \in Nat /\ Len(items') = L + n
      /\ \A k \in 1..L : items'[k] = items[k]
      /\ \A k \in 1..n : items'[L + k] = NewItem(next, addrs[k])
  BY <1>1, <1>2, <1>3, ExpandedItems, Zenon
<1>5. /\ addrs \in Seq(Entries) /\ n \in Nat \ {0}
      /\ \/ addrs = <<targets[next]>>
         \/ /\ ~Verbatim(targets[next])
            /\ \E a \in Answers[targets[next]] :
                 a \in Seq(Address) /\ SeenInv(addrs, a, Len(a))
  BY <1>1, <1>2, <1>3, ExpansionType, Zenon
<1>6. next \in Nat /\ next > 0 /\ next <= Len(targets) /\ Len(targets) \in Nat /\ now \in Nat
  BY <1>2, <1>3 DEF RunTypeOK, ProbeRunAssumption
<1>7. now <= Timeout
  BY <1>2, Zenon DEF RunInv, ClockInv
<1>8. \A k \in 1..n : items'[L + k].entry = next /\ items'[L + k].ip = addrs[k]
  <2>1. \A j, a : NewItem(j, a).entry = j /\ NewItem(j, a).ip = a
    BY Zenon DEF NewItem
  <2> QED BY <1>4, <2>1
<1>9. \A k \in 1..(L + n) : k \in 1..L \/ \E m \in 1..n : k = L + m
  <2> SUFFICES ASSUME NEW k \in 1..(L + n), k \notin 1..L PROVE \E m \in 1..n : k = L + m
    OBVIOUS
  <2>1. k - L \in 1..n /\ k = L + (k - L)
    BY <1>4, <1>5
  <2> QED BY <2>1, Zenon
<1> HIDE DEF L, n
<1>10. RunTypeOK'
  <2>1. pc' \in {"expanding", "probing", "returned"} /\ (pc' = "expanding" => next' <= Len(targets'))
    BY <1>2, <1>6
  <2>2. next' \in Nat \ {0} /\ lookedUp' \in Nat
    BY <1>2, <1>6
  <2> QED BY <1>2, <1>3, <1>4, <2>1, <2>2, Zenon DEF RunTypeOK
<1>11. ClockInv'
  BY <1>2, <1>6 DEF RunInv, ClockInv
<1>12. ItemsInv'
  <2> SUFFICES ASSUME NEW k \in 1..(L + n) PROVE ItemInv(items[k])'
    BY <1>4, Zenon DEF ItemsInv
  <2>1. PICK x \in Item : x = items'[k] /\ x.st = "new" /\ Tallied(x)
    <3>1. CASE k \in 1..L
      <4>1. ItemInv(items[k]) /\ items[k] \in Item
        BY <3>1 DEF RunInv, RunTypeOK, ItemsInv, L
      <4>2. items[k].st = "new" /\ Tallied(items[k])
        BY <1>2, <4>1, Zenon DEF ItemInv, Timely
      <4> QED BY <1>4, <3>1, <4>1, <4>2, Zenon
    <3>2. ASSUME NEW m \in 1..n, k = L + m PROVE items'[k] \in Item /\ items'[k].st = "new" /\ Tallied(items'[k])
      <4>1. items'[k] = NewItem(next, addrs[m])
        BY <1>4, <3>2, Zenon
      <4>2. PICK x : x = NewItem(next, addrs[m])
        OBVIOUS
      <4>3. x \in Item
        <5>1. addrs[m] \in Entries
          <6>1. addrs \in Seq(Entries) /\ n = Len(addrs)
            BY <1>5, Zenon DEF n
          <6> QED BY <6>1
        <5>2. next \in Nat
          BY <1>6, Zenon
        <5> QED BY <4>2, <5>1, <5>2, NewItemType, Zenon
      <4>4. /\ x.st = "new" /\ x.sent = 0 /\ x.rcvd = 0 /\ x.hist = <<>> /\ x.delay = 0
            /\ x.loss = "zero" /\ x.port = "nil" /\ x.status = "" /\ x.etype = ""
        BY <4>2, Zenon DEF NewItem
      <4>b. x.open = FALSE /\ x.dur = FALSE
        BY <4>2, Zenon DEF NewItem
      <4>c. x.hist = <<>>
        BY <4>4, Zenon
      <4>d. x.st = "new"
        BY <4>4, Zenon
      <4>5. Answered(x) = {} /\ "fatal" \notin Range(x.hist) /\ "open" \notin Range(x.hist)
        BY <4>c DEF Answered, Range
      <4>6. Cardinality(Answered(x)) = 0 /\ Len(x.hist) = 0
        BY <4>4, <4>5, FS_EmptySet, Zenon
      <4>7. 0 <= MaxSent
        BY MaxSentIs
      <4>8. 0 <= 0 /\ x.st \notin {"attempt", "pause", "done"}
        BY <4>d
      <4>9. Tallied(x)
        BY <4>4, <4>b, <4>5, <4>6, <4>7, <4>8, Zenon DEF Tallied
      <4> QED BY <4>1, <4>2, <4>3, <4>4, <4>9, Zenon
    <3> QED BY <1>9, <3>1, <3>2, Zenon
  <2>2. Timely(items[k])'
    BY <1>2, <1>7, <2>1, Zenon DEF Timely
  <2>3. Scheduled(items[k])' /\ Told(items[k])'
    BY <2>1, Zenon DEF Scheduled, Told
  <2>4. Tallied(items[k])'
    <3>1. Answered(items[k])' = Answered(x)
      BY <2>1, Zenon DEF Answered
    <3> QED BY <1>2, <2>1, <3>1, Zenon DEF Tallied, MaxSent
  <2> QED BY <2>2, <2>3, <2>4, Zenon DEF ItemInv
<1>13. EntriesInv'
  <2>0. /\ \A i \in 1..L : items[i].entry \in 1..(next - 1)
        /\ \A i, k \in 1..L : i < k => items[i].entry <= items[k].entry
        /\ \A j \in 1..(next - 1) : Covered(j)
    BY Zenon DEF RunInv, EntriesInv, L
  <2>1. ASSUME NEW i \in 1..(L + n) PROVE items'[i].entry \in 1..next
    <3>1. ASSUME i \in 1..L PROVE items'[i].entry \in 1..(next - 1)
      BY <1>4, <2>0, <3>1, Zenon
    <3>2. i \notin 1..L => items'[i].entry = next
      BY <1>8, <1>9, Zenon
    <3> QED BY <1>6, <3>1, <3>2
  <2>2. ASSUME NEW i \in 1..(L + n), NEW k \in 1..(L + n), i < k
        PROVE  items'[i].entry <= items'[k].entry
    <3>1. CASE k \in 1..L
      <4>1. i \in 1..L
        BY <1>4, <2>2, <3>1
      <4> QED BY <1>4, <2>0, <2>2, <3>1, <4>1, Zenon
    <3>2. CASE k \notin 1..L
      <4>1. items'[k].entry = next
        BY <1>8, <1>9, <3>2, Zenon
      <4> QED BY <1>6, <2>1, <4>1
    <3> QED BY <3>1, <3>2, Zenon
  <2>3. ASSUME NEW j \in 1..(next - 1) PROVE Covered(j)'
    <3>1. \A i \in 1..(L + n) : items'[i].entry = j => i \in 1..L
      BY <1>6, <1>8, <1>9
    <3>2. Mine(j)' = Mine(j)
      BY <1>4, <1>5, <3>1 DEF Mine, L
    <3>3. \A i \in Mine(j) : items'[i] = items[i]
      BY <1>4, Zenon DEF Mine, L
    <3>4. IpsOf(j)' = IpsOf(j)
      BY <3>2, <3>3, Zenon DEF IpsOf
    <3> QED BY <1>2, <2>0, <3>2, <3>3, <3>4 DEF Covered, Verbatim
  <2>e. PICK e \in Nat : e = next
    BY <1>6, Zenon
  <2>f. /\ \/ addrs = <<targets[e]>>
           \/ /\ ~Verbatim(targets[e])
              /\ \E a \in Answers[targets[e]] :
                   a \in Seq(Address) /\ SeenInv(addrs, a, Len(a))
        /\ \A k \in 1..n : items'[L + k].entry = e /\ items'[L + k].ip = addrs[k]
        /\ \A i \in 1..L : items'[i].entry # e
    <3>1. \A i \in 1..L : items'[i].entry # next
      BY <1>4, <1>6, <2>0
    <3> QED BY <1>5, <1>8, <2>e, <3>1, Zenon
  <2>4. Covered(e)'
    <3>1. Mine(e)' = (L + 1)..(L + n)
      <4>3. ASSUME NEW i \in (L + 1)..(L + n) PROVE i \in 1..(L + n) /\ items'[i].entry = e
        <5>1. i - L \in 1..n /\ i = L + (i - L) /\ i \in 1..(L + n)
          BY <1>4, <1>5
        <5> QED BY <2>f, <5>1, Zenon
      <4>4. \A i \in 1..(L + n) : i \in 1..L \/ i \in (L + 1)..(L + n)
        BY <1>4, <1>5
      <4> QED BY <1>4, <2>f, <4>3, <4>4, Zenon DEF Mine
    <3>2. Cardinality(Mine(e)') = n
      <4>1. Cardinality((L + 1)..(L + n)) = (L + n) - (L + 1) + 1
        BY <1>4, <1>5, FS_Interval
      <4> QED BY <1>4, <1>5, <3>1, <4>1
    <3>3. \A i \in Mine(e)' : \E m \in 1..n : i = L + m /\ items'[i].ip = addrs[m]
      <4> SUFFICES ASSUME NEW i \in (L + 1)..(L + n)
                   PROVE  \E m \in 1..n : i = L + m /\ items'[i].ip = addrs[m]
        BY <3>1, Zenon
      <4>1. i - L \in 1..n /\ i = L + (i - L)
        BY <1>4, <1>5
      <4> QED BY <2>f, <4>1, Zenon
    <3>4. \A m \in 1..n : L + m \in Mine(e)' /\ items'[L + m].ip = addrs[m]
      BY <1>4, <1>5, <2>f, <3>1
    <3>5. IpsOf(e)' = {addrs[m] : m \in 1..n}
      BY <3>3, <3>4 DEF IpsOf
    <3>6. Mine(e)' # {}
      BY <1>5, <3>4
    <3>7. ASSUME \A m, q \in 1..n : addrs[m] = addrs[q] => m = q
          PROVE  \A i, k \in Mine(e)' : items'[i].ip = items'[k].ip => i = k
      BY <3>3, <3>7, Zenon
    <3>8. CASE addrs = <<targets[e]>>
      <4>1. n = 1 /\ addrs[1] = targets[e]
        BY <3>8, Zenon DEF n
      <4>2. IpsOf(e)' = {targets[e]}
        BY <3>5, <4>1
      <4>3. \A i, k \in Mine(e)' : items'[i].ip = items'[k].ip => i = k
        BY <3>7, <4>1
      <4> QED BY <1>2, <3>6, <4>2, <4>3, Zenon DEF Covered
    <3>9. ASSUME ~Verbatim(targets[e]),
                 NEW a \in Answers[targets[e]], a \in Seq(Address), SeenInv(addrs, a, Len(a))
          PROVE  Covered(e)'
      <4>1. \A i, k \in Mine(e)' : items'[i].ip = items'[k].ip => i = k
        <5>1. \A m, q \in 1..n : addrs[m] = addrs[q] => m = q
          BY <3>9, Zenon DEF SeenInv, n
        <5> QED BY <3>7, <5>1, Zenon
      <4>2. MaxResolvedIPs \in Nat /\ (MaxResolvedIPs > 0 => n <= MaxResolvedIPs)
        BY <3>9, Zenon DEF SeenInv, n, ProbeRunAssumption
      <4>3. IpsOf(e)' \subseteq Range(a)
        <5>1. \A m \in 1..n : \E k \in 1..Len(a) : addrs[m] = a[k]
          BY <3>9, Zenon DEF SeenInv, n
        <5> QED BY <3>5, <5>1 DEF Range
      <4>4. IpsOf(e)' = Range(a) \/ n = MaxResolvedIPs
        <5>1. CASE MaxResolvedIPs > 0 /\ n >= MaxResolvedIPs
          BY <1>5, <4>2, <5>1
        <5>2. CASE ~(MaxResolvedIPs > 0 /\ n >= MaxResolvedIPs)
          <6>1. \A k \in 1..Len(a) : \E m \in 1..n : addrs[m] = a[k]
            BY <3>9, <5>2, Zenon DEF SeenInv, Capped, n
          <6>2. Range(a) \subseteq IpsOf(e)'
            BY <3>5, <6>1 DEF Range
          <6> QED BY <4>3, <6>2, Zenon
        <5> QED BY <5>1, <5>2, Zenon
      <4>5. ~Verbatim(targets[e])'
        BY <1>2, <3>9, Zenon DEF Verbatim
      <4> HIDE DEF n
      <4> QED BY <1>2, <3>2, <3>6, <3>9, <4>1, <4>2, <4>3, <4>4, <4>5, Zenon DEF Covered, Verbatim
    <3> QED BY <2>f, <3>8, <3>9, Zenon
  <2>5. \A j \in 1..next : j \in 1..(next - 1) \/ j = next
    BY <1>6
  <2>6. next' - 1 = next /\ (pc' # "expanding" => next' = Len(targets') + 1)
    BY <1>2, <1>6
  <2> QED BY <1>4, <2>1, <2>2, <2>3, <2>4, <2>e, <2>5, <2>6, Zenon DEF EntriesInv
<1> QED BY <1>10, <1>11, <1>12, <1>13, Zenon DEF RunInv

\* What a step of the context or the clock leaves as it was.
LEMMA ItemsStay ==
  ASSUME RunInv, UNCHANGED <<kind, targets, items, next, lookedUp>>,
         ctx' = ctx \/ (ctx = "live" /\ ctx' # "live"),
         (pc = "expanding") <=> (pc' = "expanding"),
         \A i \in 1..Len(items) : (Timely(items[i]) /\ Scheduled(items[i]))'
  PROVE  ItemsInv' /\ EntriesInv'
<1>1. ASSUME NEW i \in 1..Len(items) PROVE ItemInv(items[i])'
  <2>1. PICK x \in Item : x = items[i] /\ x = items'[i] /\ ItemInv(x)
    BY DEF RunInv, RunTypeOK, ItemsInv
  <2>2. Tallied(items[i])'
    <3>1. Answered(items[i])' = Answered(x)
      BY <2>1, Zenon DEF Answered
    <3> QED BY <2>1, <3>1, Zenon DEF ItemInv, Tallied, MaxSent
  <2>3. Told(items[i])'
    <3>1. Told(x)
      BY <2>1, Zenon DEF ItemInv
    <3>2. HttpTold(x) => HttpTold(items[i])'
      BY <2>1, Zenon DEF HttpTold
    <3> QED BY <2>1, <3>1, <3>2, Zenon DEF Told, LoopTold, Unresolved, Verbatim, PortOpen
  <2> QED BY <2>2, <2>3, Zenon DEF ItemInv
<1>2. \A j : Mine(j)' = Mine(j)
  BY Zenon DEF Mine
<1>3. \A j : IpsOf(j)' = IpsOf(j)
  BY <1>2, Zenon DEF IpsOf
<1>4. EntriesInv'
  BY <1>2, <1>3, Zenon DEF RunInv, EntriesInv, Covered, Verbatim
<1> QED BY <1>1, <1>4, Zenon DEF ItemsInv

\* The context expires or is cancelled; no work item has noticed yet.
LEMMA ContextInv == RunInv /\ (ContextExpires \/ ContextCancelled) => RunInv'
<1> SUFFICES ASSUME RunInv, ContextExpires \/ ContextCancelled PROVE RunInv'
  OBVIOUS
<1>1. /\ ctx = "live" /\ ctx' \in {"deadline", "cancelled"} /\ (ctx' = "deadline" => now >= Timeout)
      /\ UNCHANGED <<kind, targets, now, pc, next, noServer, items, lookedUp>>
  BY Zenon DEF ContextExpires, ContextCancelled
<1>2. RunTypeOK' /\ ClockInv'
  BY <1>1, Zenon DEF RunInv, RunTypeOK, ClockInv
<1>3. ASSUME NEW i \in 1..Len(items) PROVE (Timely(items[i]) /\ Scheduled(items[i]))'
  <2>1. Timely(items[i]) /\ Scheduled(items[i])
    BY Zenon DEF RunInv, ItemsInv, ItemInv
  <2> QED BY <1>1, <2>1, Zenon DEF Timely, Scheduled, Limit
<1>4. ItemsInv' /\ EntriesInv'
  BY <1>1, <1>3, ItemsStay, Zenon
<1> QED BY <1>2, <1>4, Zenon DEF RunInv

\* RunWorkItems returns when all goroutines are done.
LEMMA ReturnInv == RunInv /\ ReturnResults => RunInv'
<1> SUFFICES ASSUME RunInv, ReturnResults PROVE RunInv'
  OBVIOUS
<1>1. /\ pc = "probing" /\ pc' = "returned" /\ \A i \in 1..Len(items) : items[i].st = "done"
      /\ UNCHANGED <<kind, targets, now, ctx, next, noServer, items, lookedUp>>
  BY Zenon DEF ReturnResults
<1>2. RunTypeOK' /\ ClockInv'
  BY <1>1, Zenon DEF RunInv, RunTypeOK, ClockInv
<1>3. ASSUME NEW i \in 1..Len(items) PROVE (Timely(items[i]) /\ Scheduled(items[i]))'
  <2>1. Timely(items[i]) /\ Scheduled(items[i])
    BY Zenon DEF RunInv, ItemsInv, ItemInv
  <2> QED BY <1>1, <2>1, Zenon DEF Timely, Scheduled, Limit
<1>4. ItemsInv' /\ EntriesInv'
  BY <1>1, <1>3, ItemsStay, Zenon
<1> QED BY <1>2, <1>4, Zenon DEF RunInv

\* Time passes only when no goroutine has to move.
LEMMA TickInv == RunInv /\ Tick => RunInv'
<1> SUFFICES ASSUME RunInv, Tick PROVE RunInv'
  OBVIOUS
<1>1. /\ pc # "returned" /\ (ctx = "live" => now < Timeout) /\ now' = now + 1
      /\ pc = "expanding" => ctx = "live"
      /\ pc = "probing" => \A i \in 1..Len(items) : ~Due(items[i])
      /\ UNCHANGED <<kind, targets, ctx, pc, next, noServer, items, lookedUp>>
  BY Zenon DEF Tick
<1>2. now \in Nat /\ Timeout \in Nat /\ lookedUp \in Nat /\ PacketInterval \in Nat
  BY Zenon DEF RunInv, RunTypeOK, ProbeRunAssumption
<1>3. RunTypeOK' /\ ClockInv'
  BY <1>1, <1>2 DEF RunInv, RunTypeOK, ClockInv
<1>4. ASSUME NEW i \in 1..Len(items) PROVE (Timely(items[i]) /\ Scheduled(items[i]))'
  <2>1. PICK x \in Item : x = items[i] /\ x = items'[i] /\ Timely(x) /\ Scheduled(x)
    BY <1>1 DEF RunInv, RunTypeOK, ItemsInv, ItemInv
  <2>2. CASE pc = "expanding"
    <3>1. x.st = "new"
      BY <2>1, <2>2, Zenon DEF Timely
    <3>a. now < Timeout /\ now' = now + 1
      BY <1>1, <2>2, Zenon
    <3>2. now' <= Timeout
      BY <1>2, <3>a
    <3> QED BY <1>1, <2>1, <2>2, <3>1, <3>2, Zenon DEF Timely, Scheduled
  <2>3. CASE pc = "probing"
    <3>1. ~Due(x)
      BY <1>1, <2>1, <2>3, Zenon
    <3>2. x.st # "new"
      BY <3>1, Zenon DEF Due
    <3>3. ASSUME x.st = "attempt" PROVE x.since <= now' /\ now' <= Limit /\ x.since <= Timeout
      <4>1. x.since <= now /\ x.since <= Timeout /\ x.since \in Nat
        BY <2>1, <3>3, Zenon DEF Timely, Item
      <4>2. CASE kind \in {"icmp", "http", "connect"}
        <5>1. ~(now >= Timeout)
          BY <3>1, <3>3, <4>2, Zenon DEF Due
        <5> QED BY <1>1, <1>2, <4>1, <5>1, LimitIs
      <4>3. CASE kind \notin {"icmp", "http", "connect"}
        <5>1. ~(now >= GiveUp(x))
          BY <3>1, <3>3, <4>3, Zenon DEF Due
        <5> QED BY <1>1, <1>2, <4>1, <5>1, LimitIs DEF GiveUp
      <4> QED BY <4>2, <4>3, Zenon
    <3>4. ASSUME x.st = "pause"
          PROVE  /\ x.since <= now' /\ now' <= Limit
                 /\ now' <= x.since + PacketInterval
      <4>1. x.since <= now /\ x.since \in Nat
        BY <2>1, <3>4, Zenon DEF Timely, Item
      <4>2. ctx = "live" /\ ~(now >= x.since + PacketInterval)
        BY <3>1, <3>4, Zenon DEF Due, PauseOver
      <4> QED BY <1>1, <1>2, <4>1, <4>2, LimitIs
    <3>5. Limit' = Limit
      BY <1>1, Zenon DEF Limit
    <3>6. Timely(items[i])'
      BY <1>1, <2>1, <2>3, <3>2, <3>3, <3>4, <3>5, Zenon DEF Timely
    <3>7. Scheduled(items[i])'
      BY <1>1, <2>1, <3>4, Zenon DEF Scheduled
    <3> QED BY <3>6, <3>7, Zenon
  <2> QED BY <1>1, <2>2, <2>3, Zenon DEF RunInv, RunTypeOK
<1>5. ItemsInv' /\ EntriesInv'
  BY <1>1, <1>4, ItemsStay, Zenon
<1> QED BY <1>3, <1>5, Zenon DEF RunInv

\* A run begins with nothing expanded.
LEMMA RunInitInv == Init => RunInv
<1> SUFFICES ASSUME Init PROVE RunInv
  OBVIOUS
<1>1. Len(items) = 0 /\ items \in Seq(Item)
  BY DEF Init
<1>2. targets \in Seq(Entries) /\ targets # <<>>
  BY Zenon DEF Init, ProbeRunAssumption, Entries
<1>3. Len(targets) \in Nat /\ 1 <= Len(targets)
  BY <1>2
<1>4. RunTypeOK /\ ClockInv
  BY <1>1, <1>3 DEF Init, RunTypeOK, ClockInv, ProbeRunAssumption
<1>5. ItemsInv /\ EntriesInv
  BY <1>1 DEF Init, ItemsInv, EntriesInv
<1> QED BY <1>4, <1>5, Zenon DEF RunInv

\* Every step of a run keeps the invariant.
LEMMA RunNextInv == RunInv /\ [Next]_vars => RunInv'
<1> SUFFICES ASSUME RunInv, [Next]_vars PROVE RunInv'
  OBVIOUS
<1>1. CASE ExpandNext
  BY <1>1, ExpandNextInv, Zenon
<1>2. CASE ItemStep
  <2>1. PICK i \in 1..Len(items) :
          BeginItem(i) \/ AttemptEnds(i) \/ PauseEnds(i) \/ PingEnds(i) \/ RequestEnds(i)
    BY <1>2, Zenon DEF ItemStep
  <2> QED BY <2>1, BeginItemInv, AttemptEndsInv, PauseEndsInv, PingEndsInv, RequestEndsInv, Zenon
<1>3. CASE ReturnResults
  BY <1>3, ReturnInv, Zenon
<1>4. CASE ContextExpires \/ ContextCancelled
  BY <1>4, ContextInv, Zenon
<1>5. CASE Tick
  BY <1>5, TickInv, Zenon
<1>6. CASE UNCHANGED vars
  <2>1. /\ UNCHANGED <<kind, targets, items, next, lookedUp>>
        /\ UNCHANGED <<pc, ctx, now>>
    BY <1>6, Zenon DEF vars
  <2>2. RunTypeOK' /\ ClockInv'
    BY <2>1, Zenon DEF RunInv, RunTypeOK, ClockInv
  <2>3. ASSUME NEW i \in 1..Len(items) PROVE (Timely(items[i]) /\ Scheduled(items[i]))'
    <3>1. Timely(items[i]) /\ Scheduled(items[i])
      BY Zenon DEF RunInv, ItemsInv, ItemInv
    <3> QED BY <2>1, <3>1, Zenon DEF Timely, Scheduled, Limit
  <2>4. ItemsInv' /\ EntriesInv'
    BY <2>1, <2>3, ItemsStay, Zenon
  <2> QED BY <2>2, <2>4, Zenon DEF RunInv
<1> QED BY <1>1, <1>2, <1>3, <1>4, <1>5, <1>6, Zenon DEF Next, Done

\* The inductive invariant of a run.
THEOREM RunInvariance == Spec => []RunInv
<1>1. Init => RunInv
  BY RunInitInv, Zenon
<1>2. RunInv /\ [Next]_vars => RunInv'
  BY RunNextInv, Zenon
<1> QED BY <1>1, <1>2, PTL DEF Spec

-----------------------------------------------------------------------------
(* What it says of the results *)

\* The numbers of finished items are their attempts', and the deadline bounds
\* whatever is not finished.
THEOREM RunsAreBounded == Spec => []RunBounded
<1>1. RunInv => RunBounded
  <2> SUFFICES ASSUME RunInv, pc # "expanding", NEW i \in 1..Len(items)
               PROVE  /\ items[i].st # "done" =>
                           now <= (IF kind = "udp" THEN 2 ELSE 1) * Timeout
                      /\ items[i].sent <= MaxSent /\ items[i].rcvd <= items[i].sent
    BY Zenon DEF RunBounded
  <2>1. PICK x \in Item : x = items[i] /\ ItemInv(x)
    BY DEF RunInv, RunTypeOK, ItemsInv
  <2>2. x.sent <= MaxSent /\ x.rcvd <= x.sent
    BY <2>1, Zenon DEF ItemInv, Tallied
  <2>3. ASSUME x.st # "done" PROVE now <= Limit
    <3>1. x.st \in {"new", "attempt", "pause"}
      BY <2>3, Zenon DEF Item
    <3>2. /\ x.st = "new" => now <= Timeout
          /\ x.st \in {"attempt", "pause"} => now <= Limit
      BY <2>1, Zenon DEF ItemInv, Timely
    <3>3. now \in Nat /\ Timeout \in Nat /\ Limit \in Nat /\ Timeout <= Limit
      BY LimitIs, Zenon DEF RunInv, RunTypeOK, ProbeRunAssumption
    <3> QED BY <3>1, <3>2, <3>3
  <2> QED BY <2>1, <2>2, <2>3, Zenon DEF Limit
<1> QED BY <1>1, RunInvariance, PTL

\* A run that nothing held up has made all its attempts (RunLoop): its lookups took
\* no time, no attempt took more than its share, and none was fatal.
THEOREM PromptRuns == Spec => []PromptRunsComplete
<1>1. RunInv => PromptRunsComplete
  BY Zenon DEF RunInv, ItemsInv, ItemInv, Scheduled, PromptRunsComplete, Finished
<1> QED BY <1>1, RunInvariance, PTL

\* The gauges tell what the attempts of a loop met.
THEOREM GaugesTell == Spec => []GaugesTellOutcome
<1>1. RunInv => GaugesTellOutcome
  <2> SUFFICES ASSUME RunInv, kind \in LoopKinds,
                      NEW i \in {j \in Finished : items[j].hist # <<>>}
               PROVE  LET g == Gauges(kind, items[i])
                          h == items[i].hist
                          answered == Cardinality(Answered(items[i]))
                          error == answered = 0 /\ "fatal" \in Range(h)
                      IN /\ g.up <=> answered > 0
                         /\ g.success <=> answered = Len(h)
                         /\ g.rtt = "NaN" <=> ~g.up
                         /\ g.loss = "NaN" <=> error
                         /\ g.loss = "all" <=> answered = 0 /\ ~error
                         /\ g.port = "NaN" <=> error \/ kind \notin PortKinds
                         /\ g.port = "true" <=> "open" \in Range(h) /\ kind \in PortKinds
    BY Zenon DEF GaugesTellOutcome
  <2>1. PICK x \in Item : x = items[i] /\ ItemInv(x) /\ x.st = "done" /\ x.hist # <<>>
    BY DEF RunInv, RunTypeOK, ItemsInv, Finished
  <2>2. /\ x.sent = Len(x.hist) /\ x.rcvd = Cardinality(Answered(x)) /\ x.rcvd <= x.sent
        /\ x.sent \in Nat /\ x.rcvd \in Nat /\ x.sent > 0
    <3>1. x.sent = Len(x.hist) /\ x.rcvd = Cardinality(Answered(x)) /\ x.rcvd <= x.sent
      BY <2>1, Zenon DEF ItemInv, Tallied
    <3>2. x.hist \in Seq(Outcomes) /\ x.sent \in Nat /\ x.rcvd \in Nat
      BY Zenon DEF Item
    <3>3. Len(x.hist) # 0
      BY <2>1, <3>2
    <3> QED BY <3>1, <3>2, <3>3
  <2>3. x.open <=> "open" \in Range(x.hist)
    BY <2>1, Zenon DEF ItemInv, Tallied
  <2>4. LoopTold(x)
    BY <2>1, Zenon DEF ItemInv, Told
  <2> DEFINE g == Gauges(kind, x)
             error == x.rcvd = 0 /\ "fatal" \in Range(x.hist)
  <2>5. /\ g.up <=> x.rcvd > 0
        /\ g.success <=> x.rcvd = x.sent
        /\ g.rtt = "NaN" <=> ~g.up
        /\ g.loss = "NaN" <=> error
        /\ g.loss = "all" <=> x.rcvd = 0 /\ ~error
        /\ g.port = "NaN" <=> error \/ kind \notin PortKinds
        /\ g.port = "true" <=> x.open /\ kind \in PortKinds
    <3>0. kind # "http" /\ (error => ~x.open)
      <4>1. kind # "http"
        BY Zenon DEF LoopKinds
      <4>2. ASSUME error, "open" \in Range(x.hist) PROVE FALSE
        <5>1. PICK k \in 1..Len(x.hist) : x.hist[k] = "open"
          BY <4>2 DEF Range
        <5>2. k \in Answered(x)
          BY <5>1, Zenon DEF Answered
        <5>3. IsFiniteSet(Answered(x))
          <6>1. Answered(x) \subseteq 1..Len(x.hist)
            BY Zenon DEF Answered
          <6>2. IsFiniteSet(1..Len(x.hist))
            <7>1. 1 \in Int /\ Len(x.hist) \in Int
              BY <2>2
            <7> QED BY <7>1, FS_Interval, Zenon
          <6> QED BY <6>1, <6>2, FS_Subset, Zenon
        <5> QED BY <2>2, <4>2, <5>2, <5>3, FS_EmptySet, Zenon
      <4> QED BY <2>3, <4>1, <4>2, Zenon
    <3>a. /\ g.up = IsUp(x.status) /\ g.success = (x.status = "success")
          /\ g.rtt = IF x.rcvd > 0 THEN "measured" ELSE "NaN"
          /\ g.loss = IF x.status # "error" THEN x.loss ELSE "NaN"
          /\ g.port = IF x.port # "nil" THEN x.port ELSE "NaN"
      BY <3>0, Zenon DEF Gauges, Measured
    <3> HIDE DEF g
    <3>1. CASE error
      <4>1. x.status = "error" /\ x.port = "nil"
        BY <2>4, <3>1, Zenon DEF LoopTold
      <4>2. ~g.up /\ ~g.success
        BY <3>a, <4>1, Zenon DEF IsUp
      <4>3. g.loss = "NaN" /\ g.port = "NaN" /\ g.rtt = "NaN"
        BY <2>2, <3>1, <3>a, <4>1
      <4>4. x.rcvd = 0 /\ ~(x.rcvd > 0) /\ x.rcvd # x.sent /\ "NaN" \notin {"all", "true"}
        BY <2>2, <3>1
      <4> QED BY <3>0, <3>1, <4>2, <4>3, <4>4, Zenon
    <3>2. CASE ~error
      <4>1. /\ x.loss = LossRatio(x.sent, x.rcvd) /\ x.status = StatusFromLoss(x.loss)
            /\ x.port = PortOpen(x)
        BY <2>4, <3>2, Zenon DEF LoopTold
      <4>2. /\ x.status = "success" <=> x.rcvd = x.sent
            /\ x.status \in {"success", "partial"} <=> x.rcvd > 0
            /\ x.status # "error" /\ x.loss # "NaN"
            /\ x.loss = "all" <=> x.rcvd = 0
        BY <2>2, <4>1 DEF LossRatio, StatusFromLoss
      <4>3. /\ x.port = "nil" <=> kind \notin PortKinds
            /\ x.port = "true" <=> x.open /\ kind \in PortKinds
            /\ x.port # "NaN"
        BY <4>1, Zenon DEF PortOpen
      <4> QED BY <2>2, <3>a, <3>2, <4>2, <4>3, Zenon DEF IsUp
    <3> QED BY <3>1, <3>2, Zenon
  <2> HIDE DEF g
  <2> QED BY <2>1, <2>2, <2>3, <2>5, Zenon DEF g
<1> QED BY <1>1, RunInvariance, PTL

\* The gauges tell what an HTTP request met.
THEOREM HttpGaugesTell == Spec => []HttpGaugesTellOutcome
<1>1. RunInv => HttpGaugesTellOutcome
  <2> SUFFICES ASSUME RunInv, kind = "http",
                      NEW i \in {j \in Finished : items[j].hist # <<>>}
               PROVE  LET g == Gauges(kind, items[i])
                          o == items[i].hist[1]
                      IN /\ g.up <=> o \in {"good", "expiring"}
                         /\ g.success <=> o = "good"
                         /\ g.dur = "NaN" <=> o \in {"silent", "unbuilt"}
                         /\ o = "good" => g.loss = "zero"
                         /\ o = "mismatch" => g.loss = "all"
                         /\ o = "silent" => g.loss \in {"all", "NaN"}
                         /\ g.loss = "NaN" => o = "unbuilt" \/ (o = "silent" /\ ctx # "live")
                         /\ g.rtt = "NaN" /\ g.port = "NaN"
    BY Zenon DEF HttpGaugesTellOutcome
  <2>1. PICK x \in Item : x = items[i] /\ HttpTold(x)
    <3>1. PICK x \in Item : x = items[i] /\ ItemInv(x) /\ x.st = "done" /\ x.hist # <<>>
      BY DEF RunInv, RunTypeOK, ItemsInv, Finished
    <3>2. HttpTold(x)
      BY <3>1, Zenon DEF ItemInv, Told
    <3> QED BY <3>1, <3>2, Zenon
  <2>2. PICK o : o = x.hist[1]
    OBVIOUS
  <2> DEFINE g == Gauges(kind, x)
  <2>3. /\ g.up = IsUp(x.status) /\ g.success = (x.status = "success")
        /\ g.rtt = "NaN" /\ (x.port = "nil" => g.port = "NaN")
        /\ g.loss = IF x.status # "error" THEN x.loss ELSE "NaN"
        /\ g.dur = IF x.dur THEN "measured" ELSE "NaN"
    BY Zenon DEF Gauges, Measured
  <2> HIDE DEF g
  <2>4. /\ g.up <=> o \in {"good", "expiring"}
        /\ g.success <=> o = "good"
        /\ g.dur = "NaN" <=> o \in {"silent", "unbuilt"}
        /\ o = "good" => g.loss = "zero"
        /\ o = "mismatch" => g.loss = "all"
        /\ o = "silent" => g.loss \in {"all", "NaN"}
        /\ g.loss = "NaN" => o = "unbuilt" \/ (o = "silent" /\ ctx # "live")
        /\ g.rtt = "NaN" /\ g.port = "NaN"
    <3>1. CASE o = "unbuilt"
      BY <2>1, <2>2, <2>3, <3>1, Zenon DEF HttpTold, IsUp
    <3>2. CASE o = "silent"
      BY <2>1, <2>2, <2>3, <3>2, Zenon DEF HttpTold, IsUp
    <3>3. CASE o = "mismatch"
      BY <2>1, <2>2, <2>3, <3>3, Zenon DEF HttpTold, IsUp
    <3>4. CASE o \in {"good", "expiring", "expired"}
      BY <2>1, <2>2, <2>3, <3>4, Zenon DEF HttpTold, HttpStatus, IsUp
    <3> QED BY <2>1, <2>2, <3>1, <3>2, <3>3, <3>4, Zenon DEF HttpTold
  <2> QED BY <2>1, <2>2, <2>4, Zenon DEF g
<1> QED BY <1>1, RunInvariance, PTL

\* Every entry is reported when the run returns.
THEOREM EveryEntry == Spec => []EveryTargetReported
<1>1. RunInv => EveryTargetReported
  <2> SUFFICES ASSUME RunInv, pc = "returned" PROVE EveryTargetReported
    BY Zenon DEF EveryTargetReported
  <2>1. ASSUME NEW i \in 1..Len(items)
        PROVE  /\ items[i].st = "done" /\ items[i].status # ""
               /\ Unresolved(items[i]) => items[i].etype = "resolve_error"
    <3>1. PICK x \in Item : x = items[i] /\ ItemInv(x)
      BY DEF RunInv, RunTypeOK, ItemsInv
    <3>2. x.st = "done"
      BY <3>1, Zenon DEF ItemInv, Timely
    <3>3. x.status # "" /\ (Unresolved(x) => x.etype = "resolve_error")
      BY <3>1, <3>2, Zenon DEF ItemInv, Told
    <3> QED BY <3>1, <3>2, <3>3, Zenon
  <2>2. \A i, k \in 1..Len(items) : i < k => items[i].entry <= items[k].entry
    BY Zenon DEF RunInv, EntriesInv
  <2>3. ASSUME NEW j \in 1..Len(targets) PROVE Covered(j)
    <3>1. next = Len(targets) + 1 /\ Len(targets) \in Nat
      BY DEF RunInv, EntriesInv, RunTypeOK, ProbeRunAssumption
    <3>2. j \in 1..(next - 1)
      BY <3>1
    <3> QED BY <3>2, Zenon DEF RunInv, EntriesInv
  <2>4. ASSUME NEW j \in 1..Len(targets), IpsOf(j) = {targets[j]}, ~Verbatim(targets[j]),
               NEW i \in Mine(j)
        PROVE  items[i].etype = "resolve_error"
    <3>1. i \in 1..Len(items) /\ items[i].entry = j
      BY Zenon DEF Mine
    <3>2. items[i].ip = targets[j]
      BY <2>4, Zenon DEF IpsOf
    <3> QED BY <2>1, <2>4, <3>1, <3>2, Zenon DEF Unresolved
  <2> QED BY <2>1, <2>2, <2>3, <2>4, Zenon DEF EveryTargetReported, Covered, IpsOf, Mine
<1> QED BY <1>1, RunInvariance, PTL
=============================================================================
