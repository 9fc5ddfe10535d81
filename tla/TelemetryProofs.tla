--------------------------- MODULE TelemetryProofs ---------------------------
(***************************************************************************)
(* Proofs about Telemetry, for every set of probes and configs, every size *)
(* of the results channel and any number of runs.                          *)
(***************************************************************************)
EXTENDS Telemetry, DataLemmas

-----------------------------------------------------------------------------
(* What is in a sequence *)

\* The range of a sequence, and what one more, one less or another sequence
\* makes of its elements.
LEMMA RangeIs ==
  ASSUME NEW q, IsSeq(q)
  PROVE  Range(q) = Elements(q)
<1>1. DOMAIN q = 1..Len(q)
  BY Appended, Zenon
<1> QED BY <1>1, Zenon DEF Range, Elements

\* Append adds its element.
LEMMA ElementsAppend ==
  ASSUME NEW q, IsSeq(q), NEW x
  PROVE  Elements(Append(q, x)) = Elements(q) \cup {x}
<1>1. /\ Len(q) \in Nat /\ Len(Append(q, x)) = Len(q) + 1
      /\ \A i \in 1..Len(q) : Append(q, x)[i] = q[i]
      /\ Append(q, x)[Len(q) + 1] = x
  BY Appended
<1>2. \A i : i \in 1..(Len(q) + 1) <=> i \in 1..Len(q) \/ i = Len(q) + 1
  BY <1>1
<1> QED BY <1>1, <1>2, Zenon DEF Elements

\* The head and the tail have all elements.
LEMMA ElementsTail ==
  ASSUME NEW q, IsSeq(q), q # <<>>
  PROVE  Elements(q) = Elements(Tail(q)) \cup {Head(q)}
<1>1. /\ Len(q) \in Nat /\ Len(q) > 0 /\ Len(Tail(q)) = Len(q) - 1 /\ Head(q) = q[1]
      /\ \A i \in 1..Len(Tail(q)) : i + 1 \in 1..Len(q) /\ Tail(q)[i] = q[i + 1]
  BY Tailed, Zenon
<1>2. ASSUME NEW i \in 1..Len(q) PROVE i = 1 \/ \E j \in 1..Len(Tail(q)) : i = j + 1
  <2>1. i # 1 => i - 1 \in 1..Len(Tail(q)) /\ i = (i - 1) + 1
    BY <1>1
  <2> QED BY <2>1, Zenon
<1>3. 1 \in 1..Len(q)
  BY <1>1
<1>4. ASSUME NEW y \in Elements(q) PROVE y \in Elements(Tail(q)) \cup {Head(q)}
  <2>1. PICK i \in 1..Len(q) : y = q[i]
    BY Zenon DEF Elements
  <2>2. CASE i = 1
    BY <1>1, <2>1, <2>2, Zenon
  <2>3. CASE i # 1
    <3>1. PICK j \in 1..Len(Tail(q)) : i = j + 1
      BY <1>2, <2>3, Zenon
    <3>2. y = Tail(q)[j]
      BY <1>1, <2>1, <3>1, Zenon
    <3> QED BY <3>2, Zenon DEF Elements
  <2> QED BY <2>2, <2>3, Zenon
<1>5. Head(q) \in Elements(q)
  BY <1>1, <1>3, Zenon DEF Elements
<1>6. \A y \in Elements(Tail(q)) : y \in Elements(q)
  BY <1>1, Zenon DEF Elements
<1> QED BY <1>4, <1>5, <1>6, Zenon

\* A concatenation has the elements of both.
LEMMA Joined ==
  ASSUME NEW q, IsSeq(q), NEW r, IsSeq(r)
  PROVE  /\ IsSeq(q \o r) /\ Len(q \o r) = Len(q) + Len(r)
         /\ Elements(q \o r) = Elements(q) \cup Elements(r)
<1> DEFINE S == Elements(q) \cup Elements(r)
           n == Len(q)
           m == Len(r)
<1>1. q \in Seq(S) /\ r \in Seq(S)
  BY DEF IsSeq
<1> HIDE DEF S
<1>2. /\ q \o r \in Seq(S) /\ Len(q \o r) = n + m /\ n \in Nat /\ m \in Nat
      /\ \A i \in 1..n : (q \o r)[i] = q[i]
      /\ \A i \in 1..m : (q \o r)[n + i] = r[i]
  BY <1>1, ConcatProperties
<1>3. IsSeq(q \o r)
  BY <1>2, Sequence, Zenon
<1>4. ASSUME NEW i \in 1..(n + m) PROVE i \in 1..n \/ \E j \in 1..m : i = n + j
  <2>1. i \notin 1..n => i - n \in 1..m /\ i = n + (i - n)
    BY <1>2
  <2> QED BY <2>1, Zenon
<1>5. /\ \A i \in 1..n : i \in 1..(n + m)
      /\ \A j \in 1..m : n + j \in 1..(n + m)
  BY <1>2
<1>6. ASSUME NEW y \in Elements(q \o r) PROVE y \in Elements(q) \cup Elements(r)
  <2>1. PICK i \in 1..(n + m) : y = (q \o r)[i]
    BY <1>2, Zenon DEF Elements
  <2>2. CASE i \in 1..n
    BY <1>2, <2>1, <2>2, Zenon DEF Elements
  <2>3. CASE i \notin 1..n
    <3>1. PICK j \in 1..m : i = n + j
      BY <1>4, <2>3, Zenon
    <3>2. y = r[j]
      BY <1>2, <2>1, <3>1, Zenon
    <3> QED BY <3>2, Zenon DEF Elements
  <2> QED BY <2>2, <2>3, Zenon
<1>7. \A i \in 1..(n + m) : (q \o r)[i] \in Elements(q \o r)
  BY <1>2, Zenon DEF Elements
<1>8. /\ \A i \in 1..n : q[i] \in Elements(q \o r)
      /\ \A j \in 1..m : r[j] \in Elements(q \o r)
  BY <1>2, <1>5, <1>7, Zenon
<1>9. Elements(q \o r) = Elements(q) \cup Elements(r)
  BY <1>6, <1>8, Zenon DEF Elements
<1> QED BY <1>2, <1>3, <1>9, Zenon

-----------------------------------------------------------------------------
(* The gauges *)

\* i is the last result of series s.
IsLast(i, s) ==
  /\ i \in 1..Len(log) /\ buildAttrs(log[i]) = s
  /\ \A j \in 1..Len(log) : buildAttrs(log[j]) = s => j <= i

\* Every series has a last result, whose gauges it holds: inductive, while the
\* property itself says nothing of whether the Max it names exists.
GaugeInv ==
  /\ IsSeq(log)
  /\ \A i \in 1..Len(log) : buildAttrs(log[i]) \in DOMAIN series
  /\ \A s \in DOMAIN series :
       \E i \in 1..Len(log) : IsLast(i, s) /\ series[s].g = Gauges(log[i].type, log[i])

\* No series at the start.
LEMMA GaugeInit == Init => GaugeInv
BY DEF Init, GaugeInv, IsSeq, Elements

\* A Dispatch overwrites one series, with the result it appends to the log.
LEMMA Recorded ==
  ASSUME NEW b \in BOOLEAN, Dispatch(b)
  PROVE  LET r == Head(queue)
         IN  /\ log' = Append(log, r)
             /\ DOMAIN series' = DOMAIN series \cup {buildAttrs(r)}
             /\ series'[buildAttrs(r)].g = Gauges(r.type, r)
             /\ \A s \in DOMAIN series : s # buildAttrs(r) => series'[s] = series[s]
<1> DEFINE r == Head(queue)
           s == buildAttrs(r)
           x == [g    |-> Gauges(r.type, r),
                 sent |-> Counters(s).sent + (IF IsError(r) THEN 0 ELSE r.sent),
                 rcvd |-> Counters(s).rcvd + (IF IsError(r) THEN 0 ELSE r.rcvd)]
<1>1. log' = Append(log, r) /\ series' = Put(series, s, x)
  BY Zenon DEF Dispatch, Record
<1>2. x.g = Gauges(r.type, r)
  OBVIOUS
<1> HIDE DEF s, x
<1>3. /\ DOMAIN series' = DOMAIN series \cup {s}
      /\ series'[s] = x
      /\ \A t \in DOMAIN series : t # s => series'[t] = series[t]
  BY <1>1, Zenon DEF Put
<1> QED
  BY <1>1, <1>2, <1>3, Zenon DEF s

\* An Export appends to the log and overwrites the gauges of its own series.
LEMMA GaugeDispatch ==
  ASSUME GaugeInv, NEW b \in BOOLEAN, Dispatch(b)
  PROVE  GaugeInv'
<1> DEFINE r == Head(queue)
           n == Len(log)
           k == buildAttrs(r)
<1>1. /\ log' = Append(log, r)
      /\ DOMAIN series' = DOMAIN series \cup {k}
      /\ series'[k].g = Gauges(r.type, r)
      /\ \A s \in DOMAIN series : s # k => series'[s] = series[s]
  BY Recorded, Zenon
<1>2. /\ IsSeq(log') /\ n \in Nat /\ Len(log') = n + 1
      /\ \A i \in 1..n : log'[i] = log[i]
      /\ log'[n + 1] = r
  BY <1>1, Appended DEF GaugeInv
<1> HIDE DEF r, n, k
<1>3. \A i \in 1..(n + 1) : buildAttrs(log'[i]) \in DOMAIN series'
  <2> TAKE i \in 1..(n + 1)
  <2>1. CASE i \in 1..n
    BY <2>1, <1>1, <1>2, Zenon DEF GaugeInv, n
  <2>2. CASE i = n + 1
    BY <2>2, <1>1, <1>2, Zenon DEF k
  <2> QED
    BY <2>1, <2>2, <1>2
<1>4. ASSUME NEW s \in DOMAIN series'
      PROVE  \E i \in 1..(n + 1) :
               /\ buildAttrs(log'[i]) = s
               /\ \A j \in 1..(n + 1) : buildAttrs(log'[j]) = s => j <= i
               /\ series'[s].g = Gauges(log'[i].type, log'[i])
  <2>1. CASE s = k
    BY <2>1, <1>1, <1>2 DEF k
  <2>2. CASE s # k
    <3>1. PICK i \in 1..n : IsLast(i, s) /\ series[s].g = Gauges(log[i].type, log[i])
      BY <2>2, <1>1, Zenon DEF GaugeInv, n
    <3>2. \A j \in 1..(n + 1) : buildAttrs(log'[j]) = s => j \in 1..n /\ j <= i
      BY <3>1, <2>2, <1>2 DEF IsLast, n, k
    <3>3. log'[i] = log[i] /\ series'[s] = series[s] /\ i \in 1..(n + 1)
      BY <1>1, <1>2, <2>2
    <3> QED
      BY <3>1, <3>2, <3>3, Zenon DEF IsLast
  <2> QED
    BY <2>1, <2>2, Zenon
<1> QED
  BY <1>2, <1>3, <1>4, Zenon DEF GaugeInv, IsLast, IsSeq, Elements

\* Every step keeps the gauges those of the last results.
LEMMA GaugeStep == GaugeInv /\ [Next]_vars => GaugeInv'
<1> SUFFICES ASSUME GaugeInv, [Next]_vars PROVE GaugeInv'
  OBVIOUS
<1>1. CASE UNCHANGED <<log, series>>
  BY <1>1, Zenon DEF GaugeInv, IsLast, IsSeq, Elements
<1>2. ASSUME NEW b \in BOOLEAN, Dispatch(b) PROVE GaugeInv'
  BY <1>2, GaugeDispatch, Zenon
<1> QED
  BY <1>1, <1>2, Zenon DEF Next, vars, exportVars, RunProbe, Offer, Close, Reload, Push, Stop, Wait, Closed

\* The Max of LastOf is the position of the last result.
LEMMA LastIs ==
  ASSUME GaugeInv, NEW s \in DOMAIN series
  PROVE  \E i \in 1..Len(log) : IsLast(i, s) /\ LastOf(s) = log[i]
<1>1. DOMAIN log = 1..Len(log) /\ Len(log) \in Nat
  BY Appended, Zenon DEF GaugeInv
<1>2. PICK i \in 1..Len(log) : IsLast(i, s)
  BY Zenon DEF GaugeInv
<1> DEFINE S == {j \in DOMAIN log : buildAttrs(log[j]) = s}
<1>3. i \in S /\ (\A j \in S : i >= j) /\ S \subseteq Nat
  BY <1>1, <1>2 DEF IsLast
<1> HIDE DEF S
<1>4. \A j \in S : (\A y \in S : j >= y) => j = i
  BY <1>3
<1>5. Max(S) = i
  BY <1>3, <1>4, Zenon DEF Max
<1> QED BY <1>2, <1>5, Zenon DEF LastOf, S

\* The property, from the invariant.
LEMMA GaugesFromInv == GaugeInv => GaugesOfLastResult
<1> SUFFICES ASSUME GaugeInv PROVE GaugesOfLastResult
  OBVIOUS
<1>1. DOMAIN log = 1..Len(log) /\ Len(log) \in Nat
  BY Appended, Zenon DEF GaugeInv
<1>2. DOMAIN series = {buildAttrs(log[i]) : i \in DOMAIN log}
  BY <1>1, Zenon DEF GaugeInv, IsLast
<1>3. ASSUME NEW s \in DOMAIN series
      PROVE  series[s].g = Gauges(LastOf(s).type, LastOf(s))
  <2>1. PICK i \in 1..Len(log) : IsLast(i, s) /\ series[s].g = Gauges(log[i].type, log[i])
    BY Zenon DEF GaugeInv
  <2>2. PICK j \in 1..Len(log) : IsLast(j, s) /\ LastOf(s) = log[j]
    BY LastIs, Zenon
  <2>3. i = j
    BY <1>1, <2>1, <2>2 DEF IsLast
  <2> QED BY <2>1, <2>2, <2>3, Zenon
<1> QED
  BY <1>2, <1>3, Zenon DEF GaugesOfLastResult

\* Whatever the results and their order, every series shows the gauges of the
\* last result exported under its attributes.
THEOREM GaugesAreFresh == Spec => []GaugesOfLastResult
BY GaugeInit, GaugeStep, GaugesFromInv, PTL DEF Spec

-----------------------------------------------------------------------------
(* The results of a run *)

\* The result has no name: its entry is an address.
NoName(n) == n = ""

\* What every result has, whatever the run came to.
Result(r) ==
  /\ r.probe \in Probe
  /\ r.run \in Nat /\ r.sent \in Nat /\ r.rcvd \in Nat
  /\ r.loss \in {"zero", "some", "all"}
  /\ NoName(r.fqdn) => r.target \in Address
  /\ ~NoName(r.fqdn) => r.fqdn \notin Address

\* A result of the run of p that returns now, under the config of the moment.
Fresh(r, p) ==
  /\ Result(r) /\ r.probe = p /\ r.run = ran + 1
  /\ r.type = ProbesOf[cfg][p].type /\ r.source = ProbesOf[cfg][p].source
  /\ r.labels = ProbesOf[cfg][p].labels

\* What NewResult and a prober put into a result.
LEMMA CompletedIs ==
  ASSUME NEW p \in Probe, NEW addr, NEW fqdn, NEW o, ran \in Nat,
         o.sent \in Nat, o.rcvd \in Nat, o.loss \in {"zero", "some", "all"},
         NoName(fqdn) => addr \in Address, ~NoName(fqdn) => fqdn \notin Address
  PROVE  Fresh(Completed(p, addr, fqdn, o), p)
<1> DEFINE r == Completed(p, addr, fqdn, o)
<1>1. /\ r.probe = p /\ r.run = ran + 1 /\ r.target = addr /\ r.fqdn = fqdn
      /\ r.sent = o.sent /\ r.rcvd = o.rcvd /\ r.loss = o.loss
      /\ r.type = ProbesOf[cfg][p].type /\ r.source = ProbesOf[cfg][p].source
      /\ r.labels = ProbesOf[cfg][p].labels
  BY Zenon DEF Completed
<1> HIDE DEF r
<1>2. Result(r)
  BY <1>1 DEF Result
<1> QED BY <1>1, <1>2, Zenon DEF r, Fresh

\* The results of an entry are a sequence of results of its run.
LEMMA ItemResultsAre ==
  ASSUME NEW p \in Probe, NEW e, ran \in Nat, cfg \in DOMAIN ProbesOf, p \in Active,
         e \in Address \cup DOMAIN Answers, NEW q \in ItemResults(p, e)
  PROVE  /\ IsSeq(q) /\ Len(q) \in Nat
         /\ \A i \in 1..Len(q) : Fresh(q[i], p)
<1> DEFINE Os == Outcomes[ProbesOf[cfg][p].type]
<1>1. \A o \in Os : o.sent \in Nat /\ o.rcvd \in Nat /\ o.loss \in {"zero", "some", "all"}
  BY TelemetryAssumption, Zenon DEF Active
<1>2. ASSUME NEW x, Fresh(x, p), q = <<x>>
      PROVE  /\ IsSeq(q) /\ Len(q) \in Nat
             /\ \A i \in 1..Len(q) : Fresh(q[i], p)
  <2>1. q \in Seq({x}) /\ Len(q) = 1 /\ q[1] = x
    BY <1>2
  <2>2. IsSeq(q)
    BY <2>1, Sequence, Zenon
  <2>3. \A i \in 1..Len(q) : q[i] = x
    BY <2>1
  <2> QED BY <1>2, <2>1, <2>2, <2>3, Zenon
<1>0. e \notin Address => ~NoName(e)
  BY TelemetryAssumption, Zenon DEF NoName
<1> HIDE DEF Os
<1>3. CASE e \in Address
  <2>0. PICK o \in Os : \E n : q = <<Completed(p, e, n, o)>> /\ NoName(n)
    BY <1>3, Zenon DEF ItemResults, Os, NoName
  <2>1. PICK n : q = <<Completed(p, e, n, o)>> /\ NoName(n)
    BY <2>0, Zenon
  <2> QED BY <1>1, <1>2, <1>3, <2>1, CompletedIs, Zenon
<1>4. CASE e \notin Address /\ q = <<Completed(p, e, e, Unresolved)>>
  <2>1. Unresolved.sent \in Nat /\ Unresolved.rcvd \in Nat /\ Unresolved.loss \in {"zero", "some", "all"}
    BY Zenon DEF Unresolved
  <2> QED BY <1>0, <1>2, <1>4, <2>1, CompletedIs, Zenon
<1>5. CASE e \notin Address /\ q # <<Completed(p, e, e, Unresolved)>>
  <2>1. PICK a \in Answers[e] : \E f \in [DOMAIN a -> Os] :
          q = [i \in DOMAIN a |-> Completed(p, a[i], e, f[i])]
    BY <1>5 DEF ItemResults, Os
  <2>2. PICK f \in [DOMAIN a -> Os] : q = [i \in DOMAIN a |-> Completed(p, a[i], e, f[i])]
    BY <2>1, Zenon
  <2>3. a \in Seq(Address)
    BY <1>5, <2>1, TelemetryAssumption, Zenon
  <2>4. DOMAIN a = 1..Len(a) /\ Len(a) \in Nat
    BY <2>3
  <2> DEFINE S == {Completed(p, a[i], e, f[i]) : i \in DOMAIN a}
  <2>5. q \in Seq(S) /\ Len(q) = Len(a) /\ \A i \in 1..Len(a) : q[i] = Completed(p, a[i], e, f[i])
    BY <2>2, <2>4
  <2>6. ASSUME NEW i \in 1..Len(a)
        PROVE  Fresh(q[i], p)
    <3>1. f[i] \in Os
      BY <2>2, <2>4, Zenon
    <3> QED BY <1>0, <1>1, <1>5, <2>5, <3>1, CompletedIs
  <2> HIDE DEF S
  <2> QED BY <2>4, <2>5, <2>6, Sequence, Zenon
<1> QED BY <1>3, <1>4, <1>5, Zenon

\* What a run leaves to be sent.
LEMMA RunIs ==
  ASSUME NEW p \in Probe, ran \in Nat, cfg \in DOMAIN ProbesOf, RunProbe(p)
  PROVE  \E q : /\ IsSeq(q) /\ Len(q) \in Nat
                /\ \A i \in 1..Len(q) : Fresh(q[i], p)
                /\ out' = [out EXCEPT ![p] = q]
                /\ made' = [made EXCEPT ![p] = @ \o q]
<1> DEFINE ts == ProbesOf[cfg][p].targets
<1>1. ts \in Seq(Address \cup DOMAIN Answers) /\ p \in Active
  BY TelemetryAssumption, Zenon DEF RunProbe, Active
<1>2. PICK f \in [DOMAIN ts -> UNION {ItemResults(p, e) : e \in Range(ts)}] :
        /\ \A i \in DOMAIN ts : f[i] \in ItemResults(p, ts[i])
        /\ out' = [out EXCEPT ![p] = Concat(f)]
        /\ made' = [made EXCEPT ![p] = @ \o Concat(f)]
  BY Zenon DEF RunProbe
<1> HIDE DEF ts
<1>3. DOMAIN ts = 1..Len(ts) /\ Len(ts) \in Nat 
      /\ \A i \in 1..Len(ts) : ts[i] \in Address \cup DOMAIN Answers
  BY <1>1
<1>4. ASSUME NEW i \in 1..Len(ts)
      PROVE  /\ IsSeq(f[i]) /\ Len(f[i]) \in Nat
             /\ \A j \in 1..Len(f[i]) : Fresh(f[i][j], p)
  BY <1>1, <1>2, <1>3, ItemResultsAre
<1> DEFINE R == {r \in UNION {Elements(f[i]) : i \in 1..Len(ts)} : Fresh(r, p)}
<1>5. ASSUME NEW i \in 1..Len(ts) PROVE f[i] \in Seq(R)
  <2>1. f[i] \in Seq(Elements(f[i])) /\ Elements(f[i]) \subseteq R
    <3>1. f[i] \in Seq(Elements(f[i]))
      BY <1>4, Zenon DEF IsSeq
    <3>2. \A r \in Elements(f[i]) : Fresh(r, p)
      BY <1>4, Zenon DEF Elements
    <3> QED BY <3>1, <3>2, Zenon
  <2> HIDE DEF R
  <2> QED BY <2>1
<1>6. \A r \in R : Fresh(r, p)
  OBVIOUS
<1> HIDE DEF R
<1>7. f \in Seq(Seq(R))
  BY <1>2, <1>3, <1>5
<1>8. Concat(f) \in Seq(R)
  BY <1>7, ConcatType, Zenon
<1> WITNESS Concat(f)
<1>9. /\ IsSeq(Concat(f)) /\ Len(Concat(f)) \in Nat
      /\ \A i \in 1..Len(Concat(f)) : Concat(f)[i] \in R
  <2>1. PICK q \in Seq(R) : q = Concat(f)
    BY <1>8, Zenon
  <2>2. IsSeq(q) /\ Len(q) \in Nat /\ \A i \in 1..Len(q) : q[i] \in R
    BY Sequence
  <2> QED BY <2>1, <2>2, Zenon
<1> QED BY <1>2, <1>6, <1>9, Zenon

-----------------------------------------------------------------------------
(* The order of the results *)

\* No result of q comes from a later run of x's probe.
Precedes(q, x) == \A i \in 1..Len(q) : q[i].probe = x.probe => q[i].run <= x.run

Sorted(q) == \A i, j \in 1..Len(q) : i < j /\ q[i].probe = q[j].probe => q[i].run <= q[j].run

\* The results of q1 were made before those of q2.
Before(q1, q2) == \A j \in 1..Len(q2) : Precedes(q1, q2[j])

\* A sequence of results of the first n runs.
ResultsUpTo(q, n) ==
  IsSeq(q) /\ Len(q) \in Nat /\ \A i \in 1..Len(q) : Result(q[i]) /\ q[i].run <= n

OrderInv ==
  /\ ran \in Nat /\ cfg \in DOMAIN ProbesOf
  /\ DOMAIN out = Probe
  /\ ResultsUpTo(queue, ran) /\ ResultsUpTo(log, ran)
  /\ Sorted(queue) /\ Sorted(log) /\ Before(log, queue)
  /\ \A p \in Probe : /\ ResultsUpTo(out[p], ran) /\ \A i \in 1..Len(out[p]) : out[p][i].probe = p
                      /\ Sorted(out[p]) /\ Before(queue, out[p]) /\ Before(log, out[p])

\* A result after all of q.
LEMMA AppendSorted ==
  ASSUME NEW k, NEW q, ResultsUpTo(q, k), Sorted(q), NEW x, Result(x), x.run <= k, Precedes(q, x)
  PROVE  ResultsUpTo(Append(q, x), k) /\ Sorted(Append(q, x))
<1> DEFINE n == Len(q)
           t == Append(q, x)
<1>1. /\ IsSeq(t) /\ n \in Nat /\ Len(t) = n + 1
      /\ \A i \in 1..n : t[i] = q[i]
      /\ t[n + 1] = x
  BY Appended DEF ResultsUpTo
<1>2. \A i \in 1..n : Result(q[i]) /\ q[i].run <= k /\ (q[i].probe = x.probe => q[i].run <= x.run)
  BY Zenon DEF ResultsUpTo, Precedes
<1>3. \A i, j \in 1..n : i < j /\ q[i].probe = q[j].probe => q[i].run <= q[j].run
  BY Zenon DEF Sorted
<1> HIDE DEF n, t
<1>4. \A i \in 1..(n + 1) : i \in 1..n \/ i = n + 1
  BY <1>1
<1>5. ResultsUpTo(t, k)
  BY <1>1, <1>2, <1>4 DEF ResultsUpTo
<1>6. ASSUME NEW i \in 1..(n + 1), NEW j \in 1..(n + 1), i < j, t[i].probe = t[j].probe
      PROVE  t[i].run <= t[j].run
  <2>1. i \in 1..n
    BY <1>1, <1>6
  <2>2. CASE j \in 1..n
    BY <1>1, <1>3, <1>6, <2>1, <2>2, Zenon
  <2>3. CASE j = n + 1
    BY <1>1, <1>2, <1>6, <2>1, <2>3, Zenon
  <2> QED BY <1>4, <2>2, <2>3, Zenon
<1>7. Sorted(t)
  BY <1>1, <1>6, Zenon DEF Sorted
<1> QED BY <1>5, <1>7, Zenon DEF t

\* ... which is before y if q and x are.
LEMMA AppendPrecedes ==
  ASSUME NEW q, IsSeq(q), NEW x, NEW y, Precedes(q, y), x.probe = y.probe => x.run <= y.run
  PROVE  Precedes(Append(q, x), y)
<1>1. /\ Len(q) \in Nat /\ Len(Append(q, x)) = Len(q) + 1
      /\ \A i \in 1..Len(q) : Append(q, x)[i] = q[i]
      /\ Append(q, x)[Len(q) + 1] = x
  BY Appended
<1>2. \A i \in 1..(Len(q) + 1) : i \in 1..Len(q) \/ i = Len(q) + 1
  BY <1>1
<1> QED BY <1>1, <1>2, Zenon DEF Precedes

\* A sequence without its head.
LEMMA TailSorted ==
  ASSUME NEW k, NEW q, ResultsUpTo(q, k), Sorted(q), q # <<>>
  PROVE  /\ ResultsUpTo(Tail(q), k) /\ Sorted(Tail(q))
         /\ Result(Head(q)) /\ Head(q).run <= k /\ Head(q) = q[1]
         /\ \A j \in 1..Len(Tail(q)) :
              /\ j + 1 \in 1..Len(q) /\ Tail(q)[j] = q[j + 1]
              /\ Head(q).probe = Tail(q)[j].probe => Head(q).run <= Tail(q)[j].run
<1> DEFINE t == Tail(q)
           n == Len(q)
           m == Len(t)
<1>1. /\ IsSeq(t) /\ n \in Nat /\ n > 0 /\ m = n - 1 /\ Head(q) = q[1]
      /\ \A i \in 1..m : i + 1 \in 1..n /\ t[i] = q[i + 1]
  BY Tailed, Zenon DEF ResultsUpTo
<1>2. \A i \in 1..n : Result(q[i]) /\ q[i].run <= k
  BY Zenon DEF ResultsUpTo
<1>3. \A i, j \in 1..n : i < j /\ q[i].probe = q[j].probe => q[i].run <= q[j].run
  BY Zenon DEF Sorted
<1> HIDE DEF n, t, m
<1>4. ResultsUpTo(t, k)
  BY <1>1, <1>2 DEF ResultsUpTo, m
<1>5. \A i, j \in 1..m : i < j => i + 1 < j + 1
  BY <1>1
<1>6. Sorted(t)
  BY <1>1, <1>3, <1>5, Zenon DEF Sorted, m
<1>7. 1 \in 1..n /\ \A j \in 1..m : 1 < j + 1
  BY <1>1
<1>8. Result(Head(q)) /\ Head(q).run <= k
  BY <1>1, <1>2, <1>7, Zenon
<1>9. \A j \in 1..m : Head(q).probe = t[j].probe => Head(q).run <= t[j].run
  BY <1>1, <1>3, <1>7, Zenon
<1> QED BY <1>1, <1>4, <1>6, <1>8, <1>9, Zenon DEF t, m, n

\* ... is after what the whole was after, and before what it was before.
LEMMA TailBefore ==
  ASSUME NEW q, IsSeq(q), q # <<>>
  PROVE  /\ \A a : Before(a, q) => Before(a, Tail(q)) /\ Precedes(a, Head(q))
         /\ \A y : Precedes(q, y) =>
              Precedes(Tail(q), y) /\ (Head(q).probe = y.probe => Head(q).run <= y.run)
<1>1. /\ Len(q) \in Nat /\ Len(q) > 0 /\ Head(q) = q[1]
      /\ \A i \in 1..Len(Tail(q)) : i + 1 \in 1..Len(q) /\ Tail(q)[i] = q[i + 1]
  BY Tailed, Zenon
<1>2. 1 \in 1..Len(q)
  BY <1>1
<1> QED BY <1>1, <1>2, Zenon DEF Before, Precedes

\* One more result after those of a sequence.
LEMMA BeforeAppend ==
  ASSUME NEW q, IsSeq(q), NEW a, Before(a, q), NEW x, Precedes(a, x)
  PROVE  Before(a, Append(q, x))
<1>1. /\ Len(q) \in Nat /\ Len(Append(q, x)) = Len(q) + 1
      /\ \A i \in 1..Len(q) : Append(q, x)[i] = q[i]
      /\ Append(q, x)[Len(q) + 1] = x
  BY Appended
<1>2. \A i \in 1..(Len(q) + 1) : i \in 1..Len(q) \/ i = Len(q) + 1
  BY <1>1
<1> QED BY <1>1, <1>2, Zenon DEF Before

\* Nothing is made at the start.
LEMMA OrderInit == Init => OrderInv
<1> SUFFICES ASSUME Init PROVE OrderInv
  OBVIOUS
<1>1. cfg \in DOMAIN ProbesOf
  BY TelemetryAssumption, Zenon DEF Init
<1>2. /\ ran = 0 /\ queue = <<>> /\ log = <<>> /\ DOMAIN out = Probe
      /\ \A p \in Probe : out[p] = <<>>
  BY Zenon DEF Init
<1>3. /\ IsSeq(<<>>) /\ Len(<<>>) = 0 /\ \A i \in 1..0 : FALSE
  BY DEF IsSeq, Elements
<1>4. ResultsUpTo(<<>>, 0) /\ Sorted(<<>>) /\ Before(<<>>, <<>>)
  BY <1>3, Zenon DEF ResultsUpTo, Sorted, Before
<1> QED BY <1>1, <1>2, <1>3, <1>4, Zenon DEF OrderInv

\* A run's results are of a later run than all there are.
LEMMA OrderRun ==
  ASSUME OrderInv, NEW p \in Probe, RunProbe(p)
  PROVE  OrderInv'
<1>1. PICK q : /\ IsSeq(q) /\ Len(q) \in Nat
               /\ \A i \in 1..Len(q) : Result(q[i]) /\ q[i].probe = p /\ q[i].run = ran + 1
               /\ out' = [out EXCEPT ![p] = q]
  BY RunIs, Zenon DEF OrderInv, Fresh
<1>2. ran' = ran + 1 /\ queue' = queue /\ log' = log /\ cfg' = cfg /\ ran \in Nat
  BY Zenon DEF RunProbe, OrderInv, exportVars
<1>3. ASSUME NEW a, ResultsUpTo(a, ran)
      PROVE  ResultsUpTo(a, ran + 1) /\ Before(a, q)
  <2>1. \A i \in 1..Len(a) : a[i].run \in Nat /\ a[i].run <= ran
    BY <1>3, Zenon DEF ResultsUpTo, Result
  <2>2. \A i \in 1..Len(a) : a[i].run <= ran + 1
    BY <1>2, <2>1
  <2> QED BY <1>1, <1>3, <2>2, Zenon DEF ResultsUpTo, Before, Precedes
<1>4. ResultsUpTo(q, ran + 1) /\ Sorted(q)
  BY <1>1, <1>2 DEF ResultsUpTo, Sorted
<1>5. DOMAIN out' = Probe /\ out'[p] = q /\ \A r \in Probe : r # p => out'[r] = out[r]
  BY <1>1, Zenon DEF OrderInv
<1>6. ASSUME NEW r \in Probe
      PROVE  /\ ResultsUpTo(out'[r], ran + 1) /\ \A i \in 1..Len(out'[r]) : out'[r][i].probe = r
             /\ Sorted(out'[r]) /\ Before(queue, out'[r]) /\ Before(log, out'[r])
  <2>1. CASE r = p
    BY <1>1, <1>3, <1>4, <1>5, <2>1, Zenon DEF OrderInv
  <2>2. CASE r # p
    BY <1>3, <1>5, <2>2, Zenon DEF OrderInv
  <2> QED BY <2>1, <2>2, Zenon
<1>7. ResultsUpTo(queue, ran + 1) /\ ResultsUpTo(log, ran + 1)
  BY <1>3, Zenon DEF OrderInv
<1> QED BY <1>2, <1>5, <1>6, <1>7 DEF OrderInv

\* A worker's result goes to the end of the channel, where those of its earlier
\* runs are.
LEMMA OrderOffer ==
  ASSUME OrderInv, NEW p \in Probe, Offer(p)
  PROVE  OrderInv'
<1> DEFINE q == out[p]
           x == Head(q)
<1>1. /\ ran' = ran /\ log' = log /\ cfg' = cfg /\ q # <<>>
      /\ out' = [out EXCEPT ![p] = Tail(q)]
      /\ queue' = queue \/ queue' = Append(queue, x)
  BY Zenon DEF Offer, exportVars
<1>2. /\ ResultsUpTo(q, ran) /\ Sorted(q) /\ Before(queue, q) /\ Before(log, q)
      /\ \A i \in 1..Len(q) : q[i].probe = p
      /\ ResultsUpTo(queue, ran) /\ Sorted(queue) /\ Before(log, queue)
      /\ IsSeq(queue) /\ IsSeq(q)
  BY Zenon DEF OrderInv, ResultsUpTo
<1> HIDE DEF q
<1>3. /\ ResultsUpTo(Tail(q), ran) /\ Sorted(Tail(q)) /\ Result(x) /\ x.run <= ran /\ x = q[1]
      /\ \A j \in 1..Len(Tail(q)) :
           /\ j + 1 \in 1..Len(q) /\ Tail(q)[j] = q[j + 1]
           /\ x.probe = Tail(q)[j].probe => x.run <= Tail(q)[j].run
  BY <1>1, <1>2, TailSorted, Zenon
<1>4. /\ Before(queue, Tail(q)) /\ Precedes(queue, x)
      /\ Before(log, Tail(q)) /\ Precedes(log, x)
  BY <1>1, <1>2, TailBefore, Zenon
<1>5. x.probe = p
  <2>1. 1 \in 1..Len(q)
    BY <1>1, <1>2, Tailed
  <2> QED BY <1>2, <1>3, <2>1, Zenon
<1> HIDE DEF x
<1>6. ResultsUpTo(queue', ran) /\ Sorted(queue') /\ Before(log, queue')
  <2>1. ResultsUpTo(Append(queue, x), ran) /\ Sorted(Append(queue, x))
    BY <1>2, <1>3, <1>4, AppendSorted, Zenon
  <2>2. Before(log, Append(queue, x))
    BY <1>2, <1>4, BeforeAppend, Zenon
  <2> QED BY <1>1, <1>2, <2>1, <2>2, Zenon
<1>7. DOMAIN out' = Probe /\ out'[p] = Tail(q) /\ \A r \in Probe : r # p => out'[r] = out[r]
  BY <1>1, Zenon DEF OrderInv
<1>8. ASSUME NEW r \in Probe
      PROVE  /\ ResultsUpTo(out'[r], ran) /\ \A i \in 1..Len(out'[r]) : out'[r][i].probe = r
             /\ Sorted(out'[r]) /\ Before(log, out'[r])
  <2>1. CASE r = p
    <3>1. \A i \in 1..Len(Tail(q)) : Tail(q)[i].probe = p
      BY <1>2, <1>3, Zenon
    <3> QED BY <1>3, <1>4, <1>7, <2>1, <3>1, Zenon
  <2>2. CASE r # p
    BY <1>7, <2>2, Zenon DEF OrderInv
  <2> QED BY <2>1, <2>2, Zenon
<1>9. ASSUME NEW r \in Probe PROVE Before(queue', out'[r])
  <2>1. Before(queue, out'[r])
    BY <1>4, <1>7, Zenon DEF OrderInv
  <2>2. ASSUME NEW j \in 1..Len(out'[r]) PROVE Precedes(Append(queue, x), out'[r][j])
    <3>1. Precedes(queue, out'[r][j])
      BY <2>1, Zenon DEF Before
    <3>2. x.probe = out'[r][j].probe => x.run <= out'[r][j].run
      <4>1. CASE r = p
        BY <1>3, <1>7, <4>1, Zenon
      <4>2. CASE r # p
        BY <1>5, <1>8, <4>2, Zenon
      <4> QED BY <4>1, <4>2, Zenon
    <3> QED BY <1>2, <3>1, <3>2, AppendPrecedes, Zenon
  <2>3. Before(Append(queue, x), out'[r])
    BY <2>2, Zenon DEF Before
  <2> QED BY <1>1, <2>1, <2>3, Zenon
<1> QED BY <1>1, <1>6, <1>7, <1>8, <1>9, Zenon DEF OrderInv

\* dispatch takes the oldest result of the channel.
LEMMA OrderDispatch ==
  ASSUME OrderInv, NEW b \in BOOLEAN, Dispatch(b)
  PROVE  OrderInv'
<1> DEFINE q == queue
           x == Head(q)
<1>1. /\ ran' = ran /\ out' = out /\ cfg' = cfg /\ q # <<>>
      /\ log' = Append(log, x) /\ queue' = Tail(q)
  BY Zenon DEF Dispatch
<1>2. /\ ResultsUpTo(q, ran) /\ Sorted(q) /\ Before(log, q)
      /\ ResultsUpTo(log, ran) /\ Sorted(log)
      /\ IsSeq(log) /\ IsSeq(q)
  BY Zenon DEF OrderInv, ResultsUpTo
<1> HIDE DEF q
<1>3. /\ ResultsUpTo(Tail(q), ran) /\ Sorted(Tail(q)) /\ Result(x) /\ x.run <= ran
      /\ \A j \in 1..Len(Tail(q)) : x.probe = Tail(q)[j].probe => x.run <= Tail(q)[j].run
  BY <1>1, <1>2, TailSorted, Zenon
<1>4. Before(log, Tail(q)) /\ Precedes(log, x)
  BY <1>1, <1>2, TailBefore, Zenon
<1>5. ASSUME NEW y, Precedes(q, y)
      PROVE  Precedes(Tail(q), y) /\ (x.probe = y.probe => x.run <= y.run)
  BY <1>1, <1>2, <1>5, TailBefore, Zenon
<1> HIDE DEF x
<1>6. ResultsUpTo(log', ran) /\ Sorted(log')
  BY <1>1, <1>2, <1>3, <1>4, AppendSorted, Zenon
<1>7. Before(log', Tail(q))
  <2> SUFFICES ASSUME NEW j \in 1..Len(Tail(q)) PROVE Precedes(log', Tail(q)[j])
    BY Zenon DEF Before
  <2>1. Precedes(log, Tail(q)[j])
    BY <1>4, Zenon DEF Before
  <2> QED BY <1>1, <1>2, <1>3, <2>1, AppendPrecedes, Zenon
<1>8. ASSUME NEW r \in Probe PROVE Before(Tail(q), out[r]) /\ Before(log', out[r])
  <2> SUFFICES ASSUME NEW j \in 1..Len(out[r])
               PROVE  Precedes(Tail(q), out[r][j]) /\ Precedes(log', out[r][j])
    BY Zenon DEF Before
  <2>1. Precedes(q, out[r][j]) /\ Precedes(log, out[r][j])
    BY Zenon DEF OrderInv, Before, q
  <2>2. Precedes(Tail(q), out[r][j]) /\ (x.probe = out[r][j].probe => x.run <= out[r][j].run)
    BY <1>5, <2>1, Zenon
  <2> QED BY <1>1, <1>2, <2>1, <2>2, AppendPrecedes, Zenon
<1>9. \A r \in Probe : /\ ResultsUpTo(out[r], ran) /\ \A i \in 1..Len(out[r]) : out[r][i].probe = r
                       /\ Sorted(out[r])
  BY Zenon DEF OrderInv
<1>10. ran \in Nat /\ cfg \in DOMAIN ProbesOf /\ DOMAIN out = Probe
  BY Zenon DEF OrderInv
<1> QED BY <1>1, <1>3, <1>6, <1>7, <1>8, <1>9, <1>10, Zenon DEF OrderInv

\* Every step keeps the results of a probe in the order of its runs.
LEMMA OrderStep == OrderInv /\ [Next]_vars => OrderInv'
<1> SUFFICES ASSUME OrderInv, [Next]_vars PROVE OrderInv'
  OBVIOUS
<1>1. CASE UNCHANGED <<ran, out, queue, log>> /\ cfg' \in DOMAIN ProbesOf
  BY <1>1, Zenon DEF OrderInv
<1>2. ASSUME NEW p \in Probe, RunProbe(p) PROVE OrderInv'
  BY <1>2, OrderRun, Zenon
<1>3. ASSUME NEW p \in Probe, Offer(p) PROVE OrderInv'
  BY <1>3, OrderOffer, Zenon
<1>4. ASSUME NEW b \in BOOLEAN, Dispatch(b) PROVE OrderInv'
  BY <1>4, OrderDispatch, Zenon
<1>5. cfg \in DOMAIN ProbesOf
  BY Zenon DEF OrderInv
<1> QED
  BY <1>1, <1>2, <1>3, <1>4, <1>5, Zenon DEF Next, vars, exportVars, Close, Reload, Push, Stop, Wait, Closed

\* A probe's results keep the order of its runs on their way from the worker
\* through the channel to the exporters.
THEOREM ResultsInOrder == Spec => []OrderInv
BY OrderInit, OrderStep, PTL DEF Spec

-----------------------------------------------------------------------------
(* The lines on stdout *)

\* Every line is the one of an exported result, in the order of the export; the
\* property alone does not say which results the lines are of.
LineInv ==
  /\ IsSeq(lines) /\ badLines \in Nat
  /\ Len(lines) + badLines = Len(log)
  /\ \A i \in 1..Len(lines) :
       /\ lines[i] = Line(lines[i].res)
       /\ \E k \in 1..Len(log) : lines[i].res = log[k]
  /\ \A i, j \in 1..Len(lines) :
       i < j /\ lines[i].res.probe = lines[j].res.probe => lines[i].res.run <= lines[j].res.run

\* No line at the start.
LEMMA LineInit == Init => LineInv
BY DEF Init, LineInv, IsSeq, Elements

\* An Export writes at most one line, of the result it appends to the log.
LEMMA LineDispatch ==
  ASSUME OrderInv, LineInv, NEW b \in BOOLEAN, Dispatch(b)
  PROVE  LineInv'
<1> DEFINE x == Head(queue)
           n == Len(lines)
<1>1. /\ queue # <<>> /\ log' = Append(log, x)
      /\ b => lines' = Append(lines, Line(x)) /\ badLines' = badLines + 0
      /\ ~b => lines' = lines /\ badLines' = badLines + 1
  BY Zenon DEF Dispatch
<1>2. IsSeq(log) /\ IsSeq(queue) /\ Precedes(log, x)
  BY <1>1, TailBefore, Zenon DEF OrderInv, ResultsUpTo
<1> HIDE DEF x
<1>3. /\ IsSeq(log') /\ Len(log) \in Nat /\ Len(log') = Len(log) + 1
      /\ \A i \in 1..Len(log) : log'[i] = log[i] /\ i \in 1..Len(log')
      /\ Len(log') \in 1..Len(log') /\ log'[Len(log')] = x
  <2>1. /\ IsSeq(log') /\ Len(log) \in Nat /\ Len(log') = Len(log) + 1
        /\ \A i \in 1..Len(log) : log'[i] = log[i]
        /\ log'[Len(log) + 1] = x
    BY <1>1, <1>2, Appended
  <2> QED BY <2>1
<1>4. ASSUME NEW i \in 1..n
      PROVE  /\ lines[i] = Line(lines[i].res)
             /\ \E k \in 1..Len(log') : lines[i].res = log'[k]
             /\ lines[i].res.probe = x.probe => lines[i].res.run <= x.run
  <2>1. PICK k \in 1..Len(log) : lines[i].res = log[k]
    BY Zenon DEF LineInv
  <2> QED BY <1>2, <1>3, <2>1, Zenon DEF LineInv, Precedes
<1>5. /\ n \in Nat /\ badLines \in Nat /\ IsSeq(lines) /\ n + badLines = Len(log)
      /\ \A i, j \in 1..n :
           i < j /\ lines[i].res.probe = lines[j].res.probe => lines[i].res.run <= lines[j].res.run
  BY Appended, Zenon DEF LineInv
<1> HIDE DEF n
<1>6. CASE ~b
  <2>1. IsSeq(lines') /\ badLines' \in Nat /\ Len(lines') + badLines' = Len(log')
    <3>1. lines' = lines /\ badLines' = badLines + 1
      BY <1>1, <1>6, Zenon
    <3>2. IsSeq(lines') /\ badLines' \in Nat
      BY <1>5, <3>1
    <3>3. Len(lines') = n
      BY <3>1, Zenon DEF n
    <3>4. PICK m \in Nat : m = Len(log)
      BY <1>3, Zenon
    <3> QED BY <1>3, <1>5, <3>1, <3>2, <3>3, <3>4
  <2> QED BY <1>1, <1>4, <1>5, <1>6, <2>1 DEF LineInv, n
<1>7. CASE b
  <2>1. PICK y : y = Line(x)
    OBVIOUS
  <2>2. y.res = x
    BY <2>1, Zenon DEF Line
  <2>3. /\ IsSeq(lines') /\ Len(lines') = n + 1
        /\ \A i \in 1..n : lines'[i] = lines[i]
        /\ lines'[n + 1] = y
    <3>1. lines' = Append(lines, y)
      BY <1>1, <1>7, <2>1, Zenon
    <3> QED BY <1>5, <3>1, Appended DEF n
  <2>4. badLines' \in Nat /\ Len(lines') + badLines' = Len(log')
    BY <1>1, <1>3, <1>5, <1>7, <2>3
  <2>5. \A i \in 1..(n + 1) : i \in 1..n \/ i = n + 1
    BY <1>5
  <2>6. ASSUME NEW i \in 1..(n + 1)
        PROVE  /\ lines'[i] = Line(lines'[i].res)
               /\ \E k \in 1..Len(log') : lines'[i].res = log'[k]
    <3>1. CASE i \in 1..n
      BY <1>4, <2>3, <3>1, Zenon
    <3>2. CASE i = n + 1
      BY <1>3, <2>1, <2>2, <2>3, <3>2, Zenon
    <3> QED BY <2>5, <3>1, <3>2, Zenon
  <2>7. ASSUME NEW i \in 1..(n + 1), NEW j \in 1..(n + 1), i < j,
               lines'[i].res.probe = lines'[j].res.probe
        PROVE  lines'[i].res.run <= lines'[j].res.run
    <3>1. i \in 1..n
      BY <1>5, <2>7
    <3>2. CASE j \in 1..n
      BY <1>5, <2>3, <2>7, <3>1, <3>2, Zenon
    <3>3. CASE j = n + 1
      BY <1>4, <2>2, <2>3, <2>7, <3>1, <3>3, Zenon
    <3> QED BY <2>5, <3>2, <3>3, Zenon
  <2> QED BY <2>3, <2>4, <2>6, <2>7, Zenon DEF LineInv
<1> QED BY <1>6, <1>7, Zenon

\* Every step keeps a line for every result whose write did not fail.
LEMMA LineStep == OrderInv /\ LineInv /\ [Next]_vars => LineInv'
<1> SUFFICES ASSUME OrderInv, LineInv, [Next]_vars PROVE LineInv'
  OBVIOUS
<1>1. CASE UNCHANGED <<lines, badLines, log>>
  BY <1>1, Zenon DEF LineInv, IsSeq, Elements
<1>2. ASSUME NEW b \in BOOLEAN, Dispatch(b) PROVE LineInv'
  BY <1>2, LineDispatch, Zenon
<1> QED
  BY <1>1, <1>2, Zenon DEF Next, vars, exportVars, RunProbe, Offer, Close, Reload, Push, Stop, Wait, Closed

\* writeJSON and Export agree on what was measured, for every result whose loss
\* is a number.
LEMMA JsonTells ==
  ASSUME NEW t, NEW r, r.loss \in {"zero", "some", "all"}
  PROVE  writeJSON(t, r) = {k \in {"rtt", "loss", "dur"} : Gauges(t, r)[k] # "NaN"}
<1> DEFINE m == Measured(t, r)
           g == Gauges(t, r)
<1>1. /\ g.rtt = (IF m.rtt THEN "measured" ELSE "NaN")
      /\ g.loss = (IF m.loss THEN r.loss ELSE "NaN")
      /\ g.dur = (IF m.dur THEN "measured" ELSE "NaN")
  BY Zenon DEF Gauges
<1>2. /\ m["rtt"] = m.rtt /\ m["loss"] = m.loss /\ m["dur"] = m.dur
      /\ g["rtt"] = g.rtt /\ g["loss"] = g.loss /\ g["dur"] = g.dur
  OBVIOUS
<1> HIDE DEF m, g
<1>3. (g.rtt # "NaN" <=> m.rtt) /\ (g.loss # "NaN" <=> m.loss) /\ (g.dur # "NaN" <=> m.dur)
  BY <1>1, Zenon
<1>4. \A k \in {"rtt", "loss", "dur"} : g[k] # "NaN" <=> m[k]
  BY <1>2, <1>3, Zenon
<1> QED BY <1>4, Zenon DEF writeJSON, m, g

\* The property, from the invariants.
LEMMA LinesFromInv == OrderInv /\ LineInv => LinesTellMeasured
<1> SUFFICES ASSUME OrderInv, LineInv PROVE LinesTellMeasured
  OBVIOUS
<1>1. DOMAIN lines = 1..Len(lines) /\ Len(lines) \in Nat
  BY Appended, Zenon DEF LineInv
<1>2. ASSUME NEW i \in 1..Len(lines), Format = "json"
      PROVE  LET g == Gauges(lines[i].res.type, lines[i].res)
             IN  lines[i].fields = {k \in {"rtt", "loss", "dur"} : g[k] # "NaN"}
  <2>1. PICK r : r = lines[i].res /\ lines[i] = Line(r)
    BY Zenon DEF LineInv
  <2>2. lines[i].fields = writeJSON(r.type, r)
    BY <1>2, <2>1 DEF Line
  <2>3. r.loss \in {"zero", "some", "all"}
    BY <2>1, Zenon DEF LineInv, OrderInv, ResultsUpTo, Result
  <2>4. writeJSON(r.type, r) = {k \in {"rtt", "loss", "dur"} : Gauges(r.type, r)[k] # "NaN"}
    BY <2>3, JsonTells
  <2> QED BY <2>1, <2>2, <2>4, Zenon
<1> QED BY <1>1, <1>2, Zenon DEF LinesTellMeasured, LineInv

\* Stdout shows a probe's runs in order, counts what it could not print, and its
\* JSON has the numbers the gauges have, for every result a run can return.
THEOREM LinesTell == Spec => []LinesTellMeasured
BY LineInit, LineStep, LinesFromInv, ResultsInOrder, PTL DEF Spec

-----------------------------------------------------------------------------
(* The counters *)

\* Positions of a sequence of length n, and the one an append adds.
LEMMA Positions ==
  ASSUME NEW n \in Nat, NEW S \in SUBSET (1..n)
  PROVE  /\ IsFiniteSet(S) /\ Cardinality(S) \in Nat
         /\ n + 1 \notin S /\ Cardinality(S \cup {n + 1}) = Cardinality(S) + 1
<1>1. IsFiniteSet(1..n)
  BY FS_Interval
<1>2. IsFiniteSet(S) /\ Cardinality(S) \in Nat
  BY <1>1, FS_Subset, FS_CardinalityType, Zenon
<1>3. n + 1 \notin S
  OBVIOUS
<1> QED BY <1>2, <1>3, FS_AddElement, Zenon

\* The number of a probe's results, when one more comes and when the first goes.
LEMMA OfAppend ==
  ASSUME NEW q, IsSeq(q), NEW x, NEW p
  PROVE  /\ Cardinality(Of(p, q)) \in Nat
         /\ x.probe = p => Cardinality(Of(p, Append(q, x))) = Cardinality(Of(p, q)) + 1
         /\ x.probe # p => Cardinality(Of(p, Append(q, x))) = Cardinality(Of(p, q))
<1> DEFINE n == Len(q)
<1>1. /\ n \in Nat /\ DOMAIN q = 1..n /\ DOMAIN Append(q, x) = 1..(n + 1)
      /\ \A i \in 1..n : Append(q, x)[i] = q[i]
      /\ Append(q, x)[n + 1] = x
  BY Appended
<1>2. \A i : i \in 1..(n + 1) <=> i \in 1..n \/ i = n + 1
  BY <1>1
<1>3. Of(p, q) \in SUBSET (1..n)
  BY <1>1, Zenon DEF Of
<1>4. x.probe = p => Of(p, Append(q, x)) = Of(p, q) \cup {n + 1}
  BY <1>1, <1>2, Zenon DEF Of
<1>5. x.probe # p => Of(p, Append(q, x)) = Of(p, q)
  BY <1>1, <1>2, Zenon DEF Of
<1> QED BY <1>1, <1>3, <1>4, <1>5, Positions, Zenon

\* The first result of a sequence goes.
LEMMA OfTail ==
  ASSUME NEW q, IsSeq(q), q # <<>>, NEW p
  PROVE  /\ Cardinality(Of(p, q)) \in Nat /\ Cardinality(Of(p, Tail(q))) \in Nat
         /\ Head(q).probe = p => Cardinality(Of(p, q)) = Cardinality(Of(p, Tail(q))) + 1
         /\ Head(q).probe # p => Cardinality(Of(p, q)) = Cardinality(Of(p, Tail(q)))
<1> DEFINE n == Len(q)
           S == Of(p, Tail(q))
           T == {i + 1 : i \in S}
<1>1. /\ IsSeq(Tail(q)) /\ n \in Nat /\ n > 0 /\ Len(Tail(q)) = n - 1 /\ Head(q) = q[1]
      /\ \A i \in 1..Len(Tail(q)) : i + 1 \in 1..n /\ Tail(q)[i] = q[i + 1]
  BY Tailed, Zenon
<1>2. DOMAIN q = 1..n /\ DOMAIN Tail(q) = 1..(n - 1)
  BY <1>1, Appended, Zenon
<1>3. S \in SUBSET (1..(n - 1)) /\ n - 1 \in Nat
  BY <1>1, <1>2 DEF Of
<1>4. IsFiniteSet(S) /\ Cardinality(S) \in Nat /\ S \in SUBSET Nat
  <2>1. PICK m \in Nat : m = n - 1 /\ S \in SUBSET (1..m)
    BY <1>3, Zenon
  <2>2. S \in SUBSET Nat
    BY <2>1
  <2> HIDE DEF S
  <2>3. IsFiniteSet(S) /\ Cardinality(S) \in Nat
    BY <2>1, Positions, Zenon
  <2> QED BY <2>2, <2>3, Zenon
<1>5. IsFiniteSet(T) /\ Cardinality(T) = Cardinality(S)
  BY <1>4, Shift, Zenon
<1>6. ASSUME NEW i \in 1..n, i # 1 PROVE \E j \in 1..(n - 1) : i = j + 1
  <2>1. i - 1 \in 1..(n - 1) /\ i = (i - 1) + 1
    BY <1>1, <1>6
  <2> QED BY <2>1, Zenon
<1>7. 1 \notin T
  <2>1. \A i \in S : i + 1 # 1
    BY <1>3
  <2> QED BY <2>1, Zenon
<1>8. ASSUME NEW i \in 1..(n - 1) PROVE i \in S <=> i + 1 \in Of(p, q)
  BY <1>1, <1>2, Zenon DEF Of
<1>9. ASSUME NEW i \in Of(p, q), i # 1 PROVE i \in T
  <2>1. PICK j \in 1..(n - 1) : i = j + 1
    BY <1>2, <1>6, <1>9, Zenon DEF Of
  <2> QED BY <1>8, <2>1, Zenon
<1>10. \A i \in T : i \in Of(p, q)
  BY <1>3, <1>8, Zenon
<1>11. 1 \in Of(p, q) <=> Head(q).probe = p
  BY <1>1, <1>2 DEF Of
<1> HIDE DEF S, T
<1>12. CASE Head(q).probe = p
  <2>1. Of(p, q) = T \cup {1}
    BY <1>9, <1>10, <1>11, <1>12, Zenon
  <2>2. Cardinality(T \cup {1}) = Cardinality(T) + 1
    BY <1>5, <1>7, FS_AddElement, Zenon
  <2> QED BY <1>4, <1>5, <1>12, <2>1, <2>2 DEF S
<1>13. CASE Head(q).probe # p
  <2>1. Of(p, q) = T
    BY <1>9, <1>10, <1>11, <1>13, Zenon
  <2> QED BY <1>4, <1>5, <1>13, <2>1, Zenon DEF S
<1> QED BY <1>12, <1>13, Zenon

\* The results on their way, by probe.
FlowInv ==
  /\ runs \in [Probe -> Nat] /\ dropped \in [Probe -> Nat] /\ DOMAIN made = Probe
  /\ \A p \in Probe :
       /\ IsSeq(made[p])
       /\ Len(made[p]) = runs[p] + dropped[p] + Len(out[p]) + Cardinality(Of(p, queue))
       /\ runs[p] = Cardinality(Of(p, log))

\* Nothing is on its way at the start.
LEMMA FlowInit == Init => FlowInv
<1> SUFFICES ASSUME Init PROVE FlowInv
  OBVIOUS
<1>1. \A p : Of(p, <<>>) = {}
  BY DEF Of
<1>2. /\ queue = <<>> /\ log = <<>> /\ \A p \in Probe : out[p] = <<>>
      /\ made = [p \in Probe |-> <<>>] /\ runs = [p \in Probe |-> 0] /\ dropped = [p \in Probe |-> 0]
  BY Zenon DEF Init
<1>3. Len(<<>>) = 0 /\ Cardinality({}) = 0 /\ IsSeq(<<>>)
  <2>1. Len(<<>>) = 0 /\ IsSeq(<<>>)
    BY DEF IsSeq, Elements
  <2> QED BY <2>1, FS_EmptySet, Zenon
<1>4. /\ DOMAIN made = Probe /\ runs \in [Probe -> Nat] /\ dropped \in [Probe -> Nat]
      /\ \A p \in Probe : made[p] = <<>> /\ runs[p] = 0 /\ dropped[p] = 0
  BY <1>2, Zenon
<1>5. \A p \in Probe : /\ Cardinality(Of(p, queue)) = 0 /\ Cardinality(Of(p, log)) = 0
                       /\ Len(out[p]) = 0
  BY <1>1, <1>2, <1>3, Zenon
<1>6. ASSUME NEW p \in Probe
      PROVE  /\ IsSeq(made[p])
             /\ Len(made[p]) = runs[p] + dropped[p] + Len(out[p]) + Cardinality(Of(p, queue))
             /\ runs[p] = Cardinality(Of(p, log))
  <2>1. /\ Len(made[p]) = 0 /\ runs[p] = 0 /\ dropped[p] = 0 /\ Len(out[p]) = 0
        /\ Cardinality(Of(p, queue)) = 0 /\ Cardinality(Of(p, log)) = 0
    BY <1>3, <1>4, <1>5, Zenon
  <2>2. IsSeq(made[p])
    BY <1>3, <1>4, Zenon
  <2>3. Len(made[p]) = runs[p] + dropped[p] + Len(out[p]) + Cardinality(Of(p, queue))
    BY <2>1
  <2> QED BY <2>1, <2>2, <2>3, Zenon
<1> QED BY <1>4, <1>6, Zenon DEF FlowInv

\* A run makes as many results as it has to offer.
LEMMA FlowRun ==
  ASSUME OrderInv, FlowInv, NEW p \in Probe, RunProbe(p)
  PROVE  FlowInv'
<1>1. PICK q : /\ IsSeq(q) /\ Len(q) \in Nat
               /\ out' = [out EXCEPT ![p] = q]
               /\ made' = [made EXCEPT ![p] = @ \o q]
  BY RunIs, Zenon DEF OrderInv
<1>2. out[p] = <<>> /\ UNCHANGED <<queue, log, runs, dropped>>
  BY Zenon DEF RunProbe, exportVars
<1>3. Len(<<>>) = 0
  OBVIOUS
<1>4. DOMAIN made' = Probe
  BY <1>1, Zenon DEF FlowInv
<1>5. ASSUME NEW r \in Probe
      PROVE  /\ IsSeq(made'[r])
             /\ Len(made'[r]) = runs[r] + dropped[r] + Len(out'[r]) + Cardinality(Of(r, queue))
  <2>1. /\ IsSeq(made[r]) /\ Len(made[r]) = runs[r] + dropped[r] + Len(out[r]) + Cardinality(Of(r, queue))
        /\ runs[r] \in Nat /\ dropped[r] \in Nat
    BY Zenon DEF FlowInv
  <2>2. Cardinality(Of(r, queue)) \in Nat /\ Len(out[r]) \in Nat
    BY OfAppend, Zenon DEF OrderInv, ResultsUpTo
  <2>3. CASE r = p
    <3>1. made'[r] = made[r] \o q /\ Len(out'[r]) = Len(q) /\ Len(out[r]) = 0
      BY <1>1, <1>2, <1>3, <2>3, Zenon DEF FlowInv, OrderInv
    <3>2. IsSeq(made'[r]) /\ Len(made'[r]) = Len(made[r]) + Len(q)
      BY <1>1, <2>1, <3>1, Joined, Zenon
    <3>3. Len(made'[r]) = runs[r] + dropped[r] + Len(out'[r]) + Cardinality(Of(r, queue))
      BY <1>1, <2>1, <2>2, <3>1, <3>2
    <3> QED BY <3>2, <3>3, Zenon
  <2>4. CASE r # p
    <3>1. made'[r] = made[r] /\ out'[r] = out[r]
      BY <1>1, <2>4, Zenon DEF FlowInv, OrderInv
    <3> QED BY <2>1, <3>1, Zenon
  <2> QED BY <2>3, <2>4, Zenon
<1> QED BY <1>2, <1>4, <1>5, Zenon DEF FlowInv

\* A result that is offered goes into the channel or is counted as dropped.
LEMMA FlowOffer ==
  ASSUME OrderInv, FlowInv, NEW p \in Probe, Offer(p)
  PROVE  FlowInv'
<1> DEFINE x == Head(out[p])
<1>1. /\ out[p] # <<>> /\ out' = [out EXCEPT ![p] = Tail(out[p])]
      /\ UNCHANGED <<log, runs, made>>
      /\ \/ queue' = Append(queue, x) /\ dropped' = dropped
         \/ queue' = queue /\ dropped' = [dropped EXCEPT ![p] = @ + 1]
  BY Zenon DEF Offer, exportVars
<1>2. /\ IsSeq(queue) /\ IsSeq(out[p]) /\ DOMAIN out = Probe
      /\ \A i \in 1..Len(out[p]) : out[p][i].probe = p
      /\ \A r \in Probe : Len(out[r]) \in Nat
  BY Zenon DEF OrderInv, ResultsUpTo
<1>3. Len(out[p]) > 0 /\ Len(Tail(out[p])) = Len(out[p]) - 1 /\ x = out[p][1]
  BY <1>1, <1>2, Tailed, Zenon
<1>4. x.probe = p
  <2>1. 1 \in 1..Len(out[p])
    BY <1>2, <1>3
  <2> QED BY <1>2, <1>3, <2>1, Zenon
<1> HIDE DEF x
<1>5. dropped' \in [Probe -> Nat]
  <2>1. dropped' = dropped \/ dropped' = [dropped EXCEPT ![p] = @ + 1]
    BY <1>1, Zenon
  <2>2. dropped \in [Probe -> Nat]
    BY Zenon DEF FlowInv
  <2> QED BY <2>1, <2>2
<1>6. ASSUME NEW r \in Probe
      PROVE  Len(made[r]) = runs[r] + dropped'[r] + Len(out'[r]) + Cardinality(Of(r, queue'))
  <2>1. /\ Len(made[r]) = runs[r] + dropped[r] + Len(out[r]) + Cardinality(Of(r, queue))
        /\ runs[r] \in Nat /\ dropped[r] \in Nat /\ Len(out[r]) \in Nat
    BY <1>2, Zenon DEF FlowInv
  <2>2. /\ Cardinality(Of(r, queue)) \in Nat
        /\ x.probe = r => Cardinality(Of(r, Append(queue, x))) = Cardinality(Of(r, queue)) + 1
        /\ x.probe # r => Cardinality(Of(r, Append(queue, x))) = Cardinality(Of(r, queue))
    BY <1>2, OfAppend, Zenon
  <2>3. CASE r = p
    <3>1. Len(out'[r]) = Len(out[r]) - 1
      BY <1>1, <1>2, <1>3, <2>3, Zenon
    <3>2. \/ dropped'[r] = dropped[r] /\ Cardinality(Of(r, queue')) = Cardinality(Of(r, queue)) + 1
          \/ dropped'[r] = dropped[r] + 1 /\ Cardinality(Of(r, queue')) = Cardinality(Of(r, queue))
      BY <1>1, <1>4, <2>2, <2>3, Zenon DEF FlowInv
    <3>3. PICK c \in Nat : c = Cardinality(Of(r, queue))
      BY <2>2, Zenon
    <3>4. PICK a \in Nat, d \in Nat, l \in Nat :
            a = runs[r] /\ d = dropped[r] /\ l = Len(out[r]) /\ Len(made[r]) = a + d + l + c
      BY <2>1, <3>3, Zenon
    <3>7. a + d + l + c = a + d + (l - 1) + (c + 1) /\ a + d + l + c = a + (d + 1) + (l - 1) + c
      OBVIOUS
    <3>5. CASE dropped'[r] = dropped[r] /\ Cardinality(Of(r, queue')) = c + 1
      BY <3>1, <3>4, <3>5, <3>7, Zenon
    <3>6. CASE dropped'[r] = dropped[r] + 1 /\ Cardinality(Of(r, queue')) = c
      BY <3>1, <3>4, <3>6, <3>7, Zenon
    <3> QED BY <3>2, <3>3, <3>5, <3>6, Zenon
  <2>4. CASE r # p
    <3>1. out'[r] = out[r] /\ dropped'[r] = dropped[r]
      BY <1>1, <1>2, <2>4, Zenon DEF FlowInv
    <3>2. Cardinality(Of(r, queue')) = Cardinality(Of(r, queue))
      BY <1>1, <1>4, <2>2, <2>4, Zenon
    <3> QED BY <2>1, <3>1, <3>2, Zenon
  <2> QED BY <2>3, <2>4, Zenon
<1> QED BY <1>1, <1>5, <1>6, Zenon DEF FlowInv

\* A result leaves the channel and is counted as exported.
LEMMA FlowDispatch ==
  ASSUME OrderInv, FlowInv, NEW b \in BOOLEAN, Dispatch(b)
  PROVE  FlowInv'
<1> DEFINE x == Head(queue)
<1>1. /\ queue # <<>> /\ queue' = Tail(queue) /\ log' = Append(log, x)
      /\ runs' = [runs EXCEPT ![x.probe] = @ + 1] /\ UNCHANGED <<made, dropped, out>>
  BY Zenon DEF Dispatch
<1>2. IsSeq(queue) /\ IsSeq(log)
  BY Zenon DEF OrderInv, ResultsUpTo
<1>3. x.probe \in Probe
  BY <1>1, TailSorted, Zenon DEF OrderInv, Result
<1> HIDE DEF x
<1>4. runs' \in [Probe -> Nat]
  BY <1>1, <1>3 DEF FlowInv
<1>5. ASSUME NEW r \in Probe
      PROVE  /\ Len(made[r]) = runs'[r] + dropped[r] + Len(out[r]) + Cardinality(Of(r, queue'))
             /\ runs'[r] = Cardinality(Of(r, log'))
  <2>1. /\ Len(made[r]) = runs[r] + dropped[r] + Len(out[r]) + Cardinality(Of(r, queue))
        /\ runs[r] \in Nat /\ dropped[r] \in Nat /\ Len(out[r]) \in Nat
        /\ runs[r] = Cardinality(Of(r, log))
    BY Zenon DEF FlowInv, OrderInv, ResultsUpTo
  <2>2. /\ Cardinality(Of(r, queue)) \in Nat /\ Cardinality(Of(r, queue')) \in Nat
        /\ x.probe = r => Cardinality(Of(r, queue)) = Cardinality(Of(r, queue')) + 1
        /\ x.probe # r => Cardinality(Of(r, queue)) = Cardinality(Of(r, queue'))
    BY <1>1, <1>2, OfTail, Zenon DEF x
  <2>3. /\ x.probe = r => Cardinality(Of(r, log')) = Cardinality(Of(r, log)) + 1
        /\ x.probe # r => Cardinality(Of(r, log')) = Cardinality(Of(r, log))
    BY <1>1, <1>2, OfAppend, Zenon
  <2>4. /\ x.probe = r => runs'[r] = runs[r] + 1
        /\ x.probe # r => runs'[r] = runs[r]
    BY <1>1, <1>3, Zenon DEF FlowInv
  <2>5. PICK c \in Nat : c = Cardinality(Of(r, queue'))
    BY <2>2, Zenon
  <2>6. CASE x.probe = r
    <3>1. Len(made[r]) = runs[r] + dropped[r] + Len(out[r]) + (c + 1) /\ runs'[r] = runs[r] + 1
      BY <2>1, <2>2, <2>4, <2>5, <2>6, Zenon
    <3>2. Len(made[r]) = runs'[r] + dropped[r] + Len(out[r]) + c
      <4>1. PICK a \in Nat, d \in Nat, l \in Nat : a = runs[r] /\ d = dropped[r] /\ l = Len(out[r])
        BY <2>1, Zenon
      <4>2. a + d + l + (c + 1) = (a + 1) + d + l + c
        OBVIOUS
      <4> QED BY <3>1, <4>1, <4>2, Zenon
    <3> QED BY <2>1, <2>3, <2>5, <2>6, <3>1, <3>2, Zenon
  <2>7. CASE x.probe # r
    BY <2>1, <2>2, <2>3, <2>4, <2>7, Zenon
  <2> QED BY <2>6, <2>7, Zenon
<1> QED BY <1>1, <1>4, <1>5, Zenon DEF FlowInv

\* Every step keeps each result accounted for.
LEMMA FlowStep == OrderInv /\ FlowInv /\ [Next]_vars => FlowInv'
<1> SUFFICES ASSUME OrderInv, FlowInv, [Next]_vars PROVE FlowInv'
  OBVIOUS
<1>1. CASE UNCHANGED <<out, queue, log, made, runs, dropped>>
  BY <1>1, Zenon DEF FlowInv
<1>2. ASSUME NEW p \in Probe, RunProbe(p) PROVE FlowInv'
  BY <1>2, FlowRun, Zenon
<1>3. ASSUME NEW p \in Probe, Offer(p) PROVE FlowInv'
  BY <1>3, FlowOffer, Zenon
<1>4. ASSUME NEW b \in BOOLEAN, Dispatch(b) PROVE FlowInv'
  BY <1>4, FlowDispatch, Zenon
<1> QED
  BY <1>1, <1>2, <1>3, <1>4, Zenon DEF Next, vars, exportVars, Close, Reload, Push, Stop, Wait, Closed

\* The error counters: a key that is not there has no error.
ErrorInv ==
  /\ \A i \in DOMAIN log : IsError(log[i]) => ErrorKey(log[i]) \in DOMAIN errors
  /\ \A e \in DOMAIN errors : errors[e] = Cardinality(ErrorsOf(e))

\* An Export of an error adds one to the counter of its key.
LEMMA ErrorDispatch ==
  ASSUME IsSeq(log), ErrorInv, NEW b \in BOOLEAN, Dispatch(b)
  PROVE  ErrorInv'
<1> DEFINE x == Head(queue)
           n == Len(log)
           y == ErrorKey(x)
<1>1. /\ log' = Append(log, x)
      /\ IsError(x) => errors' = Put(errors, y, Get(errors, y) + 1)
      /\ ~IsError(x) => errors' = errors
  BY Zenon DEF Dispatch
<1> HIDE DEF x
<1>2. /\ n \in Nat /\ DOMAIN log = 1..n /\ DOMAIN log' = 1..(n + 1)
      /\ \A i \in 1..n : log'[i] = log[i]
      /\ log'[n + 1] = x
  BY <1>1, Appended
<1> HIDE DEF n, y
<1>3. \A i : i \in 1..(n + 1) <=> i \in 1..n \/ i = n + 1
  BY <1>2
<1>4. ASSUME NEW e
      PROVE  /\ IsError(x) /\ e = y => ErrorsOf(e)' = ErrorsOf(e) \cup {n + 1}
             /\ ~IsError(x) \/ e # y => ErrorsOf(e)' = ErrorsOf(e)
  BY <1>2, <1>3 DEF ErrorsOf, y
<1>5. ASSUME NEW e
      PROVE  /\ Cardinality(ErrorsOf(e)) \in Nat
             /\ Cardinality(ErrorsOf(e) \cup {n + 1}) = Cardinality(ErrorsOf(e)) + 1
  <2>1. ErrorsOf(e) \in SUBSET (1..n)
    BY <1>2, Zenon DEF ErrorsOf
  <2> QED BY <1>2, <2>1, Positions, Zenon
<1>6. ASSUME NEW e, e \notin DOMAIN errors PROVE Cardinality(ErrorsOf(e)) = 0
  <2>1. ErrorsOf(e) = {}
    BY <1>6, Zenon DEF ErrorInv, ErrorsOf
  <2> QED BY <2>1, FS_EmptySet, Zenon
<1>7. CASE ~IsError(x)
  <2>1. errors' = errors /\ \A e : ErrorsOf(e)' = ErrorsOf(e)
    BY <1>1, <1>4, <1>7, Zenon
  <2>2. ASSUME NEW i \in DOMAIN log', IsError(log'[i]) PROVE ErrorKey(log'[i]) \in DOMAIN errors
    BY <1>2, <1>3, <1>7, <2>2, Zenon DEF ErrorInv
  <2> QED BY <2>1, <2>2, Zenon DEF ErrorInv
<1>8. CASE IsError(x)
  <2>1. /\ DOMAIN errors' = DOMAIN errors \cup {y}
        /\ errors'[y] = Get(errors, y) + 1
        /\ \A e \in DOMAIN errors : e # y => errors'[e] = errors[e]
    BY <1>1, <1>8, Zenon DEF Put
  <2>2. Get(errors, y) = Cardinality(ErrorsOf(y))
    BY <1>6, Zenon DEF Get, ErrorInv
  <2>3. ASSUME NEW i \in DOMAIN log', IsError(log'[i]) PROVE ErrorKey(log'[i]) \in DOMAIN errors'
    <3>1. CASE i \in 1..n
      BY <1>2, <2>1, <2>3, <3>1, Zenon DEF ErrorInv
    <3>2. CASE i = n + 1
      BY <1>2, <2>1, <3>2, Zenon DEF y
    <3> QED BY <1>2, <1>3, <3>1, <3>2, Zenon
  <2>4. ASSUME NEW e \in DOMAIN errors' PROVE errors'[e] = Cardinality(ErrorsOf(e)')
    <3>1. CASE e = y
      BY <1>4, <1>5, <1>8, <2>1, <2>2, <3>1, Zenon
    <3>2. CASE e # y
      BY <1>4, <2>1, <3>2, Zenon DEF ErrorInv
    <3> QED BY <3>1, <3>2, Zenon
  <2> QED BY <2>3, <2>4, Zenon DEF ErrorInv
<1> QED BY <1>7, <1>8, Zenon

\* The packet counters of the series.
Packets(k) == [i \in DOMAIN log |-> log[i][k]]

PacketInv ==
  \A s \in DOMAIN series : \A k \in {"sent", "rcvd"} :
    series[s][k] = SumFunctionOnSet(Packets(k), PacketsOf(s))

\* What Dispatch adds to the packets of its series.
LEMMA RecordedPackets ==
  ASSUME NEW b \in BOOLEAN, Dispatch(b), NEW k \in {"sent", "rcvd"}
  PROVE  LET r == Head(queue)
         IN  series'[buildAttrs(r)][k] =
               Counters(buildAttrs(r))[k] + (IF IsError(r) THEN 0 ELSE r[k])
<1> DEFINE r == Head(queue)
           s == buildAttrs(r)
           x == [g    |-> Gauges(r.type, r),
                 sent |-> Counters(s).sent + (IF IsError(r) THEN 0 ELSE r.sent),
                 rcvd |-> Counters(s).rcvd + (IF IsError(r) THEN 0 ELSE r.rcvd)]
<1>1. series' = Put(series, s, x)
  BY Zenon DEF Dispatch, Record
<1>2. x[k] = Counters(s)[k] + (IF IsError(r) THEN 0 ELSE r[k])
  <2>1. CASE k = "sent"
    BY <2>1, Zenon
  <2>2. CASE k = "rcvd"
    BY <2>2, Zenon
  <2> QED BY <2>1, <2>2, Zenon
<1> HIDE DEF s, x
<1>3. series'[s] = x
  BY <1>1, Zenon DEF Put
<1> QED BY <1>2, <1>3, Zenon DEF s

\* An Export adds the packets of its result to those of its series.
LEMMA PacketDispatch ==
  ASSUME OrderInv, GaugeInv, PacketInv, NEW b \in BOOLEAN, Dispatch(b)
  PROVE  PacketInv'
<1> DEFINE x == Head(queue)
           n == Len(log)
           y == buildAttrs(x)
<1>1. /\ log' = Append(log, x) /\ DOMAIN series' = DOMAIN series \cup {y}
      /\ \A s \in DOMAIN series : s # y => series'[s] = series[s]
  BY Recorded, Zenon
<1>2. \A k \in {"sent", "rcvd"} :
        series'[y][k] = Counters(y)[k] + (IF IsError(x) THEN 0 ELSE x[k])
  BY RecordedPackets, Zenon
<1>3. /\ IsSeq(log) /\ \A i \in 1..n : Result(log[i])
      /\ Result(x)
  <2>1. queue # <<>>
    BY Zenon DEF Dispatch
  <2>2. Result(x)
    BY <2>1, TailSorted, Zenon DEF OrderInv
  <2> QED BY <2>2, Zenon DEF OrderInv, ResultsUpTo
<1> HIDE DEF x
<1>4. /\ n \in Nat /\ DOMAIN log = 1..n /\ DOMAIN log' = 1..(n + 1)
      /\ \A i \in 1..n : log'[i] = log[i]
      /\ log'[n + 1] = x
  BY <1>1, <1>3, Appended
<1> HIDE DEF n, y
<1>5. \A i : i \in 1..(n + 1) <=> i \in 1..n \/ i = n + 1
  BY <1>4
<1>6. ASSUME NEW s
      PROVE  /\ ~IsError(x) /\ s = y => PacketsOf(s)' = PacketsOf(s) \cup {n + 1}
             /\ IsError(x) \/ s # y => PacketsOf(s)' = PacketsOf(s)
  BY <1>4, <1>5 DEF PacketsOf, y
<1>7. ASSUME NEW s \in DOMAIN series', NEW k \in {"sent", "rcvd"}
      PROVE  series'[s][k] = SumFunctionOnSet(Packets(k)', PacketsOf(s)')
  <2> DEFINE P == PacketsOf(s)
             f == Packets(k)
             h == Packets(k)'
  <2>1. P \in SUBSET (1..n)
    BY <1>4, Zenon DEF PacketsOf
  <2>2. IsFiniteSet(P) /\ n + 1 \notin P
    BY <1>4, <2>1, Positions, Zenon
  <2>3. x[k] \in Nat /\ \A i \in 1..n : log[i][k] \in Nat
    <3>1. ASSUME NEW r, Result(r) PROVE r[k] \in Nat
      BY <3>1, Zenon DEF Result
    <3> QED BY <1>3, <3>1, Zenon
  <2>4. /\ \A i \in 1..n : f[i] \in Nat /\ h[i] = f[i]
        /\ h[n + 1] = x[k]
    BY <1>4, <1>5, <2>3, Zenon DEF Packets
  <2> HIDE DEF P, f, h
  <2>5. SumFunctionOnSet(h, P) = SumFunctionOnSet(f, P)
    <3>1. \A i \in P : h[i] = f[i]
      BY <2>1, <2>4, Zenon
    <3> QED BY <2>2, <3>1, SumSame, Zenon
  <2>6. SumFunctionOnSet(h, P \cup {n + 1}) = SumFunctionOnSet(h, P) + x[k]
    <3>1. h[n + 1] \in Int /\ \A i \in P : h[i] \in Int
      BY <2>1, <2>3, <2>4
    <3>2. SumFunctionOnSet(h, P \cup {n + 1}) = SumFunctionOnSet(h, P) + h[n + 1]
      BY <2>2, <3>1, SumAdd
    <3> QED BY <2>4, <3>2, Zenon
  <2>7. CASE s # y
    <3>1. s \in DOMAIN series /\ series'[s] = series[s] /\ PacketsOf(s)' = P
      BY <1>1, <1>6, <2>7, Zenon DEF P
    <3> QED BY <2>5, <3>1, Zenon DEF PacketInv, P, f, h
  <2>8. CASE s = y
    <3>1. Counters(y)[k] = SumFunctionOnSet(f, P)
      <4>1. CASE y \in DOMAIN series
        BY <2>8, <4>1, Zenon DEF Counters, PacketInv, P, f
      <4>2. CASE y \notin DOMAIN series
        <5>1. P = {}
          BY <1>4, <2>8, <4>2, Zenon DEF GaugeInv, PacketsOf, P, n
        <5>2. [sent |-> 0, rcvd |-> 0][k] = 0
          OBVIOUS
        <5>3. Counters(y) = [sent |-> 0, rcvd |-> 0]
          BY <4>2, Zenon DEF Counters
        <5> QED BY <5>1, <5>2, <5>3, SumEmpty, Zenon
      <4> QED BY <4>1, <4>2, Zenon
    <3>2. SumFunctionOnSet(f, P) \in Int
      <4>1. \A i \in P : f[i] \in Int
        BY <2>1, <2>4
      <4> QED BY <2>2, <4>1, SumRemove, Zenon
    <3>3. CASE IsError(x)
      <4>1. series'[y][k] = Counters(y)[k] + 0 /\ PacketsOf(s)' = P
        BY <1>2, <1>6, <3>3, Zenon DEF P
      <4> QED BY <2>5, <2>8, <3>1, <3>2, <4>1 DEF h
    <3>4. CASE ~IsError(x)
      <4>1. series'[y][k] = Counters(y)[k] + x[k] /\ PacketsOf(s)' = P \cup {n + 1}
        BY <1>2, <1>6, <2>8, <3>4, Zenon DEF P
      <4> QED BY <2>5, <2>6, <2>8, <3>1, <4>1, Zenon DEF h
    <3> QED BY <3>3, <3>4, Zenon
  <2> QED BY <2>7, <2>8, Zenon
<1> QED BY <1>7, Zenon DEF PacketInv

CountInv == FlowInv /\ ErrorInv /\ PacketInv

\* All counters are 0 at the start.
LEMMA CountInit == Init => CountInv
<1> SUFFICES ASSUME Init PROVE CountInv
  OBVIOUS
<1>1. DOMAIN log = {} /\ DOMAIN errors = {} /\ DOMAIN series = {}
  BY DEF Init
<1>2. ErrorInv /\ PacketInv
  BY <1>1, Zenon DEF ErrorInv, PacketInv
<1> QED BY <1>2, FlowInit, Zenon DEF CountInv

\* Every step keeps the counters those of the log.
LEMMA CountStep == OrderInv /\ GaugeInv /\ CountInv /\ [Next]_vars => CountInv'
<1> SUFFICES ASSUME OrderInv, GaugeInv, CountInv, [Next]_vars PROVE CountInv'
  OBVIOUS
<1>1. FlowInv'
  BY FlowStep, Zenon DEF CountInv
<1>2. CASE UNCHANGED <<log, errors, series>>
  <2>1. \A e : ErrorsOf(e)' = ErrorsOf(e) /\ PacketsOf(e)' = PacketsOf(e) /\ Packets(e)' = Packets(e)
    BY <1>2, Zenon DEF ErrorsOf, PacketsOf, Packets
  <2>2. ErrorInv' /\ PacketInv'
    BY <1>2, <2>1, Zenon DEF CountInv, ErrorInv, PacketInv
  <2> QED BY <1>1, <2>2, Zenon DEF CountInv
<1>3. ASSUME NEW b \in BOOLEAN, Dispatch(b) PROVE CountInv'
  BY <1>1, <1>3, ErrorDispatch, PacketDispatch, Zenon DEF CountInv, GaugeInv
<1> QED
  BY <1>2, <1>3, Zenon DEF Next, vars, exportVars, RunProbe, Offer, Close, Reload, Push, Stop, Wait, Closed

\* The property, from the invariant.
LEMMA CountersFromInv == CountInv => CountersAccount
BY Zenon DEF CountInv, FlowInv, ErrorInv, PacketInv, Packets, CountersAccount

\* Whatever the probes, the size of the channel and the outcomes of the runs, the
\* self-observability counters account for every result, every error and every
\* packet.
THEOREM CountersAccountForAll == Spec => []CountersAccount
BY OrderInit, OrderStep, GaugeInit, GaugeStep, CountInit, CountStep, CountersFromInv, PTL DEF Spec

-----------------------------------------------------------------------------
(* The shutdown *)

\* What main has waited for in each phase.
PhaseInv ==
  /\ phase \in {"running", "stopped", "drained", "closed"}
  /\ phase # "running" => WorkersExited
  /\ phase \in {"drained", "closed"} => queue = <<>>
  /\ phase = "closed" /\ flushed => pushed = Snapshot

\* The process has not begun to stop.
LEMMA PhaseInit == Init => PhaseInv
BY Zenon DEF Init, PhaseInv

\* Every step keeps what is over by each phase of the shutdown.
LEMMA PhaseStep == PhaseInv /\ [Next]_vars => PhaseInv'
<1> SUFFICES ASSUME PhaseInv, [Next]_vars PROVE PhaseInv'
  OBVIOUS
<1>1. CASE UNCHANGED vars
  BY <1>1, Zenon DEF PhaseInv, vars, WorkersExited, Snapshot
<1>2. ASSUME NEW p \in Probe, RunProbe(p) PROVE PhaseInv'
  BY <1>2, Zenon DEF PhaseInv, RunProbe
<1>3. ASSUME NEW p \in Probe, Offer(p) PROVE PhaseInv'
  BY <1>3, Zenon DEF PhaseInv, Offer, WorkersExited
<1>4. ASSUME NEW b \in BOOLEAN, Dispatch(b) PROVE PhaseInv'
  BY <1>4, Zenon DEF PhaseInv, Dispatch, WorkersExited
<1>5. ASSUME NEW b \in BOOLEAN, Close(b) PROVE PhaseInv'
  BY <1>5, Zenon DEF PhaseInv, Close, WorkersExited, Snapshot, exportVars
<1>6. ASSUME NEW k, Reload(k) PROVE PhaseInv'
  BY <1>6, Zenon DEF PhaseInv, Reload
<1>7. CASE Push
  BY <1>7, Zenon DEF PhaseInv, Push, WorkersExited
<1>8. CASE Stop
  BY <1>8, Zenon DEF PhaseInv, Stop, WorkersExited
<1>9. CASE Wait
  BY <1>9, Zenon DEF PhaseInv, Wait, WorkersExited
<1> QED
  BY <1>1, <1>2, <1>3, <1>4, <1>5, <1>6, <1>7, <1>8, <1>9, Zenon DEF Next, Closed

\* The property, from the invariants.
LEMMA FlushedFromInv == PhaseInv /\ FlowInv => FlushedAtExit
<1> SUFFICES ASSUME PhaseInv, FlowInv, phase = "closed", flushed PROVE AllPushed
  BY Zenon DEF FlushedAtExit
<1>1. pushed = Snapshot /\ queue = <<>> /\ \A p \in Probe : out[p] = <<>>
  BY Zenon DEF PhaseInv, WorkersExited
<1>2. pushed.series = series
  BY <1>1, Zenon DEF Snapshot
<1>3. Len(<<>>) = 0 /\ \A p : Cardinality(Of(p, <<>>)) = 0
  <2>1. \A p : Of(p, <<>>) = {}
    BY DEF Of
  <2> QED BY <2>1, FS_EmptySet, Zenon
<1>4. ASSUME NEW p \in Probe PROVE Len(made[p]) = Cardinality(Of(p, log)) + dropped[p]
  <2>1. /\ Len(made[p]) = runs[p] + dropped[p] + 0 + 0 /\ runs[p] \in Nat /\ dropped[p] \in Nat
        /\ runs[p] = Cardinality(Of(p, log))
    BY <1>1, <1>3, Zenon DEF FlowInv
  <2>2. Len(made[p]) = runs[p] + dropped[p]
    BY <2>1
  <2> QED BY <2>1, <2>2, Zenon
<1> QED BY <1>2, <1>4, Zenon DEF AllPushed

\* Main's order of Stop, Wait and Close leaves nothing behind in any run: after a
\* flush that arrived, the collector's series tell of every result but the dropped
\* ones.
THEOREM Flushed == Spec => []FlushedAtExit
BY OrderInit, OrderStep, FlowInit, FlowStep, PhaseInit, PhaseStep, FlushedFromInv, PTL DEF Spec

-----------------------------------------------------------------------------
(* Series that are left behind *)

\* The same probe under the same config, as far as attributes tell.
Alike(a, b) == a.type = b.type /\ a.source = b.source /\ a.labels = b.labels

\* Where the results of p that have left the worker, or are to leave it, are.
Places(p) == Elements(log) \cup Elements(queue) \cup Elements(out[p]) \cup lost

\* Every result a run returned is somewhere, and what is on its way or exported
\* was returned by a run; the results of one run are alike.
PlacesInv ==
  /\ DOMAIN made = Probe
  /\ \A p \in Probe :
       /\ IsSeq(made[p])
       /\ \A m \in Elements(made[p]) : Result(m) /\ m.probe = p /\ m.run <= ran
       /\ \A m, n \in Elements(made[p]) : m.run = n.run => Alike(m, n)
       /\ Elements(made[p]) \subseteq Places(p)
       /\ Elements(out[p]) \subseteq Elements(made[p])
  /\ \A x \in Elements(log) \cup Elements(queue) : x \in Elements(made[x.probe])

\* No run has returned anything at the start.
LEMMA PlacesInit == Init => PlacesInv
<1> SUFFICES ASSUME Init PROVE PlacesInv
  OBVIOUS
<1>1. /\ DOMAIN made = Probe /\ queue = <<>> /\ log = <<>>
      /\ \A p \in Probe : made[p] = <<>> /\ out[p] = <<>>
  BY Zenon DEF Init
<1>2. IsSeq(<<>>) /\ Elements(<<>>) = {}
  BY DEF IsSeq, Elements
<1> QED BY <1>1, <1>2, Zenon DEF PlacesInv

\* A run's results are all to be sent; they are alike, and of no earlier run.
LEMMA PlacesRun ==
  ASSUME OrderInv, PlacesInv, NEW p \in Probe, RunProbe(p)
  PROVE  PlacesInv'
<1>1. PICK q : /\ IsSeq(q) /\ \A i \in 1..Len(q) : Fresh(q[i], p)
               /\ out' = [out EXCEPT ![p] = q]
               /\ made' = [made EXCEPT ![p] = @ \o q]
  BY RunIs, Zenon DEF OrderInv
<1>2. /\ out[p] = <<>> /\ ran' = ran + 1 /\ ran \in Nat
      /\ queue' = queue /\ log' = log /\ lost' = lost
  BY Zenon DEF RunProbe, OrderInv, exportVars
<1>3. /\ DOMAIN made' = Probe /\ made'[p] = made[p] \o q /\ out'[p] = q
      /\ \A r \in Probe : r # p => made'[r] = made[r] /\ out'[r] = out[r]
  BY <1>1, Zenon DEF OrderInv, PlacesInv
<1>4. IsSeq(made'[p]) /\ Elements(made'[p]) = Elements(made[p]) \cup Elements(q)
  <2>1. IsSeq(made[p]) /\ IsSeq(q)
    BY <1>1, Zenon DEF PlacesInv
  <2>2. IsSeq(made[p] \o q) /\ Elements(made[p] \o q) = Elements(made[p]) \cup Elements(q)
    BY <2>1, Joined, Zenon
  <2> QED BY <1>3, <2>2, Zenon
<1>5. \A m \in Elements(q) : Fresh(m, p)
  BY <1>1, Zenon DEF Elements
<1>6. ASSUME NEW r \in Probe, NEW m \in Elements(made[r])
      PROVE  Result(m) /\ m.probe = r /\ m.run <= ran + 1 /\ m.run # ran + 1
  <2>1. Result(m) /\ m.probe = r /\ m.run <= ran /\ m.run \in Nat
    BY Zenon DEF PlacesInv, Result
  <2>2. m.run <= ran + 1 /\ m.run # ran + 1
    BY <1>2, <2>1
  <2> QED BY <2>1, <2>2, Zenon
<1>7. \A m \in Elements(q) : Result(m) /\ m.probe = p /\ m.run <= ran + 1
  <2>1. ran + 1 <= ran + 1
    BY <1>2
  <2> QED BY <1>5, <2>1, Zenon DEF Fresh
<1>8. \A m, n \in Elements(made'[p]) : m.run = n.run => Alike(m, n)
  <2>1. \A m, n \in Elements(q) : Alike(m, n)
    BY <1>5, Zenon DEF Fresh, Alike
  <2>2. \A m \in Elements(q) : m.run = ran + 1
    BY <1>5, Zenon DEF Fresh
  <2>3. \A m \in Elements(made[p]) : m.run # ran + 1
    BY <1>6, Zenon
  <2>4. \A m, n \in Elements(made[p]) : m.run = n.run => Alike(m, n)
    BY Zenon DEF PlacesInv
  <2> QED BY <1>4, <2>1, <2>2, <2>3, <2>4, Zenon
<1>9. ASSUME NEW r \in Probe PROVE Elements(made'[r]) \subseteq Places(r)'
  <2>1. CASE r = p
    <3>1. Elements(out[p]) = {}
      <4>1. Elements(<<>>) = {}
        BY DEF Elements
      <4> QED BY <1>2, <4>1, Zenon
    <3>2. Elements(made[p]) \subseteq Places(p)
      BY Zenon DEF PlacesInv
    <3> QED BY <1>2, <1>3, <1>4, <2>1, <3>1, <3>2, Zenon DEF Places
  <2>2. CASE r # p
    BY <1>2, <1>3, <2>2, Zenon DEF PlacesInv, Places
  <2> QED BY <2>1, <2>2, Zenon
<1>10. ASSUME NEW r \in Probe
       PROVE  /\ IsSeq(made'[r])
              /\ \A m \in Elements(made'[r]) : Result(m) /\ m.probe = r /\ m.run <= ran + 1
              /\ \A m, n \in Elements(made'[r]) : m.run = n.run => Alike(m, n)
              /\ Elements(out'[r]) \subseteq Elements(made'[r])
              /\ Elements(made[r]) \subseteq Elements(made'[r])
  <2>1. CASE r = p
    BY <1>3, <1>4, <1>6, <1>7, <1>8, <2>1, Zenon
  <2>2. CASE r # p
    BY <1>3, <1>6, <2>2, Zenon DEF PlacesInv
  <2> QED BY <2>1, <2>2, Zenon
<1>11. \A x \in Elements(log) \cup Elements(queue) : x \in Elements(made'[x.probe])
  <2>1. \A x \in Elements(log) \cup Elements(queue) : x.probe \in Probe /\ x \in Elements(made[x.probe])
    <3>1. /\ \A i \in 1..Len(log) : log[i].probe \in Probe
          /\ \A i \in 1..Len(queue) : queue[i].probe \in Probe
      BY Zenon DEF OrderInv, ResultsUpTo, Result
    <3>2. \A x \in Elements(log) \cup Elements(queue) : x.probe \in Probe
      BY <3>1, Zenon DEF Elements
    <3> QED BY <3>2, Zenon DEF PlacesInv
  <2> QED BY <1>10, <2>1, Zenon
<1> QED BY <1>2, <1>3, <1>9, <1>10, <1>11, Zenon DEF PlacesInv

\* A step that makes no result leaves each where it was, or in another place.
LEMMA PlacesKept ==
  ASSUME PlacesInv, ran' = ran, made' = made,
         \A r \in Probe : /\ Elements(made[r]) \subseteq Places(r)'
                          /\ Elements(out'[r]) \subseteq Elements(made[r]),
         \A y \in Elements(log') \cup Elements(queue') : y \in Elements(made[y.probe])
  PROVE  PlacesInv'
<1>1. ASSUME NEW r \in Probe
      PROVE  /\ IsSeq(made'[r])
             /\ \A m \in Elements(made'[r]) : Result(m) /\ m.probe = r /\ m.run <= ran'
             /\ \A m, n \in Elements(made'[r]) : m.run = n.run => Alike(m, n)
             /\ Elements(made'[r]) \subseteq Places(r)'
             /\ Elements(out'[r]) \subseteq Elements(made'[r])
  BY Zenon DEF PlacesInv
<1>2. DOMAIN made' = Probe
  BY Zenon DEF PlacesInv
<1>3. \A y \in Elements(log') \cup Elements(queue') : y \in Elements(made'[y.probe])
  BY Zenon
<1> QED BY <1>1, <1>2, <1>3, Zenon DEF PlacesInv

\* An offered result goes to the channel, or is lost.
LEMMA PlacesOffer ==
  ASSUME OrderInv, PlacesInv, NEW p \in Probe, Offer(p)
  PROVE  PlacesInv'
<1> DEFINE x == Head(out[p])
<1>1. /\ out[p] # <<>> /\ out' = [out EXCEPT ![p] = Tail(out[p])]
      /\ ran' = ran /\ log' = log /\ made' = made
      /\ \/ queue' = Append(queue, x) /\ lost' = lost
         \/ queue' = queue /\ lost' = lost \cup {x}
  BY Zenon DEF Offer, exportVars
<1>2. IsSeq(queue) /\ IsSeq(out[p]) /\ DOMAIN out = Probe
  BY Zenon DEF OrderInv, ResultsUpTo
<1>3. Elements(out[p]) = Elements(Tail(out[p])) \cup {x}
  BY <1>1, <1>2, ElementsTail, Zenon
<1>4. x \in Elements(made[p]) /\ x.probe = p
  BY <1>3, Zenon DEF PlacesInv
<1> HIDE DEF x
<1>5. Elements(Append(queue, x)) = Elements(queue) \cup {x}
  BY <1>2, ElementsAppend, Zenon
<1>6. /\ Elements(queue) \subseteq Elements(queue') /\ Elements(queue') \subseteq Elements(queue) \cup {x}
      /\ lost \subseteq lost' /\ x \in Elements(queue') \cup lost'
  BY <1>1, <1>5, Zenon
<1>7. out'[p] = Tail(out[p]) /\ \A r \in Probe : r # p => out'[r] = out[r]
  BY <1>1, <1>2, Zenon
<1>8. ASSUME NEW r \in Probe
      PROVE  Elements(made[r]) \subseteq Places(r)' /\ Elements(out'[r]) \subseteq Elements(made[r])
  <2>1. Elements(made[r]) \subseteq Places(r) /\ Elements(out[r]) \subseteq Elements(made[r])
    BY Zenon DEF PlacesInv
  <2>2. Elements(out'[r]) \subseteq Elements(out[r]) /\ Elements(out[r]) \subseteq Elements(out'[r]) \cup {x}
    BY <1>3, <1>7, Zenon
  <2> QED BY <1>1, <1>6, <2>1, <2>2, Zenon DEF Places
<1>9. \A y \in Elements(log) \cup Elements(queue') : y \in Elements(made[y.probe])
  BY <1>4, <1>6, Zenon DEF PlacesInv
<1> QED BY <1>1, <1>8, <1>9, PlacesKept, Zenon

\* A result that leaves the channel is exported.
LEMMA PlacesDispatch ==
  ASSUME OrderInv, PlacesInv, NEW b \in BOOLEAN, Dispatch(b)
  PROVE  PlacesInv'
<1> DEFINE x == Head(queue)
<1>1. /\ queue # <<>> /\ queue' = Tail(queue) /\ log' = Append(log, x)
      /\ ran' = ran /\ out' = out /\ made' = made /\ lost' = lost
  BY Zenon DEF Dispatch
<1>2. IsSeq(queue) /\ IsSeq(log)
  BY Zenon DEF OrderInv, ResultsUpTo
<1>3. Elements(queue) = Elements(Tail(queue)) \cup {x}
  BY <1>1, <1>2, ElementsTail, Zenon
<1>4. Elements(log') = Elements(log) \cup {x}
  BY <1>1, <1>2, ElementsAppend, Zenon
<1> HIDE DEF x
<1>5. \A r : Places(r)' = Places(r)
  BY <1>1, <1>3, <1>4, Zenon DEF Places
<1>6. \A y \in Elements(log') \cup Elements(queue') : y \in Elements(made[y.probe])
  BY <1>1, <1>3, <1>4, Zenon DEF PlacesInv
<1>7. \A r \in Probe : /\ Elements(made[r]) \subseteq Places(r)'
                      /\ Elements(out'[r]) \subseteq Elements(made[r])
  BY <1>1, <1>5, Zenon DEF PlacesInv
<1> QED BY <1>1, <1>6, <1>7, PlacesKept, Zenon

\* Every step keeps each result in its place.
LEMMA PlacesStep == OrderInv /\ PlacesInv /\ [Next]_vars => PlacesInv'
<1> SUFFICES ASSUME OrderInv, PlacesInv, [Next]_vars PROVE PlacesInv'
  OBVIOUS
<1>1. CASE UNCHANGED <<ran, out, queue, log, made, lost>>
  <2>1. \A r : Places(r)' = Places(r)
    BY <1>1, Zenon DEF Places
  <2>2. \A r \in Probe : /\ Elements(made[r]) \subseteq Places(r)'
                        /\ Elements(out'[r]) \subseteq Elements(made[r])
    BY <1>1, <2>1, Zenon DEF PlacesInv
  <2>3. \A y \in Elements(log') \cup Elements(queue') : y \in Elements(made[y.probe])
    BY <1>1, Zenon DEF PlacesInv
  <2> QED BY <1>1, <2>2, <2>3, PlacesKept, Zenon
<1>2. ASSUME NEW p \in Probe, RunProbe(p) PROVE PlacesInv'
  BY <1>2, PlacesRun, Zenon
<1>3. ASSUME NEW p \in Probe, Offer(p) PROVE PlacesInv'
  BY <1>3, PlacesOffer, Zenon
<1>4. ASSUME NEW b \in BOOLEAN, Dispatch(b) PROVE PlacesInv'
  BY <1>4, PlacesDispatch, Zenon
<1> QED
  BY <1>1, <1>2, <1>3, <1>4, Zenon DEF Next, vars, exportVars, Close, Reload, Push, Stop, Wait, Closed

\* The target entry a result is of: the name if it has one, else the address.
LEMMA EntryIs ==
  ASSUME NEW r
  PROVE  /\ NoName(r.fqdn) => Entry(r) = <<r.probe, r.target>>
         /\ ~NoName(r.fqdn) => Entry(r) = <<r.probe, r.fqdn>>
BY Zenon DEF Entry, NoName

\* Two results of an entry are of one probe, and with the same address of one
\* series if they are alike: the status is no attribute.
LEMMA SameSeries ==
  ASSUME NEW a, NEW b, Result(a), Result(b), Entry(b) = Entry(a)
  PROVE  /\ b.probe = a.probe
         /\ b.target = a.target /\ Alike(b, a) => buildAttrs(b) = buildAttrs(a)
<1>1. ASSUME NEW u, NEW v, Result(u), Result(v), Entry(u) = Entry(v), NoName(u.fqdn)
      PROVE  NoName(v.fqdn)
  <2> SUFFICES ASSUME ~NoName(v.fqdn) PROVE FALSE
    OBVIOUS
  <2>1. Entry(v) = <<v.probe, v.fqdn>> /\ v.fqdn \notin Address
    BY <1>1, EntryIs, Zenon DEF Result
  <2>2. Entry(u) = <<u.probe, u.target>> /\ u.target \in Address
    BY <1>1, EntryIs, Zenon DEF Result
  <2> QED BY <1>1, <2>1, <2>2
<1>2. b.probe = a.probe
  <2>1. \E n, k : Entry(a) = <<a.probe, n>> /\ Entry(b) = <<b.probe, k>>
    BY EntryIs, Zenon
  <2> QED BY <2>1
<1>3. b.fqdn = a.fqdn
  <2>1. CASE NoName(a.fqdn) \/ NoName(b.fqdn)
    <3>1. NoName(a.fqdn) /\ NoName(b.fqdn)
      BY <1>1, <2>1, Zenon
    <3> QED BY <3>1, Zenon DEF NoName
  <2>2. CASE ~NoName(a.fqdn) /\ ~NoName(b.fqdn)
    <3>1. Entry(a) = <<a.probe, a.fqdn>> /\ Entry(b) = <<b.probe, b.fqdn>>
      BY <2>2, EntryIs, Zenon
    <3> QED BY <3>1
  <2> QED BY <2>1, <2>2, Zenon
<1> QED BY <1>2, <1>3, Zenon DEF buildAttrs, Alike

\* The property, from the invariants: a result like the series' own that was
\* exported after it would be its last.
LEMMA StaleFromInv == OrderInv /\ GaugeInv /\ PlacesInv => StaleOnlyByMove
<1> SUFFICES ASSUME OrderInv, GaugeInv, PlacesInv, NEW s \in DOMAIN series,
                    NEW i \in DOMAIN log, Entry(log[i]) = Entry(LastOf(s)),
                    log[i].run > LastOf(s).run, Alike(log[i], LastOf(s)),
                    NEW m \in Range(made[LastOf(s).probe]),
                    m.run = log[i].run, Entry(m) = Entry(LastOf(s)), m.target = LastOf(s).target
             PROVE  m \in NotExported(LastOf(s).probe)
  BY Zenon DEF StaleOnlyByMove, Alike
<1> DEFINE r == LastOf(s)
           p == r.probe
<1>1. PICK k \in 1..Len(log) : IsLast(k, s) /\ r = log[k]
  BY LastIs, Zenon
<1>2. /\ DOMAIN log = 1..Len(log) /\ Len(log) \in Nat
      /\ \A j \in 1..Len(log) : Result(log[j]) /\ log[j].run \in Nat /\ log[j] \in Elements(log)
  BY Appended, Zenon DEF OrderInv, ResultsUpTo, Result, Elements
<1>3. p \in Probe /\ Result(r) /\ r.run \in Nat
  BY <1>1, <1>2, Zenon DEF Result
<1>4. m \in Elements(made[p]) /\ Result(m)
  <2>1. IsSeq(made[p]) /\ \A n \in Elements(made[p]) : Result(n)
    BY <1>3, Zenon DEF PlacesInv
  <2>2. m \in Elements(made[p])
    BY <2>1, RangeIs, Zenon
  <2> QED BY <2>1, <2>2, Zenon
<1>5. log[i].probe = p /\ log[i] \in Elements(made[p])
  <2>1. log[i].probe = p
    BY <1>2, <1>3, SameSeries, Zenon
  <2> QED BY <1>2, <2>1, Zenon DEF PlacesInv
<1>6. Alike(m, r)
  <2>1. Alike(m, log[i])
    BY <1>3, <1>4, <1>5, Zenon DEF PlacesInv
  <2> QED BY <2>1, Zenon DEF Alike
<1>7. m.probe = p /\ buildAttrs(m) = buildAttrs(r)
  BY <1>3, <1>4, <1>6, SameSeries, Zenon
<1>8. m \notin Elements(log)
  <2> SUFFICES ASSUME NEW j \in 1..Len(log), m = log[j] PROVE FALSE
    BY Zenon DEF Elements
  <2>1. j <= k
    BY <1>1, <1>7, Zenon DEF IsLast
  <2>2. j # k
    BY <1>1, <1>2, <1>3
  <2>3. j < k
    BY <2>1, <2>2
  <2>4. log[j].run <= log[k].run
    BY <1>1, <1>7, <2>3, Zenon DEF OrderInv, Sorted
  <2> QED BY <1>1, <1>2, <1>3, <2>4
<1>9. m \in Elements(queue) \cup Elements(out[p]) \cup lost
  BY <1>3, <1>4, <1>8, Zenon DEF PlacesInv, Places
<1>10. Range(queue) = Elements(queue) /\ Range(out[p]) = Elements(out[p])
  BY <1>3, RangeIs, Zenon DEF OrderInv, ResultsUpTo
<1> QED BY <1>9, <1>10, Zenon DEF NotExported

\* For any runs, lookups, drops and reloads: a series misses a run its entry was
\* exported of only when a reload changed the probe or nothing of that run for
\* its address was exported; a status never moves it.
THEOREM SeriesStay == Spec => []StaleOnlyByMove
BY OrderInit, OrderStep, GaugeInit, GaugeStep, PlacesInit, PlacesStep, StaleFromInv, PTL DEF Spec
=============================================================================
