------------------------------ MODULE ProbeRun ------------------------------
(***************************************************************************)
(* One run of a prober (internal/probe and its protocol packages): the     *)
(* expansion of the targets, one goroutine per work item with its loop of  *)
(* attempts, the run's context and the results.                            *)
(* Time is discrete, in units of the configuration's durations; computing  *)
(* takes none.                                                             *)
(***************************************************************************)
EXTENDS Results, Integers, Sequences, FiniteSets, Functions

CONSTANTS
  Kinds,           \* kinds of prober; "connect" and "syn" are TCP's modes
  TargetLists,     \* the target entries a probe may have, in order
  Address,         \* the literal IPs
  Answers,         \* Answers[n]: the address lists the resolver may give for n
  MaxResolvedIPs,  \* addresses probed per name, 0 for all
  Count, PacketInterval, Timeout, Interval

\* What validateTargets establishes of a configuration; the resolver answers with
\* addresses.  A negative duration, which an http probe may have, acts as 0 does.
ASSUME ProbeRunAssumption ==
  /\ Kinds \subseteq {"icmp", "connect", "syn", "udp", "dns", "http"}
  /\ TargetLists \subseteq Seq(Address \cup DOMAIN Answers) \ {<<>>}
  /\ \A n \in DOMAIN Answers : Answers[n] \subseteq Seq(Address)
  /\ MaxResolvedIPs \in Nat
  /\ Count \in Nat /\ PacketInterval \in Nat /\ Timeout \in Nat /\ Interval \in Nat

\* What validateTimings requires, of every kind but http (makeProbeConfig); the
\* durations are such that their product does not overflow.
validateTimings ==
  /\ Interval > 0 /\ PacketInterval > 0 /\ Timeout > 0 /\ Count > 0
  /\ PacketInterval * Count < Timeout
  /\ Timeout < Interval

VARIABLES
  kind,       \* the prober's kind, fixed
  targets,    \* the probe's target entries, fixed
  now,        \* time since the run began
  ctx,        \* the run's context: live, past its deadline, cancelled by Stop
  pc,         \* RunWorkItems: expanding, probing, returned
  next,       \* index of the target entry to expand
  noServer,   \* dns: resolveServer failed
  items,      \* the work items and the state of their goroutines
  lookedUp    \* history: the time the expansion ended

vars == <<kind, targets, now, ctx, pc, next, noServer, items, lookedUp>>

\* A fresh work item for entry j of the targets, with a zero result.  refused
\* says that the context was done when the first attempt began.  hist and delay
\* are history: what the attempts met, and the time they took together.
NewItem(j, addr) ==
  [entry |-> j, ip |-> addr, st |-> "new", since |-> 0,
   sent |-> 0, rcvd |-> 0, open |-> FALSE,
   status |-> "", etype |-> "", loss |-> "zero", port |-> "nil", dur |-> FALSE,
   refused |-> FALSE, hist |-> <<>>, delay |-> 0]

LoopKinds == {"connect", "syn", "udp", "dns"}  \* the probers that use RunLoop
PortKinds == {"connect", "syn", "udp"}         \* ... and that set PortOpen

Init ==
  /\ kind \in {k \in Kinds : k # "http" => validateTimings}
  /\ targets \in TargetLists
  /\ now = 0 /\ ctx = "live"
  /\ pc = "expanding" /\ next = 1
  /\ noServer \in {b \in BOOLEAN : b => kind = "dns"}
  /\ items = <<>> /\ lookedUp = 0

-----------------------------------------------------------------------------
(* ExpandTargets, and the dns prober's use of its targets as they are *)

\* Mutant: the cap is tested before an address is counted.
OneTooMany(seen, a) ==
  IF \/ a \in Range(seen)
     \/ MaxResolvedIPs > 0 /\ Len(seen) > MaxResolvedIPs
  THEN seen ELSE Append(seen, a)

\* One address of a lookup: skipped when it is seen already or over the cap.
AddUnique(seen, a) ==
  IF \/ a \in Range(seen)
     \/ MaxResolvedIPs > 0 /\ Len(seen) >= MaxResolvedIPs
  THEN seen ELSE Append(seen, a)

\* The distinct addresses of a lookup, in order, up to the cap.
UniqueCapped(addrs) ==
  LET seen[n \in 0..Len(addrs)] ==
        IF n = 0 THEN <<>> ELSE AddUnique(seen[n - 1], addrs[n])
  IN seen[Len(addrs)]

Verbatim(e) == kind = "dns" \/ e \in Address

\* The address lists entry e may expand to.  A lookup fails when the context is
\* done, and may fail before; a name that fails stands for itself.
Expansions(e) ==
  IF Verbatim(e)
  THEN {<<e>>}
  ELSE {<<e>>} \cup {UniqueCapped(a) : a \in {b \in Answers[e] : b # <<>> /\ ctx = "live"}}

ExpandNext ==
  /\ pc = "expanding"
  /\ \E addrs \in Expansions(targets[next]) :
       items' = items \o [k \in 1..Len(addrs) |-> NewItem(next, addrs[k])]
  /\ next' = next + 1
  /\ pc' = IF next = Len(targets) THEN "probing" ELSE pc
  /\ lookedUp' = now
  /\ UNCHANGED <<kind, targets, now, ctx, noServer>>

-----------------------------------------------------------------------------
(* Results *)

\* 1 - rcvd / sent, as far as it is told apart from 0 and 1.
LossRatio(sent, rcvd) ==
  CASE rcvd = sent -> "zero"
    [] rcvd = 0    -> "all"
    [] OTHER       -> "some"

Failed(it, etype) ==
  [it EXCEPT !.st = "done", !.status = "error", !.etype = etype]

\* The item's name could not be resolved (IP == FQDN).
Unresolved(it) == ~Verbatim(targets[it.entry]) /\ it.ip = targets[it.entry]

\* What the tcp and udp probers set in a result that is not an error.
PortOpen(it) == IF kind \notin PortKinds THEN "nil"
                ELSE IF it.open THEN "true" ELSE "false"

\* Mutant: a fatal error makes the run an error whatever was received before.
ErrorWins(it, fatal) ==
  LET loss == LossRatio(it.sent, it.rcvd) IN
  IF fatal THEN Failed(it, "probe_error")
  ELSE [it EXCEPT !.st = "done", !.loss = loss, !.status = StatusFromLoss(loss),
                  !.port = PortOpen(it)]

\* RunLoop after its loop, and the caller's PortOpen.
Conclude(it, fatal) ==
  LET loss == LossRatio(it.sent, it.rcvd) IN
  IF fatal /\ it.rcvd = 0 THEN Failed(it, "probe_error")
  ELSE [it EXCEPT !.st = "done", !.loss = loss, !.status = StatusFromLoss(loss),
                  !.port = PortOpen(it)]

-----------------------------------------------------------------------------
(* One work item's goroutine *)

Running(i, st) == pc = "probing" /\ items[i].st = st

SetItem(i, it) ==
  /\ items' = [items EXCEPT ![i] = it]
  /\ UNCHANGED <<kind, targets, now, ctx, pc, next, noServer, lookedUp>>

\* probeOne up to the first attempt: RunLoop does not look at the context then.
BeginItem(i) ==
  /\ Running(i, "new")
  /\ SetItem(i, IF Unresolved(items[i]) THEN Failed(items[i], "resolve_error")
                ELSE IF noServer THEN Failed(items[i], "init_error")
                ELSE [items[i] EXCEPT !.st = "attempt", !.since = now,
                                      !.refused = ctx # "live"])

\* When an attempt stops waiting for a reply.  connect, syn and dns stop at the
\* run's deadline, which is never later than their own timeout.
GiveUp(it) == IF kind = "udp" THEN it.since + Timeout ELSE Timeout

\* A socket that cannot be set up: fatal, and at once.
SetupFails(it) == IF now = it.since THEN {"fatal"} ELSE {}

\* What an attempt may meet now.  A connect under way sees the context end, and
\* no error of it is fatal.
ConnectMeets(it) ==
  {"silent"} \cup (IF ctx = "live" THEN {"open", "closed"} ELSE {})

\* The context gives the socket's deadline, its cancellation goes unseen; past
\* the deadline the write fails.
SynMeets(it) ==
  SetupFails(it) \cup (IF it.refused /\ it.since >= Timeout THEN {}
                       ELSE {"silent", "open", "closed"})

\* The dial fails under a context that is done; after it the context goes unseen.
UdpMeets(it) ==
  SetupFails(it) \cup (IF it.refused THEN {} ELSE {"silent", "open", "closed"})

\* A usable answer or none (an error, a bad code, a mismatch); none under a
\* context that is done.
DnsMeets(it) == {"silent"} \cup (IF it.refused THEN {} ELSE {"open"})

Meets(it) == CASE kind = "connect" -> ConnectMeets(it)
               [] kind = "syn"     -> SynMeets(it)
               [] kind = "udp"     -> UdpMeets(it)
               [] kind = "dns"     -> DnsMeets(it)

\* Mutant: the loop stops at the first attempt that gets no reply.
StopAtSilence(it) == it.hist[Len(it.hist)] \in {"fatal", "silent"} \/ it.sent = Count

\* RunLoop makes no further attempt.
LoopOver(it) == it.hist[Len(it.hist)] = "fatal" \/ it.sent = Count

\* The item after an attempt that met o: a refusal is a reply, as an open port is.
Counted(it, o) ==
  [it EXCEPT !.sent = @ + 1,
             !.rcvd = @ + (IF o \in {"open", "closed"} THEN 1 ELSE 0),
             !.open = @ \/ o = "open",
             !.hist = Append(@, o),
             !.delay = @ + (now - it.since)]

\* An attempt returns: RunLoop counts it, and ends or waits for the next.
AttemptEnds(i) ==
  /\ Running(i, "attempt") /\ kind \in LoopKinds
  /\ \E o \in Meets(items[i]) :
       LET it == Counted(items[i], o)
       IN SetItem(i, IF LoopOver(it) THEN Conclude(it, o = "fatal")
                     ELSE [it EXCEPT !.st = "pause", !.since = now])

\* Mutant: the wait between attempts does not select on the context.
SleepThrough(it) == now >= it.since + PacketInterval

\* The select between attempts: by the timer or by the context.
PauseOver(it) == ctx # "live" \/ now >= it.since + PacketInterval

PauseEnds(i) ==
  /\ Running(i, "pause")
  /\ PauseOver(items[i])
  /\ SetItem(i, IF ctx # "live" THEN Conclude(items[i], FALSE)
                ELSE [items[i] EXCEPT !.st = "attempt", !.since = now])

\* icmp: the pinger returns.  It has sent at most a packet per interval; it
\* returns early only when every reply is in, or with an error.
PingEnds(i) ==
  /\ Running(i, "attempt") /\ kind = "icmp"
  /\ LET it == items[i]
         over == ctx # "live" \/ now >= it.since + Timeout
     IN \/ ctx = "live" /\ SetItem(i, Failed(it, "run_error"))
        \/ now = it.since /\ SetItem(i, Failed(it, "init_error"))
        \/ over /\ SetItem(i, Failed(it, IF ctx = "deadline" THEN "timeout" ELSE ""))
        \/ \E s \in 1..Count : \E r \in 0..s :
             /\ (s - 1) * PacketInterval <= now - it.since
             /\ over \/ r = Count
             /\ SetItem(i, [it EXCEPT !.st = "done", !.sent = s, !.rcvd = r,
                              !.loss = LossRatio(s, r),
                              !.status = StatusFromLoss(LossRatio(s, r))])

\* What http.Do and the certificate of the answer may come to.
HttpMeets(it) ==
  {"silent"} \cup (IF now = it.since THEN {"unbuilt"} ELSE {})
    \cup (IF it.refused THEN {} ELSE {"mismatch", "good", "expiring", "expired"})

\* Mutant: the certificate is not looked at.
NoCertCheck(o) == IF o = "mismatch" THEN "failure" ELSE "success"

\* statusMatch, then the check of the certificate, which moves the status but
\* not the loss.
HttpStatus(o) ==
  CASE o = "good"     -> "success"
    [] o = "expiring" -> "partial"
    [] OTHER          -> "failure"

\* http: the request cannot be built, or fails and the context says why, or is
\* answered.
RequestEnds(i) ==
  /\ Running(i, "attempt") /\ kind = "http"
  /\ \E o \in HttpMeets(items[i]) :
       LET it == [items[i] EXCEPT !.sent = 1, !.st = "done", !.hist = <<o>>,
                                  !.delay = now - items[i].since]
       IN SetItem(i,
            CASE o = "unbuilt" -> Failed([it EXCEPT !.sent = 0], "init_error")
              [] o = "silent" /\ ctx # "live" ->
                   [Failed(it, "cancelled") EXCEPT !.loss = "all"]
              [] o = "silent" /\ ctx = "live" ->
                   [it EXCEPT !.loss = "all", !.status = "failure", !.etype = "network_error"]
              [] OTHER ->
                   [it EXCEPT !.rcvd = IF o = "mismatch" THEN 0 ELSE 1,
                              !.loss = IF o = "mismatch" THEN "all" ELSE "zero",
                              !.status = HttpStatus(o), !.dur = TRUE])

ItemStep == \E i \in 1..Len(items) :
  BeginItem(i) \/ AttemptEnds(i) \/ PauseEnds(i) \/ PingEnds(i) \/ RequestEnds(i)

\* wg.Wait: the results are returned, in the items' order.
ReturnResults ==
  /\ pc = "probing"
  /\ \A i \in 1..Len(items) : items[i].st = "done"
  /\ pc' = "returned"
  /\ UNCHANGED <<kind, targets, now, ctx, next, noServer, items, lookedUp>>

-----------------------------------------------------------------------------
(* The context and the clock *)

ContextExpires ==
  /\ ctx = "live" /\ now >= Timeout /\ pc # "returned"
  /\ ctx' = "deadline"
  /\ UNCHANGED <<kind, targets, now, pc, next, noServer, items, lookedUp>>

ContextCancelled ==
  /\ ctx = "live" /\ pc # "returned"
  /\ ctx' = "cancelled"
  /\ UNCHANGED <<kind, targets, now, pc, next, noServer, items, lookedUp>>

\* A goroutine that cannot wait any longer.
Due(it) ==
  \/ it.st = "new"
  \/ /\ it.st = "attempt"
     /\ CASE kind \in {"icmp", "http", "connect"} ->
               ctx # "live" \/ now >= Timeout
          [] OTHER -> now >= GiveUp(it) \/ (it.refused /\ Cardinality(Meets(it)) = 1)
  \/ it.st = "pause" /\ PauseOver(it)

\* Time passes when nothing is due: a lookup waits for its answer or for the
\* context, an attempt for a reply.
Tick ==
  /\ pc # "returned"
  /\ ctx = "live" => now < Timeout
  /\ pc = "expanding" => ctx = "live" /\ ~Verbatim(targets[next])
  /\ pc = "probing" => /\ \A i \in 1..Len(items) : ~Due(items[i])
                       /\ \E i \in 1..Len(items) : items[i].st # "done"
  /\ now' = now + 1
  /\ UNCHANGED <<kind, targets, ctx, pc, next, noServer, items, lookedUp>>

Done == pc = "returned" /\ UNCHANGED vars

Next ==
  ExpandNext \/ ItemStep \/ ReturnResults \/ ContextExpires \/ ContextCancelled
    \/ Tick \/ Done

Spec == Init /\ [][Next]_vars

-----------------------------------------------------------------------------
(* Properties *)

Finished == {i \in 1..Len(items) : items[i].st = "done"}

\* The attempts of an item that were answered.
Answered(it) == {k \in 1..Len(it.hist) : it.hist[k] \in {"open", "closed"}}

\* The gauges of a result tell what its attempts met (RunLoop, Measured,
\* Export; docs/metrics.md, ADR-0003, 0005 and 0006): up iff some attempt was
\* answered, success iff all were, port_open 1 iff one met an open port, port_open
\* and the loss NaN iff the first reply was pre-empted by a fatal error, and an RTT
\* iff up.
GaugesTellOutcome ==
  kind \in LoopKinds =>
    \A i \in {j \in Finished : items[j].hist # <<>>} :
      LET g == Gauges(kind, items[i])
          h == items[i].hist
          answered == Cardinality(Answered(items[i]))
          error == answered = 0 /\ "fatal" \in Range(h)
      IN /\ g.up <=> answered > 0
         /\ g.success <=> answered = Len(h)
         /\ g.rtt = "NaN" <=> ~g.up
         /\ g.loss = "NaN" <=> error
         /\ g.loss = "all" <=> answered = 0 /\ ~error
         /\ g.port = "NaN" <=> error \/ kind \notin PortKinds
         /\ g.port = "true" <=> "open" \in Range(h) /\ kind \in PortKinds

\* The gauges of an HTTP result tell what its one request met (http.probeOne):
\* up iff a matching status came with a certificate still valid, success iff it
\* is not about to expire either, and a duration iff there was an answer.  A request
\* without an answer is never reported without loss: the loss is 1, or NaN when the
\* context ended first.  What it is beside a bad certificate is LossTellsStatus's.
HttpGaugesTellOutcome ==
  kind = "http" =>
    \A i \in {j \in Finished : items[j].hist # <<>>} :
      LET g == Gauges(kind, items[i])
          o == items[i].hist[1]
      IN /\ g.up <=> o \in {"good", "expiring"}
         /\ g.success <=> o = "good"
         /\ g.dur = "NaN" <=> o \in {"silent", "unbuilt"}
         /\ o = "good" => g.loss = "zero"
         /\ o = "mismatch" => g.loss = "all"
         /\ o = "silent" => g.loss \in {"all", "NaN"}
         /\ g.loss = "NaN" => o = "unbuilt" \/ (o = "silent" /\ ctx # "live")
         /\ g.rtt = "NaN" /\ g.port = "NaN"

\* docs/metrics.md:87 of packet_loss: "`0.0` success, `0.0 < v < 1.0` partial, `1.0`
\* failure, **`NaN`** error".
DocumentedLoss(status) ==
  CASE status = "success" -> "zero"
    [] status = "partial" -> "some"
    [] status = "failure" -> "all"
    [] OTHER              -> "NaN"

\* The loss gauge of a finished item is the one documented for its status, for every
\* kind of prober.  Violated: the check of the certificate in http.probeOne makes the
\* status partial or failure and leaves the loss at 0.
LossTellsStatus ==
  \A i \in Finished : Gauges(kind, items[i]).loss = DocumentedLoss(items[i].status)

\* Every target entry is reported (ExpandTargets, RunWorkItems): when the run
\* returns there is a result with a status for each entry, in the entries' order.
\* An entry that is a name has either its one resolve_error or the distinct
\* addresses of its lookup, all of them up to the cap.
EveryTargetReported ==
  pc = "returned" =>
    /\ \A i \in 1..Len(items) : items[i].st = "done" /\ items[i].status # ""
    /\ \A i, k \in 1..Len(items) : i < k => items[i].entry <= items[k].entry
    /\ \A j \in 1..Len(targets) :
         LET mine == {i \in 1..Len(items) : items[i].entry = j}
             ips  == {items[i].ip : i \in mine}
         IN /\ mine # {}
            /\ \A i, k \in mine : items[i].ip = items[k].ip => i = k
            /\ \/ /\ ips = {targets[j]}
                  /\ ~Verbatim(targets[j]) => \A i \in mine : items[i].etype = "resolve_error"
               \/ /\ ~Verbatim(targets[j])
                  /\ MaxResolvedIPs > 0 => Cardinality(mine) <= MaxResolvedIPs
                  /\ \E a \in Answers[targets[j]] :
                       /\ ips \subseteq Range(a)
                       /\ ips = Range(a) \/ Cardinality(mine) = MaxResolvedIPs

\* What a run sends to a target at most.
MaxSent == IF kind = "http" THEN 1 ELSE Count

\* A run ends by the probe's timeout (the scheduler's WithTimeout), so that the
\* worker is back at its ticker; a udp run, whose reads take no deadline from
\* the context, ends by twice the timeout.  A run sends at most Count packets, an
\* http run one request, and receives no more than it sent.
RunBounded ==
  pc # "expanding" =>
    \A i \in 1..Len(items) :
      /\ items[i].st # "done" => now <= (IF kind = "udp" THEN 2 ELSE 1) * Timeout
      /\ items[i].sent <= MaxSent /\ items[i].rcvd <= items[i].sent

\* "all packets must fit within the probe budget" (validateTimings): a loop whose
\* targets were looked up and whose attempts ended without delay makes all its
\* attempts, unless it is cancelled or meets a fatal error.
PromptRunsComplete ==
  kind \in LoopKinds =>
    \A i \in {j \in Finished : items[j].hist # <<>>} :
      \/ ctx = "cancelled"
      \/ lookedUp > 0
      \/ items[i].delay > 0
      \/ "fatal" \in Range(items[i].hist)
      \/ items[i].sent = Count
=============================================================================
