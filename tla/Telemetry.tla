----------------------------- MODULE Telemetry -----------------------------
(***************************************************************************)
(* From a probe's results to what an operator sees: the results channel    *)
(* with its drops, Export of the telemetry exporter (counters per probe,   *)
(* one set of gauges per combination of attributes), the stdout exporter,  *)
(* /healthz, the periodic push to a collector, reloads, and the order of   *)
(* the shutdown.  The workers' and Run's own steps are in Scheduler and    *)
(* Pipeline; here a run returns its results in one step.                   *)
(***************************************************************************)
EXTENDS Results, Lists, FiniteSets, FiniteSetsExt, TLC

CONSTANTS
  Probe,       \* probe names
  ProbesOf,    \* ProbesOf[k][p]: type, targets, source and labels of p in config k
  Config0,     \* the config loaded at startup
  Address,     \* target entries that are literal IPs
  Answers,     \* Answers[n]: the address lists the resolver may give for n
  Outcomes,    \* Outcomes[t]: what a work item of a probe of type t may come to
  Format,      \* the stdout exporter's format: "json" or "text"
  BufferSize,  \* capacity of the results channel
  MaxRuns      \* bound on the runs of all probes together

\* A target is an address or a name that is not empty (validateTargets); a
\* lookup answers with addresses.
ASSUME TelemetryAssumption ==
  /\ BufferSize \in Nat \ {0} /\ MaxRuns \in Nat
  /\ Config0 \in DOMAIN ProbesOf
  /\ Format \in {"json", "text"}
  /\ \A k \in DOMAIN ProbesOf : \A p \in DOMAIN ProbesOf[k] :
       /\ ProbesOf[k][p].type \in DOMAIN Outcomes
       /\ ProbesOf[k][p].targets \in Seq(Address \cup DOMAIN Answers)
  /\ "" \notin DOMAIN Answers
  /\ \A n \in DOMAIN Answers : Answers[n] \subseteq Seq(Address)
  /\ \A t \in DOMAIN Outcomes : \A o \in Outcomes[t] :
       o.sent \in Nat /\ o.rcvd \in Nat /\ o.loss \in {"zero", "some", "all"}

VARIABLES
  cfg,       \* the config the scheduler runs
  ran,       \* runs so far
  out,       \* out[p]: results of p's last run that are still to be sent
  queue,     \* the results channel
  dropped,   \* trimon.probe.results_dropped, by probe
  runs,      \* trimon.probe.runs, by probe
  errors,    \* trimon.probe.errors, by probe and error type
  series,    \* the gauges and packet counters, by attributes
  lines,     \* what stdout has printed
  badLines,  \* trimon.exporter.errors
  pushed,    \* what the collector was sent last
  phase,     \* main: running, stopped, drained, closed
  flushed,   \* history: the push of Close reached the collector
  log,       \* history: the results Export was called with
  made,      \* history: made[p], the results p's runs returned
  lost       \* history: the results the full channel refused

vars == <<cfg, ran, out, queue, dropped, runs, errors, series, lines, badLines,
          pushed, phase, flushed, log, made, lost>>
exportVars == <<runs, errors, series, lines, badLines, log>>

Active == DOMAIN ProbesOf[cfg]

\* The counters and series a reader collects.
Snapshot == [runs |-> runs, errors |-> errors, dropped |-> dropped, series |-> series]

Init ==
  /\ cfg = Config0
  /\ ran = 0
  /\ out = [p \in Probe |-> <<>>] /\ queue = <<>>
  /\ dropped = [p \in Probe |-> 0]
  /\ runs = [p \in Probe |-> 0]
  /\ made = [p \in Probe |-> <<>>] /\ lost = {}
  /\ errors = [e \in {} |-> 0]
  /\ series = [s \in {} |-> 0]
  /\ lines = <<>> /\ badLines = 0 /\ log = <<>>
  /\ pushed = Snapshot
  /\ phase = "running" /\ flushed = FALSE

-----------------------------------------------------------------------------
(* A worker *)

\* The result NewResult starts for a work item, completed by outcome o.
Completed(p, addr, fqdn, o) ==
  LET c == ProbesOf[cfg][p]
  IN  [probe |-> p, type |-> c.type, target |-> addr, fqdn |-> fqdn,
       source |-> c.source, labels |-> c.labels, run |-> ran + 1,
       status |-> o.status, etype |-> o.etype, sent |-> o.sent, rcvd |-> o.rcvd,
       loss |-> o.loss, port |-> o.port, dur |-> o.dur]

Unresolved == [status |-> "error", etype |-> "resolve_error", sent |-> 0, rcvd |-> 0, loss |-> "zero",
               port |-> "nil", dur |-> FALSE]

\* The results entry e of probe p may come to: its own if it is an address,
\* one per address if it is a name, one resolve_error if the lookup fails.
ItemResults(p, e) ==
  IF e \in Address
  THEN {<<Completed(p, e, "", o)>> : o \in Outcomes[ProbesOf[cfg][p].type]}
  ELSE {<<Completed(p, e, e, Unresolved)>>}
       \cup UNION {{[i \in DOMAIN a |-> Completed(p, a[i], e, f[i])] :
                       f \in [DOMAIN a -> Outcomes[ProbesOf[cfg][p].type]]} : a \in Answers[e]}

\* A run of p returns; its entries in order.
RunProbe(p) ==
  /\ phase = "running" /\ p \in Active
  /\ out[p] = <<>> /\ ran < MaxRuns
  /\ LET ts == ProbesOf[cfg][p].targets
     IN  \E f \in [DOMAIN ts -> UNION {ItemResults(p, e) : e \in Range(ts)}] :
           /\ \A i \in DOMAIN ts : f[i] \in ItemResults(p, ts[i])
           /\ out' = [out EXCEPT ![p] = Concat(f)]
           /\ made' = [made EXCEPT ![p] = @ \o Concat(f)]
  /\ ran' = ran + 1
  /\ UNCHANGED <<cfg, queue, dropped, lost, exportVars, pushed, phase, flushed>>

\* Mutant: a full channel loses the result without a count.
SilentOffer(p) ==
  /\ out[p] # <<>>
  /\ out' = [out EXCEPT ![p] = Tail(@)]
  /\ queue' = IF Len(queue) < BufferSize THEN Append(queue, Head(out[p])) ELSE queue
  /\ UNCHANGED <<cfg, ran, made, dropped, lost, exportVars, pushed, phase, flushed>>

\* The non-blocking send, and RecordDroppedResult when the channel is full.
Offer(p) ==
  /\ out[p] # <<>>
  /\ out' = [out EXCEPT ![p] = Tail(@)]
  /\ IF Len(queue) < BufferSize
     THEN queue' = Append(queue, Head(out[p])) /\ UNCHANGED <<dropped, lost>>
     ELSE /\ dropped' = [dropped EXCEPT ![p] = @ + 1]
          /\ lost' = lost \cup {Head(out[p])}
          /\ UNCHANGED queue
  /\ UNCHANGED <<cfg, ran, made, exportVars, pushed, phase, flushed>>

-----------------------------------------------------------------------------
(* dispatch: the telemetry exporter, then stdout *)

\* Mutant: the status is an attribute, the shortcut ADR-0002 argues against.
AttrsWithStatus(r) ==
  r.labels @@ [name |-> r.probe, type |-> r.type, target |-> r.target,
               source_ip |-> r.source, fqdn |-> r.fqdn, status |-> r.status]

\* A label replaces the attribute of the same key: the set keeps the last one.
buildAttrs(r) ==
  r.labels @@ [name |-> r.probe, type |-> r.type, target |-> r.target,
               source_ip |-> r.source, fqdn |-> r.fqdn]

IsError(r) == r.status = "error"

\* An error without a type is counted as "unknown".
ErrorKey(r) == <<r.probe, IF r.etype = "" THEN "unknown" ELSE r.etype>>

Get(f, k) == IF k \in DOMAIN f THEN f[k] ELSE 0

\* f with v for k, which may be new.
Put(f, k, v) == [x \in DOMAIN f \cup {k} |-> IF x = k THEN v ELSE f[x]]

Counters(s) == IF s \in DOMAIN series THEN series[s] ELSE [sent |-> 0, rcvd |-> 0]

\* Mutant: an error leaves the gauges at their last values.
RecordUnlessError(r) ==
  LET s == buildAttrs(r)
  IN  IF IsError(r) /\ s \in DOMAIN series THEN series
      ELSE Put(series, s, [g    |-> Gauges(r.type, r),
                           sent |-> Counters(s).sent + (IF IsError(r) THEN 0 ELSE r.sent),
                           rcvd |-> Counters(s).rcvd + (IF IsError(r) THEN 0 ELSE r.rcvd)])

\* The gauges are overwritten whatever the status, the packets of an error
\* are not counted.
Record(r) ==
  LET s == buildAttrs(r)
  IN  Put(series, s, [g    |-> Gauges(r.type, r),
                      sent |-> Counters(s).sent + (IF IsError(r) THEN 0 ELSE r.sent),
                      rcvd |-> Counters(s).rcvd + (IF IsError(r) THEN 0 ELSE r.rcvd)])

\* stdout.Export
Line(r) == [res |-> r, fields |-> IF Format = "json" THEN writeJSON(r.type, r)
                                  ELSE writeText(r.type, r)]

\* printed says whether the write to stdout succeeded.
Dispatch(printed) ==
  /\ queue # <<>> /\ phase \in {"running", "stopped"}
  /\ LET r == Head(queue)
     IN  /\ runs' = [runs EXCEPT ![r.probe] = @ + 1]
         /\ errors' = IF IsError(r) THEN Put(errors, ErrorKey(r), Get(errors, ErrorKey(r)) + 1)
                      ELSE errors
         /\ series' = Record(r)
         /\ lines' = IF printed THEN Append(lines, Line(r)) ELSE lines
         /\ badLines' = badLines + (IF printed THEN 0 ELSE 1)
         /\ log' = Append(log, r)
  /\ queue' = Tail(queue)
  /\ UNCHANGED <<cfg, ran, made, lost, out, dropped, pushed, phase, flushed>>

-----------------------------------------------------------------------------
(* Readers, reloads and the shutdown *)

\* Mutant: the reader is only started by the shutdown.
PushLate ==
  /\ phase = "stopped" /\ pushed # Snapshot
  /\ pushed' = Snapshot
  /\ UNCHANGED <<cfg, ran, made, lost, out, queue, dropped, exportVars, phase, flushed>>

\* The periodic reader sends a snapshot and the collector takes it, external.
Push ==
  /\ phase # "closed" /\ pushed # Snapshot
  /\ pushed' = Snapshot
  /\ UNCHANGED <<cfg, ran, made, lost, out, queue, dropped, exportVars, phase, flushed>>

\* sched.Stop waits for the workers, which have sent all they had.
WorkersExited == \A p \in Probe : out[p] = <<>>

Reload(k) ==
  /\ phase = "running" /\ WorkersExited
  /\ k # cfg
  /\ cfg' = k
  /\ UNCHANGED <<ran, made, lost, out, queue, dropped, exportVars, pushed, phase, flushed>>

Stop ==
  /\ phase = "running" /\ WorkersExited
  /\ phase' = "stopped"
  /\ UNCHANGED <<cfg, ran, made, lost, out, queue, dropped, exportVars, pushed, flushed>>

\* Mutant: main does not wait for the pipeline.
WaitNot ==
  /\ phase = "stopped"
  /\ phase' = "drained"
  /\ UNCHANGED <<cfg, ran, made, lost, out, queue, dropped, exportVars, pushed, flushed>>

\* cancel, and pipe.Wait returns.
Wait ==
  /\ phase = "stopped" /\ queue = <<>>
  /\ phase' = "drained"
  /\ UNCHANGED <<cfg, ran, made, lost, out, queue, dropped, exportVars, pushed, flushed>>

\* exp.Close: ForceFlush and Shutdown send once more, which may fail.
Close(ok) ==
  /\ phase = "drained"
  /\ phase' = "closed"
  /\ pushed' = IF ok THEN Snapshot ELSE pushed
  /\ flushed' = ok
  /\ UNCHANGED <<cfg, ran, made, lost, out, queue, dropped, exportVars>>

Closed == phase = "closed" /\ UNCHANGED vars

Next ==
  \/ \E p \in Probe : RunProbe(p) \/ Offer(p)
  \/ \E b \in BOOLEAN : Dispatch(b) \/ Close(b)
  \/ \E k \in DOMAIN ProbesOf : Reload(k)
  \/ Push \/ Stop \/ Wait \/ Closed

Spec == Init /\ [][Next]_vars

\* A worker sends what its run returned, Run goes on dispatching, and sooner or
\* later a push reaches the collector.
FairSpec == /\ Spec
            /\ WF_vars(\E p \in Probe : Offer(p))
            /\ WF_vars(Dispatch(TRUE) \/ Dispatch(FALSE))
            /\ WF_vars(Push)

-----------------------------------------------------------------------------
(* Properties *)

\* Where a sequence has results of probe p.
Of(p, q) == {i \in DOMAIN q : q[i].probe = p}

\* The exported results that count for an error key, and for a series' packets.
ErrorsOf(e) == {i \in DOMAIN log : IsError(log[i]) /\ ErrorKey(log[i]) = e}
PacketsOf(s) == {i \in DOMAIN log : ~IsError(log[i]) /\ buildAttrs(log[i]) = s}

\* The self-observability counters account for every result a run returned
\* (SendOne's default case, Export): it is under probe.runs or results_dropped
\* of its probe, or still on its way; every error among the exported ones is
\* under its type, and the packets of a series are those of its other results.
CountersAccount ==
  /\ \A p \in Probe :
       /\ Len(made[p]) = runs[p] + dropped[p] + Len(out[p]) + Cardinality(Of(p, queue))
       /\ runs[p] = Cardinality(Of(p, log))
  /\ \A i \in DOMAIN log : IsError(log[i]) => ErrorKey(log[i]) \in DOMAIN errors
  /\ \A e \in DOMAIN errors : errors[e] = Cardinality(ErrorsOf(e))
  /\ \A s \in DOMAIN series : \A k \in {"sent", "rcvd"} :
       series[s][k] = SumFunctionOnSet([i \in DOMAIN log |-> log[i][k]], PacketsOf(s))

LastOf(s) == log[Max({i \in DOMAIN log : buildAttrs(log[i]) = s})]

\* No gauge keeps a value from before the last result of its series (ADR-0003
\* rejects "retaining the last value"): also after an error all gauges are those
\* of that result, NaN where it measured nothing.
GaugesOfLastResult ==
  /\ DOMAIN series = {buildAttrs(log[i]) : i \in DOMAIN log}
  /\ \A s \in DOMAIN series : series[s].g = Gauges(LastOf(s).type, LastOf(s))

\* What a series is about: a probe and one entry of its targets.
Entry(r) == <<r.probe, IF r.fqdn = "" THEN r.target ELSE r.fqdn>>

LatestRun(e) == Max({log[i].run : i \in {j \in DOMAIN log : Entry(log[j]) = e}})

\* A later run of the same entry was exported into other series.
Stale(s) == LastOf(s).run < LatestRun(Entry(LastOf(s)))

\* What of its run is on its way to Export, or was dropped.
NotExported(p) == Range(out[p]) \cup Range(queue) \cup lost

\* A series misses a later run that other results of its entry were exported of
\* only when a reload changed the probe's type, source or labels, or when
\* nothing that run returned for the address has come to Export: the lookup of
\* the name failed or gave other addresses, or the result was dropped or is on
\* its way.  The status of a run never moves a series (ADR-0002).
StaleOnlyByMove ==
  \A s \in DOMAIN series :
    LET r == LastOf(s)
    IN  \A i \in DOMAIN log : Entry(log[i]) = Entry(r) /\ log[i].run > r.run =>
          \/ <<log[i].type, log[i].source, log[i].labels>> # <<r.type, r.source, r.labels>>
          \/ \A m \in Range(made[r.probe]) :
               m.run = log[i].run /\ Entry(m) = Entry(r) /\ m.target = r.target
                 => m \in NotExported(r.probe)

\* "No mutable-label staleness or overlapping series" (ADR-0002): no series
\* says up for an entry whose later run was exported elsewhere.
NoStaleUp == \A s \in DOMAIN series : series[s].g.up => ~Stale(s)

\* The stdout exporter prints the results in the order of their export, counts
\* those it could not print, and its JSON has exactly the numbers that are not NaN
\* in the gauges (Measured is "the single source of truth").
LinesTellMeasured ==
  /\ Len(lines) + badLines = Len(log)
  /\ \A i, j \in DOMAIN lines : i < j => lines[i].res.run <= lines[j].res.run
                                           \/ lines[i].res.probe # lines[j].res.probe
  /\ Format = "json" => \A i \in DOMAIN lines :
       LET g == Gauges(lines[i].res.type, lines[i].res)
       IN  lines[i].fields = {k \in {"rtt", "loss", "dur"} : g[k] # "NaN"}

\* Every result the runs returned was exported or counted as dropped, and the
\* collector's last push has the series as they are.
AllPushed ==
  /\ \A p \in Probe : Len(made[p]) = Cardinality(Of(p, log)) + dropped[p]
  /\ pushed.series = series

\* Main's order (Stop, Wait, Close) leaves nothing behind: after a Close that
\* reached the collector, its series tell of every result but the dropped ones.
FlushedAtExit == phase = "closed" /\ flushed => AllPushed

\* Every result a run returned that is not dropped gets to the collector's
\* series, through the channel, Export and a push or the flush of Close; unless
\* the process ends with a Close that does not reach it.
EventuallyPushed == ~AllPushed ~> AllPushed \/ (phase = "closed" /\ ~flushed)
=============================================================================
