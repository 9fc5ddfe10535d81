# trimon: verification project

TLA+ models of trimon, checked with TLC on small instances and, where it matters
most, proved with TLAPS for all instances.

trimon is a daemon that probes targets (ICMP, TCP, UDP, DNS, HTTP) on a schedule
and exports the results. Paths below are relative to `src/`.

## The system and its models

| Part | Code | State | Operations | Module | Status |
|---|---|---|---|---|---|
| Pipeline | `internal/pipeline` | results channel, Run's position, dispatch's position | send, receive, drain, close, export, Wait | `Pipeline`, abstract `Delivery` | modelled, proved |
| Scheduler | `internal/scheduler` | worker map, lock, worker goroutines | Start, Stop, Reload, tick, run, send, exit | `Scheduler` | modelled, proved |
| Daemon | `cmd/trimon/main.go` | main's position | startup, signal, ordered shutdown, reload callback | `Daemon` | modelled, proved |
| HTTP server | `internal/server` | reloadMu, served config | /reload, /config | `Daemon`, `ConfigLoad` | modelled |
| Configuration | `internal/config` | files, configuration in force | list, read, decode, merge, validate, fingerprint, dump | `ProbeConfig`, `ConfigLoad` | modelled, proved |
| Probe run | `internal/probe/{run,targets}.go` | work items, run context, counters | expansion, fan-out, attempt loop | `ProbeRun` | partly, proved |
| TCP prober | `internal/probe/tcp` | attempts, segments under way | connect; build, send, parse and classify segments | `ProbeRun`, `Syn` | modelled, proved |
| UDP, DNS, ICMP, HTTP probers | `internal/probe/*/` | an attempt under way | what an attempt or a request meets | `ProbeRun` | DNS, HTTP partly, proved |
| Result types, exporters | `pkg/types`, `internal/exporter/*` | counters, series, lines, what was pushed | Measured, Export, drop and error callbacks, push, Close | `Results`, `Telemetry` | OTLP partly, proved |
| Docs generator, smoke parser | `cmd/gen-metrics-docs`, `internal/metricsdoc`, `test/smoke` | none | formatting and parsing | none | not modelled |

How they interact. `main` loads the configuration, starts the HTTP server, then
`pipe.Run` and `sched.Start`. Each worker waits for its ticker, runs its prober
under a context with the probe's timeout and offers each result to the pipeline's
channel without blocking. Run hands each result to the exporters in turn. A
`/reload` request loads the files, calls `sched.Reload` and publishes the new
configuration. A signal makes main stop the scheduler, cancel the pipeline, wait
for its drain, close the exporter and shut the server down, in that order.

What is hard here: reloads racing startup, shutdown and each other; Stop waiting
for goroutines that are in the middle of a run; a channel that its reader closes;
drops when the channel is full; a run's context ending at any point of a lookup,
an attempt or a pause; files that change while they are read; metric series that
outlive what they describe; a raw socket that sees everybody's traffic.
`PROJECT.json` lists these hazards line by line, with the properties aimed at each.

## Modules

- **`Delivery`**: what the pipeline promises: results are accepted, each exporter
  gets each one once and in order, and delivery finishes only when nothing is owed.
- **`Pipeline`**: `runPC` is where `Run` is, `cur`/`nextExp` where `dispatch` is.
  One action per select case, per exporter call, and for the close. The seen-empty
  channel and its close are two steps, as a sender may come in between. `accepted`
  and `exported` are histories. On its own the module assumes the contract in
  Run's comment (no sends after cancellation); `Daemon` does not.
- **`Scheduler`**: any set of callers inside Start, Stop or Reload, interleaved at
  the lock, at each iteration of the start and cancel loops, and at the wait. A
  worker's select picks either case when both are ready. Start's loop follows the
  slice's order in the code; the model takes any order, which includes it.
  `orphans` is a history of overwritten map entries.
- **`Daemon`**: extends both with main and the `/reload` handlers. `overlap` is a
  history variable: some Reload call ran while main was not waiting for a signal.
  A send on the closed channel sets `panicked`, which ends the process. Load
  succeeds with any configuration or fails; `ConfigLoad` looks inside it.
- **`ProbeRun`**: one run of a prober in discrete time. A work item goes through
  its attempts and pauses; the context expires at `Timeout` or is cancelled at any
  time; time advances only when no goroutine is due. Per-protocol operators say what
  an attempt may meet at a moment and whether it notices the context. The pinger,
  the resolver, the DNS client and the HTTP client are external: they may do
  whatever the calling code distinguishes, and end at the deadline of the context
  they are given. RTTs and loss are abstracted to measured or not, and to zero, some
  or all. A run has timings that `validateTimings` accepts, except that of an HTTP
  probe, whose timings Load does not look at.
- **`Results`**: what a result becomes: `Measured`, the gauges of the OTLP exporter
  and the fields of a line of JSON or text, shared by `ProbeRun` and `Telemetry`.
- **`ProbeConfig`**: the pure part of Load: decoding, defaults, merging, each
  validation rule, the fingerprint, and the dump of `/config`. Durations are
  `Word`-sized integers, so `packet_interval * count` wraps as it does in the code.
- **`ConfigLoad`**: Load as it meets the file system. The directory is listed, then
  each file is read in a step of its own, then the sources are parsed; the operator
  writes and removes files and the resolver changes in between. `past` remembers
  what the disk held since the Load began. A rejected reload keeps the old
  configuration, a rejected startup ends the process; `global:` with a null value
  panics in the code and does so here.
- **`Telemetry`**: results from a probe's run to the collector. A run produces a
  result for each target, each is offered to the channel or dropped and counted,
  dispatched to both exporters, recorded in counters and in the gauges of the series
  its attributes name, and pushed periodically or at Close. `made`, `lost` and `log`
  are histories: what the runs returned, what was dropped, what was exported. The stdout writer may fail, which the error counter must show.
- **`Syn`**: half-open attempts in sixteen-bit words: `buildSYN`, `tcpChecksum`,
  `stripIPv4Header`, `parseTCPSegment`, `classifyReply`, and the read loop of
  `synAttempt`. Attempts share the host's raw traffic: segments may be delivered
  late, more than once, or never, and other programs' traffic comes along: answers to
  their SYNs, and the resets that end their connections. Whether
  ReadFrom leaves the IP header on is the platform's choice (`hdr`).
- **`Lists`**: the flattening of lists of lists, as loops of `append` do it.
- **`SchedulerPipelineProofs`, `DaemonProofs`, `DaemonDeliveryProofs`, `ProbeRunProofs`,
  `ConfigLoadProofs`, `TelemetryProofs`, `SynProofs`**: the theorems, and
  **`DataLemmas`**: what they share about induction, sums and sequences.
- **`MCScheduler`, `MCDaemon`, `MCProbeRun`, `MCConfigLoad`, `MCTelemetry`,
  `MCSyn`**: constants for TLC. `Pipeline` needs none.

Definitions whose comment begins with "Mutant" are plausible bugs of the
definition after them; each property is violated when its mutant takes the place of
the original.

## Runs

| Run | Instance | Shows |
|---|---|---|
| `Pipeline` | 2 results, buffer 2, 2 exporters, 3 sends | order, refinement of `Delivery` (which says that nothing is owed at the end); Run ends after cancel; accepted results are exported |
| `Scheduler` | 2 callers, 1 probe, 2 configurations, 2 workers | the map holds running workers, none escapes, cancelled ones are awaited; calls return, cancelled workers exit |
| `Daemon` | 1 probe, 3 configurations (the startup one empty), 2 workers, 2 requests, a result per run, buffer 1 | types of daemon, scheduler and pipeline, generations in order, drops counted, /config is what runs, no panic, complete Stop, one worker per probe, nothing lost at exit; a signal ends the process; requests are answered |
| `ProbeRun` | 6 kinds, a name and an address, answers of 0 to 3 addresses with repetitions, cap 2, 2 attempts | gauges tell outcomes, runs bounded, prompt runs complete, every target reported in order |
| `ConfigLoad` | 3 files, 2 loads, 2 changes; and every field of a probe or of the ops file at and past its limits | what takes effect can run, defaults reach every probe, single changes are atomic, the dump of ICMP probes feeds back, Load returns |
| `Telemetry` | a name with 0 to 2 addresses, a literal, 2 configurations, buffer 1, 2 runs | counters account, gauges are fresh, a series falls behind its entry only if the entry moved or was relabelled or results were dropped, stdout agrees, all is pushed |
| `Syn` | 2 attempts, 2 ports, 2 targets (one IPv6), 2 sequence numbers, foreign SYN/ACKs and resets, header on or off | segments verify, verdicts are the attempt's own, answers are seen, attempts end |

Bounds. `MaxSends`, `MaxRuns`, `MaxTargets`, `MaxLoads`, `MaxUnread`, `edits` and the
number of workers bound otherwise endless behaviour. Three sends through a buffer of
two fill it while another result is in dispatch; a buffer of one in `Daemon` and
`Telemetry` makes drops happen; two reloads from an empty startup configuration need
two workers of a probe; two attempts give all four statuses; a timeout of 3 with a packet
interval of 1 leaves room for lookups and replies to be late. In `ConfigLoad` two
loads are a startup and a reload, two changes are the least that can show a set of
files that never existed, the names sort before and after `_global.yaml`, and
`Word = 64` makes 8 x 8 wrap to 0. In `Syn` one sequence number is the one before
the wrap, the other makes the checksum's carry carry again, and port 17700 is one
that looks like an IP header. When identities of workers run out, a Start waits in
the model; the safety theorems hold for any number of them, and of probes: the runs
with one probe leave several to the proofs. No run uses symmetry: those where it
would pay check liveness.

Deadlock is checked except in `ConfigLoad` and `Syn`, which really stop: the changes
and loads are used up, the attempts are over.

Fairness. Goroutines that can run are scheduled (weak fairness); a prober's run
returns because its context has a timeout (`RunBounded` shows that it does);
`sync.Mutex` does not starve a waiter and `select` picks at random, hence strong
fairness of taking a lock and of a cancelled worker's exit. File reads return, hence
weak fairness of Load's steps. The periodic reader pushes on a timer, and one push
among many reaches the collector, hence weak fairness of `Push`; a Close may fail.
Of a SYN attempt only the socket's deadline is fair: replies may never come. No
fairness is assumed of ticks, requests, signals, cancellations, edits, or of replies.

## Disagreements between the code and its documentation

| Run | What TLC shows | Statement |
|---|---|---|
| `DaemonShutdown` | the Stop of a reload that began during startup takes the worker out of the map; main's Stop finds the map empty and returns, and `cancel()` runs while that worker is alive | comment in main.go:141 |
| `ConfigInterval` | an HTTP probe with an interval of -1 is accepted, and `time.NewTicker` ends the process | comment in validate.go:29 |
| `TelemetryStale` | a name's lookup fails or gives another address, and the old series stays up | docs/adr/0002:28 |
| `SynPort` | the answer from a port in 17664..18175 is taken for an IP packet, where the header has been removed, and the target is unreachable | comment in syn.go:132 |
| `ProbeLoss` | an HTTP answer as expected whose certificate is about to expire: partial, with a loss of zero (and failure with zero once it has expired) | docs/metrics.md:87, types.go:15-18 |

`SynPort` depends on the platform: where ReadFrom keeps the IP header nothing is
misread; the code supports both.

Seen while modelling and not turned into runs:

- Startup: a reload served before `sched.Start` (main.go:122, 132) leaves workers no
  Stop can reach and /config does not show (README.md:138 "Active config").
  `ConfigIsActive` and `OneWorkerPerProbe` hold outside this window and shutdown.
- A result may reach exporters under the cancelled context (the outer select,
  pipeline.go:57), though pipeline.go:63 uses Background for the drained ones; neither
  exporter looks at the context.
- The first attempt of a run is made also under a context that is done, so run.go:97
  "cancelled" is not what a late target gets; a UDP run may take twice its timeout
  (validate.go:34 "probe must complete before the next run is due").
- `packet_interval * count` may overflow and pass (validate.go:52); `ActiveRunnable`
  says exactly when.
- Two files changed during one Load may give a set that never existed (ADR-0007:19
  speaks of single files); ADR-0007:22 "re-reads only the probe config", but Load
  reads and validates the ops file on a reload too, so a broken one rejects it.
- `global:` with a null value in `_global.yaml` is a nil dereference (config.go:191).
- A resolver outage at the time of a Load rejects a configuration that is in order.
- The dump of `/config` has no protocol blocks. server.go:174-177 and ADR-0008:49-52
  say that it can be split and fed back; that of a TCP, UDP, DNS or HTTP probe is
  refused by Load. `IcmpDumpFeedsBack` claims the round trip of ICMP probes and of
  the defaults, and nothing of the others.
- docs/observability-latency.md:73-75 and examples/*/prometheus.yml:23 say that the
  self-observability counters are not pushed over OTLP. They are instruments of the
  same meter provider as the gauges (otlp.go:121-124), so every push has them; `Telemetry`
  follows the code. `FlushedAtExit` and `EventuallyPushed` speak of the series.
- README.md:136 says that `/healthz` is 200 while the process is running; it is 503
  above 90% of the buffer, as server.go:20 and its test say.
- types.go:127 "stdout-text -> skipped": the text line has its numbers always.
- docs/metrics.md:49 "Total probe runs": the counter adds one per result, so a run
  with three targets counts three.
- docs/observability-latency.md:90 `export_timeout` must stay below
  `export_interval`: nothing checks it.
- Nothing keeps a label from having the name of a built-in attribute
  (validate.go:210, otlp.go:387).
- A RST is accepted without looking at its acknowledgement number, so it may answer
  an earlier SYN from the same port; a cancelled context does not interrupt a SYN
  attempt before its deadline.
- `WorkerCount` leaves out workers that Stop still waits for (scheduler.go:82 says
  "currently running"); an HTTP server that never answers is an error, since the
  run's context ends first (types.go:18 says "could not execute").

## Proofs

Every safety property that a passing run checks is also proved, for all values of
the constants that satisfy the named assumptions. So is the refinement. The instance shows that a property is
not vacuous and that a bug breaks it; the theorem that the instance's size does not
matter. Few of the properties are inductive as they stand; what was added:

- **Pipeline** (`SchedulerPipelineProofs`): `PipeTypeCorrect`, `FanOutCorrect`,
  `DrainCorrect`, `PipelineImplementsDelivery`. `PipeInv` adds where control can be
  (`ControlInv`: the channel is closed iff Run has returned, `cur` is full iff Run is
  in dispatch), that what the exporters got, what is in hand and what is buffered
  together are exactly `accepted` (`QueueInv`), and which exporters are one result
  ahead (`FanOutInv`). These hold for sends at any time (`AnyStep`); only `DrainedInv`,
  that nothing is left once the drain is over, needs the contract of Run's comment.
  The refinement maps each Export to `Deliver`, each send to `Accept`, the close to
  `Finish`, the rest to stuttering.
- **Scheduler** (same module): `SchedTypeCorrect`, `MapCorrect`, `NoWorkerEscapes`,
  `CancelledAwaited`, from `SchedInv`, which adds that unborn workers appear
  nowhere (`FreshInv`), that what a Stop has still to cancel is part of what it
  waits for (`ListsInv`), and when results are pending (`SendingInv`).
- **Daemon**: `PanicOnlyByOverlap`, `StopIsComplete`, `OneWorker`, from `DaemonInv`:
  reloadMu makes at most one request call the scheduler, main's position tells which
  of its calls are done, and without an overlap all live workers are in the map or
  awaited by the one caller inside. It rests on the scheduler's invariant.
  `ServedIsActive` adds `ActiveInv`: a Start in progress has started exactly what it no
  longer has to do (`ProgressInv`), a request that has reloaded publishes the
  configuration its workers were started with, and outside a reload the map is that of
  the served one (`PublishInv`), and up to the end of main's Start all of them are the
  startup configuration (`StartupInv`).
- **Daemon, results** (`DaemonDeliveryProofs`): `GenerationsApart` adds that what the
  channel took was sent by goroutines that exist: a worker that sends is the only live
  one of its probe, so all the others with results have exited. `DeliveryInv` puts the
  pipeline's invariant, proved for its own module, to use in the composition: every
  step of the daemon is a step of the pipeline or leaves it alone (`StepsOnPipeline`),
  and without an overlap no worker is alive when `cancel()` is called, which is the
  contract the drain needs. Hence `DaemonTypeCorrect`, `NothingLost`, `DaemonFanOut`,
  and `DaemonImplementsDelivery`: behaviours without an overlap refine `Delivery`.
  `NoResultUnaccounted` sums over the workers of a probe: an offer adds one to the sum
  and one to the accepted or the dropped, and a birth adds a worker that has offered
  nothing (`AccountInv`, with the lemmas on sums).
- **Probe run**: `RunsAreBounded`, `PromptRuns`, `GaugesTell`, `HttpGaugesTell`,
  `EveryEntry`, all from `RunInv`. It says of each work item how late it may be
  (`Timely`), that its counters are those of its attempts (`Tallied`), that its n-th
  attempt begins no later than n packet intervals and its delays after the lookups
  (`Scheduled`, which with `PacketInterval * Count < Timeout` gives `PromptRuns`), and what it
  has reported (`Told`); of the clock that it passes the timeout only while something
  goes on that does not look at the context (`ClockInv`); and of the items that they
  cover the entries expanded so far (`EntriesInv`). What the loop over a lookup's
  addresses keeps is shown by induction over them (`UniqueCappedIs`).
- **Configuration**: `OneChangeAtomic`, from `AtomicInv`: before the first change, what
  was read and what is still to be read make up the directory; after it, they make up
  the directory before or after the change, depending on whether the file was read, or
  a file that was listed is gone and the Load will fail. A rename changes two files,
  so the property does not speak of it. `ActiveConfigRunnable`,
  `DefaultsReach` and `DumpReturns`, from `ActiveInv`: the configuration in force is
  the merge of sources that decoded and passed validation. The work is then in the
  operators: what `validateTimings` gives when the product does not wrap
  (`TimingsFit`), what the protocol blocks become (`TypedBlockIs`), that the flattened
  declarations of all files are probes (`DeclaredIs`), that merging what `/config`
  shows gives the same again (`RewriteIs`, `ProbeAgain`).
- **Telemetry**: `GaugesAreFresh`, from `GaugeInv`: every series
  has a last result in the log and holds its gauges; an Export overwrites all gauges
  of one series and appends to the log. `ResultsInOrder`: from the run to the log the
  results of a probe are in the order of its runs (`OrderInv`), which `LinesTell`
  rests on. `SeriesStay` adds that every result a run returned is on its way, dropped
  or in the log (`PlacesInv`), so that what a later run gave for the same address has
  either moved the series or not come to Export. `CountersAccountForAll`, from `FlowInv` (each result is in one
  place), `ErrorInv` and `PacketInv` (a counter is a cardinality or a sum over the
  log). `Flushed` adds what is over by each phase of the shutdown (`PhaseInv`).
- **Syn**: `VerdictsAreOwn` and `AnswersAreSeen`, from `OwnInv`: all traffic consists
  of answers to SYNs of the host and of resets of its connections, and an attempt that still waits has missed none but
  the misread ones. The lemmas say what an answer's words are (`ReplyFields`), what
  `stripIPv4Header` leaves of it (`Stripped`), what `classifyReply` makes of it
  (`Classified`), and that seq+1 is injective with its wrap (`SuccessorInjective`).
  `SynsVerify`: the loop that folds the carries ends, and keeps its number modulo
  65535 (`CarryTurn`, `CarryFolds`), so the words of a segment and its pseudo header
  together with the complement of their sum fold to 65535 (`ChecksumVerifies`).

Assumptions. Sets of workers, probes, requests, addresses and the like are arbitrary;
numbers are natural and positive where the code makes them so. What
`validateTimings` checks is part of `ProbeRun`'s Init, for all kinds but HTTP, with a
product that does not overflow; `Syn` assumes that addresses are sequences of words; `ProbeConfig`
that `Absent` and `Null` are told apart from values, and that string literals are
strings, which is true in TLA+ but known to none of the provers; `ConfigLoad` that the files
hold what the decoder can produce.

Induction over data (sums over a log, a loop over addresses or files, a checksum's
words) goes through one lemma about sets, `Induction`: a set of numbers that contains 0
and with n also n + 1 contains all of them. The set is then the numbers up to which
the loop does what it should. That a recursive definition has a solution at all
is proved first (`SumExists`, `JoinExists`, `AccumulationExists`, `CarryExists`).

The properties of `Pipeline` and `Scheduler` that only say what the next ones rest on
(`PipeTypeOK`, `SchedTypeOK`, `DrainComplete`) are proved; TLC checks the first two as
part of the daemon's `TypeOK` and the third through the refinement.

Only model-checked: the liveness properties (`DrainTerminates`, `EventuallyExported`,
`CallsReturn`, `CancelledExit`, `SignalEndsProcess`, `RequestsAnswered`, `LoadReturns`,
`EventuallyPushed`, `AttemptEnds`), since reasoning about fairness and ENABLED is out of
the prover's reach.

## Not modelled

- RTT statistics (`internal/probe/stats.go`): floating-point arithmetic over samples.
- DNS answer matching: the records are the DNS library's, and which of the outcomes
  they lead to is a choice in the model.
- Clients and URLs of the HTTP prober, redirects and TLS: library configuration.
- Instrument registration, TLS and transport of the OTLP exporter, `/metrics`: library
  set-up without state of its own.
- Layout of JSON, text and YAML, log messages, logger set-up, flags.
- The documentation generator and the smoke tests' parser: build and test support.
- Several probes at once in the daemon's runs: left to the proofs, which hold for any.
