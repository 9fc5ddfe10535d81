------------------------------- MODULE Daemon -------------------------------
(***************************************************************************)
(* The trimon process: main's startup and shutdown (cmd/trimon/main.go),   *)
(* the HTTP server and its /reload handlers (internal/server), composed    *)
(* with the scheduler's workers and the pipeline.                          *)
(***************************************************************************)
EXTENDS Scheduler, Pipeline, Functions

CONSTANTS
  Main,       \* the goroutine that runs main
  Handler,    \* POST /reload requests, one goroutine each
  NoHandler,  \* reloadMu is free
  Config0     \* the configuration main loads at startup

ASSUME DaemonAssumption ==
  /\ Main \notin Handler
  /\ Caller = Handler \cup {Main}
  /\ NoHandler \notin Handler
  /\ Config0 \in Config
  /\ Unbuildable = {}  \* Load accepts only the types the factory knows
  /\ Result = [worker : Worker, num : 1..(MaxRuns * MaxTargets)]

VARIABLES
  main,         \* where main is
  hpc,          \* hpc[h]: where request h is
  reloadMu,     \* s.reloadMu: the request that holds it
  served,       \* s.currentCfg, what GET /config returns
  reloadCount,  \* the counter trimon.config.reloads
  panicked,     \* a goroutine panicked: the process is gone
  overlap       \* history: a Reload ran during main's startup or shutdown

serverVars == <<hpc, reloadMu, served, reloadCount>>
procVars   == <<main, panicked, overlap>>
vars       == <<schedVars, pipeVars, serverVars, procVars>>

MainStates == {"boot", "goRun", "starting", "await", "stopping", "waiting",
               "closing", "shutdown", "exited", "killed"}
HandlerStates == {"idle", "locking", "loading", "reloading", "recording", "answered"}

TypeOK ==
  /\ SchedTypeOK
  /\ PipeTypeOK
  /\ main \in MainStates
  /\ hpc \in [Handler -> HandlerStates]
  /\ reloadMu \in Handler \cup {NoHandler}
  /\ served \in Config
  /\ reloadCount \in Nat
  /\ panicked \in BOOLEAN
  /\ overlap \in BOOLEAN

\* main up to srv.Start(): everything is built, the config is loaded and served.
Init ==
  /\ SchedInit
  /\ PipeInit
  /\ main = "boot"
  /\ hpc = [h \in Handler |-> "idle"]
  /\ reloadMu = NoHandler
  /\ served = Config0
  /\ reloadCount = 0
  /\ panicked = FALSE
  /\ overlap = FALSE

Alive == main \notin {"exited", "killed"} /\ ~panicked

-----------------------------------------------------------------------------
(* main *)

\* srv.Start(): the socket is bound before main goes on, requests are served
\* from here.
StartServer ==
  /\ main = "boot"
  /\ main' = "goRun"
  /\ UNCHANGED <<schedVars, pipeVars, serverVars, panicked, overlap>>

\* srv.Start() fails, or a signal arrives before signal.Notify: the process
\* ends at once.
Die ==
  /\ main \in {"boot", "goRun", "starting"}
  /\ main' = "killed"
  /\ UNCHANGED <<schedVars, pipeVars, serverVars, panicked, overlap>>

\* go pipe.Run(ctx), then sched.Start(cfg.Probes) with the startup config.
LaunchProbes ==
  /\ main = "goRun"
  /\ GoRun
  /\ CallStart(Main, Config0)
  /\ main' = "starting"
  /\ UNCHANGED <<serverVars, panicked, overlap>>

\* Start has returned; signal.Notify.
Notify ==
  /\ main = "starting"
  /\ call[Main] = "idle"
  /\ main' = "await"
  /\ UNCHANGED <<schedVars, pipeVars, serverVars, panicked, overlap>>

\* A request's Reload call is in progress.
Reloading == \E h \in Handler : call[h] # "idle"

\* SIGTERM or SIGINT: main calls sched.Stop().
Signal ==
  /\ main = "await"
  /\ CallStop(Main)
  /\ main' = "stopping"
  /\ overlap' = (overlap \/ Reloading)
  /\ UNCHANGED <<pipeVars, serverVars, panicked>>

\* Mutant: sched.Stop() runs in the background, main does not wait for it.
CancelEarly ==
  /\ main = "stopping"
  /\ CancelCtx
  /\ main' = "waiting"
  /\ UNCHANGED <<schedVars, serverVars, panicked, overlap>>

\* Stop has returned; cancel().
CancelPipeline ==
  /\ main = "stopping"
  /\ call[Main] = "idle"
  /\ CancelCtx
  /\ main' = "waiting"
  /\ UNCHANGED <<schedVars, serverVars, panicked, overlap>>

\* pipe.Wait() returns; main goes on to exp.Close().
PipeWaited ==
  /\ main = "waiting"
  /\ runPC = "returned"
  /\ main' = "closing"
  /\ UNCHANGED <<schedVars, pipeVars, serverVars, panicked, overlap>>

\* exp.Close() returns, with or without an error; srv.Shutdown closes the
\* listener.
ExporterClosed ==
  /\ main = "closing"
  /\ main' = "shutdown"
  /\ UNCHANGED <<schedVars, pipeVars, serverVars, panicked, overlap>>

\* srv.Shutdown returns, when no request is active or after its 5 s; main
\* returns and the process ends.
Exit ==
  /\ main = "shutdown"
  /\ main' = "exited"
  /\ UNCHANGED <<schedVars, pipeVars, serverVars, panicked, overlap>>

MainStep == \/ StartServer \/ LaunchProbes \/ Notify \/ CancelPipeline
            \/ PipeWaited \/ ExporterClosed \/ Exit

-----------------------------------------------------------------------------
(* POST /reload *)

\* The listener accepts requests.
Listening == main \notin {"boot", "shutdown", "exited", "killed"}

Request(h) ==
  /\ Listening
  /\ hpc[h] = "idle"
  /\ hpc' = [hpc EXCEPT ![h] = "locking"]
  /\ UNCHANGED <<schedVars, pipeVars, reloadMu, served, reloadCount, procVars>>

\* Mutant: requests are not serialised.
NoReloadLock(h) ==
  /\ hpc[h] = "locking"
  /\ reloadMu' = h
  /\ hpc' = [hpc EXCEPT ![h] = "loading"]
  /\ UNCHANGED <<schedVars, pipeVars, served, reloadCount, procVars>>

\* s.reloadMu.Lock()
LockReload(h) ==
  /\ hpc[h] = "locking"
  /\ reloadMu = NoHandler
  /\ reloadMu' = h
  /\ hpc' = [hpc EXCEPT ![h] = "loading"]
  /\ UNCHANGED <<schedVars, pipeVars, served, reloadCount, procVars>>

\* Mutant: the error path returns without unlocking.
FailKeepsLock(h) ==
  /\ hpc[h] = "loading"
  /\ hpc' = [hpc EXCEPT ![h] = "answered"]
  /\ UNCHANGED <<schedVars, pipeVars, reloadMu, served, reloadCount, procVars>>

\* config.Load fails: 400, the deferred unlock, nothing else changes.
LoadFails(h) ==
  /\ hpc[h] = "loading"
  /\ hpc' = [hpc EXCEPT ![h] = "answered"]
  /\ reloadMu' = NoHandler
  /\ UNCHANGED <<schedVars, pipeVars, served, reloadCount, procVars>>

\* Start has returned and no signal has been taken: main sits still.
Steady == main = "await" \/ (main = "starting" /\ call[Main] = "idle")

\* config.Load returns k (whatever the files hold now); sched.Reload(k).
LoadSucceeds(h, k) ==
  /\ hpc[h] = "loading"
  /\ CallReload(h, k)
  /\ hpc' = [hpc EXCEPT ![h] = "reloading"]
  /\ overlap' = (overlap \/ ~Steady)
  /\ UNCHANGED <<pipeVars, reloadMu, served, reloadCount, main, panicked>>

\* Mutant: the new configuration is not published.
ForgetConfig(h) ==
  /\ hpc[h] = "reloading"
  /\ call[h] = "idle"
  /\ hpc' = [hpc EXCEPT ![h] = "recording"]
  /\ UNCHANGED <<schedVars, pipeVars, reloadMu, served, reloadCount, procVars>>

\* Reload has returned; srv.UpdateConfig(newCfg).
UpdateConfig(h) ==
  /\ hpc[h] = "reloading"
  /\ call[h] = "idle"
  /\ served' = arg[h]
  /\ hpc' = [hpc EXCEPT ![h] = "recording"]
  /\ UNCHANGED <<schedVars, pipeVars, reloadMu, reloadCount, procVars>>

\* exp.RecordConfigReload; 200; the deferred unlock.
Answer(h) ==
  /\ hpc[h] = "recording"
  /\ reloadCount' = reloadCount + 1
  /\ reloadMu' = NoHandler
  /\ hpc' = [hpc EXCEPT ![h] = "answered"]
  /\ UNCHANGED <<schedVars, pipeVars, served, procVars>>

HandlerStep(h) == \/ LockReload(h) \/ LoadFails(h) \/ UpdateConfig(h) \/ Answer(h)
                  \/ \E k \in Config : LoadSucceeds(h, k)

-----------------------------------------------------------------------------
(* Steps inside the scheduler, the workers and the pipeline *)

SchedulerCall(c) == CallStep(c) /\ UNCHANGED <<pipeVars, serverVars, procVars>>

WorkerInternal(w) ==
  /\ \/ Tick(w)
     \/ \E n \in 0..MaxTargets : RunReturns(w, n)
     \/ ExitWorker(w)
  /\ UNCHANGED <<pipeVars, serverVars, procVars>>

\* select { case s.results <- result: default: ... }
OfferTaken(w) ==
  /\ SendOne(w, TRUE)
  /\ ChanSend(NextResult(w))
  /\ UNCHANGED <<serverVars, procVars>>

OfferDropped(w) ==
  /\ ~closed
  /\ ~HasRoom
  /\ SendOne(w, FALSE)
  /\ UNCHANGED <<pipeVars, serverVars, procVars>>

\* A send on a closed channel panics, default or not.
OfferPanics(w) ==
  /\ closed
  /\ wst[w] = "sending"
  /\ panicked' = TRUE
  /\ UNCHANGED <<schedVars, pipeVars, serverVars, main, overlap>>

Offer(w) == OfferTaken(w) \/ OfferDropped(w) \/ OfferPanics(w)

PipelineStep == RunStep /\ UNCHANGED <<schedVars, serverVars, procVars>>

Gone == ~Alive /\ UNCHANGED vars

Next == \/ /\ Alive
           /\ \/ MainStep
              \/ Die
              \/ Signal
              \/ \E h \in Handler : Request(h) \/ HandlerStep(h)
              \/ \E c \in Caller : SchedulerCall(c)
              \/ \E w \in Worker : WorkerInternal(w) \/ Offer(w)
              \/ PipelineStep
        \/ Gone

Spec == Init /\ [][Next]_vars

\* Goroutines that can run are scheduled and a prober's run ends (its context
\* has a timeout).  Strong fairness as in Scheduler.  Nobody owes the daemon a
\* request, a signal or a tick.
Fairness ==
  /\ WF_vars(Alive /\ MainStep)
  /\ WF_vars(Alive /\ PipelineStep)
  /\ \A h \in Handler : WF_vars(Alive /\ HandlerStep(h)) /\ SF_vars(Alive /\ LockReload(h))
  /\ \A c \in Caller : WF_vars(Alive /\ SchedulerCall(c))
  /\ \A w \in Worker :
       /\ WF_vars(Alive /\ (\E n \in 0..MaxTargets : RunReturns(w, n))
                        /\ UNCHANGED <<pipeVars, serverVars, procVars>>)
       /\ WF_vars(Alive /\ Offer(w))
       /\ SF_vars(Alive /\ ExitWorker(w) /\ UNCHANGED <<pipeVars, serverVars, procVars>>)

FairSpec == Spec /\ Fairness

-----------------------------------------------------------------------------
\* The late-send panic of the pipeline's shutdown contract needs a Reload that
\* overlaps main's startup or shutdown: in every other history no worker is
\* alive when Run closes the channel (main, Stop, Run).
PanicNeedsOverlap == panicked => overlap

\* Without such an overlap, main's sched.Stop() keeps its promise: from cancel()
\* on no worker is alive.
StoppedBeforeCancel ==
  ctxDone /\ ~overlap => LiveWorkers = {}

\* Without such an overlap at most one goroutine works for a probe name, also
\* while a reload replaces it.
OneWorkerPerProbe ==
  ~overlap => \A v, w \in LiveWorkers : wprobe[v] = wprobe[w] => v = w

\* Without such an overlap a reload never mixes generations: once a worker's
\* result is in the channel, every other worker of the probe with a result before
\* it has exited and can send nothing more.
GenerationsInOrder ==
  ~overlap =>
    \A i, j \in 1..Len(accepted) :
      (/\ i < j /\ accepted[i].worker # accepted[j].worker
       /\ wprobe[accepted[i].worker] = wprobe[accepted[j].worker])
      => wst[accepted[i].worker] = "exited"

\* Results the sending loops have dealt with.
Offered == [w \in Worker |-> made[w] - pending[w]]

\* Every result a run returned is in exactly one place: taken by the channel,
\* counted as dropped under its probe's name, or still to be sent.
ResultsAccountedFor ==
  \A p \in Probe :
    LET ws == {w \in Worker : wst[w] # "unborn" /\ wprobe[w] = p}
        taken == {i \in 1..Len(accepted) : accepted[i].worker \in ws}
    IN SumFunctionOnSet(Offered, ws) = Cardinality(taken) + dropped[p]

\* When main closes the exporters after an orderly shutdown, every result that
\* was not counted as dropped has been handed to every exporter.
NothingLostAtExit ==
  main \in {"closing", "shutdown", "exited"} /\ ~overlap =>
    /\ \A w \in Worker : pending[w] = 0
    /\ \A e \in Exporter : Len(exported[e]) = Len(accepted)

\* GET /config shows what runs: while no reload is in progress the workers are
\* exactly the probes of the served configuration, started from it.
ConfigIsActive ==
  Steady /\ ~overlap /\ (\A h \in Handler : hpc[h] # "reloading") =>
    \A p \in Probe :
      IF p \in ProbesOf[served]
      THEN workers[p] # NoWorker /\ wcfg[workers[p]] = served
      ELSE workers[p] = NoWorker

\* The comment in main: "sched.Stop() blocks until every probe goroutine has
\* exited, guaranteeing no further sends on the results channel before cancel()
\* triggers pipeline drain".
StopGuarantee == ctxDone => LiveWorkers = {}

\* After a signal the process ends, whatever reloads and probe runs are under way.
SignalEndsProcess == main = "stopping" ~> ~Alive

\* Every /reload request is answered, or the process ends.
RequestsAnswered ==
  \A h \in Handler : hpc[h] = "locking" ~> (hpc[h] = "answered" \/ ~Alive)
=============================================================================
