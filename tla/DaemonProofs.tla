--------------------------- MODULE DaemonProofs ---------------------------
(***************************************************************************)
(* The orderly histories of the process, for any number of probes, workers *)
(* and reload requests: as long as no Reload overlaps main's startup or    *)
(* shutdown, sched.Stop() leaves no worker behind, no worker ever sends on *)
(* the closed channel, a probe never has two workers, and what GET /config *)
(* shows is what the scheduler runs.                                       *)
(***************************************************************************)
EXTENDS Daemon, SchedulerPipelineProofs

NoEntries == \A p \in Probe : workers[p] = NoWorker

\* main has returned from its Stop.
Stopped == \/ main \in {"waiting", "closing", "shutdown", "exited"}
           \/ main = "stopping" /\ call[Main] = "idle"

\* reloadMu serialises the requests' Reload calls.
RequestInv ==
  /\ hpc \in [Handler -> HandlerStates]
  /\ \A h \in Handler :
       /\ call[h] # "idle" => hpc[h] = "reloading"
       /\ hpc[h] \in {"loading", "reloading", "recording"} => reloadMu = h

\* Where main is inside the scheduler follows from where it is in main; the
\* pipeline drains and closes only after cancel().
MainInv ==
  /\ restart[Main] = FALSE
  /\ call[Main] # "idle" => main \in {"starting", "stopping", "killed"}
  /\ main = "starting" => call[Main] \in {"idle", "start", "starting"}
  /\ main = "stopping" => call[Main] \in {"idle", "stop", "cancelling"}
  /\ ctxDone => main \in {"waiting", "closing", "shutdown", "exited"}
  /\ runPC \in {"drain", "drainDispatch", "closing", "returned"} => ctxDone
  /\ closed => ctxDone

\* One Stop waits for at most one worker of a probe.
DonesInv ==
  \A c \in Caller : \A v, w \in dones[c] : wprobe[v] = wprobe[w] => v = w

\* At most one goroutine is inside the scheduler; requests are outside while
\* main starts up or shuts down.
ExclusiveInv ==
  /\ \A c, d \in Caller : call[c] # "idle" /\ call[d] # "idle" => c = d
  /\ ~Steady /\ main # "killed" => \A h \in Handler : call[h] = "idle"

\* Whoever is about to start probes finds their entries free.
EntriesInv ==
  /\ orphans = {}
  /\ main \in {"boot", "goRun"} \/ Stopped => NoEntries
  /\ \A c \in Caller :
       /\ call[c] \in {"cancelling", "start"} => NoEntries
       /\ call[c] = "starting" => \A p \in todo[c] : workers[p] = NoWorker

OrderlyInv == ~overlap => ~panicked /\ ExclusiveInv /\ EntriesInv

DaemonInv == SchedInv /\ RequestInv /\ MainInv /\ DonesInv /\ OrderlyInv

\* The callers are main and the requests.
LEMMA Callers ==
  /\ Main \in Caller /\ Main \notin Handler /\ Handler \subseteq Caller
  /\ \A c \in Caller : c = Main \/ c \in Handler
  /\ NoHandler \notin Handler
  /\ Config0 \in Config
BY DaemonAssumption, Zenon DEF DaemonAssumption

\* main up to srv.Start() establishes the invariant.
LEMMA DaemonInitInv == Init => DaemonInv
<1> SUFFICES ASSUME Init PROVE DaemonInv
  OBVIOUS
<1>1. SchedInv
  BY SchedInitInv, Zenon DEF Init
<1>2. RequestInv /\ MainInv /\ DonesInv
  BY Callers, Zenon DEF Init, SchedInit, PipeInit, RequestInv, MainInv, DonesInv,
                 HandlerStates
<1>3. OrderlyInv
  BY Callers, Zenon DEF Init, SchedInit, OrderlyInv, ExclusiveInv, EntriesInv, NoEntries, Steady
<1> QED BY <1>1, <1>2, <1>3, Zenon DEF DaemonInv

\* In an orderly history nobody is alive once main's Stop has returned.
LEMMA StoppedNobodyLives ==
  ASSUME DaemonInv, ~overlap, Stopped
  PROVE  LiveWorkers = {}
<1>1. \A c \in Caller : call[c] = "idle"
  BY Callers, Zenon DEF DaemonInv, OrderlyInv, ExclusiveInv, MainInv, Stopped, Steady
<1>2. \A c \in Caller : dones[c] = {}
  BY <1>1, Zenon DEF DaemonInv, SchedInv, ListsInv
<1>3. Registered = {} /\ orphans = {}
  BY Zenon DEF DaemonInv, OrderlyInv, EntriesInv, NoEntries, Registered
<1> QED BY <1>2, <1>3, Zenon DEF DaemonInv, SchedInv, WorkersAccountedFor

\* A step outside the scheduler and the pipeline's control: what remains to be
\* shown for it.
LEMMA OutsideScheduler ==
  ASSUME DaemonInv, UNCHANGED schedVars
  PROVE  SchedInv' /\ DonesInv' /\ (NoEntries => NoEntries')
<1>1. SchedInv'
  BY SchedNextInv, Zenon DEF DaemonInv
<1>2. DonesInv' /\ (NoEntries => NoEntries')
  BY Zenon DEF DaemonInv, DonesInv, NoEntries, schedVars, callVars, workerVars
<1> QED BY <1>1, <1>2, Zenon

\* main's own steps other than its calls of the scheduler.
LEMMA MainQuietInv ==
  ASSUME DaemonInv, StartServer \/ Die \/ Notify \/ CancelPipeline
                    \/ PipeWaited \/ ExporterClosed \/ Exit
  PROVE  DaemonInv'
<1> USE DEF StartServer, Die, Notify, CancelPipeline, PipeWaited, ExporterClosed, Exit
<1>1. UNCHANGED <<schedVars, serverVars, panicked, overlap>>
  OBVIOUS
<1>2. SchedInv' /\ DonesInv' /\ (NoEntries => NoEntries')
  BY <1>1, OutsideScheduler, Zenon
<1>3. RequestInv'
  BY <1>1, Zenon DEF DaemonInv, RequestInv, schedVars, callVars, serverVars
<1>4. MainInv'
  <2>1. UNCHANGED <<restart, call>>
    BY <1>1, Zenon DEF schedVars, callVars
  <2>2. CASE CancelPipeline
    BY <2>1, <2>2, Zenon DEF DaemonInv, MainInv, CancelCtx, chanVars, runVars
  <2>3. CASE ~CancelPipeline
    <3>1. UNCHANGED <<ctxDone, runPC, closed>>
      BY <2>3, Zenon DEF pipeVars
    <3> QED BY <2>1, <2>3, <3>1, Zenon DEF DaemonInv, MainInv
  <2> QED BY <2>2, <2>3, Zenon
<1>5. OrderlyInv'
  <2> SUFFICES ASSUME ~overlap PROVE ~panicked' /\ ExclusiveInv' /\ EntriesInv'
    BY <1>1, Zenon DEF OrderlyInv
  <2>1. ~panicked'
    BY <1>1, Zenon DEF DaemonInv, OrderlyInv
  <2>2. ExclusiveInv'
    BY <1>1, Zenon DEF DaemonInv, OrderlyInv, ExclusiveInv, Steady, schedVars, callVars
  <2>3. main' \in {"boot", "goRun"} \/ Stopped' => main \in {"boot", "goRun"} \/ Stopped
    BY <1>1, Zenon DEF Stopped, schedVars, callVars
  <2>4. EntriesInv'
    BY <1>1, <1>2, <2>3, Zenon DEF DaemonInv, OrderlyInv, EntriesInv, schedVars, callVars
  <2> QED BY <2>1, <2>2, <2>4, Zenon
<1> QED BY <1>2, <1>3, <1>4, <1>5, Zenon DEF DaemonInv

\* main calls Start: it finds the map empty and the scheduler to itself.
LEMMA LaunchInv == ASSUME DaemonInv, LaunchProbes PROVE DaemonInv'
<1>1. /\ main = "goRun" /\ main' = "starting"
      /\ call[Main] = "idle"
      /\ call' = [call EXCEPT ![Main] = "start"]
      /\ restart' = [restart EXCEPT ![Main] = FALSE]
      /\ UNCHANGED <<mu, workers, cancelled, orphans, workerVars, todo, cancels, dones>>
      /\ UNCHANGED <<serverVars, panicked, overlap>>
      /\ runPC' = "select" /\ UNCHANGED <<closed, ctxDone>>
  BY Zenon DEF LaunchProbes, CallStart, Enter, GoRun, chanVars
<1>2. SchedInv'
  BY Callers, EnterInv, Zenon DEF LaunchProbes, CallStart, DaemonInv
<1>3. call \in [Caller -> CallStates] /\ restart \in [Caller -> BOOLEAN]
  BY Zenon DEF DaemonInv, SchedInv, SchedTypeOK
<1>4. RequestInv'
  BY <1>1, <1>3, Callers, Zenon DEF DaemonInv, RequestInv, serverVars
<1>5. MainInv'
  BY <1>1, <1>3, Callers, Zenon DEF DaemonInv, MainInv
<1>6. DonesInv'
  BY <1>1, Zenon DEF DaemonInv, DonesInv, workerVars
<1>7. OrderlyInv'
  BY <1>1, <1>3, Callers, Zenon
     DEF DaemonInv, OrderlyInv, ExclusiveInv, EntriesInv, NoEntries, Steady, Stopped
<1> QED BY <1>2, <1>4, <1>5, <1>6, <1>7, Zenon DEF DaemonInv

\* A signal: main's Stop has the scheduler to itself, or the overlap is noted.
LEMMA SignalInv == ASSUME DaemonInv, Signal PROVE DaemonInv'
<1>1. /\ main = "await" /\ main' = "stopping"
      /\ call[Main] = "idle"
      /\ call' = [call EXCEPT ![Main] = "stop"]
      /\ restart' = [restart EXCEPT ![Main] = FALSE]
      /\ UNCHANGED <<mu, workers, cancelled, orphans, workerVars, todo, cancels, dones>>
      /\ UNCHANGED <<serverVars, panicked, runPC, closed, ctxDone>>
      /\ overlap' = (overlap \/ Reloading)
  BY Zenon DEF Signal, CallStop, Enter, pipeVars
<1>2. SchedInv'
  <2>1. arg[Main] \in Config
    BY Callers, Zenon DEF DaemonInv, SchedInv, SchedTypeOK
  <2> QED BY <2>1, Callers, EnterInv, Zenon DEF Signal, CallStop, DaemonInv
<1>3. call \in [Caller -> CallStates] /\ restart \in [Caller -> BOOLEAN]
  BY Zenon DEF DaemonInv, SchedInv, SchedTypeOK
<1>4. RequestInv'
  BY <1>1, <1>3, Callers, Zenon DEF DaemonInv, RequestInv, serverVars
<1>5. MainInv'
  BY <1>1, <1>3, Callers, Zenon DEF DaemonInv, MainInv
<1>6. DonesInv'
  BY <1>1, Zenon DEF DaemonInv, DonesInv, workerVars
<1>7. OrderlyInv'
  BY <1>1, <1>3, Callers, Zenon
     DEF DaemonInv, OrderlyInv, ExclusiveInv, EntriesInv, NoEntries, Steady, Stopped, Reloading
<1> QED BY <1>2, <1>4, <1>5, <1>6, <1>7, Zenon DEF DaemonInv

\* The steps of a request outside Reload keep to its own lock.
LEMMA RequestQuietInv ==
  ASSUME DaemonInv, NEW h \in Handler,
         Request(h) \/ LockReload(h) \/ LoadFails(h) \/ UpdateConfig(h) \/ Answer(h)
  PROVE  DaemonInv'
<1> USE DEF Request, LockReload, LoadFails, UpdateConfig, Answer
<1>1. UNCHANGED <<schedVars, pipeVars, procVars>>
  OBVIOUS
<1>2. SchedInv' /\ DonesInv'
  BY <1>1, OutsideScheduler, Zenon
<1>3. RequestInv'
  BY <1>1, Callers DEF DaemonInv, RequestInv, HandlerStates, schedVars, callVars
<1>4. MainInv'
  BY <1>1, Zenon DEF DaemonInv, MainInv, schedVars, callVars, procVars, pipeVars
<1>5. OrderlyInv'
  BY <1>1, Zenon DEF DaemonInv, OrderlyInv, ExclusiveInv, EntriesInv, NoEntries, Steady, Stopped,
              schedVars, callVars, procVars
<1> QED BY <1>2, <1>3, <1>4, <1>5, Zenon DEF DaemonInv

\* A request calls Reload: reloadMu keeps the other requests out, and main is
\* out or the overlap is noted.
LEMMA LoadSucceedsInv ==
  ASSUME DaemonInv, NEW h \in Handler, NEW k \in Config, LoadSucceeds(h, k)
  PROVE  DaemonInv'
<1>1. /\ hpc[h] = "loading" /\ hpc' = [hpc EXCEPT ![h] = "reloading"]
      /\ call[h] = "idle"
      /\ call' = [call EXCEPT ![h] = "stop"]
      /\ restart' = [restart EXCEPT ![h] = TRUE]
      /\ UNCHANGED <<mu, workers, cancelled, orphans, workerVars, todo, cancels, dones>>
      /\ UNCHANGED <<reloadMu, main, panicked, runPC, closed, ctxDone>>
      /\ overlap' = (overlap \/ ~Steady)
  BY Zenon DEF LoadSucceeds, CallReload, Enter, pipeVars
<1>2. SchedInv'
  BY Callers, EnterInv, Zenon DEF LoadSucceeds, CallReload, DaemonInv
<1>3. call \in [Caller -> CallStates] /\ restart \in [Caller -> BOOLEAN]
  BY Zenon DEF DaemonInv, SchedInv, SchedTypeOK
<1>4. RequestInv'
  BY <1>1, <1>3, Callers, Zenon DEF DaemonInv, RequestInv, HandlerStates
<1>5. MainInv'
  BY <1>1, <1>3, Callers, Zenon DEF DaemonInv, MainInv
<1>6. DonesInv'
  BY <1>1, Zenon DEF DaemonInv, DonesInv, workerVars
<1>7. OrderlyInv'
  <2> SUFFICES ASSUME ~overlap, Steady PROVE ~panicked' /\ ExclusiveInv' /\ EntriesInv'
    BY <1>1, Zenon DEF OrderlyInv
  <2>1. \A c \in Caller : call[c] = "idle"
    BY <1>1, Callers, Zenon DEF DaemonInv, RequestInv, MainInv, Steady
  <2>2. ExclusiveInv'
    BY <1>1, <1>3, <2>1, Callers, Zenon DEF ExclusiveInv, Steady
  <2>3. EntriesInv'
    BY <1>1, <1>3, <2>1, Callers, Zenon DEF DaemonInv, OrderlyInv, EntriesInv, NoEntries, Stopped, Steady
  <2> QED BY <1>1, <2>2, <2>3, Zenon DEF DaemonInv, OrderlyInv
<1> QED BY <1>2, <1>4, <1>5, <1>6, <1>7, Zenon DEF DaemonInv

\* Steps of the pipeline: it sees Done, drains and closes only after cancel().
LEMMA PipelineStepInv == ASSUME DaemonInv, PipelineStep PROVE DaemonInv'
<1>1. UNCHANGED <<schedVars, serverVars, procVars, ctxDone>>
  BY Zenon DEF PipelineStep, RunStep, Receive, SeeDone, DrainReceive, DrainEmpty, CloseResults,
         TakeResult, Export
<1>2. SchedInv' /\ DonesInv'
  BY <1>1, OutsideScheduler, Zenon
<1>3. RequestInv'
  BY <1>1, Zenon DEF DaemonInv, RequestInv, schedVars, callVars, serverVars
<1>4. /\ runPC' \in {"drain", "drainDispatch", "closing", "returned"} => ctxDone
      /\ closed' => ctxDone
  <2>1. ASSUME NEW ok \in BOOLEAN, Export(ok)
        PROVE  /\ closed' = closed
               /\ \/ runPC = "dispatch" /\ runPC' \in {"dispatch", "select"}
                  \/ runPC = "drainDispatch" /\ runPC' \in {"drainDispatch", "drain"}
    BY <2>1, Zenon DEF Export, AfterExport, chanVars
  <2>2. CASE Receive \/ SeeDone \/ DrainReceive \/ DrainEmpty \/ CloseResults
    BY <2>2 DEF DaemonInv, MainInv, Receive, SeeDone, DrainReceive, DrainEmpty, CloseResults,
                TakeResult, chanVars
  <2> QED BY <2>1, <2>2, Zenon DEF DaemonInv, MainInv, PipelineStep, RunStep
<1>5. MainInv'
  BY <1>1, <1>4, Zenon DEF DaemonInv, MainInv, schedVars, callVars, procVars
<1>6. OrderlyInv'
  BY <1>1, Zenon DEF DaemonInv, OrderlyInv, ExclusiveInv, EntriesInv, NoEntries, Steady, Stopped,
              schedVars, callVars, procVars
<1> QED BY <1>2, <1>3, <1>5, <1>6, Zenon DEF DaemonInv

\* Steps of a worker that leave the calls, the map and the channel's state.
LEMMA WorkerMovesOn ==
  ASSUME DaemonInv, SchedInv', UNCHANGED <<restVars, serverVars, procVars, runPC, closed, ctxDone>>
  PROVE  DaemonInv'
<1>1. RequestInv' /\ MainInv' /\ DonesInv'
  BY Zenon DEF DaemonInv, RequestInv, MainInv, DonesInv, restVars, callVars, serverVars, procVars
<1>2. OrderlyInv'
  BY Zenon DEF DaemonInv, OrderlyInv, ExclusiveInv, EntriesInv, NoEntries, Steady, Stopped,
         restVars, callVars, procVars
<1> QED BY <1>1, <1>2, Zenon DEF DaemonInv

\* A worker in the sending loop is alive, so in an orderly history the channel
\* it sends on is open.
LEMMA WorkerInv ==
  ASSUME DaemonInv, NEW w \in Worker, WorkerInternal(w) \/ Offer(w)
  PROVE  DaemonInv'
<1>1. CASE WorkerInternal(w)
  <2>1. SchedInv'
    BY <1>1, WorkerStepInv, Zenon DEF DaemonInv, WorkerInternal, WorkerStep
  <2> QED BY <1>1, <2>1, WorkerMovesOn, Zenon
          DEF WorkerInternal, Tick, RunReturns, ExitWorker, pipeVars
<1>2. CASE OfferTaken(w)
  <2>1. SchedInv'
    BY <1>2, WorkerStepInv, Zenon DEF DaemonInv, OfferTaken, WorkerStep
  <2> QED BY <1>2, <2>1, WorkerMovesOn, Zenon DEF OfferTaken, SendOne, ChanSend, runVars
<1>3. CASE OfferDropped(w)
  <2>1. SchedInv'
    BY <1>3, WorkerStepInv, Zenon DEF DaemonInv, OfferDropped, WorkerStep
  <2> QED BY <1>3, <2>1, WorkerMovesOn, Zenon DEF OfferDropped, SendOne, pipeVars
<1>4. CASE OfferPanics(w)
  <2>1. UNCHANGED <<schedVars, pipeVars, serverVars, main, overlap>>
    BY <1>4, Zenon DEF OfferPanics
  <2>2. overlap
    <3>1. Live(w) /\ ctxDone
      BY <1>4, Zenon DEF OfferPanics, Live, DaemonInv, MainInv
    <3>2. Stopped
      BY <3>1, Zenon DEF DaemonInv, MainInv, Stopped
    <3> QED BY <3>1, <3>2, StoppedNobodyLives, Zenon DEF LiveWorkers
  <2>3. SchedInv' /\ DonesInv'
    BY <2>1, OutsideScheduler, Zenon
  <2>4. RequestInv' /\ MainInv'
    BY <2>1, Zenon DEF DaemonInv, RequestInv, MainInv, schedVars, callVars, serverVars, pipeVars
  <2> QED BY <2>1, <2>2, <2>3, <2>4, Zenon DEF DaemonInv, OrderlyInv
<1> QED BY <1>1, <1>2, <1>3, <1>4, Zenon DEF Offer

\* Steps inside Start, Stop and Reload.
LEMMA SchedulerCallInv ==
  ASSUME DaemonInv, NEW c \in Caller, SchedulerCall(c)
  PROVE  DaemonInv'
<1>1. CallStep(c) /\ UNCHANGED <<pipeVars, serverVars, procVars>>
  BY Zenon DEF SchedulerCall
<1>2. SchedInv'
  BY <1>1, CallStepInv, Zenon DEF DaemonInv
<1>3. SchedTypeOK
  BY Zenon DEF DaemonInv, SchedInv
<1>4. /\ \A d \in Caller \ {c} : call'[d] = call[d]
      /\ call[c] # "idle"
      /\ restart' = restart
  BY <1>1, <1>3, Zenon DEF CallStep, LockStart, UnlockStart, Collect, StopReturn, StartOne, StartFails,
                    CancelOne, SchedTypeOK
<1>5. RequestInv'
  BY <1>1, <1>4, Callers, Zenon DEF DaemonInv, RequestInv, serverVars
<1>6. \/ call[c] = "start" /\ call'[c] = "starting"
      \/ call[c] = "starting" /\ call'[c] \in {"starting", "idle"}
      \/ call[c] = "stop" /\ call'[c] = "cancelling"
      \/ call[c] = "cancelling" /\ call'[c] = "cancelling"
      \/ call[c] = "cancelling" /\ call'[c] = IF restart[c] THEN "start" ELSE "idle"
  BY <1>1, <1>3, Zenon DEF CallStep, LockStart, UnlockStart, Collect, StopReturn, StartOne, StartFails,
                    CancelOne, SchedTypeOK
<1>7. MainInv'
  <2>1. CASE c = Main
    BY <1>1, <1>4, <1>6, <2>1, Zenon DEF DaemonInv, MainInv, procVars, pipeVars
  <2>2. CASE c # Main
    BY <1>1, <1>4, <2>2, Callers, Zenon DEF DaemonInv, MainInv, procVars, pipeVars
  <2> QED BY <2>1, <2>2, Zenon
<1>8. DonesInv'
  <2>1. CASE Collect(c)
    <3>1. dones' = [dones EXCEPT ![c] = Registered] /\ wprobe' = wprobe
      BY <2>1, Zenon DEF Collect, workerVars
    <3>2. \A v, w \in Registered : wprobe[v] = wprobe[w] => v = w
      BY DEF DaemonInv, SchedInv, MapHoldsRunningWorkers, Registered
    <3> QED BY <1>3, <3>1, <3>2 DEF DaemonInv, DonesInv, SchedTypeOK
  <2>2. CASE StopReturn(c)
    BY <1>3, <2>2 DEF DaemonInv, DonesInv, StopReturn, SchedTypeOK, workerVars
  <2>3. ASSUME NEW p \in Probe, StartOne(c, p) PROVE DonesInv'
    <3>1. PICK w \in Worker : wst[w] = "unborn" /\ wprobe' = [wprobe EXCEPT ![w] = p]
      <4> DEFINE v == CHOOSE u \in Worker : wst[u] = "unborn"
      <4>1. v \in Worker /\ wst[v] = "unborn" /\ wprobe' = [wprobe EXCEPT ![v] = p]
        BY <2>3, Zenon DEF StartOne
      <4> HIDE DEF v
      <4> QED BY <4>1, Zenon
    <3>2. \A d \in Caller : \A v \in dones[d] : v # w /\ v \in Worker
      BY <1>3, <3>1, Zenon DEF DaemonInv, SchedInv, FreshInv, SchedTypeOK
    <3>3. \A d \in Caller : \A v \in dones[d] : wprobe'[v] = wprobe[v]
      BY <1>3, <3>1, <3>2, Zenon DEF SchedTypeOK
    <3>4. dones' = dones
      BY <2>3, Zenon DEF StartOne
    <3> QED BY <3>3, <3>4 DEF DaemonInv, DonesInv
  <2>4. CASE \/ LockStart(c) \/ UnlockStart(c)
             \/ \E p \in Probe : StartFails(c, p)
             \/ \E w \in Worker : CancelOne(c, w)
    BY <2>4, Zenon DEF DaemonInv, DonesInv, LockStart, UnlockStart, StartFails, CancelOne, workerVars
  <2> QED BY <1>1, <2>1, <2>2, <2>3, <2>4, Zenon DEF CallStep
<1>9. OrderlyInv'
  <2> SUFFICES ASSUME ~overlap PROVE ~panicked' /\ ExclusiveInv' /\ EntriesInv'
    BY <1>1, Zenon DEF OrderlyInv, procVars
  <2>1. ~panicked' /\ ExclusiveInv /\ EntriesInv /\ main' = main
    BY <1>1, Zenon DEF DaemonInv, OrderlyInv, procVars
  <2>2. \A d \in Caller \ {c} : call[d] = "idle" /\ call'[d] = "idle"
    BY <1>4, <2>1, Zenon DEF ExclusiveInv
  <2>3. c \in Handler => Steady \/ main = "killed"
    BY <1>4, <2>1, Zenon DEF ExclusiveInv
  <2>4. ExclusiveInv'
    <3>1. \A d, e \in Caller : call'[d] # "idle" /\ call'[e] # "idle" => d = e
      BY <2>2, Zenon
    <3>2. c \in Handler /\ ~Steady' => main' = "killed"
      BY <1>4, <2>1, <2>3, Callers, Zenon DEF Steady
    <3> QED BY <2>1, <2>2, <3>1, <3>2, Callers, Zenon DEF ExclusiveInv
  <2>5. ~(main \in {"boot", "goRun"} \/ Stopped)
    BY <1>4, <2>1, <2>3, Callers, Zenon DEF DaemonInv, MainInv, Stopped, Steady
  <2>6. Stopped' => c = Main /\ call[c] = "cancelling"
    BY <1>4, <1>6, <1>7, <2>1, <2>5, Callers, Zenon DEF DaemonInv, MainInv, Stopped
  <2>7. EntriesInv'
    <3>1. CASE LockStart(c)
      <4>1. /\ workers' = workers /\ orphans' = orphans
            /\ call[c] = "start" /\ call'[c] = "starting"
            /\ todo'[c] \subseteq Probe
        BY <1>2, <1>3, <3>1, Zenon DEF LockStart, SchedInv, SchedTypeOK
      <4>2. \A p \in Probe : workers'[p] = NoWorker
        BY <2>1, <4>1, Zenon DEF EntriesInv, NoEntries
      <4> QED BY <2>1, <2>2, <4>1, <4>2, Zenon DEF EntriesInv, NoEntries
    <3>2. CASE UnlockStart(c)
      BY <1>3, <2>1, <2>2, <2>5, <2>6, <3>2, Zenon
         DEF EntriesInv, UnlockStart, NoEntries, SchedTypeOK
    <3>3. CASE Collect(c)
      BY <1>3, <2>1, <2>2, <3>3, Zenon DEF EntriesInv, Collect, NoEntries, SchedTypeOK
    <3>4. CASE StopReturn(c)
      BY <1>3, <2>1, <2>2, <2>5, <3>4, Zenon DEF EntriesInv, StopReturn, NoEntries, SchedTypeOK
    <3>5. ASSUME NEW p \in Probe, StartOne(c, p) PROVE EntriesInv'
      <4>1. PICK w : workers' = [workers EXCEPT ![p] = w]
        BY <3>5, Zenon DEF StartOne
      <4>2. /\ call[c] = "starting" /\ p \in todo[c] /\ workers[p] = NoWorker
            /\ orphans' = orphans \cup ({workers[p]} \ {NoWorker})
            /\ todo' = [todo EXCEPT ![c] = @ \ {p}]
            /\ call' = call
        BY <2>1, <3>5, Zenon DEF EntriesInv, StartOne
      <4> QED BY <1>3, <2>1, <2>2, <2>5, <2>6, <4>1, <4>2, Zenon DEF EntriesInv, SchedTypeOK
    <3>6. ASSUME NEW p \in Probe, StartFails(c, p) PROVE EntriesInv'
      BY <1>3, <2>1, <2>2, <2>5, <2>6, <3>6, Zenon DEF EntriesInv, StartFails, NoEntries, SchedTypeOK
    <3>7. ASSUME NEW w \in Worker, CancelOne(c, w) PROVE EntriesInv'
      BY <1>3, <2>1, <2>2, <2>5, <3>7, Zenon DEF EntriesInv, CancelOne, NoEntries, SchedTypeOK
    <3> QED BY <1>1, <3>1, <3>2, <3>3, <3>4, <3>5, <3>6, <3>7, Zenon DEF CallStep
  <2> QED BY <2>1, <2>4, <2>7, Zenon
<1> QED BY <1>2, <1>5, <1>7, <1>8, <1>9, Zenon DEF DaemonInv

\* One step per action of Next.
LEMMA DaemonNextInv == DaemonInv /\ [Next]_vars => DaemonInv'
<1> SUFFICES ASSUME DaemonInv, [Next]_vars PROVE DaemonInv'
  OBVIOUS
<1>1. CASE UNCHANGED vars
  <2>1. SchedInv' /\ DonesInv'
    BY <1>1, OutsideScheduler, Zenon DEF vars
  <2>2. RequestInv' /\ MainInv'
    BY <1>1, Zenon DEF DaemonInv, RequestInv, MainInv, vars, schedVars, callVars, serverVars, pipeVars,
                procVars
  <2>3. OrderlyInv'
    BY <1>1, Zenon DEF DaemonInv, OrderlyInv, ExclusiveInv, EntriesInv, NoEntries, Steady, Stopped,
                vars, schedVars, callVars, procVars
  <2> QED BY <2>1, <2>2, <2>3, Zenon DEF DaemonInv
<1>2. CASE MainStep \/ Die \/ Signal
  BY <1>2, MainQuietInv, LaunchInv, SignalInv, Zenon DEF MainStep
<1>3. ASSUME NEW h \in Handler, Request(h) \/ HandlerStep(h) PROVE DaemonInv'
  BY <1>3, RequestQuietInv, LoadSucceedsInv, Zenon DEF HandlerStep
<1> QED BY <1>1, <1>2, <1>3, SchedulerCallInv, WorkerInv, PipelineStepInv, Zenon DEF Next, Gone

\* The inductive invariant holds of every behaviour of the process.
THEOREM DaemonInvariance == Spec => []DaemonInv
BY DaemonInitInv, DaemonNextInv, PTL DEF Spec

\* A send on the closed results channel needs a Reload that overlaps main's
\* startup or shutdown (main, Scheduler.Stop, Pipeline.Run).
THEOREM PanicOnlyByOverlap == Spec => []PanicNeedsOverlap
<1>1. DaemonInv => PanicNeedsOverlap
  BY Zenon DEF DaemonInv, OrderlyInv, PanicNeedsOverlap
<1> QED BY <1>1, DaemonInvariance, PTL

\* In an orderly history no worker is alive once main calls cancel().
THEOREM StopIsComplete == Spec => []StoppedBeforeCancel
<1>1. DaemonInv => StoppedBeforeCancel
  BY StoppedNobodyLives, Zenon DEF DaemonInv, MainInv, StoppedBeforeCancel, Stopped
<1> QED BY <1>1, DaemonInvariance, PTL

\* A live worker is in the map, or one Stop waits for it; never some in the map
\* and some in a Stop.
LEMMA InvOneWorker == DaemonInv => OneWorkerPerProbe
<1> SUFFICES ASSUME DaemonInv, ~overlap, NEW v \in LiveWorkers, NEW w \in LiveWorkers,
                    wprobe[v] = wprobe[w]
             PROVE  v = w
  BY Zenon DEF OneWorkerPerProbe
<1>1. ASSUME NEW u \in LiveWorkers
      PROVE  u \in Registered \/ \E c \in Caller : u \in dones[c]
  BY Zenon DEF DaemonInv, OrderlyInv, EntriesInv, SchedInv, WorkersAccountedFor
<1>2. \A c \in Caller : dones[c] # {} => call[c] = "cancelling" /\ Registered = {}
  BY Zenon DEF DaemonInv, OrderlyInv, EntriesInv, NoEntries, SchedInv, ListsInv, Registered
<1>3. \A c, d \in Caller : dones[c] # {} /\ dones[d] # {} => c = d
  BY <1>2, Zenon DEF DaemonInv, OrderlyInv, ExclusiveInv
<1>4. CASE v \in Registered
  <2>1. w \in Registered
    BY <1>1, <1>2, <1>4, Zenon
  <2> QED BY <1>4, <2>1 DEF DaemonInv, SchedInv, MapHoldsRunningWorkers, Registered
<1>5. ASSUME NEW c \in Caller, v \in dones[c] PROVE v = w
  <2>1. w \in dones[c]
    BY <1>1, <1>2, <1>3, <1>5, Zenon
  <2> QED BY <1>5, <2>1, Zenon DEF DaemonInv, DonesInv
<1> QED BY <1>1, <1>4, <1>5, Zenon

\* In an orderly history a probe name never has two live goroutines, also while
\* a reload replaces its worker.
THEOREM OneWorker == Spec => []OneWorkerPerProbe
BY InvOneWorker, DaemonInvariance, PTL

\* An overlap is noted for good.
LEMMA OverlapStays == [Next]_vars /\ overlap => overlap'
BY Zenon DEF Next, Gone, vars, MainStep, StartServer, LaunchProbes, Notify, CancelPipeline, PipeWaited,
       ExporterClosed, Exit, Die, Signal, Request, HandlerStep, LockReload, LoadFails,
       UpdateConfig, Answer, LoadSucceeds, SchedulerCall, WorkerInternal, Offer, OfferTaken,
       OfferDropped, OfferPanics, PipelineStep, procVars

-----------------------------------------------------------------------------
(* The config in force *)

\* The map holds exactly the probes of k that are in S, started from k.
Holds(k, S) ==
  \A p \in Probe : IF p \in S THEN workers[p] # NoWorker /\ wcfg[workers[p]] = k
                   ELSE workers[p] = NoWorker

Quiet == \A h \in Handler : hpc[h] # "reloading"

\* A Start in progress has started what it no longer has to do.
ProgressInv ==
  \A c \in Caller : call[c] = "starting" =>
    todo[c] \subseteq ProbesOf[arg[c]] /\ Holds(arg[c], ProbesOf[arg[c]] \ todo[c])

\* A request's Reload goes on to Start; once it has returned, and until its
\* configuration is published, the workers are ahead of GET /config.
PublishInv ==
  /\ \A h \in Handler : call[h] # "idle" => restart[h]
  /\ \A h \in Handler : Steady /\ hpc[h] = "reloading" /\ call[h] = "idle" =>
       Holds(arg[h], ProbesOf[arg[h]])
  /\ Steady /\ Quiet => Holds(served, ProbesOf[served])

\* Up to the end of main's Start the startup configuration is the one served
\* and started.
StartupInv ==
  main \in {"boot", "goRun"} \/ (main = "starting" /\ call[Main] # "idle") =>
    /\ served = Config0 /\ Quiet
    /\ main = "starting" => arg[Main] = Config0

ActiveInv == DaemonInv /\ (~overlap => ProgressInv /\ PublishInv /\ StartupInv)

\* Who is inside the scheduler: main, which is then not steady, or the one
\* request whose Reload it is.
LEMMA OneInside ==
  ASSUME DaemonInv, Alive, ~overlap, NEW c \in Caller, call[c] # "idle"
  PROVE  /\ \A d \in Caller \ {c} : call[d] = "idle"
         /\ c = Main => ~Steady
         /\ c \in Handler => /\ hpc[c] = "reloading" /\ Steady
                             /\ \A h \in Handler : hpc[h] = "reloading" => h = c
BY Callers, Zenon DEF DaemonInv, OrderlyInv, ExclusiveInv, MainInv, RequestInv, Steady, Alive

\* Steps that leave the calls and the map alone.
LEMMA ActiveQuiet ==
  ASSUME ActiveInv, ~overlap, UNCHANGED <<workers, wcfg, call, restart, arg, todo>>,
         UNCHANGED <<main, hpc, served>>
  PROVE  ProgressInv' /\ PublishInv' /\ StartupInv'
BY SMTT(30) DEF ActiveInv, ProgressInv, PublishInv, StartupInv, Holds, Quiet, Steady

\* main's steps outside the scheduler.
LEMMA ActiveMain ==
  ASSUME ActiveInv, ~overlap, StartServer \/ Die \/ Notify \/ CancelPipeline
                              \/ PipeWaited \/ ExporterClosed \/ Exit
  PROVE  ProgressInv' /\ PublishInv' /\ StartupInv'
<1>1. UNCHANGED <<workers, wcfg, call, restart, arg, todo, hpc, served>>
  BY Zenon DEF StartServer, Die, Notify, CancelPipeline, PipeWaited, ExporterClosed, Exit,
         schedVars, workerVars, callVars, serverVars
<1>2. Steady' => Steady
  BY <1>1, Zenon DEF StartServer, Die, Notify, CancelPipeline, PipeWaited, ExporterClosed, Exit, Steady
<1>3. /\ main' \in {"boot", "goRun"} => main \in {"boot", "goRun"}
      /\ main' = "starting" => main = "starting"
  BY Zenon DEF StartServer, Die, Notify, CancelPipeline, PipeWaited, ExporterClosed, Exit
<1> QED
  BY <1>1, <1>2, <1>3, SMTT(30) DEF ActiveInv, ProgressInv, PublishInv, StartupInv, Holds, Quiet

\* main calls Start or Stop.
LEMMA ActiveCalls ==
  ASSUME ActiveInv, ~overlap, LaunchProbes \/ Signal
  PROVE  ProgressInv' /\ PublishInv' /\ StartupInv'
<1>1. /\ UNCHANGED <<workers, wcfg, todo, hpc, served>>
      /\ \A c \in Caller \ {Main} : call'[c] = call[c] /\ arg'[c] = arg[c] /\ restart'[c] = restart[c]
      /\ call'[Main] \in {"start", "stop"}
      /\ LaunchProbes => arg'[Main] = Config0
  BY Callers, Zenon DEF LaunchProbes, Signal, CallStart, CallStop, Enter, workerVars, serverVars,
                 ActiveInv, DaemonInv, SchedInv, SchedTypeOK
<1>2. ~Steady'
  BY <1>1, Zenon DEF LaunchProbes, Signal, Steady
<1>3. ProgressInv' /\ PublishInv'
  BY <1>1, <1>2, Callers, SMTT(30) DEF ActiveInv, ProgressInv, PublishInv, Holds
<1>4. StartupInv'
  BY <1>1, Zenon DEF ActiveInv, StartupInv, Quiet, LaunchProbes, Signal
<1> QED BY <1>3, <1>4, Zenon

\* A request's steps.
LEMMA ActiveRequest ==
  ASSUME ActiveInv, ~overlap', Alive, ~overlap, NEW h \in Handler, Request(h) \/ HandlerStep(h)
  PROVE  ProgressInv' /\ PublishInv' /\ StartupInv'
<1>0. hpc \in [Handler -> HandlerStates] /\ h \in Caller /\ h # Main
  BY Callers, Zenon DEF ActiveInv, DaemonInv, RequestInv
<1>1. CASE Request(h) \/ LockReload(h) \/ LoadFails(h) \/ Answer(h)
  <2>1. /\ UNCHANGED <<workers, wcfg, call, restart, arg, todo, main, served>>
        /\ \A g \in Handler : hpc'[g] = "reloading" <=> hpc[g] = "reloading"
    BY <1>0, <1>1, Zenon DEF Request, LockReload, LoadFails, Answer, schedVars, workerVars, callVars,
                      procVars
  <2> QED
    BY <2>1, SMTT(30) DEF ActiveInv, ProgressInv, PublishInv, StartupInv, Holds, Quiet, Steady
<1>2. CASE UpdateConfig(h)
  <2>1. /\ UNCHANGED <<workers, wcfg, call, restart, arg, todo, main>>
        /\ hpc[h] = "reloading" /\ call[h] = "idle"
        /\ served' = arg[h]
        /\ \A g \in Handler : hpc'[g] = "reloading" => hpc[g] = "reloading"
    BY <1>0, <1>2, Zenon DEF UpdateConfig, schedVars, workerVars, callVars, procVars
  <2>2. ProgressInv' /\ PublishInv'
    BY <2>1, SMTT(30) DEF ActiveInv, ProgressInv, PublishInv, Holds, Quiet, Steady
  <2>3. StartupInv'
    BY <2>1, Zenon DEF ActiveInv, StartupInv, Quiet
  <2> QED BY <2>2, <2>3, Zenon
<1>3. ASSUME NEW k \in Config, LoadSucceeds(h, k)
      PROVE  ProgressInv' /\ PublishInv' /\ StartupInv'
  <2>1. /\ UNCHANGED <<workers, wcfg, todo, main, served>>
        /\ hpc[h] = "loading" /\ hpc'[h] = "reloading"
        /\ call'[h] = "stop"
        /\ \A c \in Caller \ {h} : call'[c] = call[c] /\ arg'[c] = arg[c] /\ restart'[c] = restart[c]
        /\ \A g \in Handler \ {h} : hpc'[g] = hpc[g]
    BY <1>0, <1>3, Zenon DEF LoadSucceeds, CallReload, Enter, workerVars, ActiveInv, DaemonInv, SchedInv,
                      SchedTypeOK
  <2>6. Steady
    BY <1>3, Zenon DEF LoadSucceeds
  <2>7. restart'[h] = TRUE
    BY <1>0, <1>3, Zenon DEF LoadSucceeds, CallReload, Enter, ActiveInv, DaemonInv, SchedInv, SchedTypeOK
  <2>2. \A g \in Handler \ {h} : hpc[g] # "reloading"
    BY <2>1, Zenon DEF ActiveInv, DaemonInv, RequestInv
  <2>3. \A c \in Caller \ {h} : call[c] # "starting"
    BY <2>1, <2>2, <2>6, Callers, Zenon DEF ActiveInv, DaemonInv, RequestInv, MainInv, Steady
  <2>4. ProgressInv'
    BY <1>0, <2>1, <2>3, <2>7, Callers, Zenon DEF ActiveInv, ProgressInv
  <2>8. PublishInv'
    BY <1>0, <2>1, <2>2, <2>7, Callers, ZenonT(30) DEF ActiveInv, PublishInv, Quiet
  <2>5. StartupInv'
    BY <1>0, <2>1, <2>6, Callers, Zenon DEF StartupInv, Steady
  <2> QED BY <2>4, <2>5, <2>8, Zenon
<1> QED BY <1>1, <1>2, <1>3, Zenon DEF HandlerStep

\* Steps inside Start, Stop and Reload.
LEMMA ActiveCallStep ==
  ASSUME ActiveInv, Alive, ~overlap, NEW c \in Caller, SchedulerCall(c)
  PROVE  ProgressInv' /\ PublishInv' /\ StartupInv'
<1>1. SchedTypeOK /\ DaemonInv /\ ProgressInv /\ PublishInv /\ StartupInv
  BY Zenon DEF ActiveInv, DaemonInv, SchedInv
<1>2. /\ CallStep(c) /\ call[c] # "idle"
      /\ UNCHANGED <<main, hpc, served, restart, arg>>
      /\ \A d \in Caller \ {c} : call'[d] = call[d]
  <2>1. CallStep(c) /\ UNCHANGED <<main, hpc, served>>
    BY Zenon DEF SchedulerCall, serverVars, procVars
  <2>2. CASE LockStart(c) \/ UnlockStart(c)
    BY <1>1, <2>1, <2>2, Zenon DEF LockStart, UnlockStart, SchedTypeOK
  <2>3. CASE Collect(c) \/ StopReturn(c)
    BY <1>1, <2>1, <2>3, Zenon DEF Collect, StopReturn, SchedTypeOK
  <2>4. ASSUME NEW p \in Probe, StartOne(c, p) \/ StartFails(c, p)
        PROVE  call[c] # "idle" /\ UNCHANGED <<restart, arg, call>>
    BY <2>4, Zenon DEF StartOne, StartFails
  <2>5. ASSUME NEW w \in Worker, CancelOne(c, w)
        PROVE  call[c] # "idle" /\ UNCHANGED <<restart, arg, call>>
    BY <2>5, Zenon DEF CancelOne
  <2> QED BY <2>1, <2>2, <2>3, <2>4, <2>5, Zenon DEF CallStep
<1>3. /\ \A d \in Caller \ {c} : call[d] = "idle" /\ call'[d] = "idle"
      /\ c = Main => ~Steady
      /\ c \in Handler => /\ hpc[c] = "reloading" /\ Steady
                          /\ \A h \in Handler : hpc[h] = "reloading" => h = c
  BY <1>1, <1>2, OneInside, Zenon
<1>4. \A h \in Handler : call'[h] # "idle" => restart'[h]
  BY <1>1, <1>2, <1>3, Callers, Zenon DEF PublishInv
<1>5. ASSUME call'[c] # "idle", ProgressInv' PROVE PublishInv' /\ StartupInv'
  <2>1. c \in Handler => ~Quiet'
    BY <1>2, <1>3, Zenon DEF Quiet
  <2>2. c = Main => ~Steady'
    BY <1>2, <1>3, <1>5, Zenon DEF Steady
  <2>3. PublishInv'
    BY <1>2, <1>3, <1>4, <1>5, <2>1, <2>2, Callers, Zenon DEF PublishInv
  <2>4. StartupInv'
    BY <1>1, <1>2, <1>3, <1>5, Callers, Zenon DEF StartupInv, Quiet, Steady
  <2> QED BY <2>3, <2>4, Zenon
<1>6. CASE LockStart(c)
  <2>1. /\ call[c] = "start" /\ call'[c] = "starting" /\ workers' = workers
        /\ todo'[c] = ProbesOf[arg[c]]
    BY <1>1, <1>6, Zenon DEF LockStart, SchedTypeOK
  <2>2. NoEntries
    BY <1>1, <2>1, Zenon DEF DaemonInv, OrderlyInv, EntriesInv
  <2>3. ProgressInv'
    BY <1>2, <1>3, <2>1, <2>2, Zenon DEF ProgressInv, Holds, NoEntries
  <2> QED BY <1>5, <2>1, <2>3, Zenon
<1>7. CASE UnlockStart(c)
  <2>1. /\ call[c] = "starting" /\ todo[c] = {} /\ call'[c] = "idle"
        /\ UNCHANGED <<workers, wcfg, todo>>
    BY <1>1, <1>7, Zenon DEF UnlockStart, SchedTypeOK, workerVars
  <2>2. Holds(arg[c], ProbesOf[arg[c]])
    BY <1>1, <2>1, Zenon DEF ProgressInv, Holds
  <2>3. Holds(arg[c], ProbesOf[arg[c]])'
    BY <1>2, <2>1, <2>2, Zenon DEF Holds
  <2>4. ProgressInv'
    BY <1>3, <2>1, Zenon DEF ProgressInv
  <2>5. CASE c = Main
    <3>1. main = "starting"
      BY <1>1, <2>1, <2>5, Zenon DEF DaemonInv, MainInv, Alive
    <3>2. arg[c] = served /\ Quiet
      BY <1>1, <2>1, <2>5, <3>1, Zenon DEF StartupInv
    <3>3. PublishInv'
      BY <1>2, <1>4, <2>3, <3>2, Zenon DEF PublishInv, Quiet
    <3>4. StartupInv'
      BY <1>2, <2>1, <2>5, <3>1, Zenon DEF StartupInv
    <3> QED BY <2>4, <3>3, <3>4, Zenon
  <2>6. CASE c \in Handler
    <3>1. PublishInv'
      BY <1>2, <1>3, <1>4, <2>3, <2>6, Zenon DEF PublishInv, Quiet
    <3>2. StartupInv'
      BY <1>1, <1>2, <1>3, <2>6, Callers, Zenon DEF StartupInv, Quiet, Steady
    <3> QED BY <2>4, <3>1, <3>2, Zenon
  <2> QED BY <2>5, <2>6, Callers, Zenon
<1>8. CASE Collect(c)
  <2>1. call'[c] = "cancelling"
    BY <1>1, <1>8, Zenon DEF Collect, SchedTypeOK
  <2>2. ProgressInv'
    BY <1>3, <2>1, Zenon DEF ProgressInv
  <2> QED BY <1>5, <2>1, <2>2, Zenon
<1>9. CASE StopReturn(c)
  <2>1. call[c] = "cancelling" /\ call'[c] = IF restart[c] THEN "start" ELSE "idle"
    BY <1>1, <1>9, Zenon DEF StopReturn, SchedTypeOK
  <2>2. ProgressInv'
    BY <1>3, <2>1, Zenon DEF ProgressInv
  <2>3. CASE c = Main
    <3>1. main = "stopping"
      BY <1>1, <2>1, <2>3, Zenon DEF DaemonInv, MainInv, Alive
    <3> QED BY <1>2, <1>3, <1>4, <2>2, <3>1, Zenon DEF PublishInv, StartupInv, Steady
  <2>4. CASE c \in Handler
    <3>1. call'[c] # "idle"
      BY <1>1, <2>1, <2>4, Zenon DEF PublishInv
    <3> QED BY <1>5, <2>2, <3>1, Zenon
  <2> QED BY <2>3, <2>4, Callers, Zenon
<1>10. ASSUME NEW p \in Probe, StartOne(c, p)
       PROVE  ProgressInv' /\ PublishInv' /\ StartupInv'
  <2> DEFINE u == CHOOSE x \in Worker : wst[x] = "unborn"
  <2>1. /\ u \in Worker /\ wst[u] = "unborn"
        /\ workers' = [workers EXCEPT ![p] = u] /\ wcfg' = [wcfg EXCEPT ![u] = arg[c]]
        /\ todo' = [todo EXCEPT ![c] = @ \ {p}] /\ p \in todo[c]
        /\ call[c] = "starting" /\ call' = call
    BY <1>10, Zenon DEF StartOne
  <2> HIDE DEF u
  <2>2. \A q \in Probe : workers[q] # NoWorker => workers[q] # u /\ workers[q] \in Worker
    BY <1>1, <2>1, Zenon DEF DaemonInv, SchedInv, MapHoldsRunningWorkers, Live, SchedTypeOK
  <2>3. p \in ProbesOf[arg[c]] /\ u # NoWorker
    BY <1>1, <2>1, SchedulerAssumption, Zenon DEF ProgressInv, Holds, SchedulerAssumption
  <2>4. Holds(arg[c], ProbesOf[arg[c]] \ todo[c])
    BY <1>1, <2>1, Zenon DEF ProgressInv
  <2>5. Holds(arg[c], ProbesOf[arg[c]] \ todo[c])'
    BY <1>1, <1>2, <2>1, <2>2, <2>3, <2>4, Zenon DEF Holds, SchedTypeOK
  <2>6. ProgressInv'
    <3>1. todo'[c] \subseteq ProbesOf[arg'[c]]
      BY <1>1, <1>2, <2>1, Zenon DEF ProgressInv, SchedTypeOK, Holds
    <3> QED BY <1>3, <2>5, <3>1, Zenon DEF ProgressInv
  <2> QED BY <1>2, <1>5, <2>1, <2>6, Zenon
<1>11. ASSUME NEW p \in Probe, StartFails(c, p) PROVE FALSE
  BY <1>11, DaemonAssumption, Zenon DEF DaemonAssumption, StartFails
<1>12. ASSUME NEW w \in Worker, CancelOne(c, w)
       PROVE  ProgressInv' /\ PublishInv' /\ StartupInv'
  BY <1>1, <1>2, <1>12, ActiveQuiet, Zenon DEF CancelOne, workerVars
<1> QED BY <1>2, <1>6, <1>7, <1>8, <1>9, <1>10, <1>11, <1>12, Zenon DEF CallStep

\* Every step of the daemon keeps the invariant about the config in force.
LEMMA ActiveNextInv == ActiveInv /\ [Next]_vars => ActiveInv'
<1> SUFFICES ASSUME ActiveInv, [Next]_vars, ~overlap'
             PROVE  ProgressInv' /\ PublishInv' /\ StartupInv'
  BY DaemonNextInv, Zenon DEF ActiveInv
<1>1. ~overlap
  BY OverlapStays, Zenon
<1>2. CASE UNCHANGED vars
  BY <1>1, <1>2, ActiveQuiet, Zenon DEF vars, schedVars, workerVars, callVars, serverVars, procVars
<1>3. CASE MainStep \/ Die \/ Signal
  BY <1>1, <1>3, ActiveMain, ActiveCalls, Zenon DEF MainStep
<1>4. ASSUME Alive, NEW h \in Handler, Request(h) \/ HandlerStep(h)
      PROVE  ProgressInv' /\ PublishInv' /\ StartupInv'
  BY <1>1, <1>4, ActiveRequest, Zenon
<1>5. ASSUME NEW w \in Worker, WorkerInternal(w) \/ Offer(w)
      PROVE  ProgressInv' /\ PublishInv' /\ StartupInv'
  BY <1>1, <1>5, ActiveQuiet, Zenon
     DEF WorkerInternal, Tick, RunReturns, ExitWorker, Offer, OfferTaken, OfferDropped,
         OfferPanics, SendOne, restVars, callVars, schedVars, workerVars, serverVars, procVars
<1>6. CASE PipelineStep
  BY <1>1, <1>6, ActiveQuiet, Zenon DEF PipelineStep, schedVars, workerVars, callVars, serverVars, procVars
<1>7. ASSUME Alive, NEW c \in Caller, SchedulerCall(c)
      PROVE  ProgressInv' /\ PublishInv' /\ StartupInv'
  BY <1>1, <1>7, ActiveCallStep, Zenon
<1> QED BY <1>2, <1>3, <1>4, <1>5, <1>6, <1>7, Zenon DEF Next, Gone

\* In an orderly history GET /config shows what runs: whenever no reload is in
\* progress the workers are those of the served configuration.
THEOREM ServedIsActive == Spec => []ConfigIsActive
<1>1. Init => ActiveInv
  <2>1. Init => ProgressInv /\ PublishInv /\ StartupInv
    BY Callers, Zenon DEF Init, SchedInit, ProgressInv, PublishInv, StartupInv, Quiet, Steady
  <2> QED BY <2>1, DaemonInitInv, Zenon DEF ActiveInv
<1>2. ActiveInv => ConfigIsActive
  BY Zenon DEF ActiveInv, PublishInv, Quiet, Holds, ConfigIsActive
<1> QED BY <1>1, <1>2, ActiveNextInv, PTL DEF Spec
=============================================================================
