----------------------- MODULE DaemonDeliveryProofs -----------------------
(***************************************************************************)
(* What becomes of the results in the whole process.  A reload keeps the   *)
(* generations of a probe's results apart and the results reach every      *)
(* exporter, as long as no reload overlaps main's startup or shutdown; in  *)
(* every history each one is taken by the channel, counted as dropped or   *)
(* still to be sent.                                                       *)
(***************************************************************************)
EXTENDS DaemonProofs, DataLemmas

-----------------------------------------------------------------------------
(* The generations of a probe *)

Numbered == [worker : Worker, num : Int]

\* What the channel took was sent by goroutines that exist.
AcceptedInv ==
  /\ accepted \in Seq(Numbered)
  /\ \A i \in 1..Len(accepted) : wst[accepted[i].worker] # "unborn"

OrderInv == DaemonInv /\ AcceptedInv /\ GenerationsInOrder

\* A goroutine keeps its probe, stays born and stays gone.
LEMMA WorkersMoveOn ==
  ASSUME DaemonInv, [Next]_vars, NEW v \in Worker
  PROVE  /\ wst[v] # "unborn" => wst'[v] # "unborn" /\ wprobe'[v] = wprobe[v]
         /\ wst[v] = "exited" => wst'[v] = "exited"
<1>1. SchedTypeOK
  BY Zenon DEF DaemonInv, SchedInv
<1>2. ASSUME NEW w \in Worker, WorkerInternal(w) \/ Offer(w)
      PROVE  /\ wst[v] # "unborn" => wst'[v] # "unborn" /\ wprobe'[v] = wprobe[v]
             /\ wst[v] = "exited" => wst'[v] = "exited"
  BY <1>1, <1>2, Zenon DEF WorkerInternal, Tick, RunReturns, ExitWorker, Offer, OfferTaken, OfferDropped,
                    OfferPanics, SendOne, restVars, schedVars, workerVars, SchedTypeOK
<1>3. ASSUME NEW c \in Caller, SchedulerCall(c)
      PROVE  /\ wst[v] # "unborn" => wst'[v] # "unborn" /\ wprobe'[v] = wprobe[v]
             /\ wst[v] = "exited" => wst'[v] = "exited"
  <2>1. ASSUME NEW p \in Probe, StartOne(c, p)
        PROVE  wst[v] # "unborn" => wst'[v] = wst[v] /\ wprobe'[v] = wprobe[v]
    <3> DEFINE u == CHOOSE x \in Worker : wst[x] = "unborn"
    <3>1. /\ u \in Worker /\ wst[u] = "unborn"
          /\ wst' = [wst EXCEPT ![u] = "select"] /\ wprobe' = [wprobe EXCEPT ![u] = p]
      BY <2>1, Zenon DEF StartOne
    <3> HIDE DEF u
    <3> QED BY <1>1, <3>1, Zenon DEF SchedTypeOK
  <2>2. CASE \/ LockStart(c) \/ UnlockStart(c) \/ Collect(c) \/ StopReturn(c)
             \/ \E p \in Probe : StartFails(c, p)
             \/ \E w \in Worker : CancelOne(c, w)
    BY <2>2, Zenon DEF LockStart, UnlockStart, Collect, StopReturn, StartFails, CancelOne, workerVars
  <2> QED BY <1>3, <2>1, <2>2, Zenon DEF SchedulerCall, CallStep
<1>4. CASE \/ MainStep \/ Die \/ Signal \/ PipelineStep \/ Gone \/ UNCHANGED vars
           \/ \E h \in Handler : Request(h) \/ HandlerStep(h)
  <2>1. UNCHANGED <<wst, wprobe>>
    BY <1>4, Zenon DEF MainStep, StartServer, LaunchProbes, Notify, CancelPipeline, PipeWaited,
                ExporterClosed, Exit, Die, Signal, Request, HandlerStep, LockReload, LoadFails,
                UpdateConfig, Answer, LoadSucceeds, PipelineStep, Gone, CallStart, CallStop,
                CallReload, Enter, vars, schedVars, workerVars
  <2> QED BY <2>1, Zenon
<1> QED BY <1>2, <1>3, <1>4, Zenon DEF Next

\* Only a worker that is sending adds to the channel.
LEMMA AcceptedGrows ==
  ASSUME DaemonInv, AcceptedInv, [Next]_vars
  PROVE  \/ accepted' = accepted
         \/ \E w \in Worker : /\ wst[w] = "sending"
                              /\ accepted' = Append(accepted, NextResult(w))
                              /\ overlap' = overlap
<1>1. ASSUME NEW w \in Worker, OfferTaken(w)
      PROVE  /\ wst[w] = "sending" /\ overlap' = overlap
             /\ accepted' = Append(accepted, NextResult(w))
  BY <1>1, Zenon DEF OfferTaken, SendOne, ChanSend, procVars
<1>2. CASE ~ \E w \in Worker : OfferTaken(w)
  BY <1>2, Zenon DEF Next, Gone, vars, MainStep, StartServer, LaunchProbes, Notify, CancelPipeline,
         PipeWaited, ExporterClosed, Exit, Die, Signal, Request, HandlerStep, LockReload,
         LoadFails, UpdateConfig, Answer, LoadSucceeds, SchedulerCall, WorkerInternal, Offer,
         OfferDropped, OfferPanics, PipelineStep, RunStep, Receive, SeeDone, DrainReceive,
         DrainEmpty, CloseResults, TakeResult, Export, GoRun, CancelCtx, pipeVars, chanVars
<1> QED BY <1>1, <1>2, Zenon

\* A result that joins the channel comes from the probe's only live worker, so
\* the others with results before it have exited, and stay so.
LEMMA OrderNextInv == OrderInv /\ [Next]_vars => OrderInv'
<1> SUFFICES ASSUME OrderInv, [Next]_vars PROVE OrderInv'
  OBVIOUS
<1>1. DaemonInv /\ AcceptedInv /\ GenerationsInOrder /\ DaemonInv' /\ OneWorkerPerProbe
  BY DaemonNextInv, InvOneWorker, Zenon DEF OrderInv
<1>2. \A i \in 1..Len(accepted) : accepted[i].worker \in Worker
  <2>1. \A i \in 1..Len(accepted) : accepted[i] \in Numbered
    BY <1>1 DEF AcceptedInv
  <2> QED BY <2>1, Zenon DEF Numbered
<1>3. \A i \in 1..Len(accepted) :
        LET v == accepted[i].worker
        IN  /\ wst'[v] # "unborn" /\ wprobe'[v] = wprobe[v]
            /\ wst[v] = "exited" => wst'[v] = "exited"
  BY <1>1, <1>2, WorkersMoveOn, Zenon DEF AcceptedInv
<1>4. CASE accepted' = accepted
  <2>1. AcceptedInv'
    BY <1>1, <1>3, <1>4, Zenon DEF AcceptedInv
  <2>2. ~overlap' => ~overlap
    BY OverlapStays, Zenon
  <2>3. GenerationsInOrder'
    BY <1>1, <1>3, <1>4, <2>2 DEF GenerationsInOrder
  <2> QED BY <1>1, <2>1, <2>3, Zenon DEF OrderInv
<1>5. ASSUME NEW w \in Worker, wst[w] = "sending", overlap' = overlap,
             accepted' = Append(accepted, NextResult(w))
      PROVE  OrderInv'
  <2> DEFINE n == Len(accepted)
  <2>1. NextResult(w) \in Numbered /\ NextResult(w).worker = w
    <3>1. made[w] \in Int /\ pending[w] \in Int
      BY <1>1, SchedulerAssumption DEF DaemonInv, SchedInv, SchedTypeOK
    <3> QED BY <3>1 DEF NextResult, Numbered
  <2>2. /\ accepted' \in Seq(Numbered)
        /\ n \in Nat /\ Len(accepted') = n + 1
        /\ \A i \in 1..n : accepted'[i] = accepted[i]
        /\ accepted'[n + 1].worker = w
    BY <1>1, <1>5, <2>1 DEF AcceptedInv
  <2>3. wst'[w] # "unborn" /\ wprobe'[w] = wprobe[w]
    BY <1>1, <1>5, WorkersMoveOn, Zenon
  <2>4. AcceptedInv'
    BY <1>3, <2>2, <2>3 DEF AcceptedInv
  <2>5. ASSUME ~overlap', NEW i \in 1..n, accepted[i].worker # w,
               wprobe'[accepted[i].worker] = wprobe'[w]
        PROVE  wst'[accepted[i].worker] = "exited"
    <3> DEFINE v == accepted[i].worker
    <3>1. v \in Worker /\ wst[v] # "unborn" /\ wprobe[v] = wprobe[w]
      BY <1>1, <1>2, <1>3, <2>3, <2>5, Zenon DEF AcceptedInv
    <3>2. ~Live(v)
      BY <1>1, <1>5, <2>5, <3>1, Zenon DEF OneWorkerPerProbe, LiveWorkers, Live
    <3> QED BY <1>3, <3>1, <3>2, Zenon DEF Live
  <2>6. ASSUME ~overlap', NEW i \in 1..n, NEW j \in 1..n, i < j,
               accepted[i].worker # accepted[j].worker,
               wprobe'[accepted[i].worker] = wprobe'[accepted[j].worker]
        PROVE  wst'[accepted[i].worker] = "exited"
    BY <1>1, <1>3, <1>5, <2>6, Zenon DEF GenerationsInOrder
  <2>7. GenerationsInOrder'
    <3> SUFFICES ASSUME ~overlap', NEW i \in 1..(n + 1), NEW j \in 1..(n + 1), i < j,
                        accepted'[i].worker # accepted'[j].worker,
                        wprobe'[accepted'[i].worker] = wprobe'[accepted'[j].worker]
                 PROVE  wst'[accepted'[i].worker] = "exited"
      BY <2>2, Zenon DEF GenerationsInOrder
    <3>1. i \in 1..n
      BY <2>2
    <3>2. CASE j = n + 1
      BY <2>2, <2>5, <3>1, <3>2, Zenon
    <3>3. CASE j # n + 1
      <4>1. j \in 1..n /\ accepted'[i] = accepted[i] /\ accepted'[j] = accepted[j]
        BY <2>2, <3>1, <3>3, SMTT(30)
      <4> QED BY <2>6, <3>1, <4>1, Zenon
    <3> QED BY <3>2, <3>3, Zenon
  <2> QED BY <1>1, <2>4, <2>7, Zenon DEF OrderInv
<1> QED BY <1>1, <1>4, <1>5, AcceptedGrows, Zenon

\* The invariant about the order of the accepted results holds always.
THEOREM OrderInvariance == Spec => []OrderInv
<1>1. Init => AcceptedInv /\ GenerationsInOrder
  BY DEF Init, PipeInit, AcceptedInv, GenerationsInOrder
<1>2. Init => OrderInv
  BY <1>1, DaemonInitInv, Zenon DEF OrderInv
<1> QED BY <1>2, OrderNextInv, PTL DEF Spec

\* In an orderly history the results of a probe's successive workers never
\* interleave in the channel: a reload keeps generations apart.
THEOREM GenerationsApart == Spec => []GenerationsInOrder
<1>1. OrderInv => GenerationsInOrder
  BY Zenon DEF OrderInv
<1> QED BY <1>1, OrderInvariance, PTL

-----------------------------------------------------------------------------
(* The results *)

\* A worker has sent, or still has to send, what its runs returned, and no run
\* returns more than MaxTargets results.
MadeInv ==
  \A w \in Worker :
    /\ pending[w] <= made[w]
    /\ made[w] <= runs[w] * MaxTargets
    /\ wst[w] = "running" => runs[w] >= 1 /\ made[w] <= (runs[w] - 1) * MaxTargets
    /\ wst[w] # "sending" => pending[w] = 0

\* No worker has made a result at the start.
LEMMA MadeInitInv == Init => MadeInv
<1>1. MaxTargets \in Nat /\ 0 * MaxTargets = 0
  BY SchedulerAssumption
<1> QED BY <1>1 DEF Init, SchedInit, MadeInv

\* What a tick, the end of a run, a send and an exit do to a worker's counts.
LEMMA WorkerMakes ==
  ASSUME SchedTypeOK, MadeInv, NEW w \in Worker, WorkerStep(w), SendingInv
  PROVE  MadeInv'
<1>0. /\ made[w] \in Nat /\ pending[w] \in Nat /\ runs[w] \in Nat /\ MaxTargets \in Nat
      /\ pending[w] <= made[w] /\ made[w] <= runs[w] * MaxTargets
  BY SchedulerAssumption DEF SchedTypeOK, MadeInv
<1>1. CASE Tick(w)
  <2>1. runs'[w] = runs[w] + 1 /\ wst'[w] = "running" /\ pending[w] = 0
    BY <1>1, Zenon DEF Tick, SchedTypeOK, MadeInv
  <2>2. ((runs[w] + 1) - 1) * MaxTargets = runs[w] * MaxTargets
    BY <1>0, SMTT(30)
  <2>3. runs[w] * MaxTargets <= (runs[w] + 1) * MaxTargets
    BY <1>0, Times
  <2>4. /\ made[w] <= runs'[w] * MaxTargets
        /\ runs'[w] >= 1 /\ made[w] <= (runs'[w] - 1) * MaxTargets
    <3>1. runs[w] * MaxTargets \in Nat /\ (runs[w] + 1) * MaxTargets \in Nat
      BY <1>0, Times
    <3> QED BY <1>0, <2>1, <2>2, <2>3, <3>1
  <2>5. \A v \in Worker : v # w => runs'[v] = runs[v] /\ wst'[v] = wst[v]
    BY <1>1, Zenon DEF Tick, SchedTypeOK
  <2>6. UNCHANGED <<made, pending>>
    BY <1>1, Zenon DEF Tick
  <2> QED BY <1>0, <2>1, <2>4, <2>5, <2>6, Zenon DEF MadeInv
<1>2. ASSUME NEW n \in 0..MaxTargets, RunReturns(w, n) PROVE MadeInv'
  <2>1. /\ wst[w] = "running" /\ runs[w] >= 1 /\ made[w] <= (runs[w] - 1) * MaxTargets
        /\ made'[w] = made[w] + n /\ pending'[w] = n /\ n \in Nat /\ n <= MaxTargets
        /\ wst'[w] = IF n = 0 THEN "select" ELSE "sending"
    BY <1>0, <1>2 DEF RunReturns, SchedTypeOK, MadeInv
  <2>2. (runs[w] - 1) * MaxTargets + MaxTargets = runs[w] * MaxTargets
    <3>1. runs[w] - 1 \in Nat /\ (runs[w] - 1) + 1 = runs[w]
      BY <1>0, <2>1
    <3> QED BY <1>0, <3>1, Times
  <2>3. made'[w] <= runs[w] * MaxTargets /\ pending'[w] <= made'[w]
    <3>1. (runs[w] - 1) * MaxTargets \in Nat
      <4>1. runs[w] - 1 \in Nat
        BY <1>0, <2>1
      <4> QED BY <1>0, <4>1, Times
    <3> QED BY <1>0, <2>1, <2>2, <3>1
  <2>4. \A v \in Worker : v # w => made'[v] = made[v] /\ wst'[v] = wst[v] /\ pending'[v] = pending[v]
    BY <1>2, Zenon DEF RunReturns, SchedTypeOK
  <2>5. UNCHANGED runs
    BY <1>2, Zenon DEF RunReturns
  <2> QED BY <2>1, <2>3, <2>4, <2>5, ZenonT(30) DEF MadeInv
<1>3. ASSUME NEW taken \in BOOLEAN, SendOne(w, taken) PROVE MadeInv'
  <2>1. /\ wst[w] = "sending" /\ pending[w] # 0
        /\ pending'[w] = pending[w] - 1
        /\ wst'[w] = IF pending[w] = 1 THEN "select" ELSE "sending"
    BY <1>3, Zenon DEF SendOne, SchedTypeOK, SendingInv
  <2>2. \A v \in Worker : v # w => wst'[v] = wst[v] /\ pending'[v] = pending[v]
    BY <1>3, Zenon DEF SendOne, SchedTypeOK
  <2>3. UNCHANGED <<runs, made>>
    BY <1>3, Zenon DEF SendOne
  <2> QED BY <1>0, <2>1, <2>2, <2>3 DEF MadeInv
<1>4. CASE ExitWorker(w)
  BY <1>4, Zenon DEF ExitWorker, MadeInv, SchedTypeOK
<1> QED BY <1>1, <1>2, <1>3, <1>4, Zenon DEF WorkerStep

\* Nothing else touches what the workers made, and a fresh worker has made
\* nothing.
LEMMA MadeNextInv == DaemonInv /\ MadeInv /\ [Next]_vars => MadeInv'
<1> SUFFICES ASSUME DaemonInv, MadeInv, [Next]_vars PROVE MadeInv'
  OBVIOUS
<1>1. SchedTypeOK /\ SendingInv
  BY Zenon DEF DaemonInv, SchedInv
<1>2. ASSUME NEW w \in Worker, WorkerInternal(w) \/ OfferTaken(w) \/ OfferDropped(w) PROVE MadeInv'
  <2>1. WorkerStep(w)
    BY <1>2, Zenon DEF WorkerInternal, OfferTaken, OfferDropped, WorkerStep
  <2> QED BY <1>1, <2>1, WorkerMakes, Zenon
<1>3. ASSUME NEW c \in Caller, NEW p \in Probe, StartOne(c, p) PROVE MadeInv'
  <2> DEFINE u == CHOOSE x \in Worker : wst[x] = "unborn"
  <2>1. /\ u \in Worker /\ wst[u] = "unborn" /\ wst' = [wst EXCEPT ![u] = "select"]
        /\ UNCHANGED <<runs, made, pending>>
    BY <1>3, Zenon DEF StartOne
  <2> HIDE DEF u
  <2> QED BY <1>1, <2>1, Zenon DEF MadeInv, SchedTypeOK
<1>4. ASSUME UNCHANGED <<wst, runs, made, pending>> PROVE MadeInv'
  BY <1>4, Zenon DEF MadeInv
<1>5. CASE \/ MainStep \/ Die \/ Signal \/ PipelineStep \/ Gone \/ UNCHANGED vars
           \/ \E h \in Handler : Request(h) \/ HandlerStep(h)
  BY <1>4, <1>5, Zenon DEF MainStep, StartServer, LaunchProbes, Notify, CancelPipeline, PipeWaited,
              ExporterClosed, Exit, Die, Signal, Request, HandlerStep, LockReload, LoadFails,
              UpdateConfig, Answer, LoadSucceeds, PipelineStep, Gone, CallStart, CallStop,
              CallReload, Enter, vars, schedVars, workerVars
<1>6. ASSUME NEW c \in Caller, SchedulerCall(c), ~ \E p \in Probe : StartOne(c, p) PROVE MadeInv'
  BY <1>4, <1>6, Zenon DEF SchedulerCall, CallStep, LockStart, UnlockStart, Collect, StopReturn,
                    StartFails, CancelOne, workerVars
<1>7. ASSUME NEW w \in Worker, OfferPanics(w) PROVE MadeInv'
  BY <1>4, <1>7, Zenon DEF OfferPanics, schedVars, workerVars
<1> QED BY <1>2, <1>3, <1>5, <1>6, <1>7, Zenon DEF Next, Offer, SchedulerCall

\* So what a worker offers is one of the results the probes can produce.
LEMMA OfferedIsResult ==
  ASSUME DaemonInv, MadeInv, NEW w \in Worker, wst[w] = "sending"
  PROVE  NextResult(w) \in Result
<1>1. /\ made[w] \in Nat /\ pending[w] \in Nat /\ pending[w] # 0 /\ runs[w] \in Nat
      /\ runs[w] <= MaxRuns /\ MaxRuns \in Nat /\ MaxTargets \in Nat
      /\ pending[w] <= made[w] /\ made[w] <= runs[w] * MaxTargets
  BY SchedulerAssumption DEF DaemonInv, SchedInv, SchedTypeOK, SendingInv, MadeInv
<1>2. /\ runs[w] * MaxTargets \in Nat /\ MaxRuns * MaxTargets \in Nat
      /\ runs[w] * MaxTargets <= MaxRuns * MaxTargets
  BY <1>1, Times
<1>3. made[w] - pending[w] + 1 \in 1..(MaxRuns * MaxTargets)
  BY <1>1, <1>2
<1> QED BY <1>3, DaemonAssumption, Zenon DEF NextResult, DaemonAssumption

\* Every step of the process is a step of the pipeline or leaves it alone.
LEMMA StepsOnPipeline ==
  ASSUME DaemonInv, MadeInv, [Next]_vars
  PROVE  /\ [AnyStep]_pipeVars
         /\ (\E w \in Worker : OfferTaken(w)) \/ [GoRun \/ CancelCtx \/ RunStep]_pipeVars
<1>1. ASSUME NEW w \in Worker, OfferTaken(w) PROVE AnyStep
  <2>1. NextResult(w) \in Result
    BY <1>1, OfferedIsResult, Zenon DEF OfferTaken, SendOne
  <2> QED BY <1>1, <2>1, Zenon DEF OfferTaken, AnyStep
<1>2. ASSUME ~ \E w \in Worker : OfferTaken(w) PROVE [GoRun \/ CancelCtx \/ RunStep]_pipeVars
  BY <1>2, Zenon DEF Next, Gone, vars, MainStep, StartServer, LaunchProbes, Notify, CancelPipeline,
         PipeWaited, ExporterClosed, Exit, Die, Signal, Request, HandlerStep, LockReload,
         LoadFails, UpdateConfig, Answer, LoadSucceeds, SchedulerCall, WorkerInternal, Offer,
         OfferDropped, OfferPanics, PipelineStep
<1>3. [GoRun \/ CancelCtx \/ RunStep]_pipeVars => [AnyStep]_pipeVars
  BY Zenon DEF AnyStep
<1> QED BY <1>1, <1>2, <1>3, Zenon

\* main closes the exporters only when Run has returned.
WaitedInv == main \in {"closing", "shutdown", "exited"} => runPC = "returned"

\* In an orderly history the workers keep the pipeline's shutdown contract.
DeliveryInv == /\ DaemonInv /\ MadeInv /\ PipeInv /\ WaitedInv
               /\ ~overlap => DrainedInv

\* The invariant about delivery holds at the start.
LEMMA DeliveryInitInv == Init => DeliveryInv
<1> SUFFICES ASSUME Init PROVE DeliveryInv
  OBVIOUS
<1>1. PipeInv /\ DrainedInv
  BY PipeInitInv, Zenon DEF Init
<1>2. WaitedInv
  BY Zenon DEF Init, WaitedInv
<1> QED BY <1>1, <1>2, DaemonInitInv, MadeInitInv, Zenon DEF DeliveryInv

\* Every step of the daemon keeps it: without an overlap no result comes after
\* cancel(), so the drained pipeline stays drained.
LEMMA DeliveryNextInv == DeliveryInv /\ [Next]_vars => DeliveryInv'
<1> SUFFICES ASSUME DeliveryInv, [Next]_vars PROVE DeliveryInv'
  OBVIOUS
<1>1. DaemonInv' /\ MadeInv' /\ [AnyStep]_pipeVars
  BY DaemonNextInv, MadeNextInv, StepsOnPipeline, Zenon DEF DeliveryInv
<1>2. PipeInv'
  BY <1>1, AnyStepInv, Zenon DEF DeliveryInv
<1>3. WaitedInv'
  <2>1. runPC = "returned" => runPC' = "returned"
    BY <1>1, ZenonT(30) DEF AnyStep, GoRun, CancelCtx, RunStep, Receive, DrainReceive, TakeResult, SeeDone,
                DrainEmpty, CloseResults, Export, ChanSend, runVars, pipeVars
  <2>2. main' \in {"closing", "shutdown", "exited"} =>
          main \in {"closing", "shutdown", "exited"} \/ runPC = "returned"
    BY Zenon DEF Next, Gone, vars, MainStep, StartServer, LaunchProbes, Notify, CancelPipeline,
         PipeWaited, ExporterClosed, Exit, Die, Signal, Request, HandlerStep, LockReload,
         LoadFails, UpdateConfig, Answer, LoadSucceeds, SchedulerCall, WorkerInternal, Offer,
         OfferTaken, OfferDropped, OfferPanics, PipelineStep, procVars
  <2> QED BY <2>1, <2>2, Zenon DEF DeliveryInv, WaitedInv
<1>4. ASSUME ~overlap' PROVE DrainedInv'
  <2>1. ~overlap /\ DrainedInv
    BY <1>4, OverlapStays, Zenon DEF DeliveryInv
  <2>2. ASSUME NEW w \in Worker, OfferTaken(w) PROVE runPC' \notin {"closing", "returned"}
    <3>1. Live(w) /\ runPC' = runPC
      BY <2>2, Zenon DEF OfferTaken, SendOne, Live, ChanSend, runVars
    <3>2. ~Stopped
      BY <2>1, <3>1, StoppedNobodyLives, Zenon DEF DeliveryInv, LiveWorkers
    <3> QED BY <3>1, <3>2, Zenon DEF DeliveryInv, DaemonInv, MainInv, Stopped
  <2>3. ASSUME [GoRun \/ CancelCtx \/ RunStep]_pipeVars PROVE DrainedInv'
    BY <2>1, <2>3, Zenon
       DEF GoRun, CancelCtx, RunStep, Receive, DrainReceive, TakeResult, SeeDone,
           DrainEmpty, CloseResults, Export, AfterExport, chanVars, runVars, pipeVars, DrainedInv
  <2> QED BY <2>2, <2>3, StepsOnPipeline, Zenon DEF DrainedInv, DeliveryInv
<1> QED BY <1>1, <1>2, <1>3, <1>4, Zenon DEF DeliveryInv

\* The pipeline's invariant holds in the daemon, and its drain is complete unless
\* a reload overlapped startup or shutdown.
THEOREM DeliveryInvariance == Spec => []DeliveryInv
BY DeliveryInitInv, DeliveryNextInv, PTL DEF Spec

\* What main and the server add to the state of the scheduler and the pipeline.
ProcessTypeOK ==
  /\ main \in MainStates
  /\ hpc \in [Handler -> HandlerStates]
  /\ reloadMu \in Handler \cup {NoHandler}
  /\ served \in Config
  /\ reloadCount \in Nat
  /\ panicked \in BOOLEAN
  /\ overlap \in BOOLEAN

\* Every step keeps the types of what main and the server add.
LEMMA ProcessTypeNext ==
  ASSUME DaemonInv, ProcessTypeOK, [Next]_vars
  PROVE  ProcessTypeOK'
<1>1. arg \in [Caller -> Config] /\ Handler \subseteq Caller
  BY Callers, Zenon DEF DaemonInv, SchedInv, SchedTypeOK
<1>2. CASE MainStep \/ Die
  BY <1>2, Zenon DEF ProcessTypeOK, MainStates, MainStep, Die, StartServer, LaunchProbes, Notify,
              CancelPipeline, PipeWaited, ExporterClosed, Exit, serverVars
<1>3. CASE Signal
  <2>1. overlap' \in BOOLEAN
    BY <1>3, Zenon DEF Signal
  <2> QED BY <1>3, <2>1, Zenon DEF ProcessTypeOK, MainStates, Signal, serverVars
<1>4. ASSUME NEW h \in Handler, NEW k \in Config, LoadSucceeds(h, k) PROVE ProcessTypeOK'
  <2>1. overlap' \in BOOLEAN
    BY <1>4, Zenon DEF LoadSucceeds
  <2> QED BY <1>4, <2>1, Zenon DEF ProcessTypeOK, HandlerStates, LoadSucceeds
<1>5. ASSUME NEW h \in Handler,
             Request(h) \/ LockReload(h) \/ LoadFails(h) \/ UpdateConfig(h) \/ Answer(h)
      PROVE  ProcessTypeOK'
  BY <1>1, <1>5 DEF ProcessTypeOK, HandlerStates, Request, LockReload, LoadFails, UpdateConfig,
                    Answer, procVars
<1>6. ASSUME NEW w \in Worker, OfferPanics(w) PROVE ProcessTypeOK'
  BY <1>6, Zenon DEF ProcessTypeOK, OfferPanics, serverVars
<1>7. ASSUME UNCHANGED <<serverVars, procVars>> PROVE ProcessTypeOK'
  BY <1>7, Zenon DEF ProcessTypeOK, serverVars, procVars
<1> QED BY <1>2, <1>3, <1>4, <1>5, <1>6, <1>7, Zenon
        DEF Next, Gone, vars, HandlerStep, SchedulerCall, WorkerInternal, Offer, OfferTaken,
            OfferDropped, PipelineStep

\* Type correctness of the whole process; in particular a worker numbers its
\* results within what its runs can return.
THEOREM DaemonTypeCorrect == Spec => []TypeOK
<1>1. Init => ProcessTypeOK
  <2>1. Init => panicked \in BOOLEAN /\ overlap \in BOOLEAN
    BY Zenon DEF Init
  <2> QED BY <2>1, Callers DEF Init, ProcessTypeOK, MainStates, HandlerStates
<1>2. DeliveryInv /\ ProcessTypeOK /\ [Next]_vars => ProcessTypeOK'
  BY ProcessTypeNext, Zenon DEF DeliveryInv
<1>3. DeliveryInv /\ ProcessTypeOK => TypeOK
  BY Zenon DEF DeliveryInv, DaemonInv, SchedInv, PipeInv, ProcessTypeOK, TypeOK
<1> QED BY <1>1, <1>2, <1>3, DeliveryInvariance, PTL DEF Spec

\* After an orderly shutdown, when main closes the exporters, no run's result is
\* waiting to be sent and every exporter has been handed every result the channel
\* took (Stop, Run's drain, pipe.Wait).
THEOREM NothingLost == Spec => []NothingLostAtExit
<1>1. ASSUME DeliveryInv PROVE NothingLostAtExit
  <2> SUFFICES ASSUME main \in {"closing", "shutdown", "exited"}, ~overlap
               PROVE  /\ \A w \in Worker : pending[w] = 0
                      /\ \A e \in Exporter : Len(exported[e]) = Len(accepted)
    BY Zenon DEF NothingLostAtExit
  <2>1. LiveWorkers = {}
    BY <1>1, StoppedNobodyLives, Zenon DEF DeliveryInv, Stopped
  <2>2. \A w \in Worker : pending[w] = 0
    BY <1>1, <2>1, Zenon DEF DeliveryInv, MadeInv, LiveWorkers, Live
  <2>3. \A e \in Exporter : Len(exported[e]) = Len(accepted)
    BY <1>1, DrainedIsComplete, Zenon DEF DeliveryInv, WaitedInv, DrainComplete
  <2> QED BY <2>2, <2>3, Zenon
<1> QED BY <1>1, DeliveryInvariance, PTL

\* Also across overlapping reloads every exporter is handed the accepted results
\* exactly once and in order (dispatch under the daemon's senders).
THEOREM DaemonFanOut == Spec => []FanOutInOrder
<1>1. DeliveryInv => FanOutInOrder
  BY InvFanOut, Zenon DEF DeliveryInv
<1> QED BY <1>1, DeliveryInvariance, PTL

\* The process as a whole keeps the pipeline's promise to the exporters in every
\* orderly history: its workers, reloads and shutdown implement Delivery.
THEOREM DaemonImplementsDelivery == Spec /\ []~overlap => ImplementsDelivery
<1>1. Init => D!DInit
  BY InitDelivers, Zenon DEF Init
<1>2. DeliveryInv /\ ~overlap /\ [Next]_vars => [D!DNext]_(D!dvars)
  BY StepsOnPipeline, StepDelivers, Zenon DEF DeliveryInv
<1> QED BY <1>1, <1>2, DeliveryInvariance, PTL DEF Spec, ImplementsDelivery, D!DSpec

-----------------------------------------------------------------------------
(* Accounting *)

Born == {w \in Worker : wst[w] # "unborn"}
BornOf(p) == {w \in Worker : wst[w] # "unborn" /\ wprobe[w] = p}
TakenOf(p) == {i \in 1..Len(accepted) : accepted[i].worker \in BornOf(p)}
Balanced(p) == SumFunctionOnSet(Offered, BornOf(p)) = Cardinality(TakenOf(p)) + dropped[p]

AccountInv ==
  /\ IsFiniteSet(Born)
  /\ \A w \in Worker : wst[w] = "unborn" => made[w] = 0 /\ pending[w] = 0
  /\ \A p \in Probe : Balanced(p)

\* The sets and summands of one probe's account are well defined.
LEMMA AccountType ==
  ASSUME DaemonInv, AcceptedInv, AccountInv, NEW p \in Probe
  PROVE  /\ IsFiniteSet(BornOf(p)) /\ \A w \in BornOf(p) : Offered[w] \in Int
         /\ IsFiniteSet(TakenOf(p)) /\ Cardinality(TakenOf(p)) \in Nat
         /\ dropped[p] \in Nat
<1>1. IsFiniteSet(BornOf(p))
  <2>1. BornOf(p) \subseteq Born
    BY Zenon DEF BornOf, Born
  <2> QED BY <2>1, FS_Subset, Zenon DEF AccountInv
<1>2. \A w \in BornOf(p) : Offered[w] \in Int
  BY SchedulerAssumption DEF DaemonInv, SchedInv, SchedTypeOK, Offered, BornOf
<1>3. IsFiniteSet(TakenOf(p)) /\ Cardinality(TakenOf(p)) \in Nat
  <2>1. Len(accepted) \in Nat
    BY SMTT(30) DEF AcceptedInv
  <2>2. TakenOf(p) \subseteq 1..Len(accepted) /\ IsFiniteSet(1..Len(accepted))
    BY <2>1, FS_Interval DEF TakenOf
  <2> QED BY <2>2, FS_Subset, FS_CardinalityType, ZenonT(30)
<1>4. dropped[p] \in Nat
  BY Zenon DEF DaemonInv, SchedInv, SchedTypeOK
<1> QED BY <1>1, <1>2, <1>3, <1>4, Zenon

\* A step that changes neither who exists nor what was offered.
LEMMA AccountSame ==
  ASSUME AccountInv, Offered' = Offered,
         UNCHANGED <<accepted, dropped>>,
         \A w \in Worker : /\ wst[w] # "unborn" <=> wst'[w] # "unborn"
                           /\ wst[w] # "unborn" => wprobe'[w] = wprobe[w]
                           /\ wst[w] = "unborn" => made'[w] = made[w] /\ pending'[w] = pending[w]
  PROVE  AccountInv'
<1>1. Born' = Born
  BY Zenon DEF Born
<1>2. ASSUME NEW p \in Probe PROVE Balanced(p)'
  <2>1. BornOf(p)' = BornOf(p)
    BY Zenon DEF BornOf
  <2>2. TakenOf(p)' = TakenOf(p)
    BY <2>1, Zenon DEF TakenOf
  <2> QED BY <2>1, <2>2, Zenon DEF AccountInv, Balanced
<1> QED BY <1>1, <1>2, ZenonT(30) DEF AccountInv

\* A fresh worker joins its probe's account with nothing made.
LEMMA AccountBirth ==
  ASSUME DaemonInv, AcceptedInv, AccountInv, NEW u \in Worker, NEW q \in Probe,
         wst[u] = "unborn", wst' = [wst EXCEPT ![u] = "select"],
         wprobe' = [wprobe EXCEPT ![u] = q],
         UNCHANGED <<made, pending, dropped, accepted>>
  PROVE  AccountInv'
<1>1. wst \in [Worker -> WorkerStates] /\ wprobe \in [Worker -> Probe]
  BY Zenon DEF DaemonInv, SchedInv, SchedTypeOK
<1>2. Born' = Born \cup {u}
  BY <1>1, Zenon DEF Born
<1>3. IsFiniteSet(Born')
  BY <1>2, FS_AddElement, Zenon DEF AccountInv
<1>4. \A i \in 1..Len(accepted) : accepted[i].worker # u
  BY Zenon DEF AcceptedInv
<1>5. Offered' = Offered
  BY Zenon DEF Offered
<1>6. ASSUME NEW p \in Probe PROVE Balanced(p)'
  <2>1. TakenOf(p)' = TakenOf(p)
    BY <1>1, <1>4, Zenon DEF TakenOf, BornOf
  <2>2. CASE p # q
    <3>1. BornOf(p)' = BornOf(p)
      BY <1>1, <2>2, Zenon DEF BornOf
    <3> QED BY <1>5, <2>1, <3>1, Zenon DEF AccountInv, Balanced
  <2>3. CASE p = q
    <3>1. BornOf(p)' = BornOf(p) \cup {u} /\ u \notin BornOf(p)
      BY <1>1, <2>3, Zenon DEF BornOf
    <3>2. Offered[u] = 0
      BY DEF AccountInv, Offered
    <3>3. IsFiniteSet(BornOf(p)) /\ \A w \in BornOf(p) : Offered[w] \in Int
      BY AccountType, Zenon
    <3>4. SumFunctionOnSet(Offered, BornOf(p) \cup {u}) = SumFunctionOnSet(Offered, BornOf(p)) + 0
      BY <3>1, <3>2, <3>3, SumAdd, SMTT(30)
    <3>5. SumFunctionOnSet(Offered, BornOf(p)) \in Int
      BY <3>3, SumRemove, Zenon
    <3> QED BY <1>5, <2>1, <3>1, <3>4, <3>5, SMTT(30) DEF AccountInv, Balanced
  <2> QED BY <2>2, <2>3, Zenon
<1>7. \A w \in Worker : wst'[w] = "unborn" => wst[w] = "unborn"
  BY <1>1, Zenon
<1> QED BY <1>3, <1>6, <1>7, Zenon DEF AccountInv

\* One result of w leaves the sending loop: the channel takes it or it is
\* counted.
LEMMA AccountOffer ==
  ASSUME DaemonInv, AcceptedInv, AccountInv, NEW w \in Worker, NEW taken \in BOOLEAN,
         SendOne(w, taken),
         taken => accepted' = Append(accepted, NextResult(w)),
         ~taken => accepted' = accepted
  PROVE  AccountInv'
<1>0. SchedTypeOK
  BY ZenonT(30) DEF DaemonInv, SchedInv
<1>1. /\ wst[w] = "sending" /\ wprobe[w] \in Probe /\ made[w] \in Int /\ pending[w] \in Int
      /\ pending' = [pending EXCEPT ![w] = @ - 1] /\ made' = made /\ wprobe' = wprobe
      /\ dropped' = [dropped EXCEPT ![wprobe[w]] = @ + IF taken THEN 0 ELSE 1]
      /\ wst'[w] # "unborn" /\ \A v \in Worker \ {w} : wst'[v] = wst[v]
  BY <1>0, SchedulerAssumption DEF SendOne, restVars, SchedTypeOK
<1>2. /\ Offered'[w] = Offered[w] + 1 /\ Offered[w] \in Int
      /\ \A v \in Worker \ {w} : Offered'[v] = Offered[v]
  BY <1>0, <1>1 DEF Offered, SchedTypeOK
<1>3. Born' = Born /\ \A p \in Probe : BornOf(p)' = BornOf(p)
  BY <1>1, Zenon DEF Born, BornOf
<1>4. ASSUME NEW p \in Probe, p # wprobe[w] PROVE Balanced(p)'
  <2>1. w \notin BornOf(p) /\ BornOf(p) \subseteq Worker
    BY <1>4, Zenon DEF BornOf
  <2>2. SumFunctionOnSet(Offered', BornOf(p)) = SumFunctionOnSet(Offered, BornOf(p))
    <3>1. \A v \in BornOf(p) : Offered'[v] = Offered[v]
      BY <1>2, <2>1, Zenon
    <3> QED BY <3>1, AccountType, SumSame, ZenonT(30)
  <2>3. TakenOf(p)' = TakenOf(p)
    <3>1. CASE ~taken
      BY <1>3, <3>1, ZenonT(30) DEF TakenOf
    <3>2. CASE taken
      <4>1. /\ Len(accepted) \in Nat /\ Len(accepted') = Len(accepted) + 1
            /\ \A i \in 1..Len(accepted) : accepted'[i] = accepted[i]
            /\ accepted'[Len(accepted) + 1].worker = w
        BY <1>1, <3>2 DEF AcceptedInv, NextResult
      <4> QED BY <1>3, <2>1, <4>1 DEF TakenOf
    <3> QED BY <3>1, <3>2, Zenon
  <2>4. dropped'[p] = dropped[p]
    BY <1>0, <1>1, <1>4, Zenon DEF SchedTypeOK
  <2> QED BY <1>3, <2>2, <2>3, <2>4, Zenon DEF AccountInv, Balanced
<1>5. ASSUME NEW p \in Probe, p = wprobe[w] PROVE Balanced(p)'
  <2>1. w \in BornOf(p) /\ BornOf(p) \subseteq Worker
    BY <1>1, <1>5, Zenon DEF BornOf
  <2>2. /\ SumFunctionOnSet(Offered, BornOf(p)) \in Int
        /\ SumFunctionOnSet(Offered', BornOf(p)) = SumFunctionOnSet(Offered, BornOf(p)) + 1
    <3>1. /\ SumFunctionOnSet(Offered, BornOf(p)) \in Int
          /\ SumFunctionOnSet(Offered', BornOf(p)) =
               SumFunctionOnSet(Offered, BornOf(p)) + (Offered'[w] - Offered[w])
      <4>1. Offered'[w] \in Int /\ \A y \in BornOf(p) \ {w} : Offered'[y] = Offered[y]
        BY <1>2, <2>1, SMTT(30)
      <4> QED BY <2>1, <4>1, AccountType, SumChange
    <3> QED BY <1>2, <3>1
  <2>3. CASE ~taken
    <3>1. TakenOf(p)' = TakenOf(p)
      BY <1>3, <2>3, Zenon DEF TakenOf
    <3>2. dropped'[p] = dropped[p] + 1 /\ dropped[p] \in Nat /\ Cardinality(TakenOf(p)) \in Nat
      BY <1>0, <1>1, <1>5, <2>3, AccountType, Zenon DEF SchedTypeOK
    <3> QED BY <1>3, <2>2, <3>1, <3>2, SMTT(30) DEF AccountInv, Balanced
  <2>4. CASE taken
    <3>1. /\ Len(accepted) \in Nat /\ Len(accepted') = Len(accepted) + 1
          /\ \A i \in 1..Len(accepted) : accepted'[i] = accepted[i]
          /\ accepted'[Len(accepted) + 1].worker = w
      BY <1>1, <2>4 DEF AcceptedInv, NextResult
    <3>2. /\ TakenOf(p)' = TakenOf(p) \cup {Len(accepted) + 1}
          /\ Len(accepted) + 1 \notin TakenOf(p)
      BY <1>3, <2>1, <3>1 DEF TakenOf
    <3>3. Cardinality(TakenOf(p)') = Cardinality(TakenOf(p)) + 1
      BY <3>2, AccountType, FS_AddElement, Zenon
    <3>4. dropped'[p] = dropped[p] /\ dropped[p] \in Nat /\ Cardinality(TakenOf(p)) \in Nat
      BY <1>0, <1>1, <1>5, <2>4, AccountType DEF SchedTypeOK
    <3> QED BY <1>3, <2>2, <3>3, <3>4, SMTT(30) DEF AccountInv, Balanced
  <2> QED BY <2>3, <2>4, Zenon
<1> QED BY <1>1, <1>3, <1>4, <1>5 DEF AccountInv

\* Every step keeps the accounts of the probes balanced.
LEMMA AccountNextInv ==
  ASSUME DaemonInv, MadeInv, AcceptedInv, AccountInv, [Next]_vars
  PROVE  AccountInv'
<1>1. SchedTypeOK
  BY Zenon DEF DaemonInv, SchedInv
<1>2. ASSUME UNCHANGED <<wst, wprobe, made, pending, dropped, accepted>> PROVE AccountInv'
  BY <1>2, AccountSame, Zenon DEF Offered
<1>3. ASSUME NEW w \in Worker, WorkerInternal(w) PROVE AccountInv'
  <2>1. UNCHANGED <<wprobe, dropped, accepted>>
    BY <1>3, ZenonT(30) DEF WorkerInternal, Tick, RunReturns, ExitWorker, restVars, pipeVars
  <2>2. \A v \in Worker : /\ wst[v] # "unborn" <=> wst'[v] # "unborn"
                          /\ wst[v] = "unborn" => made'[v] = made[v] /\ pending'[v] = pending[v]
    BY <1>1, <1>3 DEF WorkerInternal, Tick, RunReturns, ExitWorker, SchedTypeOK
  <2>3. Offered' = Offered
    <3>1. ASSUME NEW n \in 0..MaxTargets, RunReturns(w, n) PROVE Offered' = Offered
      <4>1. pending[w] = 0 /\ made[w] \in Nat /\ n \in Nat
        BY <1>1, <3>1, SchedulerAssumption DEF RunReturns, MadeInv, SchedTypeOK
      <4>2. \A v \in Worker : made'[v] - pending'[v] = made[v] - pending[v]
        BY <1>1, <3>1, <4>1 DEF RunReturns, SchedTypeOK
      <4> QED BY <4>2, ZenonT(30) DEF Offered
    <3>2. CASE Tick(w) \/ ExitWorker(w)
      BY <3>2, Zenon DEF Tick, ExitWorker, Offered
    <3> QED BY <1>3, <3>1, <3>2, Zenon DEF WorkerInternal
  <2> QED BY <2>1, <2>2, <2>3, AccountSame, Zenon
<1>4. ASSUME NEW w \in Worker, Offer(w) PROVE AccountInv'
  <2>1. CASE OfferTaken(w)
    BY <2>1, AccountOffer, Zenon DEF OfferTaken, ChanSend
  <2>2. CASE OfferDropped(w)
    BY <2>2, AccountOffer, Zenon DEF OfferDropped, pipeVars
  <2>3. CASE OfferPanics(w)
    BY <1>2, <2>3, ZenonT(30) DEF OfferPanics, schedVars, workerVars, pipeVars
  <2> QED BY <1>4, <2>1, <2>2, <2>3, Zenon DEF Offer
<1>5. ASSUME NEW c \in Caller, SchedulerCall(c) PROVE AccountInv'
  <2>1. ASSUME NEW p \in Probe, StartOne(c, p) PROVE AccountInv'
    <3> DEFINE u == CHOOSE x \in Worker : wst[x] = "unborn"
    <3>1. /\ u \in Worker /\ wst[u] = "unborn"
          /\ wst' = [wst EXCEPT ![u] = "select"] /\ wprobe' = [wprobe EXCEPT ![u] = p]
          /\ UNCHANGED <<made, pending, dropped>>
      BY <2>1, Zenon DEF StartOne
    <3> HIDE DEF u
    <3> QED BY <1>5, <3>1, AccountBirth, Zenon DEF SchedulerCall, pipeVars
  <2>2. CASE \/ LockStart(c) \/ UnlockStart(c) \/ Collect(c) \/ StopReturn(c)
             \/ \E p \in Probe : StartFails(c, p)
             \/ \E w \in Worker : CancelOne(c, w)
    BY <1>2, <1>5, <2>2, Zenon DEF LockStart, UnlockStart, Collect, StopReturn, StartFails, CancelOne,
                            workerVars, SchedulerCall, pipeVars
  <2> QED BY <1>5, <2>1, <2>2, Zenon DEF SchedulerCall, CallStep
<1>6. CASE \/ MainStep \/ Die \/ Signal \/ PipelineStep \/ Gone \/ UNCHANGED vars
           \/ \E h \in Handler : Request(h) \/ HandlerStep(h)
  <2>1. UNCHANGED <<wst, wprobe, made, pending, dropped>>
    BY <1>6, Zenon DEF MainStep, StartServer, LaunchProbes, Notify, CancelPipeline, PipeWaited,
                ExporterClosed, Exit, Die, Signal, Request, HandlerStep, LockReload, LoadFails,
                UpdateConfig, Answer, LoadSucceeds, PipelineStep, Gone, CallStart, CallStop,
                CallReload, Enter, vars, schedVars, workerVars
  <2>2. UNCHANGED accepted
    BY <1>6, Zenon DEF MainStep, StartServer, LaunchProbes, Notify, CancelPipeline, PipeWaited,
         ExporterClosed, Exit, Die, Signal, Request, HandlerStep, LockReload,
         LoadFails, UpdateConfig, Answer, LoadSucceeds, PipelineStep, RunStep, Receive, SeeDone,
         DrainReceive, DrainEmpty, CloseResults, TakeResult, Export, GoRun, CancelCtx, Gone, vars,
         pipeVars, chanVars
  <2> QED BY <1>2, <2>1, <2>2, Zenon
<1> QED BY <1>3, <1>4, <1>5, <1>6, Zenon DEF Next

\* In every history, with or without overlaps, each result a run returned is
\* taken by the channel, counted under its probe's name or still to be sent (the
\* select in runWorker, onDroppedResult).
THEOREM NoResultUnaccounted == Spec => []ResultsAccountedFor
<1>1. Init => AccountInv
  <2> SUFFICES ASSUME Init PROVE AccountInv
    OBVIOUS
  <2>1. /\ wst = [w \in Worker |-> "unborn"] /\ made = [w \in Worker |-> 0]
        /\ pending = [w \in Worker |-> 0] /\ dropped = [p \in Probe |-> 0]
        /\ Len(accepted) = 0
    BY Zenon DEF Init, SchedInit, PipeInit
  <2>2. Born = {} /\ \A p \in Probe : BornOf(p) = {}
    BY <2>1, Zenon DEF Born, BornOf
  <2>3. \A p \in Probe : TakenOf(p) = {}
    BY <2>2, Zenon DEF TakenOf
  <2>4. ASSUME NEW p \in Probe PROVE Balanced(p)
    <3>1. SumFunctionOnSet(Offered, {}) = 0 /\ Cardinality({}) = 0
      BY SumEmpty, FS_EmptySet, Zenon
    <3>2. BornOf(p) = {} /\ TakenOf(p) = {} /\ dropped[p] = 0
      BY <2>1, <2>2, <2>3, Zenon
    <3> QED BY <3>1, <3>2 DEF Balanced
  <2> QED BY <2>1, <2>2, <2>4, FS_EmptySet, Zenon DEF AccountInv
<1>2. DeliveryInv /\ OrderInv /\ AccountInv /\ [Next]_vars => AccountInv'
  BY AccountNextInv, Zenon DEF DeliveryInv, OrderInv
<1>3. AccountInv => ResultsAccountedFor
  BY Zenon DEF AccountInv, Balanced, BornOf, TakenOf, ResultsAccountedFor
<1> QED BY <1>1, <1>2, <1>3, DeliveryInvariance, OrderInvariance, PTL DEF Spec
=============================================================================
