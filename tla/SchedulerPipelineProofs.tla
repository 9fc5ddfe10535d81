---------------------- MODULE SchedulerPipelineProofs ----------------------
(***************************************************************************)
(* What the two components of the process guarantee on their own: Start,   *)
(* Stop and Reload under any number of concurrent callers, probes and      *)
(* workers, and Run for every buffer size, number of exporters and number  *)
(* of results.                                                             *)
(***************************************************************************)
EXTENDS Scheduler, Pipeline, Integers, SequenceTheorems, TLAPS

-----------------------------------------------------------------------------
(* The scheduler: type correctness, and who answers for a worker goroutine *)

\* A worker in the sending loop has something to send.
SendingInv == \A w \in Worker : wst[w] = "sending" => pending[w] # 0

\* Stop's lists are filled only while it cancels and waits, and a worker to be
\* cancelled is one to be waited for.
ListsInv ==
  \A c \in Caller :
    /\ cancels[c] \subseteq dones[c]
    /\ call[c] # "cancelling" => dones[c] = {}

\* A worker identity is fresh until startLocked uses it.
FreshInv ==
  \A w \in Worker : wst[w] = "unborn" =>
    /\ w \notin cancelled
    /\ w \notin orphans
    /\ \A c \in Caller : w \notin dones[c]

SchedInv ==
  /\ SchedTypeOK
  /\ SendingInv
  /\ ListsInv
  /\ FreshInv
  /\ MapHoldsRunningWorkers
  /\ WorkersAccountedFor
  /\ CancelledAreAwaited

USE SchedulerAssumption

\* New establishes the invariant.
LEMMA SchedInitInv == SchedInit => SchedInv
<1> SUFFICES ASSUME SchedInit PROVE SchedInv
  OBVIOUS
<1>1. (CHOOSE p \in Probe : TRUE) \in Probe /\ (CHOOSE k \in Config : TRUE) \in Config
  OBVIOUS
<1>2. SchedTypeOK
  BY <1>1 DEF SchedInit, SchedTypeOK, WorkerStates, CallStates
<1>3. SendingInv /\ ListsInv /\ FreshInv
  BY Zenon DEF SchedInit, SendingInv, ListsInv, FreshInv
<1>4. MapHoldsRunningWorkers /\ WorkersAccountedFor /\ CancelledAreAwaited
  BY Zenon DEF SchedInit, MapHoldsRunningWorkers, WorkersAccountedFor, CancelledAreAwaited,
         LiveWorkers, Live
<1> QED BY <1>2, <1>3, <1>4, Zenon DEF SchedInv

\* Entering and leaving the scheduler, and a failing factory, touch no worker.
LEMMA CallBookkeeping ==
  ASSUME SchedInv, SchedTypeOK',
         UNCHANGED <<workers, cancelled, orphans, workerVars, cancels, dones>>,
         \A c \in Caller : call'[c] # "cancelling" => dones[c] = {}
  PROVE  SchedInv'
<1>1. SendingInv' /\ FreshInv' /\ ListsInv'
  BY Zenon DEF SchedInv, SendingInv, ListsInv, FreshInv, workerVars
<1>2. MapHoldsRunningWorkers'
  BY Zenon DEF SchedInv, MapHoldsRunningWorkers, workerVars, Live
<1>3. WorkersAccountedFor'
  BY Zenon DEF SchedInv, WorkersAccountedFor, LiveWorkers, Live, Registered, workerVars
<1>4. CancelledAreAwaited'
  BY Zenon DEF SchedInv, CancelledAreAwaited, Live, workerVars
<1> QED BY <1>1, <1>2, <1>3, <1>4, Zenon DEF SchedInv

\* startLocked: a fresh worker takes the entry; the one it overwrites is an
\* orphan.
LEMMA StartOneInv ==
  ASSUME SchedInv, NEW c \in Caller, NEW p \in Probe, StartOne(c, p)
  PROVE  SchedInv'
<1>1. PICK w \in Worker :
        /\ wst[w] = "unborn"
        /\ workers' = [workers EXCEPT ![p] = w]
        /\ wst' = [wst EXCEPT ![w] = "select"]
        /\ wprobe' = [wprobe EXCEPT ![w] = p]
        /\ wcfg' = [wcfg EXCEPT ![w] = arg[c]]
  <2> DEFINE v == CHOOSE u \in Worker : wst[u] = "unborn"
  <2>1. v \in Worker /\ wst[v] = "unborn"
    BY Zenon DEF StartOne
  <2>2. /\ workers' = [workers EXCEPT ![p] = v]
        /\ wst' = [wst EXCEPT ![v] = "select"]
        /\ wprobe' = [wprobe EXCEPT ![v] = p]
        /\ wcfg' = [wcfg EXCEPT ![v] = arg[c]]
    BY Zenon DEF StartOne
  <2> HIDE DEF v
  <2> QED BY <2>1, <2>2, Zenon
<1>2. /\ orphans' = orphans \cup ({workers[p]} \ {NoWorker})
      /\ todo' = [todo EXCEPT ![c] = @ \ {p}]
      /\ UNCHANGED <<mu, cancelled, runs, made, pending, dropped,
                     call, restart, arg, cancels, dones>>
  BY Zenon DEF StartOne
<1>3. SchedTypeOK'
  BY <1>1, <1>2, Zenon DEF SchedInv, SchedTypeOK, WorkerStates
<1>4. SendingInv' /\ ListsInv'
  BY <1>1, <1>2, Zenon DEF SchedInv, SchedTypeOK, SendingInv, ListsInv
<1>5. \A q \in Probe : workers[q] # w /\ (workers[q] = workers[p] /\ q # p => workers[q] = NoWorker)
  BY <1>1, Zenon DEF SchedInv, MapHoldsRunningWorkers, Live, SchedTypeOK
<1>6. FreshInv'
  <2> SUFFICES ASSUME NEW v \in Worker, wst'[v] = "unborn"
               PROVE  /\ v \notin cancelled'
                      /\ v \notin orphans'
                      /\ \A d \in Caller : v \notin dones'[d]
    BY Zenon DEF FreshInv
  <2>1. v # w /\ wst[v] = "unborn"
    BY <1>1, Zenon DEF SchedInv, SchedTypeOK
  <2>2. v # workers[p]
    BY <2>1, Zenon DEF SchedInv, MapHoldsRunningWorkers, Live
  <2> QED BY <1>2, <2>1, <2>2, Zenon DEF SchedInv, FreshInv
<1>7. MapHoldsRunningWorkers'
  <2> SUFFICES ASSUME NEW q \in Probe, workers'[q] # NoWorker
               PROVE  /\ wst'[workers'[q]] \notin {"unborn", "exited"}
                      /\ wprobe'[workers'[q]] = q
                      /\ workers'[q] \notin cancelled'
                      /\ \A d \in Caller : workers'[q] \notin dones'[d]
    BY Zenon DEF MapHoldsRunningWorkers, Live
  <2>1. CASE q = p
    <3>1. workers'[q] = w
      BY <1>1, <2>1, Zenon DEF SchedInv, SchedTypeOK
    <3> QED BY <1>1, <1>2, <2>1, <3>1, Zenon DEF SchedInv, SchedTypeOK, FreshInv, Live
  <2>2. CASE q # p
    <3>1. workers'[q] = workers[q] /\ workers[q] # w /\ workers[q] \in Worker
      BY <1>1, <1>5, <2>2, Zenon DEF SchedInv, SchedTypeOK
    <3> QED BY <1>1, <1>2, <3>1, Zenon DEF SchedInv, SchedTypeOK, MapHoldsRunningWorkers, Live
  <2> QED BY <2>1, <2>2, Zenon
<1>8. WorkersAccountedFor'
  <2> SUFFICES ASSUME NEW v \in Worker, wst'[v] \notin {"unborn", "exited"}
               PROVE  \/ \E q \in Probe : v = workers'[q] /\ v # NoWorker
                      \/ v \in orphans'
                      \/ \E d \in Caller : v \in dones'[d]
    BY Zenon DEF WorkersAccountedFor, LiveWorkers, Live, Registered
  <2>1. CASE v = w
    BY <1>1, <2>1, Zenon DEF SchedInv, SchedTypeOK
  <2>2. CASE v # w
    <3>1. Live(v)
      BY <1>1, <2>2, Zenon DEF SchedInv, SchedTypeOK, Live
    <3>2. \/ \E q \in Probe : v = workers[q] /\ v # NoWorker
          \/ v \in orphans
          \/ \E d \in Caller : v \in dones[d]
      BY <3>1, Zenon DEF SchedInv, WorkersAccountedFor, LiveWorkers, Registered
    <3>3. ASSUME NEW q \in Probe, v = workers[q], v # NoWorker
          PROVE  (\E r \in Probe : v = workers'[r]) \/ v \in orphans'
      BY <1>1, <1>2, <3>3, Zenon DEF SchedInv, SchedTypeOK
    <3> QED BY <1>2, <3>2, <3>3, Zenon
  <2> QED BY <2>1, <2>2, Zenon
<1>9. CancelledAreAwaited'
  <2> SUFFICES ASSUME NEW v \in cancelled, wst'[v] \notin {"unborn", "exited"}
               PROVE  \E d \in Caller : v \in dones[d]
    BY <1>2, Zenon DEF CancelledAreAwaited, Live
  <2>1. v # w /\ v \in Worker
    BY <1>1, Zenon DEF SchedInv, FreshInv, SchedTypeOK
  <2>2. Live(v)
    BY <1>1, <2>1, Zenon DEF SchedInv, SchedTypeOK, Live
  <2> QED BY <2>2, Zenon DEF SchedInv, CancelledAreAwaited
<1> QED BY <1>3, <1>4, <1>6, <1>7, <1>8, <1>9, Zenon DEF SchedInv

\* Stop's critical section moves every registered worker to this call's list.
LEMMA CollectInv ==
  ASSUME SchedInv, NEW c \in Caller, Collect(c)
  PROVE  SchedInv'
<1>1. /\ call[c] = "stop"
      /\ cancels' = [cancels EXCEPT ![c] = Registered]
      /\ dones' = [dones EXCEPT ![c] = Registered]
      /\ workers' = [p \in Probe |-> NoWorker]
      /\ call' = [call EXCEPT ![c] = "cancelling"]
      /\ UNCHANGED <<mu, cancelled, orphans, workerVars, restart, arg, todo>>
  BY Zenon DEF Collect
<1>2. Registered \subseteq Worker
  BY DEF SchedInv, SchedTypeOK, Registered
<1>3. dones[c] = {}
  BY <1>1, Zenon DEF SchedInv, ListsInv
<1>4. SchedTypeOK'
  BY <1>1, <1>2, Zenon DEF SchedInv, SchedTypeOK, CallStates, workerVars
<1>5. SendingInv' /\ ListsInv'
  BY <1>1, Zenon DEF SchedInv, SchedTypeOK, SendingInv, ListsInv, workerVars
<1>6. FreshInv'
  <2>1. \A w \in Registered : wst[w] # "unborn"
    BY DEF SchedInv, MapHoldsRunningWorkers, Registered, Live
  <2> QED BY <1>1, <2>1, Zenon DEF SchedInv, SchedTypeOK, FreshInv, workerVars
<1>7. MapHoldsRunningWorkers'
  BY <1>1, Zenon DEF MapHoldsRunningWorkers
<1>8. WorkersAccountedFor'
  <2> SUFFICES ASSUME NEW w \in LiveWorkers
               PROVE  w \in orphans' \/ \E d \in Caller : w \in dones'[d]
    BY <1>1, Zenon DEF WorkersAccountedFor, LiveWorkers, Live, workerVars
  <2>1. CASE w \in Registered
    BY <1>1, <2>1, Zenon DEF SchedInv, SchedTypeOK
  <2>2. ASSUME NEW d \in Caller, w \in dones[d] PROVE w \in dones'[d]
    BY <1>1, <1>3, <2>2, Zenon DEF SchedInv, SchedTypeOK
  <2> QED BY <1>1, <2>1, <2>2, Zenon DEF SchedInv, WorkersAccountedFor
<1>9. CancelledAreAwaited'
  <2>1. ASSUME NEW w \in cancelled, NEW d \in Caller, w \in dones[d] PROVE w \in dones'[d]
    BY <1>1, <1>3, <2>1, Zenon DEF SchedInv, SchedTypeOK
  <2> QED BY <1>1, <2>1, Zenon DEF SchedInv, CancelledAreAwaited, Live, workerVars
<1> QED BY <1>4, <1>5, <1>6, <1>7, <1>8, <1>9, Zenon DEF SchedInv

\* A cancelled worker is on the list of the Stop that cancels it.
LEMMA CancelOneInv ==
  ASSUME SchedInv, NEW c \in Caller, NEW w \in Worker, CancelOne(c, w)
  PROVE  SchedInv'
<1>1. /\ call[c] = "cancelling"
      /\ w \in cancels[c]
      /\ cancelled' = cancelled \cup {w}
      /\ cancels' = [cancels EXCEPT ![c] = @ \ {w}]
      /\ UNCHANGED <<mu, workers, orphans, workerVars, call, restart, arg, todo, dones>>
  BY Zenon DEF CancelOne
<1>2. w \in dones[c]
  BY <1>1, Zenon DEF SchedInv, ListsInv
<1>3. SchedTypeOK'
  BY <1>1, Zenon DEF SchedInv, SchedTypeOK, workerVars
<1>4. SendingInv' /\ ListsInv'
  BY <1>1, Zenon DEF SchedInv, SchedTypeOK, SendingInv, ListsInv, workerVars
<1>5. FreshInv'
  BY <1>1, <1>2, Zenon DEF SchedInv, FreshInv, workerVars
<1>6. MapHoldsRunningWorkers'
  BY <1>1, <1>2 DEF SchedInv, MapHoldsRunningWorkers, Live, workerVars
<1>7. WorkersAccountedFor'
  BY <1>1, Zenon DEF SchedInv, WorkersAccountedFor, LiveWorkers, Live, Registered, workerVars
<1>8. CancelledAreAwaited'
  BY <1>1, <1>2, Zenon DEF SchedInv, CancelledAreAwaited, Live, workerVars
<1> QED BY <1>3, <1>4, <1>5, <1>6, <1>7, <1>8, Zenon DEF SchedInv

\* Stop lets go only of workers that have exited.
LEMMA StopReturnInv ==
  ASSUME SchedInv, NEW c \in Caller, StopReturn(c)
  PROVE  SchedInv'
<1>1. /\ cancels[c] = {}
      /\ \A w \in dones[c] : wst[w] = "exited"
      /\ dones' = [dones EXCEPT ![c] = {}]
      /\ call' = [call EXCEPT ![c] = IF restart[c] THEN "start" ELSE "idle"]
      /\ UNCHANGED <<mu, workers, cancelled, orphans, workerVars,
                     restart, arg, todo, cancels>>
  BY Zenon DEF StopReturn
<1>2. SchedTypeOK'
  BY <1>1, Zenon DEF SchedInv, SchedTypeOK, CallStates, workerVars
<1>3. SendingInv' /\ ListsInv'
  BY <1>1, Zenon DEF SchedInv, SchedTypeOK, SendingInv, ListsInv, workerVars
<1>4. \A d \in Caller, w \in Worker :
        /\ w \in dones'[d] => w \in dones[d]
        /\ w \in dones[d] /\ Live(w) => w \in dones'[d]
  BY <1>1, Zenon DEF SchedInv, SchedTypeOK, Live
<1>5. FreshInv'
  BY <1>1, <1>4, Zenon DEF SchedInv, FreshInv, workerVars
<1>6. MapHoldsRunningWorkers'
  BY <1>1, <1>4 DEF SchedInv, SchedTypeOK, MapHoldsRunningWorkers, Live, workerVars
<1>7. WorkersAccountedFor'
  <2>1. Registered' = Registered /\ LiveWorkers' = LiveWorkers
    BY <1>1, Zenon DEF Registered, LiveWorkers, Live, workerVars
  <2> QED BY <1>1, <1>4, <2>1, Zenon DEF SchedInv, WorkersAccountedFor, LiveWorkers
<1>8. CancelledAreAwaited'
  BY <1>1, <1>4, Zenon DEF SchedInv, SchedTypeOK, CancelledAreAwaited, Live, workerVars
<1> QED BY <1>2, <1>3, <1>5, <1>6, <1>7, <1>8, Zenon DEF SchedInv

\* A step of the worker's goroutine: it stays alive, or it exits cancelled.
LEMMA WorkerMoves ==
  ASSUME SchedInv, SchedTypeOK', SendingInv', UNCHANGED restVars,
         NEW w \in Worker, NEW s \in WorkerStates \ {"unborn"},
         Live(w), wst' = [wst EXCEPT ![w] = s], s = "exited" => w \in cancelled
  PROVE  SchedInv'
<1>1. \A v \in Worker : /\ wst'[v] = "unborn" <=> wst[v] = "unborn"
                        /\ Live(v)' => Live(v)
                        /\ Live(v) /\ v \notin cancelled => Live(v)'
  BY Zenon DEF SchedInv, SchedTypeOK, Live
<1>2. ListsInv' /\ FreshInv'
  BY <1>1, Zenon DEF SchedInv, ListsInv, FreshInv, restVars, callVars
<1>3. MapHoldsRunningWorkers'
  <2> SUFFICES ASSUME NEW p \in Probe, workers[p] # NoWorker
               PROVE  /\ wst'[workers[p]] \notin {"unborn", "exited"}
                      /\ wprobe[workers[p]] = p
                      /\ workers[p] \notin cancelled
                      /\ \A c \in Caller : workers[p] \notin dones[c]
    BY Zenon DEF MapHoldsRunningWorkers, Live, restVars, callVars
  <2>1. workers[p] \in Worker
    BY Zenon DEF SchedInv, SchedTypeOK
  <2> QED BY <1>1, <2>1, Zenon DEF SchedInv, MapHoldsRunningWorkers, Live
<1>4. WorkersAccountedFor'
  BY <1>1, Zenon DEF SchedInv, WorkersAccountedFor, LiveWorkers, Registered, restVars, callVars
<1>5. CancelledAreAwaited'
  BY <1>1, Zenon DEF SchedInv, SchedTypeOK, CancelledAreAwaited, restVars, callVars
<1> QED BY <1>2, <1>3, <1>4, <1>5, Zenon DEF SchedInv

\* Every step of a worker's goroutine preserves the invariant.
LEMMA WorkerStepInv ==
  ASSUME SchedInv, NEW w \in Worker, WorkerStep(w)
  PROVE  SchedInv'
<1>1. CASE Tick(w)
  <2>1. SchedTypeOK' /\ SendingInv'
    BY <1>1 DEF Tick, SchedInv, SchedTypeOK, SendingInv, WorkerStates, restVars, callVars
  <2> QED BY <1>1, <2>1, WorkerMoves, Zenon DEF Tick, Live, WorkerStates
<1>2. ASSUME NEW n \in 0..MaxTargets, RunReturns(w, n) PROVE SchedInv'
  <2>1. SchedTypeOK' /\ SendingInv'
    BY <1>2 DEF RunReturns, SchedInv, SchedTypeOK, SendingInv, WorkerStates, restVars, callVars
  <2> QED BY <1>2, <2>1, WorkerMoves, Zenon DEF RunReturns, Live, WorkerStates
<1>3. ASSUME NEW taken \in BOOLEAN, SendOne(w, taken) PROVE SchedInv'
  <2>1. pending[w] \in 1..MaxTargets /\ wprobe[w] \in Probe
    BY <1>3 DEF SendOne, SchedInv, SchedTypeOK, SendingInv
  <2>2. SchedTypeOK' /\ SendingInv'
    BY <1>3, <2>1 DEF SendOne, SchedInv, SchedTypeOK, SendingInv, WorkerStates, restVars, callVars
  <2> QED BY <1>3, <2>2, WorkerMoves, Zenon DEF SendOne, Live, WorkerStates
<1>4. CASE ExitWorker(w)
  <2>1. SchedTypeOK' /\ SendingInv'
    BY <1>4, Zenon DEF ExitWorker, SchedInv, SchedTypeOK, SendingInv, WorkerStates, restVars, callVars
  <2> QED BY <1>4, <2>1, WorkerMoves, Zenon DEF ExitWorker, Live, WorkerStates
<1> QED BY <1>1, <1>2, <1>3, <1>4, Zenon DEF WorkerStep

\* Every step inside Start, Stop or Reload preserves the invariant.
LEMMA CallStepInv ==
  ASSUME SchedInv, NEW c \in Caller, CallStep(c)
  PROVE  SchedInv'
<1>1. CASE LockStart(c)
  <2>1. SchedTypeOK'
    BY <1>1, Zenon DEF LockStart, SchedInv, SchedTypeOK, CallStates, workerVars
  <2> QED BY <1>1, <2>1, CallBookkeeping, Zenon DEF LockStart, SchedInv, SchedTypeOK, ListsInv
<1>2. CASE UnlockStart(c)
  <2>1. SchedTypeOK'
    BY <1>2, Zenon DEF UnlockStart, SchedInv, SchedTypeOK, CallStates, workerVars
  <2> QED BY <1>2, <2>1, CallBookkeeping, Zenon DEF UnlockStart, SchedInv, SchedTypeOK, ListsInv
<1>3. ASSUME NEW p \in Probe, StartFails(c, p) PROVE SchedInv'
  <2>1. SchedTypeOK'
    BY <1>3, Zenon DEF StartFails, SchedInv, SchedTypeOK, workerVars
  <2> QED BY <1>3, <2>1, CallBookkeeping, Zenon DEF StartFails, SchedInv, ListsInv
<1> QED BY <1>1, <1>2, <1>3, CollectInv, StopReturnInv, StartOneInv, CancelOneInv, Zenon
        DEF CallStep

\* Calling Start, Stop or Reload preserves the invariant.
LEMMA EnterInv ==
  ASSUME SchedInv, NEW c \in Caller, NEW k \in Config, NEW again \in BOOLEAN,
         NEW s \in {"start", "stop"}, Enter(c, s, again, k)
  PROVE  SchedInv'
<1>1. SchedTypeOK'
  BY Zenon DEF Enter, SchedInv, SchedTypeOK, CallStates, workerVars
<1> QED BY <1>1, CallBookkeeping, Zenon DEF Enter, SchedInv, SchedTypeOK, ListsInv

\* One step per action of SchedNext.
LEMMA SchedNextInv == SchedInv /\ [SchedNext]_schedVars => SchedInv'
<1> SUFFICES ASSUME SchedInv, [SchedNext]_schedVars PROVE SchedInv'
  OBVIOUS
<1>1. ASSUME NEW c \in Caller, CallStop(c) PROVE SchedInv'
  <2>1. arg[c] \in Config
    BY Zenon DEF SchedInv, SchedTypeOK
  <2> QED BY <1>1, <2>1, EnterInv, Zenon DEF CallStop
<1>2. ASSUME NEW c \in Caller, NEW k \in Config, CallStart(c, k) \/ CallReload(c, k)
      PROVE  SchedInv'
  BY <1>2, EnterInv, Zenon DEF CallStart, CallReload
<1>3. CASE UNCHANGED schedVars
  <2>1. SchedTypeOK'
    BY <1>3, Zenon DEF SchedInv, SchedTypeOK, schedVars, workerVars, callVars
  <2> QED BY <1>3, <2>1, CallBookkeeping, Zenon DEF SchedInv, ListsInv, schedVars, callVars
<1> QED BY <1>1, <1>2, <1>3, CallStepInv, WorkerStepInv, Zenon DEF SchedNext

\* The inductive invariant holds however the callers use the scheduler.
THEOREM SchedInvariance == SchedSpec => []SchedInv
BY SchedInitInv, SchedNextInv, PTL DEF SchedSpec

\* Type correctness of the map, the workers and Stop's lists; in particular a
\* worker never sends more results than its run returned.
THEOREM SchedTypeCorrect == SchedSpec => []SchedTypeOK
<1>1. SchedInv => SchedTypeOK
  BY Zenon DEF SchedInv
<1> QED BY <1>1, SchedInvariance, PTL

\* s.workers never names a dying or dead goroutine (startLocked, Stop).
THEOREM MapCorrect == SchedSpec => []MapHoldsRunningWorkers
<1>1. SchedInv => MapHoldsRunningWorkers
  BY Zenon DEF SchedInv
<1> QED BY <1>1, SchedInvariance, PTL

\* No worker goroutine escapes except through startLocked's overwriting.
THEOREM NoWorkerEscapes == SchedSpec => []WorkersAccountedFor
<1>1. SchedInv => WorkersAccountedFor
  BY Zenon DEF SchedInv
<1> QED BY <1>1, SchedInvariance, PTL

\* A cancelled worker is waited for until it has exited (Stop).
THEOREM CancelledAwaited == SchedSpec => []CancelledAreAwaited
<1>1. SchedInv => CancelledAreAwaited
  BY Zenon DEF SchedInv
<1> QED BY <1>1, SchedInvariance, PTL

-----------------------------------------------------------------------------
(* The pipeline: in-order fan-out, a complete drain, the refinement of Delivery *)

\* Results Run has taken off the channel.
Taken == Len(accepted) - Len(buf)

Dispatching == runPC \in {"dispatch", "drainDispatch"}

\* The channel closes exactly when Run returns; a result is in hand exactly
\* during dispatch; the drain follows the cancellation.
ControlInv ==
  /\ closed <=> runPC = "returned"
  /\ Dispatching => Len(cur) = 1
  /\ ~Dispatching => Len(cur) = 0
  /\ runPC \in {"drain", "drainDispatch", "closing", "returned"} => ctxDone

\* The buffer is the tail of what was accepted, the result in hand is the one
\* before it.
QueueInv ==
  /\ Len(buf) <= Len(accepted)
  /\ \A i \in 1..Len(buf) : buf[i] = accepted[Taken + i]
  /\ Dispatching => /\ Taken >= 1
                    /\ cur[1] = accepted[Taken]

\* Each exporter has been handed everything taken, except the result in hand
\* if dispatch has not reached it.
FanOutInv ==
  \A e \in Exporter :
    /\ Dispatching /\ nextExp <= e => Len(exported[e]) = Taken - 1
    /\ ~(Dispatching /\ nextExp <= e) => Len(exported[e]) = Taken
    /\ \A i \in 1..Len(exported[e]) : exported[e][i].res = accepted[i]

\* These hold whoever sends and whenever.
PipeInv == PipeTypeOK /\ ControlInv /\ QueueInv /\ FanOutInv

\* This takes senders that keep the shutdown contract: nothing is sent between
\* the drain and the close.
DrainedInv == runPC \in {"closing", "returned"} => buf = <<>>

\* The steps anyone takes on the pipeline, in whatever order.
AnyStep == GoRun \/ CancelCtx \/ RunStep \/ \E r \in Result : ChanSend(r)

USE PipelineAssumption

\* New establishes the invariant.
LEMMA PipeInitInv == PipeInit => PipeInv /\ DrainedInv
<1> SUFFICES ASSUME PipeInit PROVE PipeInv /\ DrainedInv
  OBVIOUS
<1>1. PipeTypeOK
  <2>1. <<>> \in Seq(Result) /\ <<>> \in Seq(ExportCall) /\ Len(<<>>) = 0
    OBVIOUS
  <2>2. exported \in [Exporter -> Seq(ExportCall)] /\ exportErrors \in [Exporter -> Nat]
    BY <2>1, Zenon DEF PipeInit
  <2>3. /\ buf \in Seq(Result) /\ cur \in Seq(Result) /\ accepted \in Seq(Result)
        /\ Len(buf) <= BufferSize
    BY <2>1 DEF PipeInit
  <2>4. closed \in BOOLEAN /\ ctxDone \in BOOLEAN /\ runPC \in RunPCs
    BY Zenon DEF PipeInit, RunPCs
  <2>5. nextExp \in Exporter
    BY DEF PipeInit, Exporter
  <2> QED BY <2>2, <2>3, <2>4, <2>5, Zenon DEF PipeTypeOK
<1>2. ControlInv /\ QueueInv /\ FanOutInv /\ DrainedInv
  BY DEF PipeInit, ControlInv, QueueInv, FanOutInv, Dispatching, Taken, Exporter, DrainedInv
<1> QED BY <1>1, <1>2, Zenon DEF PipeInv

\* A send appends to the buffer and to the history alike.
LEMMA SendInv == ASSUME PipeInv, NEW r \in Result, ChanSend(r) PROVE PipeInv'
<1> USE DEF PipeInv, ChanSend, HasRoom, runVars
<1>1. PipeTypeOK'
  BY DEF PipeTypeOK
<1>2. /\ Len(buf') = Len(buf) + 1
      /\ Len(accepted') = Len(accepted) + 1
      /\ \A i \in 1..Len(buf) : buf'[i] = buf[i]
      /\ buf'[Len(buf) + 1] = r
      /\ \A i \in 1..Len(accepted) : accepted'[i] = accepted[i]
      /\ accepted'[Len(accepted) + 1] = r
      /\ Len(buf) \in Nat /\ Len(accepted) \in Nat
  BY DEF PipeTypeOK
<1>3. Taken' = Taken
  BY <1>2 DEF Taken
<1>4. ControlInv'
  BY Zenon DEF ControlInv, Dispatching, PipeTypeOK
<1>5. QueueInv'
  <2>1. ASSUME NEW i \in 1..Len(buf') PROVE buf'[i] = accepted'[Taken' + i]
    <3>1. CASE i \in 1..Len(buf)
      <4>1. buf'[i] = buf[i] /\ buf[i] = accepted[Taken + i]
        BY <1>2, <3>1, Zenon DEF QueueInv
      <4>2. Taken + i \in 1..Len(accepted)
        BY <1>2, <3>1 DEF QueueInv, Taken
      <4> QED BY <1>2, <1>3, <4>1, <4>2, Zenon
    <3>2. CASE i = Len(buf) + 1
      BY <1>2, <1>3, <3>2 DEF Taken
    <3>3. i \in 1..Len(buf) \/ i = Len(buf) + 1
      BY <1>2
    <3> QED BY <3>1, <3>2, <3>3, Zenon
  <2>2. (Dispatching => Taken >= 1 /\ cur[1] = accepted[Taken])'
    BY <1>2, <1>3 DEF QueueInv, Dispatching, Taken
  <2>3. Len(buf') <= Len(accepted')
    BY <1>2 DEF QueueInv
  <2> HIDE DEF ChanSend
  <2> QED BY <2>1, <2>2, <2>3, Zenon DEF QueueInv
<1>6. FanOutInv'
  <2>1. ASSUME NEW e \in Exporter PROVE Len(exported[e]) <= Len(accepted)
    BY <1>2 DEF FanOutInv, Taken, QueueInv
  <2>2. ASSUME NEW e \in Exporter, NEW i \in 1..Len(exported[e])
        PROVE  exported[e][i].res = accepted'[i]
    <3>1. i \in 1..Len(accepted)
      BY <1>2, <2>1 DEF PipeTypeOK
    <3> QED BY <1>2, <3>1, Zenon DEF FanOutInv
  <2> QED BY <1>3, <2>2, Zenon DEF FanOutInv, Dispatching
<1> QED BY <1>1, <1>4, <1>5, <1>6, Zenon

\* Taking a result moves the head of the buffer into Run's hand.
LEMMA TakeInv ==
  ASSUME PipeInv, NEW into \in {"dispatch", "drainDispatch"}, TakeResult(into),
         runPC \in {"select", "drain"}, into = "drainDispatch" => ctxDone
  PROVE  PipeInv'
<1> USE DEF PipeInv, TakeResult
<1>1. PipeTypeOK'
  <2>1. buf \in Seq(Result) /\ buf # <<>>
    BY Zenon DEF PipeTypeOK
  <2>2. /\ buf' \in Seq(Result)
        /\ Len(buf') = Len(buf) - 1
        /\ Head(buf) \in Result
    BY <2>1
  <2>3. cur' \in Seq(Result)
    BY <2>2
  <2> QED BY <2>2, <2>3 DEF PipeTypeOK, RunPCs, Exporter
<1>2. /\ Len(buf') = Len(buf) - 1
      /\ \A i \in 1..Len(buf') : buf'[i] = buf[i + 1]
      /\ Len(buf) \in Nat /\ Len(buf) > 0 /\ Len(accepted) \in Nat
      /\ cur' = <<buf[1]>>
  BY DEF PipeTypeOK
<1>3. Taken' = Taken + 1 /\ Taken \in Nat
  BY <1>2 DEF Taken, QueueInv
<1>4. ~Dispatching /\ Dispatching'
  BY Zenon DEF Dispatching
<1>5. ControlInv'
  BY <1>2, <1>4, Zenon DEF ControlInv, Dispatching, PipeTypeOK
<1>6. QueueInv'
  BY <1>2, <1>3, <1>4 DEF QueueInv, Taken, PipeTypeOK
<1>7. FanOutInv'
  BY <1>3, <1>4 DEF FanOutInv, Exporter
<1> QED BY <1>1, <1>5, <1>6, <1>7, Zenon

\* One Export call completes the fan-out of the result in hand by one.
LEMMA ExportInv == ASSUME PipeInv, NEW ok \in BOOLEAN, Export(ok) PROVE PipeInv'
<1> USE DEF PipeInv, Export, AfterExport, chanVars
<1>0. /\ cur[1] \in Result
      /\ cur[1] = accepted[Taken]
      /\ Taken \in Nat \ {0}
      /\ nextExp \in Exporter
      /\ Dispatching
  BY DEF ControlInv, QueueInv, Dispatching, PipeTypeOK, Taken
<1>1. PipeTypeOK'
  <2>1. [res |-> cur[1], live |-> ContextLive] \in ExportCall
    BY <1>0, Zenon DEF ExportCall, ContextLive
  <2>2. exported' \in [Exporter -> Seq(ExportCall)]
    <3> DEFINE x == [res |-> cur[1], live |-> ContextLive]
    <3>1. Append(exported[nextExp], x) \in Seq(ExportCall)
      BY <2>1, <1>0 DEF PipeTypeOK
    <3>2. exported' = [exported EXCEPT ![nextExp] = Append(exported[nextExp], x)]
      OBVIOUS
    <3> HIDE DEF x
    <3> QED BY <3>1, <3>2, Zenon DEF PipeTypeOK
  <2>3. exportErrors' \in [Exporter -> Nat]
    BY DEF PipeTypeOK
  <2>4. nextExp' \in Exporter
    <3>1. CASE nextExp < NumExporters
      BY <3>1, <1>0 DEF Exporter
    <3>2. CASE ~(nextExp < NumExporters)
      BY <3>2 DEF Exporter
    <3> QED BY <3>1, <3>2, Zenon
  <2>5. runPC' \in RunPCs
    <3>1. CASE nextExp < NumExporters
      BY <3>1, Zenon DEF PipeTypeOK
    <3>2. CASE ~(nextExp < NumExporters)
      BY <3>2, Zenon DEF RunPCs
    <3> QED BY <3>1, <3>2, Zenon
  <2>6. cur' \in Seq(Result)
    <3>1. CASE nextExp < NumExporters
      BY <3>1, Zenon DEF PipeTypeOK
    <3>2. CASE ~(nextExp < NumExporters)
      BY <3>2
    <3> QED BY <3>1, <3>2, Zenon
  <2> QED BY <2>2, <2>3, <2>4, <2>5, <2>6, Zenon DEF PipeTypeOK
<1>2. ControlInv'
  BY <1>0 DEF ControlInv, Dispatching, PipeTypeOK
<1>3. QueueInv'
  BY <1>0, Zenon DEF QueueInv, Dispatching, Taken
<1>4. FanOutInv'
  <2> SUFFICES ASSUME NEW e \in Exporter
               PROVE  /\ (Dispatching /\ nextExp <= e => Len(exported[e]) = Taken - 1)'
                      /\ (~(Dispatching /\ nextExp <= e) => Len(exported[e]) = Taken)'
                      /\ \A i \in 1..Len(exported'[e]) : exported'[e][i].res = accepted'[i]
    BY Zenon DEF FanOutInv
  <2>1. Taken' = Taken
    BY Zenon DEF Taken
  <2>2. CASE e = nextExp
    <3>1. Len(exported[e]) = Taken - 1 /\ Len(exported[e]) \in Nat
      BY <1>0, <2>2 DEF FanOutInv, Exporter, PipeTypeOK
    <3>2. exported'[e] = Append(exported[e], [res |-> cur[1], live |-> ContextLive])
      BY <2>2, Zenon DEF PipeTypeOK
    <3>3. exported[e] \in Seq(ExportCall)
      BY Zenon DEF PipeTypeOK
    <3>4. /\ Len(exported'[e]) = Taken
          /\ \A i \in 1..(Taken - 1) : exported'[e][i] = exported[e][i]
          /\ exported'[e][Taken].res = accepted[Taken]
      BY <3>1, <3>2, <3>3, <1>0
    <3>5. ~(Dispatching /\ nextExp <= e)'
      BY <2>2, <1>0 DEF Dispatching, Exporter
    <3> QED BY <3>1, <3>4, <3>5, <2>1, <1>0 DEF FanOutInv
  <2>3. CASE e # nextExp
    <3>1. exported'[e] = exported[e]
      BY <2>3, Zenon DEF PipeTypeOK
    <3>2. (Dispatching /\ nextExp <= e)' <=> (Dispatching /\ nextExp <= e)
      BY <2>3, <1>0 DEF Dispatching, Exporter
    <3> QED BY <3>1, <3>2, <2>1, Zenon DEF FanOutInv
  <2> QED BY <2>2, <2>3, Zenon
<1> QED BY <1>1, <1>2, <1>3, <1>4, Zenon

\* Every step of the pipeline and of its users keeps the invariant.
LEMMA AnyStepInv == PipeInv /\ [AnyStep]_pipeVars => PipeInv'
<1> SUFFICES ASSUME PipeInv, [AnyStep]_pipeVars PROVE PipeInv'
  OBVIOUS
<1>1. ASSUME NEW r \in Result, ChanSend(r) PROVE PipeInv'
  BY <1>1, SendInv, Zenon
<1>2. ASSUME NEW ok \in BOOLEAN, Export(ok) PROVE PipeInv'
  BY <1>2, ExportInv, Zenon
<1>3. CASE Receive
  BY <1>3, TakeInv, Zenon DEF Receive
<1>4. CASE DrainReceive
  <2>1. ctxDone
    BY <1>4, Zenon DEF DrainReceive, PipeInv, ControlInv
  <2> QED BY <1>4, <2>1, TakeInv, Zenon DEF DrainReceive
<1>5. CASE GoRun \/ CancelCtx \/ SeeDone \/ DrainEmpty \/ CloseResults
  <2> USE <1>5 DEF GoRun, CancelCtx, SeeDone, DrainEmpty, CloseResults,
                   chanVars, runVars, PipeInv
  <2>1. PipeTypeOK'
    BY Zenon DEF PipeTypeOK, RunPCs
  <2>2. ControlInv'
    BY DEF ControlInv, Dispatching, PipeTypeOK
  <2>3. QueueInv'
    BY Zenon DEF QueueInv, Dispatching, Taken
  <2>4. FanOutInv'
    BY Zenon DEF FanOutInv, Dispatching, Taken
  <2> QED BY <2>1, <2>2, <2>3, <2>4, Zenon
<1>6. CASE UNCHANGED pipeVars
  BY <1>6, Zenon DEF pipeVars, PipeInv, PipeTypeOK, ControlInv, QueueInv, FanOutInv,
              Dispatching, Taken
<1> QED BY <1>1, <1>2, <1>3, <1>4, <1>5, <1>6, Zenon DEF AnyStep, RunStep

\* The pipeline's own users send nothing once the context is cancelled.
LEMMA PipeNextInv ==
  PipeInv /\ DrainedInv /\ [PipeNext]_pipeVars => PipeInv' /\ DrainedInv' /\ [AnyStep]_pipeVars
<1> SUFFICES ASSUME PipeInv, DrainedInv, [PipeNext]_pipeVars
             PROVE  PipeInv' /\ DrainedInv' /\ [AnyStep]_pipeVars
  OBVIOUS
<1>1. [AnyStep]_pipeVars
  BY Zenon DEF PipeNext, AnyStep, Send, Cancel, Returned
<1>2. ASSUME NEW r \in Result, Send(r) PROVE DrainedInv'
  BY <1>2, Zenon DEF Send, ChanSend, runVars, DrainedInv, PipeInv, ControlInv
<1>3. ASSUME GoRun \/ Cancel \/ RunStep PROVE DrainedInv'
  BY <1>3, Zenon DEF GoRun, Cancel, CancelCtx, RunStep, Receive, DrainReceive, TakeResult, SeeDone,
              DrainEmpty, CloseResults, Export, AfterExport, chanVars, runVars, DrainedInv
<1>4. ASSUME UNCHANGED pipeVars PROVE DrainedInv'
  BY <1>4, Zenon DEF pipeVars, DrainedInv
<1>5. DrainedInv'
  BY <1>2, <1>3, <1>4, Zenon DEF PipeNext, Returned
<1> QED BY <1>1, <1>5, AnyStepInv, Zenon

\* The inductive invariant holds of every behaviour: the buffer, the result in
\* hand and each exporter's history stay aligned with the accepted results.
THEOREM PipeInvariance == PipeSpec => [](PipeInv /\ DrainedInv)
BY PipeInitInv, PipeNextInv, PTL DEF PipeSpec

\* Type correctness of the channel and of Run's state.
THEOREM PipeTypeCorrect == PipeSpec => []PipeTypeOK
<1>1. PipeInv => PipeTypeOK
  BY Zenon DEF PipeInv
<1> QED BY <1>1, PipeInvariance, PTL

\* The fan-out property, from the invariant: an exporter is ahead of another by at
\* most the result in hand (dispatch).
LEMMA InvFanOut == ASSUME PipeInv PROVE FanOutInOrder
<1> SUFFICES ASSUME NEW e \in Exporter
             PROVE  /\ Len(exported[e]) <= Len(accepted)
                    /\ \A i \in 1..Len(exported[e]) : exported[e][i].res = accepted[i]
                    /\ \A f \in Exporter : f > e =>
                         Len(exported[e]) \in {Len(exported[f]), Len(exported[f]) + 1}
  BY Zenon DEF FanOutInOrder
<1>1. Len(buf) \in Nat /\ Len(accepted) \in Nat /\ Taken <= Len(accepted) /\ Taken \in Int
  BY DEF PipeInv, PipeTypeOK, QueueInv, Taken
<1>2. Len(exported[e]) \in {Taken, Taken - 1}
  BY Zenon DEF PipeInv, FanOutInv
<1>3. ASSUME NEW f \in Exporter, f > e
      PROVE  Len(exported[e]) \in {Len(exported[f]), Len(exported[f]) + 1}
  <2>1. nextExp \in Nat /\ e \in Nat /\ f \in Nat
    BY DEF PipeInv, PipeTypeOK, Exporter
  <2>2. nextExp <= e => nextExp <= f
    BY <2>1, <1>3
  <2> QED BY <1>1, <2>2 DEF PipeInv, FanOutInv
<1> QED BY <1>1, <1>2, <1>3 DEF PipeInv, FanOutInv

\* Each exporter is handed the accepted results exactly once and in order,
\* whatever the other exporters return (dispatch).
THEOREM FanOutCorrect == PipeSpec => []FanOutInOrder
<1>1. PipeInv => FanOutInOrder
  BY InvFanOut, Zenon
<1> QED BY <1>1, PipeInvariance, PTL

\* Once Run has returned, nothing it accepted is owed to any exporter (drain).
LEMMA DrainedIsComplete == PipeInv /\ DrainedInv => DrainComplete
BY DEF PipeInv, DrainedInv, FanOutInv, PipeTypeOK, DrainComplete, Dispatching, Taken

\* When Run has returned, every accepted result has been handed to every exporter
\* (the drain loop before the close).
THEOREM DrainCorrect == PipeSpec => []DrainComplete
BY DrainedIsComplete, PipeInvariance, PTL

-----------------------------------------------------------------------------
\* The refinement mapping of Delivery's variable delivered.
Handed == [e \in Exporter |-> [i \in 1..Len(exported[e]) |-> exported[e][i].res]]

\* One exporter's column of the mapping: a sequence of results as long as its
\* Export calls.
LEMMA HandedSeq ==
  ASSUME PipeInv, NEW e \in Exporter
  PROVE  /\ Handed[e] \in Seq(Result)
         /\ Len(Handed[e]) = Len(exported[e])
         /\ \A i \in 1..Len(exported[e]) : Handed[e][i] = exported[e][i].res
<1>1. exported[e] \in Seq(ExportCall) /\ Len(exported[e]) \in Nat
  BY DEF PipeInv, PipeTypeOK
<1>2. \A i \in 1..Len(exported[e]) : exported[e][i].res \in Result
  <2>1. \A i \in 1..Len(exported[e]) : exported[e][i] \in ExportCall
    BY <1>1, ElementOfSeq, Zenon
  <2> QED BY <2>1, Zenon DEF ExportCall
<1>3. Handed[e] = [i \in 1..Len(exported[e]) |-> exported[e][i].res]
  BY Zenon DEF Handed
<1> QED BY <1>1, <1>2, <1>3

\* An Export call is a Deliver step for the exporter it calls.
LEMMA ExportDelivers ==
  ASSUME PipeInv, NEW ok \in BOOLEAN, Export(ok), NEW e0 \in Exporter, e0 = nextExp
  PROVE  D!Deliver(e0)
<1>0. PICK n \in Nat : n = Len(exported[e0])
  BY DEF PipeInv, PipeTypeOK
<1>1. runPC # "returned" /\ runPC' # "returned" /\ accepted' = accepted
  BY Zenon DEF Export, AfterExport, chanVars
<1>2. n \in Nat /\ n = Taken - 1 /\ n < Len(accepted) /\ Len(accepted) \in Nat
  <2>1. Dispatching
    BY Zenon DEF Export, Dispatching
  <2>2. n = Taken - 1
    BY <1>0, <2>1 DEF PipeInv, FanOutInv, Exporter
  <2>3. Len(buf) \in Nat /\ Len(accepted) \in Nat /\ n \in Nat
    <3>1. exported[e0] \in Seq(ExportCall)
      BY <1>0, Zenon DEF PipeInv, PipeTypeOK
    <3> QED BY <3>1 DEF PipeInv, PipeTypeOK
  <2> QED BY <2>2, <2>3 DEF Taken
<1>3. /\ exported' = [exported EXCEPT ![e0] =
                        Append(@, [res |-> cur[1], live |-> ContextLive])]
      /\ cur[1] = accepted[n + 1]
  BY <1>2 DEF Export, PipeInv, QueueInv, Dispatching, Taken
<1>4. ASSUME NEW e \in Exporter, e # e0 PROVE Handed'[e] = Handed[e]
  <2>1. exported'[e] = exported[e]
    BY <1>3, <1>4, Zenon DEF PipeInv, PipeTypeOK
  <2> QED BY <2>1, Zenon DEF Handed
<1>5. Handed'[e0] = Append(Handed[e0], accepted[n + 1])
  <2>1. exported[e0] \in Seq(ExportCall)
    BY <1>0, Zenon DEF PipeInv, PipeTypeOK
  <2>2. exported'[e0] = Append(exported[e0], [res |-> cur[1], live |-> ContextLive])
    BY <1>0, <1>3, Zenon DEF PipeInv, PipeTypeOK
  <2>3. /\ Len(exported'[e0]) = n + 1
        /\ \A i \in 1..n : exported'[e0][i] = exported[e0][i]
        /\ exported'[e0][n + 1].res = accepted[n + 1]
    <3> DEFINE x == [res |-> cur[1], live |-> ContextLive]
    <3>1. x \in ExportCall /\ x.res = accepted[n + 1]
      <4>1. Len(cur) = 1
        <5>1. Dispatching
          BY Zenon DEF Export, Dispatching
        <5> QED BY <5>1, Zenon DEF PipeInv, ControlInv
      <4>2. cur[1] \in Result
        <5>1. cur \in Seq(Result)
          BY Zenon DEF PipeInv, PipeTypeOK
        <5>2. 1 \in 1..Len(cur)
          BY <4>1
        <5> QED BY <5>1, <5>2, ElementOfSeq, Zenon
      <4>3. ContextLive \in BOOLEAN
        BY Zenon DEF ContextLive
      <4> QED BY <1>3, <4>2, <4>3, Zenon DEF ExportCall
    <3>2. exported'[e0] = Append(exported[e0], x)
      BY <2>2, Zenon
    <3> HIDE DEF x
    <3> QED BY <1>0, <2>1, <3>1, <3>2, AppendProperties
  <2>4. accepted[n + 1] \in Result
    <3>1. accepted \in Seq(Result) /\ n + 1 \in 1..Len(accepted)
      BY <1>2 DEF PipeInv, PipeTypeOK
    <3> QED BY <3>1, ElementOfSeq, Zenon
  <2>5. /\ Handed[e0] \in Seq(Result)
        /\ Len(Handed[e0]) = n
        /\ \A i \in 1..n : Handed[e0][i] = exported[e0][i].res
    BY <1>0, HandedSeq, Zenon
  <2>6. /\ Handed'[e0] \in Seq(Result)
        /\ Len(Handed'[e0]) = n + 1
        /\ \A i \in 1..(n + 1) : Handed'[e0][i] = exported'[e0][i].res
    <3>1. Handed'[e0] = [i \in 1..Len(exported'[e0]) |-> exported'[e0][i].res]
      BY <1>0, Zenon DEF Handed
    <3>2. \A i \in 1..n : exported[e0][i] \in ExportCall
      BY <1>0, <2>1, ElementOfSeq, Zenon
    <3>3. \A i \in 1..n : exported'[e0][i].res \in Result
      BY <2>3, <3>2, Zenon DEF ExportCall
    <3>4. \A i \in 1..(n + 1) : i \in 1..n \/ i = n + 1
      BY <1>2
    <3>5. \A i \in 1..(n + 1) : exported'[e0][i].res \in Result
      BY <2>3, <2>4, <3>3, <3>4, Zenon
    <3> QED BY <1>2, <2>3, <3>1, <3>5
  <2> DEFINE t == Append(Handed[e0], accepted[n + 1])
  <2>7. /\ t \in Seq(Result)
        /\ Len(t) = n + 1
        /\ \A i \in 1..n : t[i] = Handed[e0][i]
        /\ t[n + 1] = accepted[n + 1]
    BY <2>4, <2>5, AppendProperties
  <2> HIDE DEF t
  <2>8. \A i \in 1..(n + 1) : Handed'[e0][i] = t[i]
    <3>1. ASSUME NEW i \in 1..n PROVE Handed'[e0][i] = t[i]
      <4>1. i \in 1..(n + 1)
        BY <3>1
      <4>2. Handed'[e0][i] = exported'[e0][i].res
        BY <4>1, <2>6, Zenon
      <4>3. exported'[e0][i] = exported[e0][i]
        BY <3>1, <2>3, Zenon
      <4>4. t[i] = exported[e0][i].res
        BY <3>1, <2>5, <2>7, Zenon
      <4> QED BY <4>2, <4>3, <4>4, Zenon
    <3>2. Handed'[e0][n + 1] = t[n + 1]
      BY <2>3, <2>6, <2>7
    <3> QED BY <3>1, <3>2
  <2>9. Handed'[e0] = t
    BY <2>6, <2>7, <2>8, SeqEqual, Zenon
  <2> QED BY <2>9, Zenon DEF t
<1>6. Handed' = [Handed EXCEPT ![e0] = Append(@, accepted[Len(@) + 1])]
  <2>1. Len(Handed[e0]) = n
    BY <1>0, HandedSeq, Zenon
  <2> QED BY <1>0, <1>4, <1>5, <2>1, Zenon DEF Handed
<1>7. Len(Handed[e0]) < Len(accepted)
  BY <1>0, <1>2, HandedSeq, Zenon
<1> QED BY <1>1, <1>6, <1>7, Zenon DEF D!Deliver, Handed

\* Every step of the pipeline is a step of Delivery or changes nothing there.
LEMMA StepDelivers == PipeInv /\ DrainedInv /\ [AnyStep]_pipeVars => [D!DNext]_(D!dvars)
<1> SUFFICES ASSUME PipeInv, DrainedInv, [AnyStep]_pipeVars PROVE [D!DNext]_(D!dvars)
  OBVIOUS
<1>1. ASSUME NEW r \in Result, ChanSend(r) PROVE D!DNext
  <2>1. D!Accept(r)
    BY <1>1, Zenon DEF ChanSend, runVars, D!Accept, PipeInv, ControlInv
  <2> QED BY <2>1, Zenon DEF D!DNext
<1>2. ASSUME NEW ok \in BOOLEAN, Export(ok) PROVE D!DNext
  <2>1. PICK e0 \in Exporter : e0 = nextExp
    BY Zenon DEF PipeInv, PipeTypeOK
  <2>2. D!Deliver(e0)
    BY <1>2, <2>1, ExportDelivers, Zenon
  <2> QED BY <2>2, Zenon DEF D!DNext, Exporter
<1>3. CASE CloseResults
  <2>1. \A e \in Exporter : Len(exported[e]) = Len(accepted)
    BY <1>3 DEF CloseResults, PipeInv, DrainedInv, FanOutInv, PipeTypeOK, Dispatching, Taken
  <2>2. \A e \in Exporter : Len(Handed[e]) = Len(accepted)
    BY <2>1, HandedSeq, Zenon
  <2>3. D!Finish
    BY <1>3, <2>2, Zenon DEF CloseResults, D!Finish, Handed, Exporter
  <2> QED BY <2>3, Zenon DEF D!DNext
<1>4. CASE Receive \/ DrainReceive
  BY <1>4, Zenon DEF Receive, DrainReceive, TakeResult, D!dvars
<1>5. CASE GoRun \/ CancelCtx \/ SeeDone \/ DrainEmpty
  BY <1>5, Zenon DEF GoRun, CancelCtx, SeeDone, DrainEmpty, chanVars, runVars, D!dvars
<1>6. CASE UNCHANGED pipeVars
  BY <1>6, Zenon DEF pipeVars, D!dvars
<1> QED BY <1>1, <1>2, <1>3, <1>4, <1>5, <1>6, Zenon DEF AnyStep, RunStep

\* An empty pipeline is an empty Delivery.
LEMMA InitDelivers == PipeInit => D!DInit
<1> SUFFICES ASSUME PipeInit PROVE D!DInit
  OBVIOUS
<1>1. ASSUME NEW e \in Exporter
      PROVE  [i \in 1..Len(exported[e]) |-> exported[e][i].res] = <<>>
  <2>1. exported[e] = <<>>
    BY Zenon DEF PipeInit
  <2>2. Len(exported[e]) = 0
    BY <2>1
  <2> QED BY <2>2
<1> QED BY <1>1, Zenon DEF PipeInit, D!DInit, Exporter

\* Pipeline.Run implements Delivery: the code's goroutine, channel and drain
\* keep the abstract promise to every exporter.
THEOREM PipelineImplementsDelivery == PipeSpec => ImplementsDelivery
BY InitDelivers, StepDelivers, PipeNextInv, PipeInvariance, PTL
   DEF PipeSpec, ImplementsDelivery, D!DSpec
=============================================================================
