----------------------------- MODULE Scheduler ------------------------------
(***************************************************************************)
(* internal/scheduler: the map of workers, the calls Start, Stop and       *)
(* Reload, and one goroutine per worker.  Callers are the goroutines that  *)
(* call the scheduler (main and the /reload handlers); they run            *)
(* concurrently with each other and with the workers.  A worker is an      *)
(* identity that one startLocked call uses.                                *)
(***************************************************************************)
EXTENDS Naturals, FiniteSets

CONSTANTS
  Probe,        \* probe names
  Config,       \* probe configurations that config.Load can return
  ProbesOf,     \* ProbesOf[k]: the names config k declares (unique, see Load)
  Unbuildable,  \* <<k, p>> for which the factory returns an error
  Worker,       \* identities of worker goroutines
  Caller,       \* goroutines that call the scheduler
  NoWorker,     \* a name the map does not hold
  NoCaller,     \* mu is free
  MaxRuns,      \* bound: probe runs of one worker
  MaxTargets    \* bound: results of one run (one per probed address)

ASSUME SchedulerAssumption ==
  /\ Probe # {} /\ Config # {}
  /\ ProbesOf \in [Config -> SUBSET Probe]
  /\ Unbuildable \subseteq Config \X Probe
  /\ NoWorker \notin Worker
  /\ NoCaller \notin Caller
  /\ MaxRuns \in Nat
  /\ MaxTargets \in Nat

VARIABLES
  mu,         \* s.mu: the caller that holds it
  workers,    \* s.workers
  wst,        \* wst[w]: where w's goroutine is; w.done is closed iff "exited"
  wprobe,     \* wprobe[w]: the probe name w was started for
  wcfg,       \* wcfg[w]: the configuration w was started from
  cancelled,  \* workers whose context is cancelled
  runs,       \* runs[w]: probe runs w has begun
  made,       \* made[w]: results w's runs have returned
  pending,    \* pending[w]: results of the current run still to be sent
  dropped,    \* dropped[p]: calls of onDroppedResult for p
  call,       \* call[c]: where c is inside the scheduler
  restart,    \* restart[c]: c called Reload, so Start follows its Stop
  arg,        \* arg[c]: the configuration c called Start or Reload with
  todo,       \* todo[c]: names c's Start loop has still to start
  cancels,    \* cancels[c]: workers c's Stop has still to cancel
  dones,      \* dones[c]: workers c's Stop collected and waits for
  orphans     \* history: live workers whose map entry was overwritten

workerVars == <<wst, wprobe, wcfg, runs, made, pending, dropped>>
callVars   == <<call, restart, arg, todo, cancels, dones>>
schedVars  == <<mu, workers, cancelled, orphans, workerVars, callVars>>

WorkerStates == {"unborn", "select", "running", "sending", "exited"}
CallStates   == {"idle", "stop", "cancelling", "start", "starting"}

Live(w) == wst[w] \notin {"unborn", "exited"}
LiveWorkers == {w \in Worker : Live(w)}

\* The workers s.workers holds.
Registered == {workers[p] : p \in Probe} \ {NoWorker}

SchedTypeOK ==
  /\ mu \in Caller \cup {NoCaller}
  /\ workers \in [Probe -> Worker \cup {NoWorker}]
  /\ wst \in [Worker -> WorkerStates]
  /\ wprobe \in [Worker -> Probe]
  /\ wcfg \in [Worker -> Config]
  /\ cancelled \subseteq Worker
  /\ orphans \subseteq Worker
  /\ runs \in [Worker -> 0..MaxRuns]
  /\ made \in [Worker -> Nat]
  /\ pending \in [Worker -> 0..MaxTargets]
  /\ dropped \in [Probe -> Nat]
  /\ call \in [Caller -> CallStates]
  /\ restart \in [Caller -> BOOLEAN]
  /\ arg \in [Caller -> Config]
  /\ todo \in [Caller -> SUBSET Probe]
  /\ cancels \in [Caller -> SUBSET Worker]
  /\ dones \in [Caller -> SUBSET Worker]

\* New: no workers, nobody inside.  wprobe, wcfg and arg mean nothing yet.
SchedInit ==
  /\ mu = NoCaller
  /\ workers = [p \in Probe |-> NoWorker]
  /\ wst = [w \in Worker |-> "unborn"]
  /\ wprobe = [w \in Worker |-> CHOOSE p \in Probe : TRUE]
  /\ wcfg = [w \in Worker |-> CHOOSE k \in Config : TRUE]
  /\ cancelled = {}
  /\ orphans = {}
  /\ runs = [w \in Worker |-> 0]
  /\ made = [w \in Worker |-> 0]
  /\ pending = [w \in Worker |-> 0]
  /\ dropped = [p \in Probe |-> 0]
  /\ call = [c \in Caller |-> "idle"]
  /\ restart = [c \in Caller |-> FALSE]
  /\ arg = [c \in Caller |-> CHOOSE k \in Config : TRUE]
  /\ todo = [c \in Caller |-> {}]
  /\ cancels = [c \in Caller |-> {}]
  /\ dones = [c \in Caller |-> {}]

-----------------------------------------------------------------------------
(* Start, Stop, Reload *)

\* Entering the scheduler: c calls Start(k), Stop() or Reload(k).
Enter(c, state, again, k) ==
  /\ call[c] = "idle"
  /\ call' = [call EXCEPT ![c] = state]
  /\ restart' = [restart EXCEPT ![c] = again]
  /\ arg' = [arg EXCEPT ![c] = k]
  /\ UNCHANGED <<mu, workers, cancelled, orphans, workerVars, todo, cancels, dones>>

CallStart(c, k)  == Enter(c, "start", FALSE, k)
CallStop(c)      == Enter(c, "stop", FALSE, arg[c])
CallReload(c, k) == Enter(c, "stop", TRUE, k)

\* Start: s.mu.Lock(); the lock is kept for the whole loop over cfgs.
LockStart(c) ==
  /\ call[c] = "start"
  /\ mu = NoCaller
  /\ mu' = c
  /\ call' = [call EXCEPT ![c] = "starting"]
  /\ todo' = [todo EXCEPT ![c] = ProbesOf[arg[c]]]
  /\ UNCHANGED <<workers, cancelled, orphans, workerVars, restart, arg, cancels, dones>>

\* startLocked when the factory builds the prober: a fresh worker takes the
\* name's entry, whatever the entry held, and its goroutine runs.
StartOne(c, p) ==
  /\ call[c] = "starting"
  /\ p \in todo[c]
  /\ <<arg[c], p>> \notin Unbuildable
  /\ \E v \in Worker : wst[v] = "unborn"
  /\ LET w == CHOOSE v \in Worker : wst[v] = "unborn"
     IN /\ workers' = [workers EXCEPT ![p] = w]
        /\ orphans' = orphans \cup ({workers[p]} \ {NoWorker})
        /\ wst' = [wst EXCEPT ![w] = "select"]
        /\ wprobe' = [wprobe EXCEPT ![w] = p]
        /\ wcfg' = [wcfg EXCEPT ![w] = arg[c]]
  /\ todo' = [todo EXCEPT ![c] = @ \ {p}]
  /\ UNCHANGED <<mu, cancelled, runs, made, pending, dropped,
                 call, restart, arg, cancels, dones>>

\* startLocked when the factory fails: logged, the loop goes on.
StartFails(c, p) ==
  /\ call[c] = "starting"
  /\ p \in todo[c]
  /\ <<arg[c], p>> \in Unbuildable
  /\ todo' = [todo EXCEPT ![c] = @ \ {p}]
  /\ UNCHANGED <<mu, workers, cancelled, orphans, workerVars,
                 call, restart, arg, cancels, dones>>

\* Mutant: Start forgets to unlock.
NoUnlock(c) ==
  /\ call[c] = "starting"
  /\ todo[c] = {}
  /\ call' = [call EXCEPT ![c] = "idle"]
  /\ UNCHANGED <<mu, workers, cancelled, orphans, workerVars,
                 restart, arg, todo, cancels, dones>>

\* Start returns; the deferred s.mu.Unlock().
UnlockStart(c) ==
  /\ call[c] = "starting"
  /\ todo[c] = {}
  /\ mu' = NoCaller
  /\ call' = [call EXCEPT ![c] = "idle"]
  /\ UNCHANGED <<workers, cancelled, orphans, workerVars,
                 restart, arg, todo, cancels, dones>>

\* Mutant: Stop leaves the entries in the map.
KeepingCollect(c) ==
  /\ call[c] = "stop"
  /\ mu = NoCaller
  /\ cancels' = [cancels EXCEPT ![c] = Registered]
  /\ dones' = [dones EXCEPT ![c] = Registered]
  /\ call' = [call EXCEPT ![c] = "cancelling"]
  /\ UNCHANGED <<mu, workers, cancelled, orphans, workerVars, restart, arg, todo>>

\* Stop, under s.mu: copy every cancel and done, empty the map.
Collect(c) ==
  /\ call[c] = "stop"
  /\ mu = NoCaller
  /\ cancels' = [cancels EXCEPT ![c] = Registered]
  /\ dones' = [dones EXCEPT ![c] = Registered]
  /\ workers' = [p \in Probe |-> NoWorker]
  /\ call' = [call EXCEPT ![c] = "cancelling"]
  /\ UNCHANGED <<mu, cancelled, orphans, workerVars, restart, arg, todo>>

\* One iteration of `for _, cancel := range cancels`, in map order.
CancelOne(c, w) ==
  /\ call[c] = "cancelling"
  /\ w \in cancels[c]
  /\ cancelled' = cancelled \cup {w}
  /\ cancels' = [cancels EXCEPT ![c] = @ \ {w}]
  /\ UNCHANGED <<mu, workers, orphans, workerVars, call, restart, arg, todo, dones>>

\* Mutant: Stop does not wait for the goroutines.
HastyStopReturn(c) ==
  /\ call[c] = "cancelling"
  /\ cancels[c] = {}
  /\ dones' = [dones EXCEPT ![c] = {}]
  /\ call' = [call EXCEPT ![c] = IF restart[c] THEN "start" ELSE "idle"]
  /\ UNCHANGED <<mu, workers, cancelled, orphans, workerVars,
                 restart, arg, todo, cancels>>

\* `<-done` for every collected worker; then Stop returns, to Reload's Start
\* or to its caller.
StopReturn(c) ==
  /\ call[c] = "cancelling"
  /\ cancels[c] = {}
  /\ \A w \in dones[c] : wst[w] = "exited"
  /\ dones' = [dones EXCEPT ![c] = {}]
  /\ call' = [call EXCEPT ![c] = IF restart[c] THEN "start" ELSE "idle"]
  /\ UNCHANGED <<mu, workers, cancelled, orphans, workerVars,
                 restart, arg, todo, cancels>>

CallStep(c) == \/ LockStart(c)
               \/ UnlockStart(c)
               \/ Collect(c)
               \/ StopReturn(c)
               \/ \E p \in Probe : StartOne(c, p) \/ StartFails(c, p)
               \/ \E w \in Worker : CancelOne(c, w)

-----------------------------------------------------------------------------
(* The goroutine of a worker *)

restVars == <<mu, workers, cancelled, orphans, wprobe, wcfg, callVars>>

\* case <-ticker.C.  A select whose ctx.Done() is ready too picks either, so a
\* cancelled worker may begin one more run.
Tick(w) ==
  /\ wst[w] = "select"
  /\ runs[w] < MaxRuns
  /\ runs' = [runs EXCEPT ![w] = @ + 1]
  /\ wst' = [wst EXCEPT ![w] = "running"]
  /\ UNCHANGED <<restVars, made, pending, dropped>>

\* p.Run(runCtx) returns n results (none when there is nothing to probe).
RunReturns(w, n) ==
  /\ wst[w] = "running"
  /\ made' = [made EXCEPT ![w] = @ + n]
  /\ pending' = [pending EXCEPT ![w] = n]
  /\ wst' = [wst EXCEPT ![w] = IF n = 0 THEN "select" ELSE "sending"]
  /\ UNCHANGED <<restVars, runs, dropped>>

\* The result the sending loop offers next: w's results are numbered.
NextResult(w) == [worker |-> w, num |-> made[w] - pending[w] + 1]

\* Mutant: the loop runs one index too far.
SendTooMany(w, taken) ==
  /\ wst[w] = "sending"
  /\ pending' = [pending EXCEPT ![w] = @ - 1]
  /\ wst' = [wst EXCEPT ![w] = IF pending[w] = 0 THEN "select" ELSE "sending"]
  /\ dropped' = [dropped EXCEPT ![wprobe[w]] = @ + IF taken THEN 0 ELSE 1]
  /\ UNCHANGED <<restVars, runs, made>>

\* Mutant: a dropped result is not recorded.
SilentDrop(w, taken) ==
  /\ wst[w] = "sending"
  /\ pending' = [pending EXCEPT ![w] = @ - 1]
  /\ wst' = [wst EXCEPT ![w] = IF pending[w] = 1 THEN "select" ELSE "sending"]
  /\ UNCHANGED <<restVars, runs, made, dropped>>

\* One iteration of the sending loop: the channel took the result, or it was
\* full and the drop is recorded under the probe's name.
SendOne(w, taken) ==
  /\ wst[w] = "sending"
  /\ pending' = [pending EXCEPT ![w] = @ - 1]
  /\ wst' = [wst EXCEPT ![w] = IF pending[w] = 1 THEN "select" ELSE "sending"]
  /\ dropped' = [dropped EXCEPT ![wprobe[w]] = @ + IF taken THEN 0 ELSE 1]
  /\ UNCHANGED <<restVars, runs, made>>

\* Mutant: `break` leaves the select, not the loop.
BreakNotReturn(w) ==
  /\ wst[w] = "select"
  /\ w \in cancelled
  /\ UNCHANGED schedVars

\* case <-ctx.Done(): return; the deferred close(w.done).
ExitWorker(w) ==
  /\ wst[w] = "select"
  /\ w \in cancelled
  /\ wst' = [wst EXCEPT ![w] = "exited"]
  /\ UNCHANGED <<restVars, runs, made, pending, dropped>>

-----------------------------------------------------------------------------
(* The scheduler on its own, under any concurrent use of its three calls *)

\* Bound: a call begins only while enough unused identities are left for every
\* call in progress.
WorkersLeft(c) ==
  Cardinality({w \in Worker : wst[w] = "unborn"}) >=
    Cardinality(Probe) * Cardinality({d \in Caller : call[d] # "idle"} \cup {c})

WorkerStep(w) == \/ Tick(w)
                 \/ \E n \in 0..MaxTargets : RunReturns(w, n)
                 \/ \E taken \in BOOLEAN : SendOne(w, taken)
                 \/ ExitWorker(w)

SchedNext ==
  \/ \E c \in Caller : CallStop(c) \/ CallStep(c)
  \/ \E c \in Caller, k \in Config :
       WorkersLeft(c) /\ (CallStart(c, k) \/ CallReload(c, k))
  \/ \E w \in Worker : WorkerStep(w)

SchedSpec == SchedInit /\ [][SchedNext]_schedVars

\* A goroutine that can run is scheduled; a prober's run ends, its context has
\* a timeout.  Strong fairness of the exit: select picks at random among its
\* ready cases, so Done is not passed over for ever.  Strong fairness of the
\* locks: sync.Mutex hands itself over to a starving waiter.
SchedFairness ==
  /\ \A w \in Worker :
       /\ WF_schedVars(\E n \in 0..MaxTargets : RunReturns(w, n))
       /\ WF_schedVars(\E taken \in BOOLEAN : SendOne(w, taken))
       /\ SF_schedVars(ExitWorker(w))
  /\ \A c \in Caller :
       /\ WF_schedVars(CallStep(c))
       /\ SF_schedVars(LockStart(c))
       /\ SF_schedVars(Collect(c))

SchedFairSpec == SchedSpec /\ SchedFairness

-----------------------------------------------------------------------------
\* Every name in s.workers stands for a goroutine that runs that probe and
\* that nobody has cancelled: WorkerCount (the size of the map) counts no dead one,
\* and no Stop can wait twice for one (startLocked, Stop).
MapHoldsRunningWorkers ==
  \A p \in Probe : workers[p] # NoWorker =>
    /\ Live(workers[p])
    /\ wprobe[workers[p]] = p
    /\ workers[p] \notin cancelled
    /\ \A c \in Caller : workers[p] \notin dones[c]

\* No goroutine escapes: a live worker can be found through the map, or some
\* Stop is waiting for it, or a Start overwrote its entry (startLocked).
WorkersAccountedFor ==
  \A w \in LiveWorkers :
    \/ w \in Registered
    \/ w \in orphans
    \/ \E c \in Caller : w \in dones[c]

\* A worker told to stop has a Stop call waiting for it until it has exited.
CancelledAreAwaited ==
  \A w \in cancelled : Live(w) => \E c \in Caller : w \in dones[c]

\* Every call returns: no Stop waits for ever for a worker, no Start for the
\* lock, however calls and workers interleave.
CallsReturn == \A c \in Caller : call[c] # "idle" ~> call[c] = "idle"

\* A worker that is told to stop exits, even in the middle of a run and with
\* results still to send: the sending loop never blocks.
CancelledExit == \A w \in Worker : w \in cancelled ~> wst[w] = "exited"
=============================================================================
