------------------------------ MODULE Pipeline ------------------------------
(***************************************************************************)
(* internal/pipeline: the buffered results channel, the goroutine          *)
(* Pipeline.Run that reads it, and dispatch, which hands each result to    *)
(* the exporters one after the other.  A result is a member of Result.     *)
(***************************************************************************)
EXTENDS Naturals, Sequences

CONSTANTS
  Result,        \* the results probes produce
  BufferSize,    \* capacity of the results channel
  NumExporters,  \* exporters are numbered in registration order
  MaxSends       \* bound: results offered to the channel

\* parseOpsFile rejects buffer_size <= 0; main always registers one exporter.
ASSUME PipelineAssumption == /\ BufferSize \in Nat \ {0}
                             /\ NumExporters \in Nat \ {0}
                             /\ MaxSends \in Nat

Exporter == 1..NumExporters

VARIABLES
  buf,           \* the channel's buffer
  closed,        \* close(p.results) has happened
  ctxDone,       \* the context passed to Run is cancelled
  runPC,         \* where the goroutine Run is
  cur,           \* <<r>> while dispatch handles r, <<>> otherwise
  nextExp,       \* the exporter dispatch calls next
  exportErrors,  \* exportErrors[e]: calls of onExportError for e
  accepted,      \* history: every result the channel took, in order
  exported       \* history: exported[e] is e's Export calls, in order

chanVars == <<buf, closed, accepted>>
runVars  == <<runPC, cur, nextExp, exportErrors, exported>>
pipeVars == <<buf, closed, ctxDone, runPC, cur, nextExp, exportErrors,
              accepted, exported>>

RunPCs == {"new", "select", "dispatch", "drain", "drainDispatch", "closing", "returned"}

\* One Export call: its result and whether its context was still live.
ExportCall == [res : Result, live : BOOLEAN]

PipeTypeOK ==
  /\ buf \in Seq(Result)
  /\ Len(buf) <= BufferSize
  /\ closed \in BOOLEAN
  /\ ctxDone \in BOOLEAN
  /\ runPC \in RunPCs
  /\ cur \in Seq(Result)
  /\ nextExp \in Exporter
  /\ exportErrors \in [Exporter -> Nat]
  /\ accepted \in Seq(Result)
  /\ exported \in [Exporter -> Seq(ExportCall)]

-----------------------------------------------------------------------------
\* New: an empty channel, Run not yet started.
PipeInit ==
  /\ buf = <<>>
  /\ closed = FALSE
  /\ ctxDone = FALSE
  /\ runPC = "new"
  /\ cur = <<>>
  /\ nextExp = 1
  /\ exportErrors = [e \in Exporter |-> 0]
  /\ accepted = <<>>
  /\ exported = [e \in Exporter |-> <<>>]

\* The case `s.results <- result` of a sender: it needs a free slot.
HasRoom == Len(buf) < BufferSize

ChanSend(r) ==
  /\ ~closed
  /\ HasRoom
  /\ buf' = Append(buf, r)
  /\ accepted' = Append(accepted, r)
  /\ UNCHANGED <<closed, ctxDone, runVars>>

\* cancel() of the context main passes to Run.
CancelCtx ==
  /\ ~ctxDone
  /\ ctxDone' = TRUE
  /\ UNCHANGED <<chanVars, runVars>>

\* go pipe.Run(ctx)
GoRun ==
  /\ runPC = "new"
  /\ runPC' = "select"
  /\ UNCHANGED <<chanVars, ctxDone, cur, nextExp, exportErrors, exported>>

\* Take the oldest result off the channel and enter dispatch.
TakeResult(into) ==
  /\ buf # <<>>
  /\ cur' = <<Head(buf)>>
  /\ buf' = Tail(buf)
  /\ nextExp' = 1
  /\ runPC' = into
  /\ UNCHANGED <<closed, ctxDone, exportErrors, accepted, exported>>

\* Outer select, result case.  The select picks at random when the context is
\* done as well.  Its !ok branch is dead: only Run closes the channel.
Receive == runPC = "select" /\ TakeResult("dispatch")

\* Mutant: Run returns on ctx.Done() without draining.
SkipDrain ==
  /\ runPC = "select"
  /\ ctxDone
  /\ runPC' = "closing"
  /\ UNCHANGED <<chanVars, ctxDone, cur, nextExp, exportErrors, exported>>

\* Outer select, ctx.Done case.
SeeDone ==
  /\ runPC = "select"
  /\ ctxDone
  /\ runPC' = "drain"
  /\ UNCHANGED <<chanVars, ctxDone, cur, nextExp, exportErrors, exported>>

\* Inner select, result case.
DrainReceive == runPC = "drain" /\ TakeResult("drainDispatch")

\* Mutant: the drain stops after at most one result.
DrainOnce ==
  /\ runPC = "drain"
  /\ runPC' = "closing"
  /\ UNCHANGED <<chanVars, ctxDone, cur, nextExp, exportErrors, exported>>

\* Mutant: the drain's default case goes round again instead of returning.
SpinningDrain ==
  /\ runPC = "drain"
  /\ buf = <<>>
  /\ UNCHANGED pipeVars

\* Inner select, default case: the channel is seen empty ...
DrainEmpty ==
  /\ runPC = "drain"
  /\ buf = <<>>
  /\ runPC' = "closing"
  /\ UNCHANGED <<chanVars, ctxDone, cur, nextExp, exportErrors, exported>>

\* ... and close(p.results); return, whose deferred close(p.done) releases Wait.
CloseResults ==
  /\ runPC = "closing"
  /\ closed' = TRUE
  /\ runPC' = "returned"
  /\ UNCHANGED <<buf, accepted, ctxDone, cur, nextExp, exportErrors, exported>>

\* The outer case passes Run's own context to the exporters, the drain passes
\* context.Background().
ContextLive == runPC = "drainDispatch" \/ ~ctxDone

\* Where dispatch continues after one exporter: the next one, or back in Run.
AfterExport ==
  IF nextExp < NumExporters
  THEN nextExp' = nextExp + 1 /\ UNCHANGED <<runPC, cur>>
  ELSE /\ nextExp' = 1
       /\ cur' = <<>>
       /\ runPC' = IF runPC = "dispatch" THEN "select" ELSE "drain"

\* Mutant: an exporter's error ends the fan-out (a `return err` in the loop).
AbortingExport(ok) ==
  /\ runPC \in {"dispatch", "drainDispatch"}
  /\ exported' = [exported EXCEPT ![nextExp] =
                    Append(@, [res |-> cur[1], live |-> ContextLive])]
  /\ exportErrors' = [exportErrors EXCEPT ![nextExp] = @ + IF ok THEN 0 ELSE 1]
  /\ IF ok THEN AfterExport
     ELSE /\ nextExp' = 1
          /\ cur' = <<>>
          /\ runPC' = IF runPC = "dispatch" THEN "select" ELSE "drain"
  /\ UNCHANGED <<chanVars, ctxDone>>

\* One iteration of dispatch's loop.  A failing exporter is counted and the
\* loop goes on with the next one.
Export(ok) ==
  /\ runPC \in {"dispatch", "drainDispatch"}
  /\ exported' = [exported EXCEPT ![nextExp] =
                    Append(@, [res |-> cur[1], live |-> ContextLive])]
  /\ exportErrors' = [exportErrors EXCEPT ![nextExp] = @ + IF ok THEN 0 ELSE 1]
  /\ AfterExport
  /\ UNCHANGED <<chanVars, ctxDone>>

RunStep == \/ Receive \/ SeeDone \/ DrainReceive \/ DrainEmpty \/ CloseResults
           \/ \E ok \in BOOLEAN : Export(ok)

-----------------------------------------------------------------------------
\* The pipeline on its own: senders keep Run's shutdown contract (none sends
\* once the context is cancelled), main starts Run before it can cancel it.
Send(r) == /\ ~ctxDone
           /\ Len(accepted) < MaxSends
           /\ ChanSend(r)

Cancel == runPC # "new" /\ CancelCtx

Returned == runPC = "returned" /\ UNCHANGED pipeVars

PipeNext == \/ GoRun
            \/ \E r \in Result : Send(r)
            \/ Cancel
            \/ RunStep
            \/ Returned

PipeSpec == PipeInit /\ [][PipeNext]_pipeVars

\* Goroutines that can run are scheduled.  Nobody owes the pipeline a result
\* or a cancellation.
PipeFairSpec == PipeSpec /\ WF_pipeVars(GoRun) /\ WF_pipeVars(RunStep)

-----------------------------------------------------------------------------
\* Every exporter is handed the accepted results in the order the channel took
\* them, none skipped and none twice, whatever other exporters return; and the
\* fan-out is in registration order, so two exporters are never more than one
\* result apart (dispatch).
FanOutInOrder ==
  \A e \in Exporter :
    /\ Len(exported[e]) <= Len(accepted)
    /\ \A i \in 1..Len(exported[e]) : exported[e][i].res = accepted[i]
    /\ \A f \in Exporter : f > e =>
         Len(exported[e]) \in {Len(exported[f]), Len(exported[f]) + 1}

\* When Run has returned, so that main's pipe.Wait() can go on to close the
\* exporters, no accepted result is still on its way to an exporter.
DrainComplete ==
  runPC = "returned" =>
    \A e \in Exporter : Len(exported[e]) = Len(accepted)

\* Run implements the abstract promise: accept, deliver in order to everyone,
\* finish only when nothing is owed.
D == INSTANCE Delivery WITH
       log <- accepted,
       delivered <- [e \in Exporter |->
                       [i \in 1..Len(exported[e]) |-> exported[e][i].res]],
       finished <- (runPC = "returned")

\* The pipeline refines Delivery.
ImplementsDelivery == D!DSpec

\* Cancelling the context always ends Run, with results still buffered or a
\* dispatch under way: main's pipe.Wait() cannot hang.
DrainTerminates == ctxDone ~> runPC = "returned"

\* A result the channel took reaches the last exporter, cancelled or not.
EventuallyExported ==
  \A n \in 1..MaxSends :
    Len(accepted) >= n ~> Len(exported[NumExporters]) >= n
=============================================================================
