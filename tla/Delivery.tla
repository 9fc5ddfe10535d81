------------------------------ MODULE Delivery ------------------------------
(***************************************************************************)
(* What the pipeline promises its users, independently of goroutines and   *)
(* channels: results are accepted in some order, every exporter is handed  *)
(* each accepted result exactly once and in that order, and delivery only  *)
(* finishes when no exporter lacks an accepted result.                     *)
(***************************************************************************)
EXTENDS Naturals, Sequences

CONSTANTS Result,        \* the results probes produce
          NumExporters   \* exporters are numbered in registration order

VARIABLES log,           \* the accepted results, in order
          delivered,       \* delivered[e]: what exporter e was handed, in order
          finished       \* delivery is over

dvars == <<log, delivered, finished>>

DInit == /\ log = <<>>
         /\ delivered = [e \in 1..NumExporters |-> <<>>]
         /\ finished = FALSE

Accept(r) == /\ ~finished
             /\ log' = Append(log, r)
             /\ UNCHANGED <<delivered, finished>>

Deliver(e) == /\ ~finished
              /\ Len(delivered[e]) < Len(log)
              /\ delivered' = [delivered EXCEPT ![e] = Append(@, log[Len(@) + 1])]
              /\ UNCHANGED <<log, finished>>

Finish == /\ ~finished
          /\ \A e \in 1..NumExporters : Len(delivered[e]) = Len(log)
          /\ finished' = TRUE
          /\ UNCHANGED <<log, delivered>>

DNext == \/ \E r \in Result : Accept(r)
         \/ \E e \in 1..NumExporters : Deliver(e)
         \/ Finish

DSpec == DInit /\ [][DNext]_dvars
=============================================================================
