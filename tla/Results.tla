------------------------------ MODULE Results ------------------------------
(***************************************************************************)
(* What becomes of a types.ProbeResult (pkg/types) in the exporters: the   *)
(* gauges of internal/exporter/otlp and the lines of internal/exporter/    *)
(* stdout.  A loss ratio is "zero", "some" or "all" and dur says whether   *)
(* DurationMS is positive.                                                 *)
(***************************************************************************)
EXTENDS Naturals

StatusFromLoss(loss) ==
  CASE loss = "zero" -> "success"
    [] loss = "all"  -> "failure"
    [] OTHER         -> "partial"

IsUp(status) == status \in {"success", "partial"}

\* The observations a result carries.
Measured(type, r) ==
  [rtt  |-> type # "http" /\ r.rcvd > 0,
   loss |-> r.status # "error",
   dur  |-> type = "http" /\ r.dur,
   port |-> r.port # "nil"]

\* otlp.Export: NaN for what was not measured.
Gauges(type, r) ==
  LET m == Measured(type, r) IN
  [up      |-> IsUp(r.status),
   success |-> r.status = "success",
   rtt     |-> IF m.rtt THEN "measured" ELSE "NaN",
   loss    |-> IF m.loss THEN r.loss ELSE "NaN",
   dur     |-> IF m.dur THEN "measured" ELSE "NaN",
   port    |-> IF m.port THEN r.port ELSE "NaN"]

\* Mutant: re-derives from the status what Measured says.
FieldsByStatus(type, r) ==
  IF r.status = "error" THEN {} ELSE {"loss", IF type = "http" THEN "dur" ELSE "rtt"}

\* stdout.writeJSON: the optional numbers of the record.
writeJSON(type, r) == {k \in {"rtt", "loss", "dur"} : Measured(type, r)[k]}

\* stdout.writeText: the loss if measured, the times whether measured or not.
writeText(type, r) ==
  (IF Measured(type, r).loss THEN {"loss"} ELSE {})
    \cup {IF type = "http" THEN "dur" ELSE "rtt"}
=============================================================================
