---------------------------- MODULE MCTelemetry ----------------------------
(* Instances of Telemetry for TLC: a name, a literal address, two configs. *)
EXTENDS Telemetry

MCAnswers == [www |-> {<<"a1">>, <<"a1", "a2">>}]

Success == [status |-> "success", etype |-> "", sent |-> 2, rcvd |-> 2, loss |-> "zero",
            port |-> "nil", dur |-> FALSE]
\* A port that answers nothing.
Silent  == [Success EXCEPT !.status = "failure", !.rcvd = 0, !.loss = "all", !.port = "false"]
\* A pinger that is cancelled reports an error without a type.
NoPing  == [Success EXCEPT !.status = "error", !.sent = 0, !.rcvd = 0]
Answer  == [Success EXCEPT !.sent = 1, !.rcvd = 1, !.dur = TRUE]
Expired == [Answer EXCEPT !.status = "failure"]
NoReply == [Answer EXCEPT !.status = "error", !.etype = "cancelled", !.rcvd = 0,
                          !.loss = "all", !.dur = FALSE]

MCOutcomes == [icmp |-> {Success, NoPing}, http |-> {Expired, NoReply},
               tcp |-> {Silent}]

Ping == [type |-> "icmp", targets |-> <<"www">>, source |-> "", labels |-> [site |-> "x"]]
Web  == [type |-> "http", targets |-> <<"a1">>, source |-> "", labels |-> [s \in {} |-> ""]]

\* The reload relabels one probe and turns the other into a TCP probe.
MCProbesOf ==
  [k1 |-> [ping |-> Ping, web |-> Web],
   k2 |-> [ping |-> [Ping EXCEPT !.labels = [site |-> "y"]], web |-> [Web EXCEPT !.type = "tcp"]]]
=============================================================================
