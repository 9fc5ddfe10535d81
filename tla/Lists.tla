------------------------------- MODULE Lists -------------------------------
(* Lists built by a loop that appends (append(xs, ys...)). *)
EXTENDS Integers, Sequences

\* The sequences of ss one after the other.
Concat(ss) ==
  LET upTo[i \in 0..Len(ss)] == IF i = 0 THEN <<>> ELSE upTo[i - 1] \o ss[i]
  IN  upTo[Len(ss)]
=============================================================================
