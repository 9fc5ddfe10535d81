----------------------------- MODULE MCProbeRun -----------------------------
(* ProbeRun on small target lists; n1, n2 are names, a1, a2, a3 addresses. *)
EXTENDS ProbeRun, TLC

CONSTANTS a1, a2, a3, n1, n2

AllKinds == {"icmp", "connect", "syn", "udp", "dns", "http"}

MCAddress == {a1, a2, a3}
NameAndIP == {<<n1, a1>>, <<n2>>}

\* n1 has no address, or one that is given twice; n2 two, with repetition, or
\* three.
MCAnswers == (n1 :> {<<>>, <<a2, a2>>}) @@ (n2 :> {<<a2, a1, a2>>, <<a3, a2, a1>>})
=============================================================================
