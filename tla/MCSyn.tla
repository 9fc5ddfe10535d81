------------------------------- MODULE MCSyn -------------------------------
(***************************************************************************)
(* Instances of Syn for TLC.                                               *)
(***************************************************************************)
EXTENDS Syn

\* 192.168.1.10; targets 10.0.0.1 and an IPv6 address; another host, 10.0.0.2.
Host == <<49320, 266>>
T1 == <<2560, 1>>
T2 == <<2560, 2>>
MCLocal == {Host}
MCAddr == {T1, <<8193, 3512, 0, 0, 0, 0, 0, 1>>}

\* The number before the wrap, and one for which the words of the SYN from port
\* 40000 to T1:443 add up to 3 * 65536 - 1: adding the carry carries again.
Top == [hi |-> 65535, lo |-> 65535]
MCSeq32 == {Top, [hi |-> 0, lo |-> 17974]}

\* SYN/ACKs to other programs of the host, one from the target and one from T2 to
\* a SYN like an attempt's; and the target resets a connection of another program.
Other(dst, n) == [src |-> Host, dst |-> dst, port |-> 443, sport |-> 40000, seq |-> n]
MCNoise == {Reply(Other(T1, Zero), "open"), Reply(Other(T2, Top), "open"),
            Reply(Other(T1, Zero), "reset")}
=============================================================================
