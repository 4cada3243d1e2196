----------------------------- MODULE MCNetInput -----------------------------
(***************************************************************************)
(* NetInput for TLC: one thread of the application and two timers, one of  *)
(* which is due at every tick and one at every other.                      *)
(***************************************************************************)
EXTENDS NetInput

CONSTANTS tcp, arp

Timers == {tcp, arp}
Intervals == [h \in Timers |-> IF h = tcp THEN 1 ELSE 2]
=============================================================================
