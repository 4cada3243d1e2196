------------------------------- MODULE MCArp --------------------------------
(***************************************************************************)
(* The instance of Arp that TLC checks: the application sends to two       *)
(* hosts, the stack answers one of them, which changes its hardware.       *)
(***************************************************************************)
EXTENDS Arp

CONSTANTS p, q, h1, h2

Targets == [t \in Thread |-> IF t = Stack THEN {p} ELSE {p, q}]

Hardwares == [pa \in IpAddr |-> IF pa = p THEN {h1, h2} ELSE {h1}]
=============================================================================
