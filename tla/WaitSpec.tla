------------------------------ MODULE WaitSpec ------------------------------
(***************************************************************************)
(* What task.rs promises the blocking calls of tcp.rs and udp.rs.  A       *)
(* caller arms itself while it holds the lock of its table (snapshot), lets*)
(* the lock go, and waits.  Every notification after arming releases it,   *)
(* whether or not it had gone to sleep by then.  An interrupt releases all *)
(* the callers that wait and, when nobody does, the next one that waits.   *)
(***************************************************************************)
CONSTANT Waiters

VARIABLES armed,      \* the callers between snapshot() and the end of wait_after()
          signalled,  \* the armed callers notified since they were armed
          intr,       \* an interrupt is pending
          result      \* what each caller's last wait_after() returned

vars == <<armed, signalled, intr, result>>

Results == {"None", "Notified", "Interrupted"}

Init ==
  /\ armed = {}
  /\ signalled = {}
  /\ intr = FALSE
  /\ result = [w \in Waiters |-> "None"]

Arm(w) ==
  /\ w \notin armed
  /\ armed' = armed \cup {w}
  /\ result' = [result EXCEPT ![w] = "None"]
  /\ UNCHANGED <<signalled, intr>>

Notify ==
  /\ signalled' = armed
  /\ UNCHANGED <<armed, intr, result>>

Interrupt ==
  /\ intr' = TRUE
  /\ UNCHANGED <<armed, signalled, result>>

Leave(w, r) ==
  /\ w \in armed
  /\ armed' = armed \ {w}
  /\ signalled' = signalled \ {w}
  /\ result' = [result EXCEPT ![w] = r]

ReturnNotified(w) ==
  /\ w \in signalled
  /\ ~intr
  /\ Leave(w, "Notified")
  /\ UNCHANGED intr

\* The last caller to leave consumes the interrupt.
ReturnInterrupted(w) ==
  /\ intr
  /\ Leave(w, "Interrupted")
  /\ intr' \in IF armed = {w} THEN {FALSE} ELSE BOOLEAN

Next ==
  \/ Notify
  \/ Interrupt
  \/ \E w \in Waiters : Arm(w) \/ ReturnNotified(w) \/ ReturnInterrupted(w)

Spec == Init /\ [][Next]_vars
=============================================================================
