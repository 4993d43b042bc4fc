------------------------------ MODULE ImeDelay ------------------------------
(* What EI and DI promise: a request takes effect after one more instruction. *)
(* Entering a handler disables at once, RETI enables at once.                 *)

VARIABLES
  effective,  \* interrupts are enabled
  requested,  \* what EI or DI asked for last
  pending     \* some enabled line waits for its handler

vars == <<effective, requested, pending>>

Init == effective = TRUE /\ requested = TRUE /\ pending \in BOOLEAN

(* One clock begins with the entry into a handler, when there is a line and   *)
(* interrupts are enabled; the entry withdraws what was requested.            *)
Enters == pending /\ effective
before == IF Enters THEN FALSE ELSE requested

(* An instruction completes: what was requested before it takes effect, and   *)
(* it may leave a new request.                                                *)
Completes == effective' = before /\ requested' \in BOOLEAN
Reti == effective' = TRUE /\ requested' = TRUE

(* An instruction that does not complete leaves the requests as they are.     *)
Trapped == effective' = (effective /\ ~Enters) /\ requested' = before

(* A device raises a line.                                                    *)
Raise == pending' = TRUE /\ UNCHANGED <<effective, requested>>

Next == pending' \in BOOLEAN /\ (Completes \/ Reti \/ Trapped \/ Raise)

Spec == Init /\ [][Next]_vars
=============================================================================
