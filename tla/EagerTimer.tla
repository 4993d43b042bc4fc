----------------------------- MODULE EagerTimer -----------------------------
(* A timer that counts every cycle when it passes: what a program with access *)
(* to TIMA, DIV and the interrupt flag may rely on.                           *)
EXTENDS TimaCounter

CONSTANTS CycleCount, DivStep, DivCount, Period, TacValues

VARIABLES cycle, DIV, sub, TIMA, TMA, TAC, requested

Enabled == TAC \in DOMAIN Period
counters == <<cycle, DIV>>

Init ==
  /\ cycle = 0 /\ DIV = 0 /\ sub = 0
  /\ TIMA = 0 /\ TMA = 0 /\ TAC \notin DOMAIN Period /\ requested = FALSE

Count(n) ==
  /\ TIMA' = Incremented(TIMA, TMA, n)
  /\ requested' = (requested \/ Overflows(TIMA, n))

Cycle ==
  /\ cycle' = (cycle + 1) % CycleCount
  /\ DIV' = (cycle' \div DivStep) % DivCount
  /\ IF Enabled /\ sub + 1 = Period[TAC]
     THEN sub' = 0 /\ Count(1)
     ELSE sub' = sub + 1 /\ Count(0)
  /\ UNCHANGED <<TMA, TAC>>

WriteTima(value) == TIMA' = value /\ UNCHANGED <<counters, sub, TMA, TAC, requested>>

(* The timer is set up while it is stopped; starting it counts the cycles     *)
(* that have passed meanwhile.                                                *)
WriteTma(value) ==
  /\ ~Enabled
  /\ TMA' = value
  /\ UNCHANGED <<counters, sub, TIMA, TAC, requested>>

WriteTac(value) ==
  /\ ~Enabled
  /\ TAC' = value
  /\ IF value \in DOMAIN Period
     THEN sub' = sub % Period[value] /\ Count(sub \div Period[value])
     ELSE UNCHANGED <<sub, TIMA, requested>>
  /\ UNCHANGED <<counters, TMA>>

WriteFlag(value) ==
  /\ ~Enabled
  /\ requested' = value
  /\ UNCHANGED <<counters, sub, TIMA, TMA, TAC>>

Acknowledge == requested' = FALSE /\ UNCHANGED <<counters, sub, TIMA, TMA, TAC>>

Next ==
  \/ Cycle \/ Acknowledge
  \/ \E value \in 0 .. TimaCount - 1 : WriteTima(value) \/ WriteTma(value)
  \/ \E value \in TacValues : WriteTac(value)
  \/ \E value \in BOOLEAN : WriteFlag(value)

Step == [Next]_<<counters, sub, TIMA, TMA, TAC, requested>>
=============================================================================
