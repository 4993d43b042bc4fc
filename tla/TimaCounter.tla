----------------------------- MODULE TimaCounter -----------------------------
(* The counting loop of IO::reduceTimer in closed form.                       *)
EXTENDS Integers

CONSTANT TimaCount  \* values of TIMA, 256

TimaAssumption == TimaCount \in Nat \ {0, 1}

(* TIMA after n increments, each overflow continuing from TMA, and whether    *)
(* there was one.                                                             *)
Overflows(tima, n) == tima + n >= TimaCount
Incremented(tima, tma, n) ==
  IF Overflows(tima, n) THEN tma + ((tima + n - TimaCount) % (TimaCount - tma))
                        ELSE tima + n
=============================================================================
