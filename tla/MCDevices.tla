------------------------------ MODULE MCDevices ------------------------------
(* dma: a transfer of two bytes with values of one bit and an undefined byte,   *)
(* and time for a second transfer to begin.  cartridge: the bytes around        *)
(* every mask: banks 0 and 31, their neighbours with bit 5 set, the RAM enable  *)
(* nibble, and all bits.  timers: TIMA counts to four, every four cycles or     *)
(* every two; a step of DIV takes two.  ports: two keys that are mapped and one  *)
(* that is not, the bytes of an idle line and of a text, every combination of   *)
(* the start and the clock bit.  clocks: DIV of four steps of two cycles whose   *)
(* upper bit makes the events, and counters that overflow after four events.    *)
EXTENDS Devices

ChosenBytes == {0, 1, 2, 3, 10, 31, 32, 33, 96, 255}
TimerPeriod == [tac \in {4, 5} |-> IF tac = 4 THEN 4 ELSE 2]

(* The loop of reduceTimer, one increment after the other, gives what          *)
(* Incremented and Overflows say (here for TIMA values up to 4).               *)
ASSUME LoopAssumption ==
  \A tima, tma \in 0 .. 3, n \in 0 .. 12 :
    LET loop[k \in 0 .. n] ==
          IF k = 0 THEN [TIMA |-> tima, fired |-> FALSE]
          ELSE IF loop[k - 1].TIMA + 1 = 4 THEN [TIMA |-> tma, fired |-> TRUE]
          ELSE [TIMA |-> loop[k - 1].TIMA + 1, fired |-> loop[k - 1].fired]
    IN  /\ loop[n].TIMA = Timer!Incremented(tima, tma, n)
        /\ loop[n].fired = Timer!Overflows(tima, n)
=============================================================================
