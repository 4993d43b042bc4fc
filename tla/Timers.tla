------------------------------- MODULE Timers -------------------------------
(* The lazily updated timers of libgb/io/io.cpp (updateTimers, reduceTimer,   *)
(* the timer registers of ioRead and ioWrite), driven by GB::clock: update(), *)
(* then one instruction of the CPU, whose memory accesses advance the cycle   *)
(* counter one by one; a halted CPU advances it by one per clock.             *)
(*                                                                            *)
(* TMA, TAC and the interrupt flag are plain memory: writing them settles     *)
(* nothing.  The timer interrupt is enabled in IE.  A write to DIV, which     *)
(* ends the emulator, is left out, and so are the LCD and the APU, which      *)
(* updateTimers advances as well.                                             *)
EXTENDS TimaCounter

CONSTANTS
  CycleCount,     \* size of the cycle counter, 2^64 in the program
  DivStep,        \* cycles per step of DIV, 64
  DivCount,       \* values of DIV, 256
  Period,         \* cycles per count for the values of TAC that enable: 256, 4, 16, 64
  TacValues,      \* values the program writes to TAC
  TmaValues,      \* and to TMA and TIMA
  MaxInstruction, \* bound: cycles between two updates
  MaxBacklog      \* bound: cycles left uncounted while the timer is stopped

CounterAssumption ==
  /\ DivStep \in Nat \ {0} /\ DivCount \in Nat \ {0}
  /\ \E k \in 1 .. CycleCount : CycleCount = k * DivStep * DivCount
PeriodAssumption ==
  /\ DOMAIN Period \subseteq Nat \ {0}
  /\ \A tac \in DOMAIN Period : Period[tac] \in 1 .. MaxBacklog
ProgramAssumption ==
  /\ TacValues \subseteq Nat /\ TmaValues \subseteq 0 .. TimaCount - 1
  /\ MaxInstruction \in 1 .. CycleCount - 1

VARIABLES
  cycle, lastCycle, tCycleCount,
  DIV, TIMA, TMA, TAC, requested,  \* io memory; requested is the timer bit of 0xFF0F
  halt,
  stage,  \* of GB::clock: "update", "fetch" or "instruction"
  reconfigured  \* no state of the program: TMA, TAC or the flag was written while the
                \* timer was running

registers == <<DIV, TIMA, TMA, TAC, requested>>
vars == <<cycle, lastCycle, tCycleCount, registers, halt, stage, reconfigured>>

Init ==
  /\ cycle = 0 /\ lastCycle = 0 /\ tCycleCount = 0
  /\ DIV = 0 /\ TIMA = 0 /\ TMA = 0 /\ TAC = 0 /\ requested = FALSE
  /\ halt = FALSE /\ stage = "update" /\ reconfigured = FALSE

Enabled == TAC \in DOMAIN Period
dt == (cycle - lastCycle + CycleCount) % CycleCount

(* The whole periods that reduceTimer takes out of a count.  (Slip: a period   *)
(* is taken only when more than it has passed.)                               *)
PeriodsLate(cycles) == IF cycles = 0 THEN 0 ELSE (cycles - 1) \div Period[TAC]
Periods(cycles) == cycles \div Period[TAC]

(* What updateTimers makes of tCycleCount, TIMA and the flag. *)
count == tCycleCount + dt
counted == IF Enabled THEN Periods(count) ELSE 0
updated == [tCycleCount |-> IF Enabled THEN count - counted * Period[TAC] ELSE count,
            TIMA |-> Incremented(TIMA, TMA, counted),
            requested |-> requested \/ Overflows(TIMA, counted)]

divNow == (cycle \div DivStep) % DivCount

updateTimers ==
  /\ lastCycle' = cycle
  /\ tCycleCount' = updated.tCycleCount
  /\ DIV' = divNow

-----------------------------------------------------------------------------
(* GB::clock: io.update(), and the look at the interrupts the CPU takes next: *)
(* a request ends the halt, and clears the flag if a handler is entered.      *)
Update ==
  /\ stage = "update"
  /\ updateTimers /\ TIMA' = updated.TIMA
  /\ requested' \in {updated.requested, FALSE}
  /\ halt' = (halt /\ ~updated.requested)
  /\ stage' = "fetch"
  /\ UNCHANGED <<cycle, TMA, TAC, reconfigured>>

(* Slip: no time passes while the CPU is halted. *)
Frozen == UNCHANGED cycle
Advance == cycle' = (cycle + 1) % CycleCount

HaltedCycle ==
  /\ stage = "fetch" /\ halt
  /\ Advance
  /\ stage' = "update"
  /\ UNCHANGED <<lastCycle, tCycleCount, registers, halt, reconfigured>>

Fetch ==
  /\ stage = "fetch" /\ ~halt
  /\ cycle' = (cycle + 1) % CycleCount
  /\ stage' = "instruction"
  /\ UNCHANGED <<lastCycle, tCycleCount, registers, halt, reconfigured>>

InInstruction == stage = "instruction" /\ UNCHANGED <<cycle, halt, stage>>

Cycle ==
  /\ stage = "instruction" /\ dt < MaxInstruction
  /\ count < MaxBacklog \/ (Enabled /\ tCycleCount < Period[TAC])
  /\ cycle' = (cycle + 1) % CycleCount
  /\ UNCHANGED <<lastCycle, tCycleCount, registers, halt, stage, reconfigured>>

(* ioRead of DIV or TIMA, or of an APU register. *)
ReadTimer ==
  /\ InInstruction
  /\ updateTimers /\ TIMA' = updated.TIMA /\ requested' = updated.requested
  /\ UNCHANGED <<TMA, TAC, reconfigured>>

(* ioWrite. *)
WriteTima(value) ==
  /\ InInstruction
  /\ updateTimers /\ TIMA' = value /\ requested' = updated.requested
  /\ UNCHANGED <<TMA, TAC, reconfigured>>

Configure == reconfigured' = (reconfigured \/ Enabled)

WriteTma(value) ==
  /\ InInstruction /\ Configure
  /\ TMA' = value
  /\ UNCHANGED <<lastCycle, tCycleCount, DIV, TIMA, TAC, requested>>

WriteTac(value) ==
  /\ InInstruction /\ Configure
  /\ TAC' = value
  /\ UNCHANGED <<lastCycle, tCycleCount, DIV, TIMA, TMA, requested>>

WriteFlag(value) ==
  /\ InInstruction /\ Configure
  /\ requested' = value
  /\ UNCHANGED <<lastCycle, tCycleCount, DIV, TIMA, TMA, TAC>>

(* The instruction ends, a HALT or any other.  A HALT while the timer is       *)
(* stopped waits for other lines and is left to Interrupts.                   *)
EndInstruction ==
  /\ stage = "instruction"
  /\ Enabled \/ count < MaxBacklog
  /\ halt' \in {FALSE, Enabled}
  /\ stage' = "update"
  /\ UNCHANGED <<cycle, lastCycle, tCycleCount, registers, reconfigured>>

Next ==
  \/ Update \/ HaltedCycle \/ Fetch \/ Cycle \/ EndInstruction
  \/ ReadTimer
  \/ \E value \in TmaValues : WriteTima(value) \/ WriteTma(value)
  \/ \E value \in TacValues : WriteTac(value)
  \/ \E value \in BOOLEAN : WriteFlag(value)

Spec == Init /\ [][Next]_vars

(* The emulator loop calls GB::clock again and again. *)
FairSpec == Spec /\ WF_vars(Update) /\ WF_vars(HaltedCycle)

-----------------------------------------------------------------------------
TypeOK ==
  /\ cycle \in 0 .. CycleCount - 1 /\ lastCycle \in 0 .. CycleCount - 1
  /\ tCycleCount \in Nat
  /\ DIV \in 0 .. DivCount - 1
  /\ TIMA \in 0 .. TimaCount - 1 /\ TMA \in 0 .. TimaCount - 1
  /\ TAC \in Nat
  /\ requested \in BOOLEAN /\ halt \in BOOLEAN
  /\ stage \in {"update", "fetch", "instruction"}

(* To a program that sets the timer up while it is stopped, the lazy timers   *)
(* are the eager ones: whatever the lengths of its instructions, and wherever *)
(* in them it reads or writes TIMA, it finds what a timer that counts every   *)
(* cycle would hold, and no overflow is lost or doubled (updateTimers).       *)
Eager == INSTANCE EagerTimer WITH
  DIV <- divNow, sub <- updated.tCycleCount,
  TIMA <- updated.TIMA, requested <- updated.requested
LazyIsEager == Eager!Init /\ [][~reconfigured' => Eager!Step]_vars

(* A CPU halted while the timer runs wakes up: time passes in a halt and  *)
(* the update after it sees the overflow (clock, handleInterrupts).           *)
HaltWakes == halt ~> ~halt
=============================================================================
