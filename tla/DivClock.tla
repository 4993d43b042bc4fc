------------------------------- MODULE DivClock -------------------------------
(* How the sound unit gets its time: updateTimers of libgb/io/io.cpp, clock_to    *)
(* and the first half of tick_div_apu of libgb/io/apu.cpp.  The counters of the   *)
(* channels are ticked in a loop up to the clock of the machine; the events that   *)
(* age lengths, envelopes and sweeps are falls of a bit of DIV, and are noticed by  *)
(* comparing the DIV of two updates.  What an event does is in Apu, Pulse, Wave    *)
(* and Noise, which take events for granted.                                  *)
(*                                                                            *)
(* Cycles are 2^64 in the program, and so are clocks, of which there are four to   *)
(* a cycle: the clocks wrap first.  GB::reset, which sets the cycles back and      *)
(* leaves the clocks alone, is left out.                                      *)
EXTENDS Integers

CONSTANTS
  CycleCount,      \* size of the counters of cycles and of clocks, 2^64
  DivStep,         \* cycles per step of DIV, 64
  DivCount,        \* values of DIV, 256
  Half,            \* steps of DIV for which the bit keeps its value, 2^4
  EventCount,      \* events that are told apart
  MaxInstruction   \* bound: cycles between two updates

Interval == 2 * Half * DivStep

DivAssumption ==
  /\ CycleCount \in Nat \ {0} /\ DivStep \in Nat \ {0} /\ DivCount \in Nat \ {0}
  /\ Half \in Nat \ {0} /\ EventCount \in Nat \ {0, 1}
  /\ DivCount % (2 * Half) = 0 /\ CycleCount % (DivStep * DivCount) = 0
  /\ CycleCount % (Interval * EventCount) = 0 /\ CycleCount % 4 = 0
(* An instruction with its update is shorter than the bit keeps its value.       *)
InstructionAssumption == MaxInstruction \in 1 .. (Half * DivStep) - 1

VARIABLES
  cycle, DIV,
  m_last_clock, m_last_div_value, m_div_apu_counter,
  lastCycle,
  emu   \* "instruction", or in updateTimers: "event", then "ticks"

vars == <<cycle, DIV, m_last_clock, m_last_div_value, m_div_apu_counter, lastCycle, emu>>

Init ==
  /\ cycle = 0 /\ DIV = 0 /\ lastCycle = 0
  /\ m_last_clock = 0 /\ m_last_div_value = 0 /\ m_div_apu_counter = 0
  /\ emu = "instruction"

(* An access to memory, or the cycle of a halted CPU.                         *)
Cycle ==
  /\ emu = "instruction"
  /\ (cycle - lastCycle + CycleCount) % CycleCount < MaxInstruction
  /\ cycle' = (cycle + 1) % CycleCount
  /\ UNCHANGED <<DIV, m_last_clock, m_last_div_value, m_div_apu_counter, lastCycle, emu>>

(* updateTimers, from io.update() or from an access to a timer or to the sound unit.  *)
UpdateTimers ==
  /\ emu = "instruction" /\ emu' = "event"
  /\ lastCycle' = cycle
  /\ DIV' = (cycle \div DivStep) % DivCount
  /\ UNCHANGED <<cycle, m_last_clock, m_last_div_value, m_div_apu_counter>>

target_clock == (4 * cycle) % CycleCount

(* (Slip: the bit rises.)                                                        *)
Bit(div) == (div \div Half) % 2
BitRises == Bit(m_last_div_value) = 0 /\ Bit(DIV) = 1
BitFalls == Bit(m_last_div_value) = 1 /\ Bit(DIV) = 0
LastDiv == DIV

(* clock_to: the divider once, then the clocks one by one.                    *)
TickDiv ==
  /\ emu = "event" /\ m_last_clock # target_clock
  /\ m_last_div_value' = LastDiv
  /\ m_div_apu_counter' =
       IF BitFalls THEN (m_div_apu_counter + 1) % EventCount ELSE m_div_apu_counter
  /\ emu' = "ticks"
  /\ UNCHANGED <<cycle, DIV, m_last_clock, lastCycle>>

NoTime ==
  /\ emu = "event" /\ m_last_clock = target_clock
  /\ emu' = "instruction"
  /\ UNCHANGED <<cycle, DIV, m_last_clock, m_last_div_value, m_div_apu_counter, lastCycle>>

(* The loop goes up to equality.                                                   *)
Loops == m_last_clock # target_clock

Tick ==
  /\ emu = "ticks" /\ Loops
  /\ m_last_clock' = (m_last_clock + 1) % CycleCount
  /\ UNCHANGED <<cycle, DIV, m_last_div_value, m_div_apu_counter, lastCycle, emu>>

TicksOver ==
  /\ emu = "ticks" /\ ~Loops
  /\ emu' = "instruction"
  /\ UNCHANGED <<cycle, DIV, m_last_clock, m_last_div_value, m_div_apu_counter, lastCycle>>

Update == UpdateTimers \/ TickDiv \/ NoTime \/ Tick \/ TicksOver
Next == Cycle \/ Update

Spec == Init /\ [][Next]_vars

(* GB::clock updates before each instruction, and each instruction or halted      *)
(* clock takes a cycle at least.                                              *)
FairSpec == Spec /\ WF_vars(Update) /\ SF_vars(Cycle)

-----------------------------------------------------------------------------
(* Among the types: outside an update the clocks are those of the last update,     *)
(* on both sides of their overflow.                                           *)
TypeOK ==
  /\ cycle \in 0 .. CycleCount - 1 /\ lastCycle \in 0 .. CycleCount - 1
  /\ DIV \in 0 .. DivCount - 1 /\ m_last_div_value \in 0 .. DivCount - 1
  /\ m_div_apu_counter \in 0 .. EventCount - 1
  /\ emu \in {"instruction", "event", "ticks"}
  /\ m_last_clock \in 0 .. CycleCount - 1
  /\ emu = "instruction" => m_last_clock = (4 * lastCycle) % CycleCount

(* However the updates fall between the cycles, and although DIV is read at        *)
(* updates only, each fall of its bit makes one event: none is missed and none is    *)
(* counted twice (tick_div_apu).                                              *)
EventsCounted ==
  emu = "instruction" => m_div_apu_counter = (lastCycle \div Interval) % EventCount

(* The events do not cease, which is what the end of a length rests on.           *)
EventsKeepComing ==
  \A n \in 0 .. EventCount - 1 : []<>(m_div_apu_counter = n)
=============================================================================
