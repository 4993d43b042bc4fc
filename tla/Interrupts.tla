----------------------------- MODULE Interrupts -----------------------------
(* The interrupt side of one CPU clock: CPU::clock and CPU::handleInterrupts  *)
(* of libgb/cpu/cpu.cpp with EI, DI, RETI and HALT of instructions.cpp.       *)
(*                                                                            *)
(* One clock first looks at the requests, perhaps entering a handler, and     *)
(* then executes one instruction, the handler's first one if it entered one.  *)
(* EI and DI write the last of three queued IME values; the queue moves by    *)
(* one place after each instruction that completes.                           *)
(*                                                                            *)
(* IEreg and IFreg are sets of lines. What an instruction does otherwise is left   *)
(* out (CallFrames has the stack).  The variable context is no state of the   *)
(* program: it tells whose code runs, the main program or which handler, and  *)
(* what that code asked for, so that the properties can speak of it.          *)
EXTENDS Integers, FiniteSets, FiniteSetsExt, SequencesExt

CONSTANTS
  Lines,    \* interrupt lines, 0 .. 4 in the program, the lowest served first
  MaxDepth  \* bound: code nested this deep executes no EI, and RETI only to leave

ASSUME LinesAssumption == Lines \subseteq Nat /\ IsFiniteSet(Lines) /\ Lines # {}
ASSUME DepthAssumption == MaxDepth \in Nat /\ MaxDepth > 1

VARIABLES
  IME,      \* registers.IME, three queued values; IME[0] is the current one
  halt,     \* registers.halt
  IEreg,    \* lines enabled  (0xFFFF)
  IFreg,    \* lines requested (0xFF0F)
  context   \* stack of contexts, the running one last

vars == <<IME, halt, IEreg, IFreg, context>>

(* asked: the last of EI and DI this context executed ("none" before one; a   *)
(* RETI it goes on after counts as EI); since: instructions it has completed  *)
(* after that, up to two; enabled: it has completed an instruction after some *)
(* EI of its own, or such a RETI.                                             *)
Fresh == [asked |-> "none", since |-> 2, enabled |-> FALSE]
Running == context[Len(context)]

All(b) == [i \in 0 .. 2 |-> b]

Init ==
  /\ IME = All(TRUE) /\ halt = FALSE
  /\ IEreg = {} /\ IFreg = {}
  /\ context = <<[asked |-> "none", since |-> 2, enabled |-> TRUE]>>

-----------------------------------------------------------------------------
triggered == IEreg \cap IFreg
Accepts == triggered # {} /\ IME[0]
Served == Min(triggered)

(* State of the machine between the two halves of a clock.  (Slip: handler     *)
(* entry clears the current value and leaves what is queued.)                  *)
haltChecked == halt /\ triggered = {}
imeCurrentOnly == IF Accepts THEN [IME EXCEPT ![0] = FALSE] ELSE IME
imeChecked == IF Accepts THEN All(FALSE) ELSE IME
ifChecked == IF Accepts THEN IFreg \ {Served} ELSE IFreg
contextChecked == IF Accepts THEN Append(context, Fresh) ELSE context
runner == contextChecked[Len(contextChecked)]

(* The shift of clock() after an instruction that completed. (Slip: the two     *)
(* assignments are swapped.)                                                    *)
ShiftedSwapped(ime) == [i \in 0 .. 2 |-> ime[2]]
Shifted(ime) == [i \in 0 .. 2 |-> IF i = 0 THEN ime[1] ELSE ime[2]]

(* The running context after an instruction: EI, DI, or any other. *)
Enabled(c) == c.enabled \/ c.asked = "EI"
Asks(c, what) == [asked |-> what, since |-> 0, enabled |-> Enabled(c)]
Older(c) == [c EXCEPT !.since = IF @ < 2 THEN @ + 1 ELSE 2, !.enabled = Enabled(c)]
RunnerBecomes(c) == context' = [contextChecked EXCEPT ![Len(contextChecked)] = c]

(* The clock reaches an instruction. *)
Executes == ~haltChecked

Idle ==
  /\ haltChecked
  /\ UNCHANGED vars

Other ==
  /\ Executes
  /\ IME' = Shifted(imeChecked) /\ halt' = FALSE /\ IFreg' = ifChecked
  /\ RunnerBecomes(Older(runner))
  /\ UNCHANGED IEreg

HALT ==
  /\ Executes
  /\ IME' = Shifted(imeChecked) /\ halt' = TRUE /\ IFreg' = ifChecked
  /\ RunnerBecomes(Older(runner))
  /\ UNCHANGED IEreg

EI ==
  /\ Executes /\ Len(contextChecked) < MaxDepth
  /\ IME' = Shifted([imeChecked EXCEPT ![2] = TRUE])
  /\ halt' = FALSE /\ IFreg' = ifChecked
  /\ RunnerBecomes(Asks(runner, "EI"))
  /\ UNCHANGED IEreg

DI ==
  /\ Executes
  /\ IME' = Shifted([imeChecked EXCEPT ![2] = FALSE])
  /\ halt' = FALSE /\ IFreg' = ifChecked
  /\ RunnerBecomes(Asks(runner, "DI"))
  /\ UNCHANGED IEreg

(* RETI fills the queue wherever it is executed: at the end of a handler, or  *)
(* in a subroutine of the main program or of a handler, whose code goes on.   *)
Enabling == [asked |-> "EI", since |-> 0, enabled |-> TRUE]

RETI ==
  /\ Executes
  /\ IME' = Shifted(All(TRUE)) /\ halt' = FALSE /\ IFreg' = ifChecked
  /\ \/ Len(contextChecked) > 1 /\ context' = Front(contextChecked)
     \/ Len(contextChecked) < MaxDepth /\ RunnerBecomes(Enabling)
  /\ UNCHANGED IEreg

(* RET from a handler.  The RET of a subroutine is Other.                     *)
RET ==
  /\ Executes /\ Len(contextChecked) > 1
  /\ IME' = Shifted(imeChecked) /\ halt' = FALSE /\ IFreg' = ifChecked
  /\ context' = Front(contextChecked)
  /\ UNCHANGED IEreg

WriteIE(lines) ==
  /\ Executes
  /\ IME' = Shifted(imeChecked) /\ halt' = FALSE /\ IFreg' = ifChecked
  /\ IEreg' = lines
  /\ RunnerBecomes(Older(runner))

WriteIF(lines) ==
  /\ Executes
  /\ IME' = Shifted(imeChecked) /\ halt' = FALSE /\ IFreg' = lines
  /\ RunnerBecomes(Older(runner))
  /\ UNCHANGED IEreg

(* The debug-trap opcode throws out of the instruction and the emulator loop  *)
(* goes on (run_standalone): the queue does not move.                         *)
DebugTrap ==
  /\ Executes
  /\ IME' = imeChecked /\ halt' = FALSE /\ IFreg' = ifChecked
  /\ RunnerBecomes(runner)
  /\ UNCHANGED IEreg

(* One call of CPU::clock. *)
Clock ==
  \/ Idle
  \/ Other \/ HALT \/ EI \/ DI \/ RETI \/ RET \/ DebugTrap
  \/ \E lines \in SUBSET Lines : WriteIE(lines) \/ WriteIF(lines)

(* The timers, the LCD and the buttons request lines in io.update(), between  *)
(* two clocks of the CPU.                                                     *)
Request(line) ==
  /\ line \notin IFreg
  /\ IFreg' = IFreg \cup {line}
  /\ UNCHANGED <<IME, halt, IEreg, context>>

Next == Clock \/ \E line \in Lines : Request(line)

Spec == Init /\ [][Next]_vars

-----------------------------------------------------------------------------
TypeOK ==
  /\ IME \in [0 .. 2 -> BOOLEAN]
  /\ halt \in BOOLEAN
  /\ IEreg \subseteq Lines /\ IFreg \subseteq Lines
  /\ Len(context) \in 1 .. MaxDepth
  /\ context \in Seq([asked : {"none", "EI", "DI"}, since : 0 .. 2, enabled : BOOLEAN])

(* Interrupts stay disabled until the one being serviced is over: no handler  *)
(* is entered on top of another one unless that one executed EI and then one  *)
(* more instruction, or the RETI of a subroutine (handleInterrupts, clock,    *)
(* EI, RETI).                                                                 *)
HandlerShielded == Accepts => Running.enabled

(* The queue of three implements a delay of one instruction, with handlers    *)
(* entered exactly when a line waits and the delayed request enables them.    *)
Delay == INSTANCE ImeDelay WITH
  effective <- IME[0], requested <- IME[2], pending <- triggered # {}
QueueIsDelay == Delay!Spec

(* After DI and the instruction after it, the code that executed DI is not    *)
(* interrupted until it executes EI (the description of DI).                  *)
DisabledAfterDI == Running.asked = "DI" /\ Running.since > 0 => ~Accepts
=============================================================================
