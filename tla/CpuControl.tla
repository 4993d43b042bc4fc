------------------------------ MODULE CpuControl ------------------------------
(* One clock of the CPU with the stack: handleInterrupts and clock of          *)
(* libgb/cpu/cpu.cpp (Interrupts has them without a stack) around the          *)
(* instructions of CallFrames, executed by a program that keeps to the stack    *)
(* discipline.  A handler is entered by a CALL, which pushes through the checked  *)
(* memory and may be reported half way, after the request was taken and the     *)
(* queue of IME was emptied.                                                  *)
(*                                                                            *)
(* The main program and its handlers keep to the discipline: PUSH and POP       *)
(* balance inside a frame, RET is executed with SP where the frame began, SP is  *)
(* loaded in the outermost frame only, data lives below the stack or in the     *)
(* frame's own pushed words.  All lines are enabled in IE.  The variables bases,  *)
(* handlers and asked are no state of the program, and the sanitizer does not     *)
(* see them: the program's account of its frames, the frames that are handlers',  *)
(* and the last instruction of the program that bears on interrupts: EI, DI,      *)
(* RETI, or the RET that left a handler.                                       *)
EXTENDS CallFrames, FiniteSets

CONSTANTS
  StackLimit,    \* lowest address of the region the stack may grow into
  Lines, Vector  \* interrupt lines, the lowest served first; their handlers

ASSUME StackAssumption ==
  /\ StackLimit \in Addr /\ StackLimit > 0
  /\ \A a \in Addr : a >= StackLimit => a \in PrivateRam
  /\ \A a \in StackTops : StackLimit <= a /\ a <= PowerUpSP
  /\ StackLimit <= PowerUpSP

ASSUME LinesAssumption ==
  Lines \subseteq Nat /\ IsFiniteSet(Lines) /\ Vector \in [Lines -> Code \cap ValidPC]

VARIABLES
  bases,     \* SP at the start of each active frame, the outermost first
  IME, halt, IFreg,
  stage,     \* of CPU::clock: "interrupts" or "instruction"
  handlers,  \* places of the handlers' frames in bases
  asked

allVars == <<vars, bases>>
control == <<IME, halt, IFreg>>
controlVars == <<allVars, control, stage, handlers, asked>>

-----------------------------------------------------------------------------
(* The instructions of a disciplined program.                                  *)
base == bases[Len(bases)]

DisciplinedInit == Init /\ bases = <<PowerUpSP>>

HasRoom == sp >= StackLimit + 2

DCall(nn) ==
  /\ nn \in ValidPC /\ HasRoom
  /\ Call(nn)
  /\ bases' = Append(bases, sp - 2)

DRet ==
  /\ Len(bases) > 1 /\ sp = base
  /\ Ret
  /\ bases' = SubSeq(bases, 1, Len(bases) - 1)

DJump(nn) == nn \in ValidPC /\ Jump(nn) /\ UNCHANGED bases
DPush(w) == HasRoom /\ Push(w) /\ UNCHANGED bases
DPop == sp + 2 <= base /\ Pop /\ UNCHANGED bases

OwnData(a) == a < StackLimit \/ (sp <= a /\ a < base)
DWrite(a, v) == OwnData(a) /\ Write(a, v) /\ UNCHANGED bases
DRead(a) == OwnData(a) /\ Read(a) /\ UNCHANGED bases

DSetSP(a) == Len(bases) = 1 /\ SetSP(a) /\ bases' = <<a>>

(* All instructions but RET. *)
DisciplinedInstruction ==
  \/ \E nn \in Code : DCall(nn) \/ DJump(nn)
  \/ \E w \in PushWords : DPush(w)
  \/ DPop
  \/ \E a \in DataAddrs, v \in DataBytes : DWrite(a, v)
  \/ \E a \in DataAddrs : DRead(a)
  \/ \E a \in StackTops : DSetSP(a)

-----------------------------------------------------------------------------
(* The clock.                                                                 *)
All(b) == [i \in 0 .. 2 |-> b]
Shifted(ime) == [i \in 0 .. 2 |-> IF i = 0 THEN ime[1] ELSE ime[2]]

ControlInit ==
  /\ DisciplinedInit
  /\ IME = All(TRUE) /\ halt = FALSE /\ IFreg = {}
  /\ stage = "interrupts" /\ handlers = <<>> /\ asked = "EI"

-----------------------------------------------------------------------------
(* io.update() comes before each clock. *)
Request(line) ==
  /\ stage = "interrupts" /\ Running
  /\ line \notin IFreg /\ IFreg' = IFreg \cup {line}
  /\ UNCHANGED <<allVars, IME, halt, stage, handlers, asked>>

(* Nothing is served: the queue stays as it is, although a request ends a halt. *)
(* (Slip: the queue is emptied before IME is looked at.)                      *)
EmptiedIgnoring == IF IFreg # {} THEN All(FALSE) ELSE IME
IgnoredQueue == IME

Ignore ==
  /\ stage = "interrupts" /\ Running
  /\ IFreg = {} \/ ~IME[0]
  /\ halt' = (halt /\ IFreg = {})
  /\ stage' = IF halt' THEN "interrupts" ELSE "instruction"
  /\ IME' = IgnoredQueue
  /\ UNCHANGED <<allVars, IFreg, handlers, asked>>

(* The request is taken and the queue emptied first; the push may be reported,  *)
(* and then the clock is over.                                               *)
Enter ==
  LET line == CHOOSE l \in IFreg : \A other \in IFreg : l <= other IN
  /\ stage = "interrupts" /\ IFreg # {} /\ IME[0] /\ HasRoom
  /\ IME' = All(FALSE) /\ halt' = FALSE
  /\ IFreg' = IFreg \ {line}
  /\ Call(Vector[line])
  /\ IF error' = NoError
     THEN /\ bases' = Append(bases, sp - 2) /\ handlers' = Append(handlers, Len(bases'))
          /\ stage' = "instruction"
     ELSE UNCHANGED <<bases, handlers, stage>>
  /\ UNCHANGED asked

-----------------------------------------------------------------------------
(* The end of clock: the queue moves if the instruction was not reported. *)
Completes(ime) ==
  /\ stage = "instruction" /\ stage' = "interrupts"
  /\ IME' = IF error' = NoError THEN Shifted(ime) ELSE ime
  /\ UNCHANGED IFreg

(* Instructions with a stack. *)
Instruction ==
  /\ DisciplinedInstruction
  /\ Completes(IME)
  /\ UNCHANGED <<halt, handlers, asked>>

InHandler == handlers # <<>> /\ Last(handlers) = Len(bases)

(* RET and RETI: from a subroutine or from a handler.  RETI fills the queue     *)
(* first.                                                                     *)
Returns(reti) ==
  /\ DRet
  /\ Completes(IF reti THEN All(TRUE) ELSE IME)
  /\ handlers' = IF InHandler THEN Front(handlers) ELSE handlers
  /\ asked' = IF reti THEN "RETI" ELSE IF InHandler THEN "RET" ELSE asked
  /\ UNCHANGED halt

(* EI, DI and HALT. *)
SetsIME(b) ==
  /\ Running /\ UNCHANGED <<allVars, halt, handlers>>
  /\ Completes([IME EXCEPT ![2] = b])
  /\ asked' = IF b THEN "EI" ELSE "DI"

HALT ==
  /\ Running /\ UNCHANGED <<allVars, handlers, asked>>
  /\ Completes(IME) /\ halt' = TRUE

ControlNext ==
  \/ \E line \in Lines : Request(line)
  \/ Ignore \/ Enter
  \/ Instruction \/ HALT
  \/ \E b \in BOOLEAN : Returns(b) \/ SetsIME(b)

ControlSpec == ControlInit /\ [][ControlNext]_controlVars

-----------------------------------------------------------------------------
(* The sanitizer's records are the program's frames: the k-th recorded        *)
(* pointers are where the program's k-th frame begins, and SP is within the   *)
(* last one.                                                                 *)
RecordsAreFrames ==
  /\ Len(bases) = Len(expected_return_addresses) + 1
  /\ Len(return_address_pointers) = 2 * Len(expected_return_addresses)
  /\ \A k \in 1 .. Len(expected_return_addresses) :
       /\ Frame(k) = bases[k + 1]
       /\ return_address_pointers[2 * k - 1] = bases[k + 1] + 1
  /\ sp <= base

(* The sanitizer has no false positive: a program that keeps to the           *)
(* discipline is never reported, however deep its calls nest and wherever its *)
(* interrupts come, and the assertion of RET holds, for the records are its    *)
(* frames (readU8, writeU8, CALL_nn, RET).                                    *)
NoFalseReport == error = NoError /\ RecordsAreFrames

(* The main program's PC and the bytes of its stack: while it is interrupted,     *)
(* its PC is what the first handler will return to.                           *)
Interrupted == handlers # <<>>
entry == bases[handlers[1]]
mainSP == IF Interrupted THEN entry + 2 ELSE sp
mainPC == IF Interrupted THEN WordAt(mem, entry) ELSE pc
mainStack == [a \in mainSP .. PowerUpSP - 1 |-> mem[Cell[a]]]

(* Interrupts are invisible to a program with a stack discipline: wherever      *)
(* handlers are entered, nested and left, none of their steps changes the PC or   *)
(* the stack of the main program (handleInterrupts, CALL_nn, RET, RETI).       *)
InterruptsInvisible ==
  [][Enter \/ Interrupted => UNCHANGED <<mainPC, mainStack>>]_controlVars

(* The CPU disables interrupts "until serviced" (cpu.cpp:152), and the program  *)
(* decides otherwise: outside handlers, what is about to take effect is what the *)
(* program asked for last, whatever was served since.  Only a handler that is   *)
(* left by RET may leave interrupts disabled that the program wants enabled, and *)
(* none enables those it has disabled but by EI or RETI (handleInterrupts, clock, *)
(* EI, DI, RETI).                                                              *)
ProgramDecides ==
  /\ asked \in {"EI", "RETI"} /\ ~Interrupted => IME[1]
  /\ asked = "DI" => ~IME[1]
=============================================================================
