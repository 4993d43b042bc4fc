----------------------------- MODULE CallStack ------------------------------
(* What the strict sanitizer of CallFrames promises: calls and returns nest.  *)
(* A return goes to the word after the call it matches, or the machine traps. *)
(* A machine that is trapped from the start promises nothing.                 *)
EXTENDS Integers, Sequences

CONSTANT Word

VARIABLES pc, stack, trapped

Init == pc \in Word /\ stack = <<>> /\ trapped \in BOOLEAN

Call(nn) == pc' = nn /\ stack' = Append(stack, pc) /\ UNCHANGED trapped

Return ==
  /\ stack # <<>>
  /\ pc' = stack[Len(stack)]
  /\ stack' = SubSeq(stack, 1, Len(stack) - 1)
  /\ UNCHANGED trapped

Jump(nn) == pc' = nn /\ UNCHANGED <<stack, trapped>>

(* The machine stops before PC changes; nothing returns any more. *)
Trap == trapped' = TRUE /\ stack' = <<>> /\ UNCHANGED pc

Next ==
  /\ ~trapped
  /\ \/ \E nn \in Word : Call(nn) \/ Jump(nn)
     \/ Return
     \/ Trap

Spec == Init /\ [][Next]_<<pc, stack, trapped>>
=============================================================================
