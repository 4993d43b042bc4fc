--------------------------- MODULE HardwareStack ----------------------------
(* The stack instructions with no sanitizer: what the emulated CPU does when   *)
(* every error kind is permitted.                                             *)
EXTENDS Integers

CONSTANTS AddrCount, Byte, Cell, Writable, StackTops

VARIABLES sp, pc, mem

Addr == 0 .. AddrCount - 1
Word == Byte \X Byte

Offset(a, d) == (a + d + AddrCount) % AddrCount
Stored(m, a, v) == IF a \in Writable THEN [m EXCEPT ![Cell[a]] = v] ELSE m
Pushed(a, w) == Stored(Stored(mem, a, w[2]), Offset(a, 1), w[1])

Init == sp \in Addr /\ pc \in Word /\ mem \in [Addr -> Byte]

Push(w) == sp' = Offset(sp, -2) /\ mem' = Pushed(Offset(sp, -2), w) /\ UNCHANGED pc
Call(nn) == sp' = Offset(sp, -2) /\ mem' = Pushed(Offset(sp, -2), pc) /\ pc' = nn
Pop == sp' = Offset(sp, 2) /\ UNCHANGED <<pc, mem>>
Ret ==
  /\ sp' = Offset(sp, 2)
  /\ pc' = <<mem[Cell[Offset(sp, 1)]], mem[Cell[sp]]>>
  /\ UNCHANGED mem
Jump(nn) == pc' = nn /\ UNCHANGED <<sp, mem>>
Write(a, v) == mem' = Stored(mem, a, v) /\ UNCHANGED <<sp, pc>>
SetSP(a) == sp' = a /\ UNCHANGED <<pc, mem>>

Next ==
  \/ \E w \in Word : Push(w) \/ Call(w) \/ Jump(w)
  \/ Pop \/ Ret
  \/ \E a \in Addr, v \in Byte : Write(a, v)
  \/ \E a \in StackTops : SetSP(a)

Spec == Init /\ [][Next]_<<sp, pc, mem>>
=============================================================================
