----------------------------- MODULE CallFrames -----------------------------
(* The stack of the emulated CPU and the control-flow sanitizer around it:   *)
(* libgb/cpu/instructions.cpp (PUSH, POP, CALL, RST, RET, JP) and the checked *)
(* memory accesses of libgb/cpu/cpu.cpp.                                      *)
(*                                                                            *)
(* Each CALL (also RST and the entry into an interrupt handler) records the   *)
(* two addresses it wrote and the value it wrote there; each byte access and  *)
(* each RET is compared with the records.  A failed comparison is an error of *)
(* some kind: it is thrown out of the instruction, half-way through it,       *)
(* unless the kind is permitted, and then the instruction carries on.         *)
(*                                                                            *)
(* A word is a pair <<high byte, low byte>>, an address a number that wraps   *)
(* at AddrCount (2^16 in the program).  Registers other than SP and PC,       *)
(* cycles, undefined bytes and the DMA bus conflict are left out.             *)
EXTENDS Integers, SequencesExt

CONSTANTS
  AddrCount,  \* size of the address space
  Byte,       \* values of a byte; contains 0
  InitMem,    \* memory at power-up
  Cell,       \* address -> memory cell behind it (echo RAM: two addresses, one cell)
  Writable,   \* addresses whose cell a write changes (RAM, as opposed to ROM)
  Code,       \* words the program jumps to, calls, or has in PC
  ValidPC,    \* words is_valid_pc accepts
  PushWords,  \* words the program pushes
  DataAddrs,  \* addresses it reads and writes with other instructions
  DataBytes,  \* bytes it writes there
  StackTops,  \* values it loads into SP
  Options,    \* command lines: the error kinds that are counted and not thrown, and
              \* whether the machine runs under the GDB server
  MaxFrames   \* bound: CALLs recorded at a time

Addr == 0 .. AddrCount - 1
Word == Byte \X Byte
PowerUpSP == AddrCount - 2
NullWord == <<0, 0>>

ErrorKinds == {"clobbered_return_address", "reading_return_address",
               "call_frame_violation", "pc_outside_of_program_memory"}
NoError == "none"
Aborted == "assertion_failed"

ASSUME AddressAssumption == AddrCount \in Nat /\ AddrCount >= 4
ASSUME ByteAssumption == 0 \in Byte
ASSUME MemoryAssumption ==
  /\ InitMem \in [Addr -> Byte]
  /\ Cell \in [Addr -> Addr]
  /\ Writable \subseteq Addr
ASSUME ProgramAssumption ==
  /\ Code \subseteq Word /\ Code # {}
  /\ PushWords \subseteq Word
  /\ DataAddrs \subseteq Addr /\ DataBytes \subseteq Byte
  /\ StackTops \subseteq Addr
ASSUME OptionAssumption ==
  /\ Options \subseteq [permitted : SUBSET ErrorKinds, debugger : BOOLEAN]
  /\ MaxFrames \in Nat

VARIABLES
  sp,                        \* registers.sp
  pc,                        \* registers.pc, already past the instruction
  mem,                       \* contents of the memory cells
  return_address_pointers,   \* two addresses for each recorded CALL
  expected_return_addresses, \* one word for each recorded CALL
  error,                     \* what the last instruction threw
  options                    \* decided by main: error_kind_permitted, the port

shadow == <<return_address_pointers, expected_return_addresses>>
vars == <<sp, pc, mem, shadow, error, options>>

(* uint16_t arithmetic by one and two.                                         *)
Wrap(a) == IF a < 0 THEN a + AddrCount
           ELSE IF a >= AddrCount THEN a - AddrCount ELSE a

(* MemoryMap::write and ::read as far as a stack can tell.  (Slip: the low byte *)
(* of a word is read from the higher address.)                                *)
Store(m, a, v) == IF a \in Writable THEN [m EXCEPT ![Cell[a]] = v] ELSE m
WordAtSwapped(m, a) == <<m[Cell[a]], m[Cell[Wrap(a + 1)]]>>
WordAt(m, a) == <<m[Cell[Wrap(a + 1)]], m[Cell[a]]>>

(* throw_error: thrown unless the kind is permitted. *)
Throws(kind) == kind \notin options.permitted

(* Slips: only the last CALL is compared, or permitting the error is ignored. *)
WriteThrowsLastCall(a) ==
  /\ Throws("clobbered_return_address")
  /\ \E i \in DOMAIN return_address_pointers :
       /\ i > Len(return_address_pointers) - 2
       /\ return_address_pointers[i] = a
WriteThrowsAlways(a) ==
  \E i \in DOMAIN return_address_pointers : return_address_pointers[i] = a
WriteThrows(a) ==
  /\ Throws("clobbered_return_address")
  /\ \E i \in DOMAIN return_address_pointers : return_address_pointers[i] = a
ReadThrows(pointers, a) ==
  /\ Throws("reading_return_address")
  /\ \E i \in DOMAIN pointers : pointers[i] = a
ReadWordThrows(pointers, a) ==
  ReadThrows(pointers, Wrap(a + 1)) \/ ReadThrows(pointers, a)
JumpThrows(w) == Throws("pc_outside_of_program_memory") /\ w \notin ValidPC

Init ==
  /\ sp = PowerUpSP
  /\ pc \in Code \cap ValidPC
  /\ mem = InitMem
  /\ return_address_pointers = <<>>
  /\ expected_return_addresses = <<>>
  /\ error = NoError
  /\ options \in Options

(* An error ends the standalone emulator; under GDB it is a break. *)
Running == error = NoError

(* PUSH: SP moves first, then the low and the high byte are written; a throw *)
(* at either byte leaves what was done before it.                            *)
PushThrows == WriteThrows(Wrap(sp - 2)) \/ WriteThrows(Wrap(Wrap(sp - 2) + 1))
PushWord(w) ==
  LET top == Wrap(sp - 2)
      low == Store(mem, top, w[2])
  IN  /\ sp' = top
      /\ mem' = IF WriteThrows(top) THEN mem
                ELSE IF WriteThrows(Wrap(top + 1)) THEN low
                ELSE Store(low, Wrap(top + 1), w[1])

Push(w) ==
  /\ Running
  /\ PushWord(w)
  /\ error' = IF PushThrows THEN "clobbered_return_address" ELSE NoError
  /\ UNCHANGED <<pc, shadow, options>>

(* POP: SP moves only when both reads succeeded. *)
Pop ==
  /\ Running
  /\ IF ReadWordThrows(return_address_pointers, sp)
     THEN error' = "reading_return_address" /\ UNCHANGED sp
     ELSE error' = NoError /\ sp' = Wrap(sp + 2)
  /\ UNCHANGED <<pc, mem, shadow, options>>

(* CALL_nn, RST_n and the CALL of handleInterrupts. *)
Call(nn) ==
  /\ Running /\ Len(expected_return_addresses) < MaxFrames
  /\ PushWord(pc) /\ UNCHANGED options
  /\ IF PushThrows
     THEN error' = "clobbered_return_address" /\ UNCHANGED <<pc, shadow>>
     ELSE /\ expected_return_addresses' = Append(expected_return_addresses, pc)
          /\ return_address_pointers' =
               return_address_pointers \o <<Wrap(Wrap(sp - 2) + 1), Wrap(sp - 2)>>
          /\ IF JumpThrows(nn)
             THEN error' = "pc_outside_of_program_memory" /\ UNCHANGED pc
             ELSE error' = NoError /\ pc' = nn

(* pop_back of RET: 0 for an empty vector. (Slip: one pop where two are due.)  *)
LastOr(seq, none) == IF seq = <<>> THEN none ELSE seq[Len(seq)]
DropOne(seq, n) == SubSeq(seq, 1, Len(seq) - 1)
DropLast(seq, n) == SubSeq(seq, 1, Len(seq) - n)

(* The assertion of RET on the two pointers it pops, evaluated in int: one is *)
(* one above the other, or both are the 0 of an empty vector.                 *)
AssertionHolds ==
  LET expected_sp        == LastOr(return_address_pointers, 0)
      expected_sp_plus_1 == LastOr(DropLast(return_address_pointers, 1), 0)
  IN  expected_sp_plus_1 = expected_sp + 1 \/ (expected_sp = 0 /\ expected_sp_plus_1 = 0)

Abort ==
  /\ Running /\ ~AssertionHolds
  /\ error' = Aborted
  /\ UNCHANGED <<sp, pc, mem, shadow, options>>

(* The word that RET finds is not the one that its CALL pushed.  (Slip: RET    *)
(* trusts the check of every write.)                                          *)
NeverClobbered(expected, actual) == FALSE
Clobbered(expected, actual) == expected # actual

(* RET compares SP with the last recorded pointer, forgets everything when    *)
(* that differs and the error is permitted, then reads the stack and compares *)
(* the word with the last recorded value; RETI does the same.                 *)
Ret ==
  LET spDiffers == LastOr(return_address_pointers, 0) # sp
      pointers  == IF spDiffers THEN <<>> ELSE DropLast(return_address_pointers, 2)
      values    == IF spDiffers THEN <<>> ELSE expected_return_addresses
      expected  == LastOr(values, NullWord)
      actual    == WordAt(mem, sp)
      popped    == DropLast(values, 1)
  IN
  /\ Running /\ AssertionHolds
  /\ UNCHANGED <<mem, options>>
  /\ \/ /\ spDiffers /\ Throws("call_frame_violation")
        /\ return_address_pointers' = DropLast(return_address_pointers, 2)
        /\ error' = "call_frame_violation"
        /\ UNCHANGED <<sp, pc, expected_return_addresses>>
     \/ /\ ~(spDiffers /\ Throws("call_frame_violation"))
        /\ \/ /\ ReadWordThrows(pointers, sp)
              /\ error' = "reading_return_address"
              /\ return_address_pointers' = pointers
              /\ expected_return_addresses' = popped
              /\ UNCHANGED <<sp, pc>>
           \/ /\ ~ReadWordThrows(pointers, sp)
              /\ Clobbered(expected, actual) /\ Throws("clobbered_return_address")
              /\ error' = "clobbered_return_address"
              /\ return_address_pointers' = pointers
              /\ expected_return_addresses' = popped
              /\ UNCHANGED <<sp, pc>>
           \/ /\ ~ReadWordThrows(pointers, sp)
              /\ ~(Clobbered(expected, actual) /\ Throws("clobbered_return_address"))
              /\ return_address_pointers' = IF Clobbered(expected, actual) THEN <<>> ELSE pointers
              /\ expected_return_addresses' = IF Clobbered(expected, actual) THEN <<>> ELSE popped
              /\ sp' = Wrap(sp + 2)
              /\ IF JumpThrows(actual)
                 THEN error' = "pc_outside_of_program_memory" /\ UNCHANGED pc
                 ELSE error' = NoError /\ pc' = actual

(* JP, JR and straight-line execution. *)
Jump(nn) ==
  /\ Running
  /\ IF JumpThrows(nn)
     THEN error' = "pc_outside_of_program_memory" /\ UNCHANGED pc
     ELSE error' = NoError /\ pc' = nn
  /\ UNCHANGED <<sp, mem, shadow, options>>

(* Every other instruction that writes or reads memory: LD (HL),r and so on. *)
Write(a, v) ==
  /\ Running
  /\ IF WriteThrows(a)
     THEN error' = "clobbered_return_address" /\ UNCHANGED mem
     ELSE error' = NoError /\ mem' = Store(mem, a, v)
  /\ UNCHANGED <<sp, pc, shadow, options>>

Read(a) ==
  /\ Running
  /\ error' = IF ReadThrows(return_address_pointers, a)
              THEN "reading_return_address" ELSE NoError
  /\ UNCHANGED <<sp, pc, mem, shadow, options>>

(* LD SP,nn; LD SP,HL; ADD SP,n; INC SP; DEC SP: SP moves, nothing is recorded. *)
SetSP(a) ==
  /\ Running
  /\ sp' = a
  /\ UNCHANGED <<pc, mem, shadow, error, options>>

(* The GDB server: "c" goes on after a break, perhaps from another address,   *)
(* which is assigned to PC unchecked.                                         *)
Continue ==
  /\ options.debugger /\ error # Aborted
  /\ error' = NoError
  /\ pc' \in {pc} \cup Code
  /\ UNCHANGED <<sp, mem, shadow, options>>

Next ==
  \/ \E nn \in Code : Call(nn)
  \/ \E nn \in Code : Jump(nn)
  \/ Ret \/ Abort
  \/ \E w \in PushWords : Push(w)
  \/ Pop
  \/ \E a \in DataAddrs, v \in DataBytes : Write(a, v)
  \/ \E a \in DataAddrs : Read(a)
  \/ \E a \in StackTops : SetSP(a)
  \/ Continue

Spec == Init /\ [][Next]_vars

-----------------------------------------------------------------------------
TypeOK ==
  /\ sp \in Addr
  /\ pc \in Word
  /\ mem \in [Addr -> Byte]
  /\ return_address_pointers \in Seq(Addr)
  /\ expected_return_addresses \in Seq(Word)
  /\ error \in ErrorKinds \cup {NoError, Aborted}
  /\ options \in Options

(* The k-th recorded CALL pushed its return address here. *)
Frame(k) == return_address_pointers[2 * k]

(* RAM that is reached through one address only: not ROM, not echo RAM. *)
PrivateRam == {a \in Writable : \A b \in Addr : Cell[b] = Cell[a] => b = a}

(* The two records of the sanitizer agree with one another and with memory:   *)
(* there are two adjacent pointers for each expected address, and each frame  *)
(* in private RAM still holds the address its CALL pushed.                    *)
RecordsAgree ==
  Running =>
    /\ Len(return_address_pointers) = 2 * Len(expected_return_addresses)
    /\ \A k \in 1 .. Len(expected_return_addresses) :
         /\ return_address_pointers[2 * k - 1] = Wrap(Frame(k) + 1)
         /\ Frame(k) \in PrivateRam /\ Wrap(Frame(k) + 1) \in PrivateRam
              => WordAt(mem, Frame(k)) = expected_return_addresses[k]

(* As long as clobbering is not permitted and no debugger goes on after a     *)
(* throw, a return address in private RAM is never lost without the write     *)
(* that does it being reported (writeU8, CALL_nn, RET).                       *)
ShadowMatchesStack ==
  Throws("clobbered_return_address") /\ ~options.debugger => RecordsAgree

(* With every kind thrown, the machine implements CallStack: until the first  *)
(* report each RET goes back to where the CALL it matches came from.          *)
Strict == options.permitted = {} /\ ~options.debugger
Nesting == INSTANCE CallStack WITH
  pc <- IF Strict THEN pc ELSE NullWord,
  stack <- IF Strict /\ Running THEN expected_return_addresses ELSE <<>>,
  trapped <- ~(Strict /\ Running)
CallsNest == Nesting!Spec

(* With every kind permitted, the sanitizer is invisible: nothing is thrown,  *)
(* and SP, PC and memory go through the states of the bare hardware, whatever  *)
(* it has recorded (throw_error).  The assertion of RET is no error kind.     *)
Permissive == options.permitted = ErrorKinds /\ ~options.debugger
Hardware == INSTANCE HardwareStack WITH
  sp <- IF Permissive THEN sp ELSE PowerUpSP,
  pc <- IF Permissive THEN pc ELSE NullWord,
  mem <- IF Permissive THEN mem ELSE InitMem
SanitizerInvisible ==
  Hardware!Spec /\ [](Permissive => error \in {NoError, Aborted})
=============================================================================
