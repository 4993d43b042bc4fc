------------------------------ MODULE Undefined ------------------------------
(* The tracking of undefined data: utils/checked_int.hpp, the registers and   *)
(* the reads and writes of the CPU.                                           *)
(*                                                                            *)
(* What the tracking is for: a program must not come to depend on a byte that *)
(* it never wrote.  Two runs of one program start from machines that differ   *)
(* in undefined bytes alone, and are compared step by step.  Registers are A, *)
(* F and the pair HL, which stands for BC and DE as well; the arithmetic is   *)
(* any function of its operands.  The reports for return addresses, DMA and   *)
(* the LCD depend on addresses only and are left out.                         *)
EXTENDS Naturals

CONSTANTS
  Radix,          \* values of a byte, 256 in the program
  Devices,        \* addresses of I/O, video memory and the controller
  Enable,         \* address of the interrupt enable register
  Requested,      \* address of the interrupt requests
  Result(_, _),   \* of an operation on two bytes
  Flags(_, _, _), \* its flags, from the operands and the old flags
  Preset(_),      \* flags that CPL sets before it looks at A
  And(_, _),      \* bitwise, on bytes
  FlagBits        \* the bits of F that exist, 0xF0

Byte == 0 .. Radix - 1
Addr == Byte \X Byte

ASSUME RadixAssumption == Radix \in Nat /\ Radix > 1
ASSUME DeviceAssumption == Devices \subseteq Addr /\ Requested \in Devices /\ Enable \in Addr \ Devices
ASSUME ResultAssumption == \A x, y, z \in Byte : Result(x, y) \in Byte /\ Flags(x, y, z) \in Byte
ASSUME PresetAssumption == \A x \in Byte : Preset(x) \in Byte
ASSUME AndAssumption == \A x, y \in Byte : And(x, y) \in Byte /\ And(0, y) = 0 /\ And(x, 0) = 0
ASSUME FlagBitsAssumption == FlagBits \in Byte \ {0}

Register == {"a", "f", "h", "l"}
Pair == {"af", "hl"}
Checked == [data : Byte, undefined : BOOLEAN]
NoJump == "none"
Machine == [r : [Register -> Checked], sp : Addr, memory : [Addr -> Checked],
            jump : Addr \cup {NoJump}, reported : BOOLEAN]
Run == {1, 2}

VARIABLES
  machines,   \* of the two runs; jump and reported belong to the last step
  permitted   \* undefined_data is permitted: it is counted and not thrown

vars == <<machines, permitted>>

Defined(x) == [data |-> x, undefined |-> FALSE]

(* 16-bit addresses, which wrap.                                              *)
Up(at) == IF at[2] = Radix - 1 THEN <<(at[1] + 1) % Radix, 0>> ELSE <<at[1], at[2] + 1>>
Down(at) == IF at[2] = 0 THEN <<(at[1] + Radix - 1) % Radix, Radix - 1>> ELSE <<at[1], at[2] - 1>>

(* Two values that a program cannot tell apart without a report.              *)
Alike(x, y) == x.undefined = y.undefined /\ (~x.undefined => x.data = y.data)
AlikeMachines(m, n) ==
  /\ \A reg \in Register : Alike(m.r[reg], n.r[reg])
  /\ \A at \in Addr : Alike(m.memory[at], n.memory[at])
  /\ m.sp = n.sp /\ m.jump = n.jump /\ m.reported = n.reported

-----------------------------------------------------------------------------
(* One instruction: operators from machines to machines.                      *)

Begin(m) == [m EXCEPT !.jump = NoJump, !.reported = FALSE]

(* throw_error: on a bad use the instruction ends with m as it is so far, or, *)
(* permitted, goes on as if nothing was the matter.                           *)
Use(m, bad, next) ==
  IF ~bad THEN next
  ELSE IF permitted THEN [next EXCEPT !.reported = TRUE]
  ELSE [m EXCEPT !.reported = TRUE]

SetR(m, reg, x) == [m EXCEPT !.r[reg] = x]
SetHL(m, at) == SetR(SetR(m, "h", Defined(at[1])), "l", Defined(at[2]))

(* Word(h, l).decay(): an address that is used. *)
HL(m) == <<m.r["h"].data, m.r["l"].data>>
UndefinedHL(m) == m.r["h"].undefined \/ m.r["l"].undefined

(* MemoryMap::write: RAM keeps the mark of a byte, a device takes its value.  *)
Store(m, at, x) ==
  IF at \in Devices
    THEN Use(m, x.undefined, [m EXCEPT !.memory[at] = Defined(x.data)])
    ELSE [m EXCEPT !.memory[at] = x]

(* CPU::readU8 into a register and CPU::writeU8, with undefined bytes errors. *)
ReadInto(m, reg, at) == Use(m, m.memory[at].undefined, SetR(m, reg, m.memory[at]))
Write(m, at, x) == Use(m, x.undefined, Store(m, at, x))

(* LD r,n; LD r,r; LD r,(nn); LD (nn),r and the loads through FF00.           *)
LD_r_n(m, reg, x) == SetR(m, reg, Defined(x))
LD_r1_r2(m, r1, r2) == SetR(m, r1, m.r[r2])
LD_r_nn(m, reg, at) == ReadInto(m, reg, at)
LD_nn_r(m, reg, at) == Write(m, at, m.r[reg])

(* The same through HL.                                                       *)
LD_r_HL(m, reg) == Use(m, UndefinedHL(m), ReadInto(m, reg, HL(m)))
LD_HL_r(m, reg) == Use(m, UndefinedHL(m), Write(m, HL(m), m.r[reg]))

(* LDI and LDD: HL moves when the access was not an error.                    *)
Then(m, next) == IF m.reported /\ ~permitted THEN m ELSE next
LoadAndMove(m, to) ==
  LET read == ReadInto(m, "a", HL(m)) IN Use(m, UndefinedHL(m), Then(read, SetHL(read, to)))
StoreAndMove(m, to) ==
  LET written == Write(m, HL(m), m.r["a"]) IN Use(m, UndefinedHL(m), Then(written, SetHL(written, to)))
LDI_A_HL(m) == LoadAndMove(m, Up(HL(m)))
LDD_A_HL(m) == LoadAndMove(m, Down(HL(m)))
LDI_HL_A(m) == StoreAndMove(m, Up(HL(m)))
LDD_HL_A(m) == StoreAndMove(m, Down(HL(m)))

(* INC, DEC of HL, and the ways of HL to SP and PC.                           *)
INC16_HL(m) == Use(m, UndefinedHL(m), SetHL(m, Up(HL(m))))
DEC16_HL(m) == Use(m, UndefinedHL(m), SetHL(m, Down(HL(m))))
LD16_SP_HL(m) == Use(m, UndefinedHL(m), [m EXCEPT !.sp = HL(m)])
JP_HL(m) == Use(m, UndefinedHL(m), [m EXCEPT !.jump = HL(m)])

(* ADD HL,rr and the additions of a constant to SP, which is always defined.  *)
SetFlags(m, x, y) == SetR(m, "f", Defined(Flags(x, y, m.r["f"].data)))
ADD16_HL_SP(m) ==
  LET sum == <<Result(m.r["h"].data, m.sp[1]), Result(m.r["l"].data, m.sp[2])>>
  IN Use(SetR(m, "f", Defined(Preset(m.r["f"].data))), UndefinedHL(m),
         SetHL(SetFlags(m, m.r["h"].data, m.sp[1]), sum))
AddedToSP(m, x) == <<m.sp[1], Result(m.sp[2], x)>>
ADD16_SP_n(m, x) == [SetFlags(m, m.sp[2], x) EXCEPT !.sp = AddedToSP(m, x)]
LDHL_SP_n(m, x) == SetHL(SetFlags(m, m.sp[2], x), AddedToSP(m, x))

(* The stack.  PUSH and POP let one byte of the pair be undefined; SP is      *)
(* moved before a report of PUSH and not after one of POP.                    *)
WriteWord(m, at, upper, lower) ==
  LET first == Store(m, at, lower) IN Then(first, Store(first, Up(at), upper))
Upper(pair) == IF pair = "af" THEN "a" ELSE "h"
Lower(pair) == IF pair = "af" THEN "f" ELSE "l"
PUSH(m, pair) ==
  LET moved == [m EXCEPT !.sp = Down(Down(@))]
      upper == m.r[Upper(pair)]
      lower == m.r[Lower(pair)]
  IN Use(moved, upper.undefined /\ lower.undefined, WriteWord(moved, moved.sp, upper, lower))

(* The flags are a & with FlagBits, which an undefined byte does not pass.    *)
(* (Slip: they are copied.)                                                   *)
SetF(m, x) == SetR(m, "f", x)
SetFlagBits(m, x) == Use(m, x.undefined, SetR(m, "f", Defined(And(x.data, FlagBits))))
Popped(m, pair, upper, lower) ==
  LET half == SetR(m, Upper(pair), upper)
  IN IF pair = "af" THEN SetFlagBits(half, lower) ELSE SetR(half, "l", lower)
POP(m, pair) ==
  LET upper == m.memory[Up(m.sp)]
      lower == m.memory[m.sp]
      popped == Popped(m, pair, upper, lower)
  IN Use(m, upper.undefined /\ lower.undefined,
         Then(popped, [popped EXCEPT !.sp = Up(Up(@))]))

LD_nn_SP(m, at) == WriteWord(m, at, Defined(m.sp[1]), Defined(m.sp[2]))
CALL_nn(m, from, to) ==
  LET moved == [m EXCEPT !.sp = Down(Down(@))]
      pushed == WriteWord(moved, moved.sp, Defined(from[1]), Defined(from[2]))
  IN Then(pushed, [pushed EXCEPT !.jump = to])
RET(m) ==
  LET upper == m.memory[Up(m.sp)]
      lower == m.memory[m.sp]
  IN Use(m, upper.undefined \/ lower.undefined,
         [m EXCEPT !.sp = Up(Up(@)), !.jump = <<upper.data, lower.data>>])

(* CheckedInt::operator&: a defined 0 makes the result defined.  (Slip: any 0 *)
(* does.)                                                                     *)
WithAnyZero(x, y) == x.data = 0 \/ y.data = 0 \/ (~x.undefined /\ ~y.undefined)
IsWellDefined(x, y) ==
  \/ ~x.undefined /\ x.data = 0
  \/ ~y.undefined /\ y.data = 0
  \/ ~x.undefined /\ ~y.undefined
AND_n(m, y) ==
  LET result == And(m.r["a"].data, y.data)
  IN Use(m, ~IsWellDefined(m.r["a"], y), SetFlags(SetR(m, "a", Defined(result)), result, result))

(* The other operations take defined operands, and set flags after the first  *)
(* use of both; CPL sets flags before it.  CP and BIT set flags alone.  (RLCA,   *)
(* RLA, RRCA and RRA reset Z before they use A, which is not shown: Z becomes a   *)
(* constant in both machines.)                                                *)
Operate(m, reg, x, y) ==
  Use(m, x.undefined \/ y.undefined,
      SetFlags(SetR(m, reg, Defined(Result(x.data, y.data))), x.data, y.data))
CP_n(m, x, y) == Use(m, x.undefined \/ y.undefined, SetFlags(m, x.data, y.data))
CPL(m) ==
  LET a == m.r["a"]
      preset == SetR(m, "f", Defined(Preset(m.r["f"].data)))
  IN Use(preset, a.undefined, SetR(preset, "a", Defined(Result(a.data, a.data))))

(* handleInterrupts: IE is memory like any other, and may hold an undefined   *)
(* byte as long as no interrupt is requested.                                 *)
HandleInterrupts(m, from) ==
  LET enabled == m.memory[Enable]
      requested == m.memory[Requested]
      triggered == And(enabled.data, requested.data)
      served == [m EXCEPT !.memory[Requested] = Defined(Result(requested.data, triggered))]
  IN Use(m, ~IsWellDefined(enabled, requested),
         IF triggered = 0 THEN m ELSE CALL_nn(served, from, <<0, triggered>>))

-----------------------------------------------------------------------------
(* Registers and devices are defined at power-up, and IE is written; the rest *)
(* of memory holds what it holds.                                             *)
PowerUp(registers, sp, contents) ==
  [r |-> [reg \in Register |-> Defined(registers[reg])], sp |-> sp,
   memory |-> [at \in Addr |-> [data |-> contents[at], undefined |-> at \notin Devices \cup {Enable}]],
   jump |-> NoJump, reported |-> FALSE]

Init ==
  /\ \E registers \in [Register -> Byte], sp \in Addr, contents \in [Run -> [Addr -> Byte]] :
       /\ \A at \in Devices \cup {Enable} : contents[1][at] = contents[2][at]
       /\ machines = [run \in Run |-> PowerUp(registers, sp, contents[run])]
  /\ permitted \in BOOLEAN

(* After a permitted report a program may do anything with what it has read.  *)
Promised == ~(permitted /\ \E run \in Run : machines[run].reported)

M(run) == Begin(machines[run])

LoadByte ==
  \E reg \in {"a", "h", "l"} :
    \/ \E x \in Byte : machines' = [run \in Run |-> LD_r_n(M(run), reg, x)]
    \/ \E r2 \in {"a", "h", "l"} : machines' = [run \in Run |-> LD_r1_r2(M(run), reg, r2)]
    \/ \E at \in Addr : machines' = [run \in Run |-> LD_r_nn(M(run), reg, at)]
    \/ \E at \in Addr : machines' = [run \in Run |-> LD_nn_r(M(run), reg, at)]
    \/ machines' = [run \in Run |-> LD_r_HL(M(run), reg)]
    \/ machines' = [run \in Run |-> LD_HL_r(M(run), reg)]

LoadAndStep ==
  \/ machines' = [run \in Run |-> LDI_A_HL(M(run))]
  \/ machines' = [run \in Run |-> LDD_A_HL(M(run))]
  \/ machines' = [run \in Run |-> LDI_HL_A(M(run))]
  \/ machines' = [run \in Run |-> LDD_HL_A(M(run))]

Word ==
  \/ machines' = [run \in Run |-> INC16_HL(M(run))]
  \/ machines' = [run \in Run |-> DEC16_HL(M(run))]
  \/ machines' = [run \in Run |-> LD16_SP_HL(M(run))]
  \/ machines' = [run \in Run |-> JP_HL(M(run))]
  \/ machines' = [run \in Run |-> ADD16_HL_SP(M(run))]
  \/ \E x \in Byte : machines' = [run \in Run |-> ADD16_SP_n(M(run), x)]
  \/ \E x \in Byte : machines' = [run \in Run |-> LDHL_SP_n(M(run), x)]
  \/ \E at \in Addr : machines' = [run \in Run |-> LD_nn_SP(M(run), at)]

Stack ==
  \/ \E pair \in Pair : machines' = [run \in Run |-> PUSH(M(run), pair)]
  \/ \E pair \in Pair : machines' = [run \in Run |-> POP(M(run), pair)]
  \/ \E from, to \in Addr : machines' = [run \in Run |-> CALL_nn(M(run), from, to)]
  \/ machines' = [run \in Run |-> RET(M(run))]
  \/ \E from \in Addr : machines' = [run \in Run |-> HandleInterrupts(M(run), from)]

Arithmetic ==
  \/ \E reg \in {"a", "h", "l"} :
       \/ machines' = [run \in Run |-> AND_n(M(run), M(run).r[reg])]
       \/ machines' = [run \in Run |-> Operate(M(run), "a", M(run).r["a"], M(run).r[reg])]
       \/ machines' = [run \in Run |-> Operate(M(run), reg, M(run).r[reg], M(run).r[reg])]
       \/ machines' = [run \in Run |-> CP_n(M(run), M(run).r["a"], M(run).r[reg])]
  \/ \E x \in Byte : machines' = [run \in Run |-> AND_n(M(run), Defined(x))]
  \/ \E x \in Byte : machines' = [run \in Run |-> Operate(M(run), "a", M(run).r["a"], Defined(x))]
  \/ machines' = [run \in Run |-> CPL(M(run))]

Next ==
  /\ Promised
  /\ LoadByte \/ LoadAndStep \/ Word \/ Stack \/ Arithmetic
  /\ UNCHANGED permitted

Spec == Init /\ [][Next]_vars

-----------------------------------------------------------------------------
TypeOK == machines \in [Run -> Machine] /\ permitted \in BOOLEAN

(* What the checks are for: whatever a program does, and wherever its reports *)
(* leave it half way under the debugger, two machines that differ in          *)
(* undefined bytes alone report, jump, move SP and compute alike, until a     *)
(* report that is permitted.  checked_int.hpp 28-165, cpu.cpp 18-113.         *)
Indistinguishable == Promised => AlikeMachines(machines[1], machines[2])

(* What a program branches on and what leaves the machine is defined, after   *)
(* permitted reports as well: the flags, which come back from the stack by    *)
(* POP AF, and the bytes that devices were given.  registers.hpp 132-135 and  *)
(* memory_map.cpp 119-157.                                                    *)
OutsideIsDefined ==
  \A run \in Run :
       ~machines[run].r["f"].undefined /\ \A at \in Devices : ~machines[run].memory[at].undefined
=============================================================================
