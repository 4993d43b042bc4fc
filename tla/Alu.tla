--------------------------------- MODULE Alu ---------------------------------
(* The arithmetic of the CPU: libgb/cpu/instructions.cpp, ADD_n to RES_b_r,     *)
(* on the accumulator and the flags, and on HL and SP.  The instructions that   *)
(* take a register r are modelled for r = A, those of a pair for HL and SP; for *)
(* the others only the place that the operand comes from and the result goes to *)
(* differs.                                                                   *)
EXTENDS Integers, Sequences

CONSTANTS
  OperandBytes,  \* bytes that an instruction is given
  Words          \* words that are loaded to a pair

Bytes == 0 .. 255
IsWord(w) == w \in Nat /\ w < 65536
OperandAssumption == OperandBytes \subseteq Bytes /\ \A w \in Words : IsWord(w)

VARIABLES
  a, hl, sp,    \* registers.a, registers.hl, registers.sp
  f,            \* the flags that are set, of "Z", "N", "H" and "C"
  instruction,  \* the last instruction and its operand
  decimal       \* history: what decimal arithmetic makes of the last operation

vars == <<a, hl, sp, f, instruction, decimal>>

(* Byte arithmetic: operands are converted to int and the result is cut.      *)
Byte(x) == x % 256
Word(x) == x % 65536
Bool(x) == IF x THEN 1 ELSE 0
Flags(z, n, h, c) ==
  {flag \in {"Z", "N", "H", "C"} :
     CASE flag = "Z" -> z [] flag = "N" -> n [] flag = "H" -> h [] flag = "C" -> c}
Z == "Z" \in f
N == "N" \in f
H == "H" \in f
C == "C" \in f

(* A byte as the set of its bits.  The operators &, | and ^ of the program are   *)
(* those of sets.                                                             *)
Power == <<1, 2, 4, 8, 16, 32, 64, 128>>
At(x, i) == (x \div Power[i + 1]) % 2 = 1
Bits(x) == {i \in 0 .. 7 : At(x, i)}
ByteOf(bits) ==
  Bool(0 \in bits) + 2 * Bool(1 \in bits) + 4 * Bool(2 \in bits) + 8 * Bool(3 \in bits)
    + 16 * Bool(4 \in bits) + 32 * Bool(5 \in bits) + 64 * Bool(6 \in bits)
    + 128 * Bool(7 \in bits)

(* A byte in packed decimal, and the number that it stands for.               *)
IsDecimal(x) == x % 16 < 10 /\ x \div 16 < 10
FromDecimal(x) == 10 * (x \div 16) + (x % 16)
ToDecimal(x) == 16 * (x \div 10) + (x % 10)

None == [value |-> 0, carry |-> FALSE, known |-> FALSE]
Known(x) == [value |-> x % 100, carry |-> x \notin 0 .. 99, known |-> TRUE]

-----------------------------------------------------------------------------
Init ==
  /\ a = 1 /\ hl = 333 /\ sp = 65534 /\ f = {"Z", "H", "C"}
  /\ instruction = <<"NOP", 0>> /\ decimal = None

Executes(op, n, result, flags) ==
  /\ a' = result /\ f' = flags /\ instruction' = <<op, n>>
  /\ UNCHANGED <<hl, sp>>
  /\ decimal' =
       LET c == Bool(op \in {"ADC", "SBC"} /\ C)
           inDecimal == IsDecimal(a) /\ IsDecimal(n)
       IN CASE inDecimal /\ op \in {"ADD", "ADC"} -> Known(FromDecimal(a) + FromDecimal(n) + c)
            [] inDecimal /\ op \in {"SUB", "SBC"} -> Known(FromDecimal(a) - FromDecimal(n) - c)
            [] OTHER -> None

Carries(n, carry) ==
  \/ Byte(n + Bool(carry)) > 255 - a
  \/ carry /\ n = 255
AddTo(op, n, carry) ==
  LET result == Byte(Byte(a + n) + Bool(carry))
  IN Executes(op, n, result,
       Flags(result = 0, FALSE, (n % 16) + Bool(carry) > 15 - (a % 16), Carries(n, carry)))
ADD_n(n) == AddTo("ADD", n, FALSE)
ADC_n(n) == AddTo("ADC", n, C)

SubFrom(op, n, carry) ==
  LET adjusted == Byte(n + Bool(carry))
      result == Byte(a - adjusted)
  IN Executes(op, n, result,
       Flags(result = 0, TRUE, a % 16 < (n % 16) + Bool(carry),
             a < adjusted \/ (carry /\ n = 255)))
SUB_n(n) == SubFrom("SUB", n, FALSE)
SBC_n(n) == SubFrom("SBC", n, C)
CP_n(n) == Executes("CP", n, a, Flags(a = n, TRUE, a % 16 < n % 16, a < n))

Logical(op, n, result, h) == Executes(op, n, result, Flags(result = 0, FALSE, h, FALSE))
AND_n(n) == Logical("AND", n, ByteOf(Bits(a) \cap Bits(n)), TRUE)
OR_n(n) == Logical("OR", n, ByteOf(Bits(a) \cup Bits(n)), FALSE)
XOR_n(n) ==
  Logical("XOR", n, ByteOf((Bits(a) \cup Bits(n)) \ (Bits(a) \cap Bits(n))), FALSE)

INC_r ==
  LET result == Byte(a + 1)
  IN Executes("INC", 1, result, Flags(result = 0, FALSE, result % 16 = 0, C))
DEC_r ==
  LET result == Byte(a - 1)
  IN Executes("DEC", 1, result, Flags(result = 0, TRUE, result % 16 = 15, C))

SWAP_n ==
  Executes("SWAP", 0, Byte(16 * (a % 16)) + a \div 16, Flags(a = 0, FALSE, FALSE, FALSE))

(* (Slip: the upper digit is tested alone, and 0x9A is not adjusted.)         *)
UpperByDigit == a \div 16 > 9 \/ C
UpperOutOfRange == a > 153 \/ C
DAA ==
  LET upper == IF N THEN C ELSE UpperOutOfRange
      lower == IF N THEN H ELSE a % 16 > 9 \/ H
      adjust == 96 * Bool(upper) + 6 * Bool(lower)
      result == Byte(IF N THEN a - adjust ELSE a + adjust)
  IN Executes("DAA", 0, result, Flags(result = 0, N, FALSE, upper))

CPL == Executes("CPL", 0, 255 - a, f \cup {"N", "H"})
CCF == Executes("CCF", 0, a, Flags(Z, FALSE, FALSE, ~C))
SCF == Executes("SCF", 0, a, Flags(Z, FALSE, FALSE, TRUE))

(* The rotations, and the instructions made of them: those on the             *)
(* accumulator reset Z, the others test the result.                           *)
ShiftedLeft == Byte(2 * a)
ShiftedRight == a \div 2
RotatedRight == 128 * (a % 2) + ShiftedRight
Rotate(op, result, carry, z) == Executes(op, 0, result, Flags(z, FALSE, FALSE, carry))

Bit7 == a \div 128 = 1
Bit0 == a % 2 = 1
RLCA == Rotate("RLCA", ShiftedLeft + a \div 128, Bit7, FALSE)
RLA  == Rotate("RLA", ShiftedLeft + Bool(C), Bit7, FALSE)
RRCA == Rotate("RRCA", RotatedRight, Bit0, FALSE)
RRA  == Rotate("RRA", 128 * Bool(C) + ShiftedRight, Bit0, FALSE)

RLC_r == LET result == ShiftedLeft + a \div 128 IN Rotate("RLC", result, Bit7, result = 0)
RL_r  == LET result == ShiftedLeft + Bool(C) IN Rotate("RL", result, Bit7, result = 0)
RRC_r == Rotate("RRC", RotatedRight, Bit0, RotatedRight = 0)
RR_r  == LET result == 128 * Bool(C) + ShiftedRight IN Rotate("RR", result, Bit0, result = 0)
SLA_n == Rotate("SLA", ShiftedLeft, Bit7, a % 128 = 0)
SRA_n ==
  LET result == ShiftedRight + 128 * (a \div 128) IN Rotate("SRA", result, Bit0, result = 0)
SRL_n == Rotate("SRL", ShiftedRight, Bit0, ShiftedRight = 0)

BIT_b_r(b) == Executes("BIT", b, a, Flags(Bits(a) \cap {b} = {}, FALSE, TRUE, C))
SET_b_r(b) == Executes("SET", b, ByteOf(Bits(a) \cup {b}), f)
RES_b_r(b) == Executes("RES", b, ByteOf(Bits(a) \ {b}), f)

(* Pairs: the operand is a word, or a byte that is added with its sign to SP.    *)
ExecutesWord(op, n, flags) ==
  f' = flags /\ instruction' = <<op, n>> /\ decimal' = None /\ UNCHANGED a

LD16_n_nn(w) ==
  /\ ExecutesWord("LD16", w, f)
  /\ \/ hl' = w /\ UNCHANGED sp
     \/ sp' = w /\ UNCHANGED hl
LD16_SP_HL == ExecutesWord("LD16", hl, f) /\ sp' = hl /\ UNCHANGED hl
INC16_nn == ExecutesWord("INC16", 1, f) /\ hl' = Word(hl + 1) /\ UNCHANGED sp
DEC16_nn == ExecutesWord("DEC16", 1, f) /\ hl' = Word(hl - 1) /\ UNCHANGED sp

ADD16_HL_n(n) ==
  /\ ExecutesWord("ADD16", n, Flags(Z, FALSE, n % 4096 > 4095 - (hl % 4096), n > 65535 - hl))
  /\ hl' = Word(hl + n) /\ UNCHANGED sp

Signed(n) == IF n < 128 THEN n ELSE n - 256
AddedToSP(n) == Word(sp + Signed(n))
ADD16_SIGN(op, n) ==
  ExecutesWord(op, n, Flags(FALSE, FALSE, n % 16 > 15 - (sp % 16), n > 255 - (sp % 256)))
ADD16_SP_n(n) == ADD16_SIGN("ADDSP", n) /\ sp' = AddedToSP(n) /\ UNCHANGED hl
LDHL_SP_n(n) == ADD16_SIGN("LDHL", n) /\ hl' = AddedToSP(n) /\ UNCHANGED sp

ByteNext ==
  \/ \E n \in OperandBytes :
       \/ ADD_n(n) \/ ADC_n(n) \/ SUB_n(n) \/ SBC_n(n)
       \/ CP_n(n) \/ AND_n(n) \/ OR_n(n) \/ XOR_n(n)
  \/ INC_r \/ DEC_r \/ SWAP_n \/ DAA \/ CPL \/ CCF \/ SCF
  \/ RLCA \/ RLA \/ RRCA \/ RRA
  \/ RLC_r \/ RL_r \/ RRC_r \/ RR_r \/ SLA_n \/ SRA_n \/ SRL_n
  \/ \E b \in 0 .. 7 : BIT_b_r(b) \/ SET_b_r(b) \/ RES_b_r(b)

(* Bound: the sum of a sum is not taken before another word is loaded.         *)
WordNext ==
  \/ (\E w \in Words : LD16_n_nn(w)) \/ LD16_SP_HL
  \/ /\ {hl, sp} \subseteq Words \cup {333, 65534}
     /\ \/ INC16_nn \/ DEC16_nn
        \/ \E n \in Words \cup {hl, sp} : ADD16_HL_n(n)
        \/ \E n \in OperandBytes : ADD16_SP_n(n) \/ LDHL_SP_n(n)

Next == ByteNext \/ WordNext

Spec == Init /\ [][Next]_vars

-----------------------------------------------------------------------------
TypeOK ==
  /\ a \in Bytes /\ IsWord(hl) /\ IsWord(sp) /\ f \subseteq {"Z", "N", "H", "C"}
  /\ decimal.value \in 0 .. 99

op_ == instruction'[1]
operand_ == instruction'[2]

(* Additions and subtractions are those of the integers: the carry is the     *)
(* ninth bit of the result, the half carry that of the low digits, and a       *)
(* comparison leaves the flags of a subtraction (ADD_n to DEC_r).  H and C of a *)
(* subtraction are set when there is a borrow.  The comments of SUB_n, SBC_n,   *)
(* CP_n and DEC_r say "if no borrow"; that of CP_n also says "Set if A < n",    *)
(* which is a borrow, and what DAA expects.                                   *)
IntegerStep ==
  LET c == Bool(op_ \in {"ADC", "SBC"} /\ C)
      flagged == Z' <=> a' = 0
  IN /\ op_ \in {"ADD", "ADC"} =>
          /\ flagged /\ a' + 256 * Bool(C') = a + operand_ + c
          /\ H' <=> (a % 16) + (operand_ % 16) + c > 15
     /\ op_ \in {"SUB", "SBC"} =>
          /\ flagged /\ a' - 256 * Bool(C') = a - operand_ - c
          /\ H' <=> (a % 16) - (operand_ % 16) - c < 0
     /\ op_ = "CP" =>
          /\ a' = a /\ (Z' <=> a - operand_ = 0) /\ (C' <=> a - operand_ < 0)
          /\ H' <=> (a % 16) - (operand_ % 16) < 0
     /\ op_ = "INC" =>
          /\ flagged /\ a' = (a + 1) % 256 /\ (C' <=> C)
          /\ H' <=> (a % 16) + 1 > 15
     /\ op_ = "DEC" =>
          /\ flagged /\ a' = (a - 1) % 256 /\ (C' <=> C)
          /\ H' <=> (a % 16) - 1 < 0
ArithmeticExact == [][IntegerStep]_vars

(* The logical instructions act on every bit by itself, a rotation or a shift *)
(* moves every bit by one place and the bit that leaves to the carry, and no   *)
(* bit is lost or made up (AND_n to XOR_n, SWAP_n, ROT_LC to RES_b_r).        *)
BitStep ==
  LET left  == (C' <=> At(a, 7)) /\ \A i \in 1 .. 7 : At(a', i) <=> At(a, i - 1)
      right == (C' <=> At(a, 0)) /\ \A i \in 0 .. 6 : At(a', i) <=> At(a, i + 1)
  IN /\ op_ = "AND" => \A i \in 0 .. 7 : At(a', i) <=> At(a, i) /\ At(operand_, i)
     /\ op_ = "OR" => \A i \in 0 .. 7 : At(a', i) <=> At(a, i) \/ At(operand_, i)
     /\ op_ = "XOR" => \A i \in 0 .. 7 : At(a', i) <=> ~(At(a, i) <=> At(operand_, i))
     /\ op_ = "CPL" => \A i \in 0 .. 7 : At(a', i) <=> ~At(a, i)
     /\ op_ = "SWAP" => \A i \in 0 .. 7 : At(a', i) <=> At(a, (i + 4) % 8)
     /\ op_ = "BIT" => a' = a /\ (Z' <=> ~At(a, operand_))
     /\ op_ = "SET" => \A i \in 0 .. 7 : At(a', i) <=> At(a, i) \/ i = operand_
     /\ op_ = "RES" => \A i \in 0 .. 7 : At(a', i) <=> At(a, i) /\ i # operand_
     /\ op_ \in {"RLC", "RLCA"} => left /\ (At(a', 0) <=> At(a, 7))
     /\ op_ \in {"RL", "RLA"} => left /\ (At(a', 0) <=> C)
     /\ op_ = "SLA" => left /\ ~At(a', 0)
     /\ op_ \in {"RRC", "RRCA"} => right /\ (At(a', 7) <=> At(a, 0))
     /\ op_ \in {"RR", "RRA"} => right /\ (At(a', 7) <=> C)
     /\ op_ = "SRA" => right /\ (At(a', 7) <=> At(a, 7))
     /\ op_ = "SRL" => right /\ ~At(a', 7)
     /\ op_ \in {"RLC", "RL", "RRC", "RR", "SLA", "SRA", "SRL", "AND", "OR", "XOR", "SWAP"}
          => (Z' <=> a' = 0)
BitsExact == [][BitStep]_vars

(* DAA after an addition or a subtraction of two bytes in packed decimal      *)
(* leaves the decimal result and, in the carry, what goes to the next byte.   *)
(* The two instructions meet in the flags alone.                              *)
DecimalStep ==
  op_ = "DAA" /\ decimal.known => a' = ToDecimal(decimal.value) /\ (C' <=> decimal.carry)
DecimalAdjusted == [][DecimalStep]_vars

(* The sums of words.  Of SP and a signed byte the carry is that of the low     *)
(* bytes, from which the high one follows with the sign (ADD16, ADD16_SIGN,     *)
(* INC16_nn, DEC16_nn).                                                        *)
WordStep ==
  LET result == IF op_ = "LDHL" THEN hl' ELSE sp'
      high == (sp \div 256) + Bool(C') - (operand_ \div 128)
  IN /\ op_ = "ADD16" =>
          /\ hl' + 65536 * Bool(C') = hl + operand_
          /\ (H' <=> (hl % 4096) + (operand_ % 4096) > 4095) /\ ~N' /\ (Z' <=> Z)
     /\ op_ \in {"ADDSP", "LDHL"} =>
          /\ result = 256 * (high % 256) + Byte(sp + operand_)
          /\ (H' <=> (sp % 16) + (operand_ % 16) > 15) /\ ~N' /\ ~Z'
     /\ op_ = "INC16" => f' = f /\ IsWord(hl') /\ hl' - hl \in {1, -65535}
     /\ op_ = "DEC16" => f' = f /\ IsWord(hl') /\ hl - hl' \in {1, -65535}
WordsExact == [][WordStep]_vars
=============================================================================
