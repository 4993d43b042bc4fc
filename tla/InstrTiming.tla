----------------------------- MODULE InstrTiming -----------------------------
(* What the repository's tests say of instructions: the table of cycles of       *)
(* tests/instr_timing/readme.txt and the rule for memory accesses of            *)
(* tests/mem_timing/readme.txt; and the fields of an opcode, after which the     *)
(* instruction set is laid out.  The switch of module Opcodes is compared with   *)
(* all three.                                                                 *)
EXTENDS Opcodes

(* "Normal instructions": cycles with the condition not taken; 0 for those that  *)
(* the test leaves out.                                                        *)
Table == <<
  <<1,3,2,2,1,1,2,1,5,2,2,2,1,1,2,1>>,
  <<0,3,2,2,1,1,2,1,3,2,2,2,1,1,2,1>>,
  <<2,3,2,2,1,1,2,1,2,2,2,2,1,1,2,1>>,
  <<2,3,2,2,3,3,3,1,2,2,2,2,1,1,2,1>>,
  <<1,1,1,1,1,1,2,1,1,1,1,1,1,1,2,1>>,
  <<1,1,1,1,1,1,2,1,1,1,1,1,1,1,2,1>>,
  <<1,1,1,1,1,1,2,1,1,1,1,1,1,1,2,1>>,
  <<2,2,2,2,2,2,0,2,1,1,1,1,1,1,2,1>>,
  <<1,1,1,1,1,1,2,1,1,1,1,1,1,1,2,1>>,
  <<1,1,1,1,1,1,2,1,1,1,1,1,1,1,2,1>>,
  <<1,1,1,1,1,1,2,1,1,1,1,1,1,1,2,1>>,
  <<1,1,1,1,1,1,2,1,1,1,1,1,1,1,2,1>>,
  <<2,3,3,4,3,4,2,4,2,4,3,0,3,6,2,4>>,
  <<2,3,3,0,3,4,2,4,2,4,3,0,3,0,2,4>>,
  <<3,3,2,0,0,4,2,4,4,1,4,0,0,0,2,4>>,
  <<3,3,2,1,0,4,2,4,3,2,4,1,0,0,2,4>> >>
TableEntry(op) == Table[(op \div 16) + 1][(op % 16) + 1]

(* "CB-prefixed instructions": each half of a row is the same.                  *)
PrefixedEntry(byte) ==
  IF byte % 8 # 6 THEN 2 ELSE IF byte \div 64 = 1 THEN 3 ELSE 4

(* The cycles of a condition that is taken: those of the plain instruction, and  *)
(* one more for a return.                                                      *)
TakenEntry == [JP |-> TableEntry(\hC3), JR |-> TableEntry(\h18),
               CALL |-> TableEntry(\hCD), RET |-> TableEntry(\hC9) + 1]

(* Every instruction takes the cycles of the table, so that timers and the LCD   *)
(* advance as the program expects (processNextInstruction and all it calls).    *)
TimedAsTable ==
  Complete =>
    Len(bus) = IF opcode = \hCB THEN PrefixedEntry(arg)
               ELSE IF IsConditional(instruction) /\ taken THEN TakenEntry[instruction[1]]
               ELSE IF TableEntry(opcode) = 0 THEN Len(bus) ELSE TableEntry(opcode)

(* "the CPU makes the access on the last cycle"; one that modifies memory "reads *)
(* on the next-to-last cycle, and writes on the last": no cycle follows an       *)
(* access but accesses, and no read follows a write.  A return jumps afterwards, *)
(* its reads are of the stack.                                                 *)
AccessesLast ==
  Complete /\ instruction[1] \notin {"RET", "RETI"} =>
    \A k \in 1 .. Len(bus) - 1 :
      /\ bus[k] = "read"  => bus[k + 1] \in {"read", "write"}
      /\ bus[k] = "write" => bus[k + 1] = "write"

-----------------------------------------------------------------------------
Bytes == <<"B", "C", "D", "E", "H", "L", "(HL)", "A">>
Pairs == <<"BC", "DE", "HL", "SP">>
StackPairs == <<"BC", "DE", "HL", "AF">>
ConditionAt == <<"NZ", "Z", "NC", "C">>
Operation == <<"ADD", "ADC", "SUB", "SBC", "AND", "XOR", "OR", "CP">>
Rotation == <<"RLC", "RRC", "RL", "RR", "SLA", "SRA", "SWAP", "SRL">>
Pointer == <<"(BC)", "(DE)", "(HL+)", "(HL-)">>

(* The fields of an opcode: two bits, three bits, of which two and one, and       *)
(* three bits.                                                                 *)
FirstQuarter(y, z) ==
  LET p == y \div 2
  IN CASE z = 0 /\ y < 4  -> <<<<"NOP">>, <<"LD", "(nn)", "SP">>, <<"STOP">>, <<"JR", "n">>>>[y + 1]
       [] z = 0 /\ y >= 4 -> <<"JR", ConditionAt[y - 3], "n">>
       [] z = 1 -> IF y % 2 = 0 THEN <<"LD", Pairs[p + 1], "nn">> ELSE <<"ADD", "HL", Pairs[p + 1]>>
       [] z = 2 -> IF y % 2 = 0 THEN <<"LD", Pointer[p + 1], "A">> ELSE <<"LD", "A", Pointer[p + 1]>>
       [] z = 3 -> <<IF y % 2 = 0 THEN "INC" ELSE "DEC", Pairs[p + 1]>>
       [] z = 4 -> <<"INC", Bytes[y + 1]>>
       [] z = 5 -> <<"DEC", Bytes[y + 1]>>
       [] z = 6 -> <<"LD", Bytes[y + 1], "n">>
       [] z = 7 -> << <<"RLCA", "RRCA", "RLA", "RRA", "DAA", "CPL", "SCF", "CCF">>[y + 1] >>

(* \hD3 and \hE3, which are no instructions, are the traps of the emulator.       *)
LastQuarter(y, z) ==
  LET p == y \div 2
  IN CASE z \in {0, 2, 4} /\ y < 4 ->
            IF z = 0 THEN <<"RET", ConditionAt[y + 1]>>
            ELSE <<IF z = 2 THEN "JP" ELSE "CALL", ConditionAt[y + 1], "nn">>
       [] z = 0 /\ y >= 4 -> <<<<"LDH", "(n)", "A">>, <<"ADD", "SP", "n">>,
                               <<"LDH", "A", "(n)">>, <<"LDHL", "SP", "n">>>>[y - 3]
       [] z = 1 -> IF y % 2 = 0 THEN <<"POP", StackPairs[p + 1]>>
                   ELSE <<<<"RET">>, <<"RETI">>, <<"JP", "HL">>, <<"LD", "SP", "HL">>>>[p + 1]
       [] z = 2 /\ y >= 4 -> <<<<"LD", "(C)", "A">>, <<"LD", "(nn)", "A">>,
                               <<"LD", "A", "(C)">>, <<"LD", "A", "(nn)">>>>[y - 3]
       [] z = 3 -> <<<<"JP", "nn">>, NONE, <<"Trap">>, BAD, <<"DebugTrap">>, BAD,
                     <<"DI">>, <<"EI">>>>[y + 1]
       [] z = 4 /\ y >= 4 -> BAD
       [] z = 5 -> IF y % 2 = 0 THEN <<"PUSH", StackPairs[p + 1]>>
                   ELSE IF p = 0 THEN <<"CALL", "nn">> ELSE BAD
       [] z = 6 -> <<Operation[y + 1], "n">>
       [] z = 7 -> <<"RST", 8 * y>>

ByFields(op) ==
  LET y == (op \div 8) % 8
      z == op % 8
  IN CASE op \div 64 = 0 -> FirstQuarter(y, z)
       [] op = \h76 -> <<"HALT">>
       [] op \div 64 = 1 /\ op # \h76 -> <<"LD", Bytes[y + 1], Bytes[z + 1]>>
       [] op \div 64 = 2 -> <<Operation[y + 1], Bytes[z + 1]>>
       [] op \div 64 = 3 -> LastQuarter(y, z)

PrefixedByFields(byte) ==
  LET y == (byte \div 8) % 8
      r == Bytes[(byte % 8) + 1]
  IN IF byte < 64 THEN <<Rotation[y + 1], r>>
     ELSE << <<"BIT", "RES", "SET">>[byte \div 64], r, y>>

(* Every opcode, of one byte or two, is decoded to one instruction at most, and   *)
(* to the one that its fields say (the groups and offsets of the switch).        *)
DecodedByFields ==
  /\ opcode # \hCB => Len(instruction) = Len(ByFields(opcode)) /\ instruction = ByFields(opcode)
  /\ opcode = \hCB /\ instruction # NONE => instruction = PrefixedByFields(arg)
  /\ \A op \in {opcode} : \A i, j \in Groups(op) : i = j
=============================================================================
