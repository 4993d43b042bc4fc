------------------------------- MODULE Opcodes -------------------------------
(* How the processor tells instructions apart and what they do on the bus: the   *)
(* switch of processNextInstruction (libgb/cpu/opcodes.cpp), which groups        *)
(* opcodes and computes operands from the distance to the first of a group, and  *)
(* the accesses and idle cycles of libgb/cpu/instructions.cpp and cpu.cpp, each  *)
(* of which lets one cycle pass for timers, LCD, sound and DMA.                 *)
(*                                                                            *)
(* An instruction is the tuple of its name and operands; an operand in brackets *)
(* is in memory, n and nn are immediate bytes.  Values are left out: a          *)
(* condition holds or not.                                                     *)
EXTENDS Integers, Sequences

Byte == 0 .. 255
NONE == <<"none">>
BAD == <<"bad">>

VARIABLES
  opcode, arg,  \* the byte taken first, and the one after \hCB
  instruction,  \* decoded instruction; NONE before, BAD stops the processor
  taken,        \* whether its condition holds
  bus           \* its cycles so far: "fetch", "read", "write" or "idle"

vars == <<opcode, arg, instruction, taken, bus>>

Init == opcode = 0 /\ arg = 0 /\ instruction = <<"NOP">> /\ taken = FALSE /\ bus = <<"fetch">>

registerOpcodes == <<"B", "C", "D", "E", "H", "L", "(HL)", "A">>
register16Opcodes == <<"BC", "DE", "HL", "SP">>

(* registerOpcodes[first ...], for opcodes that follow each other and for those *)
(* that are eight apart.                                                       *)
Reg(op, first) == registerOpcodes[op - first + 1]
RegBy8(op, first) == registerOpcodes[((op - first) \div 8) + 1]
Reg16(op) == register16Opcodes[(op \div 16) + 1]

Column(first, last) == {op \in first .. last : (op - first) % 8 = 0}

(* Loads of 8 bits.                                                            *)
Load8(op) ==
  CASE op \in Column(\h06, \h36) -> <<"LD", RegBy8(op, \h06), "n">>
    [] op \in \h78 .. \h7F -> <<"LD", "A", Reg(op, \h78)>>
    [] op \in \h40 .. \h46 -> <<"LD", "B", Reg(op, \h40)>>
    [] op \in \h48 .. \h4E -> <<"LD", "C", Reg(op, \h48)>>
    [] op \in \h50 .. \h56 -> <<"LD", "D", Reg(op, \h50)>>
    [] op \in \h58 .. \h5E -> <<"LD", "E", Reg(op, \h58)>>
    [] op \in \h60 .. \h66 -> <<"LD", "H", Reg(op, \h60)>>
    [] op \in \h68 .. \h6E -> <<"LD", "L", Reg(op, \h68)>>
    [] op \in \h70 .. \h75 -> <<"LD", "(HL)", Reg(op, \h70)>>
    [] op \in {\h0A, \h1A} -> <<"LD", "A", IF op = \h0A THEN "(BC)" ELSE "(DE)">>
    [] op = \hFA -> <<"LD", "A", "(nn)">>
    [] op = \h3E -> <<"LD", "A", "n">>
    [] op \in Column(\h47, \h77) -> <<"LD", RegBy8(op, \h47), "A">>
    [] op \in {\h02, \h12} -> <<"LD", IF op = \h02 THEN "(BC)" ELSE "(DE)", "A">>
    [] op = \hEA -> <<"LD", "(nn)", "A">>
    [] op = \hF2 -> <<"LD", "A", "(C)">>
    [] op = \hE2 -> <<"LD", "(C)", "A">>
    [] op \in {\h3A, \h2A} -> <<"LD", "A", IF op = \h3A THEN "(HL-)" ELSE "(HL+)">>
    [] op \in {\h32, \h22} -> <<"LD", IF op = \h32 THEN "(HL-)" ELSE "(HL+)", "A">>
    [] op = \hE0 -> <<"LDH", "(n)", "A">>
    [] op = \hF0 -> <<"LDH", "A", "(n)">>
    [] OTHER -> NONE

Load16(op) ==
  CASE op \in {\h01, \h11, \h21, \h31} -> <<"LD", Reg16(op), "nn">>
    [] op = \hF9 -> <<"LD", "SP", "HL">>
    [] op = \hF8 -> <<"LDHL", "SP", "n">>
    [] op = \h08 -> <<"LD", "(nn)", "SP">>
    [] op = \hF5 -> <<"PUSH", "AF">>
    [] op = \hC5 -> <<"PUSH", "BC">>
    [] op = \hD5 -> <<"PUSH", "DE">>
    [] op = \hE5 -> <<"PUSH", "HL">>
    [] op = \hF1 -> <<"POP", "AF">>
    [] op = \hC1 -> <<"POP", "BC">>
    [] op = \hD1 -> <<"POP", "DE">>
    [] op = \hE1 -> <<"POP", "HL">>
    [] OTHER -> NONE

(* Arithmetic: each operation has a row of registers and an immediate form,     *)
(* and INC and DEC have a column.                                               *)
ByteOperations == {"ADD", "ADC", "SUB", "SBC", "AND", "OR", "XOR", "CP"}

Arithmetic(op) ==
  CASE op \in \h80 .. \h87 -> <<"ADD", Reg(op, \h80)>>
    [] op = \hC6 -> <<"ADD", "n">>
    [] op \in \h88 .. \h8F -> <<"ADC", Reg(op, \h88)>>
    [] op = \hCE -> <<"ADC", "n">>
    [] op \in \h90 .. \h97 -> <<"SUB", Reg(op, \h90)>>
    [] op = \hD6 -> <<"SUB", "n">>
    [] op \in \h98 .. \h9F -> <<"SBC", Reg(op, \h98)>>
    [] op = \hDE -> <<"SBC", "n">>
    [] op \in \hA0 .. \hA7 -> <<"AND", Reg(op, \hA0)>>
    [] op = \hE6 -> <<"AND", "n">>
    [] op \in \hA8 .. \hAF -> <<"XOR", Reg(op, \hA8)>>
    [] op = \hEE -> <<"XOR", "n">>
    [] op \in \hB0 .. \hB7 -> <<"OR", Reg(op, \hB0)>>
    [] op = \hF6 -> <<"OR", "n">>
    [] op \in \hB8 .. \hBF -> <<"CP", Reg(op, \hB8)>>
    [] op = \hFE -> <<"CP", "n">>
    [] op \in Column(\h04, \h3C) -> <<"INC", RegBy8(op, \h04)>>
    [] op \in Column(\h05, \h3D) -> <<"DEC", RegBy8(op, \h05)>>
    [] op \in {\h09, \h19, \h29, \h39} -> <<"ADD", "HL", Reg16(op)>>
    [] op = \hE8 -> <<"ADD", "SP", "n">>
    [] op \in {\h03, \h13, \h23, \h33} -> <<"INC", Reg16(op)>>
    [] op \in {\h0B, \h1B, \h2B, \h3B} -> <<"DEC", Reg16(op)>>
    [] OTHER -> NONE

Miscellaneous(op) ==
  CASE op = \h27 -> <<"DAA">>  [] op = \h2F -> <<"CPL">>
    [] op = \h3F -> <<"CCF">>  [] op = \h37 -> <<"SCF">>
    [] op = \h00 -> <<"NOP">>  [] op = \h76 -> <<"HALT">>
    [] op = \h10 -> <<"STOP">> [] op = \hF3 -> <<"DI">>
    [] op = \hFB -> <<"EI">>   [] op = \h07 -> <<"RLCA">>
    [] op = \h17 -> <<"RLA">>  [] op = \h0F -> <<"RRCA">>
    [] op = \h1F -> <<"RRA">>  [] op = \hD3 -> <<"Trap">>
    [] op = \hE3 -> <<"DebugTrap">>
    [] OTHER -> NONE

(* The second switch, after \hCB.                                              *)
Prefixed(byte) ==
  CASE byte \in \h00 .. \h07 -> <<"RLC", Reg(byte, 0)>>
    [] byte \in \h08 .. \h0F -> <<"RRC", Reg(byte, \h08)>>
    [] byte \in \h10 .. \h17 -> <<"RL", Reg(byte, \h10)>>
    [] byte \in \h18 .. \h1F -> <<"RR", Reg(byte, \h18)>>
    [] byte \in \h20 .. \h27 -> <<"SLA", Reg(byte, \h20)>>
    [] byte \in \h28 .. \h2F -> <<"SRA", Reg(byte, \h28)>>
    [] byte \in \h30 .. \h37 -> <<"SWAP", Reg(byte, \h30)>>
    [] byte \in \h38 .. \h3F -> <<"SRL", Reg(byte, \h38)>>
    [] byte \in \h40 .. \h7F -> <<"BIT", registerOpcodes[(byte % 8) + 1], (byte - \h40) \div 8>>
    [] byte \in \h80 .. \hBF -> <<"RES", registerOpcodes[(byte % 8) + 1], (byte - \h80) \div 8>>
    [] byte \in \hC0 .. \hFF -> <<"SET", registerOpcodes[(byte % 8) + 1], (byte - \hC0) \div 8>>

(* Jumps, calls, restarts and returns.                                         *)
Condition(op, nz, z, nc, c) ==
  CASE op = nz -> "NZ" [] op = z -> "Z" [] op = nc -> "NC" [] op = c -> "C"

Control(op) ==
  CASE op = \hC3 -> <<"JP", "nn">>
    [] op \in {\hC2, \hCA, \hD2, \hDA} ->
         <<"JP", Condition(op, \hC2, \hCA, \hD2, \hDA), "nn">>
    [] op = \hE9 -> <<"JP", "HL">>
    [] op = \h18 -> <<"JR", "n">>
    [] op \in {\h20, \h28, \h30, \h38} ->
         <<"JR", Condition(op, \h20, \h28, \h30, \h38), "n">>
    [] op = \hCD -> <<"CALL", "nn">>
    [] op \in {\hC4, \hCC, \hD4, \hDC} ->
         <<"CALL", Condition(op, \hC4, \hCC, \hD4, \hDC), "nn">>
    [] op \in Column(\hC7, \hFF) -> <<"RST", op - \hC7>>
    [] op = \hC9 -> <<"RET">>
    [] op \in {\hC0, \hC8, \hD0, \hD8} -> <<"RET", Condition(op, \hC0, \hC8, \hD0, \hD8)>>
    [] op = \hD9 -> <<"RETI">>
    [] OTHER -> NONE

Groups(op) == {Load8(op), Load16(op), Arithmetic(op), Miscellaneous(op), Control(op)} \ {NONE}
Decoded(op) == CHOOSE i \in Groups(op) : TRUE

-----------------------------------------------------------------------------
(* Bytes after the opcode.  The target of a relative jump is taken as well if    *)
(* the condition does not hold.                                                *)
Operands(i) == {i[k] : k \in {2, 3} \cap DOMAIN i}
Immediates(i) ==
  IF i[1] = "RST" \/ opcode = \hCB THEN 0
  ELSE IF Operands(i) \cap {"nn", "(nn)"} # {} THEN 2
  ELSE IF Operands(i) \cap {"n", "(n)"} # {} THEN 1 ELSE 0

InMemory == {"(HL)", "(BC)", "(DE)", "(nn)", "(n)", "(C)", "(HL+)", "(HL-)"}
Wide == {"BC", "DE", "HL", "SP"}

(* What an instruction does on the bus after its bytes.  Loads; (HL) is left     *)
(* with no cycle for the step of HL.                                           *)
LoadCycles(i) ==
  CASE i = <<"LD", "(nn)", "SP">> -> <<"write", "write">>
    [] i = <<"LD", "SP", "HL">> \/ i[1] = "LDHL" -> <<"idle">>
    [] i[2] \in InMemory /\ i[3] # "SP" -> <<"write">>
    [] i[2] \notin InMemory /\ i[3] \in InMemory -> <<"read">>
    [] OTHER -> <<>>

(* (Slip: the cycle of a push falls after its writes.)                         *)
PushCyclesLate == <<"write", "write", "idle">>
PushCycles == <<"idle", "write", "write">>
PopCycles == <<"read", "read">>

(* ADD of HL and of SP, INC and DEC of a pair, and the others on bytes.         *)
ArithmeticCycles(i) ==
  CASE i[1] = "ADD" /\ i[2] = "SP" -> <<"idle", "idle">>
    [] i[2] \in Wide /\ <<i[1], i[2]>> # <<"ADD", "SP">> -> <<"idle">>
    [] i[1] \in {"INC", "DEC"} /\ i[2] = "(HL)" -> <<"read", "write">>
    [] i[1] \notin {"INC", "DEC"} /\ i[2] = "(HL)" -> <<"read">>
    [] OTHER -> <<>>

(* BIT alone does not write back.                                               *)
PrefixedCycles(i) ==
  IF i[2] # "(HL)" THEN <<>> ELSE IF i[1] = "BIT" THEN <<"read">> ELSE <<"read", "write">>

Conditions == {"NZ", "Z", "NC", "C"}
IsConditional(i) == i[1] \in {"JP", "JR", "CALL", "RET"} /\ Operands(i) \cap Conditions # {}
Goes(i) == IsConditional(i) => taken

(* A return costs the cycle of a jump, and a conditional one another cycle,      *)
(* whether it returns or not.                                                  *)
ReturnCycles(i) ==
  (IF IsConditional(i) THEN <<"idle">> ELSE <<>>)
    \o (IF Goes(i) THEN PopCycles \o <<"idle">> ELSE <<>>)

ControlCycles(i) ==
  CASE i[1] \in {"CALL", "RST"} -> IF Goes(i) THEN PushCycles ELSE <<>>
    [] i[1] \in {"RET", "RETI"} -> ReturnCycles(i)
    [] i = <<"JP", "HL">> -> <<>>
    [] i[1] \in {"JP", "JR"} /\ i # <<"JP", "HL">> -> IF Goes(i) THEN <<"idle">> ELSE <<>>

Cycles(i) ==
  CASE opcode = \hCB -> PrefixedCycles(i)
    [] i[1] \in {"LD", "LDH", "LDHL"} -> LoadCycles(i)
    [] i[1] = "PUSH" -> PushCycles
    [] i[1] = "POP" -> PopCycles
    [] opcode # \hCB /\ i[1] \in ByteOperations \cup {"INC", "DEC"} -> ArithmeticCycles(i)
    [] i[1] \in {"JP", "JR", "CALL", "RST", "RET", "RETI"} -> ControlCycles(i)
    [] OTHER -> <<>>

Fetches == [n \in 1 .. (IF opcode = \hCB THEN 2 ELSE 1) + Immediates(instruction) |-> "fetch"]
Program == Fetches \o Cycles(instruction)

-----------------------------------------------------------------------------
(* processNextInstruction: the opcode is taken when the instruction before is    *)
(* complete.                                                                   *)
Complete == instruction \notin {NONE, BAD} /\ bus = Program

TakeOpcode(op) ==
  /\ Complete
  /\ opcode' = op /\ arg' = 0 /\ bus' = <<"fetch">>
  /\ taken' \in BOOLEAN
  /\ instruction' = IF op = \hCB THEN NONE
                    ELSE IF Groups(op) = {} THEN BAD ELSE Decoded(op)

TakePrefixed(byte) ==
  /\ instruction = NONE
  /\ arg' = byte /\ instruction' = Prefixed(byte) /\ bus' = Append(bus, "fetch")
  /\ UNCHANGED <<opcode, taken>>

(* One cycle of the instruction, which advances the clock of the machine.       *)
Cycle ==
  /\ instruction \notin {NONE, BAD} /\ Len(bus) < Len(Program)
  /\ bus' = Append(bus, Program[Len(bus) + 1])
  /\ UNCHANGED <<opcode, arg, instruction, taken>>

Next ==
  \/ \E byte \in Byte : TakeOpcode(byte) \/ TakePrefixed(byte)
  \/ Cycle

Spec == Init /\ [][Next]_vars
=============================================================================
