--------------------------------- MODULE Cpu ---------------------------------
(* What the CPU does with interrupts, with its opcodes and with the accumulator *)
(* share no state that a property relates: a behaviour is one of Interrupts, of  *)
(* InstrTiming or of Alu.                                                      *)
EXTENDS Interrupts

CONSTANTS
  OperandBytes,  \* bytes that an instruction is given
  Words          \* words that are loaded to a pair

VARIABLES
  unit,
  a, hl, sp, f, executed, decimal,       \* of Alu
  opcode, arg, instruction, taken, bus   \* of InstrTiming

aluVars == <<a, hl, sp, f, executed, decimal>>
codeVars == <<opcode, arg, instruction, taken, bus>>

Arithmetic == INSTANCE Alu WITH instruction <- executed
Codes == INSTANCE InstrTiming

ASSUME ArithmeticAssumption == Arithmetic!OperandAssumption

CpuInit ==
  /\ unit \in {"interrupts", "bytes", "words", "codes"}
  /\ Init /\ Arithmetic!Init /\ Codes!Init

(* The emulator stops at an opcode that is no instruction.                     *)
CpuNext ==
  /\ UNCHANGED unit
  /\ \/ unit = "interrupts" /\ Next /\ UNCHANGED <<aluVars, codeVars>>
     \/ unit = "bytes" /\ Arithmetic!ByteNext /\ UNCHANGED <<vars, codeVars>>
     \/ unit = "words" /\ Arithmetic!WordNext /\ UNCHANGED <<vars, codeVars>>
     \/ unit = "codes" /\ Codes!Next /\ UNCHANGED <<vars, aluVars>>
     \/ instruction = Codes!BAD /\ UNCHANGED <<vars, aluVars, codeVars>>

CpuSpec == CpuInit /\ [][CpuNext]_<<unit, vars, aluVars, codeVars>>

-----------------------------------------------------------------------------
(* The instructions on A, HL, SP and F give the results and flags of integers,  *)
(* bits and packed decimals (ADD_n to RES_b_r, DAA, ADD16 to DEC16_nn).        *)
ResultsExact ==
  /\ Arithmetic!ArithmeticExact /\ Arithmetic!BitsExact
  /\ Arithmetic!DecimalAdjusted /\ Arithmetic!WordsExact

(* Every opcode is decoded to what its fields say, takes the cycles that the    *)
(* tests expect and makes its accesses on the last of them (opcodes.cpp).       *)
InstructionsAsDocumented ==
  Codes!DecodedByFields /\ Codes!TimedAsTable /\ Codes!AccessesLast
=============================================================================
