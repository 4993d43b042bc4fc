\* Two lines, the handlers nested two deep.  The operands are decimal and other
\* bytes with the ends of both digits (00, 01, 09, 0F, 45, 80, 90, 99, F6, FF);
\* the accumulator and the opcodes take all 256 values.  The words are the ends of
\* a byte, of twelve bits and of the range, and the word of the sign.
SPECIFICATION CpuSpec
CONSTANTS
  Lines = {0, 1}
  MaxDepth = 3
  OperandBytes = {0, 1, 9, 15, 69, 128, 144, 153, 246, 255}
  Words = {0, 255, 4095, 4096, 32768, 65535}
INVARIANTS HandlerShielded InstructionsAsDocumented
PROPERTIES QueueIsDelay ResultsExact
