------------------------------ MODULE Cpu_proofs ------------------------------
(* For all sets of lines, depths of handlers and programs: handlers are       *)
(* shielded, and the queue of IME implements a delay of one instruction.  For *)
(* all operands and words: the arithmetic is exact.  For all opcodes: they are *)
(* decoded by their fields, in the cycles of the table.                       *)
EXTENDS Cpu, SequenceTheorems, TLAPS

(* What a context remembers.                                                  *)
Context == [asked : {"none", "EI", "DI"}, since : 0 .. 2, enabled : BOOLEAN]

(* A context that has not enabled interrupts keeps them from taking effect,   *)
(* and if it has not asked for them either, none are queued.                  *)
Shields(c, ime) ==
  ~c.enabled => ~ime[0] /\ (c.asked # "EI" => ~ime[1] /\ ~ime[2])

(* Between two clocks the last two values of the queue are the same.          *)
Queue(ime) == ime \in [0 .. 2 -> BOOLEAN] /\ ime[1] = ime[2]

Typed ==
  /\ Queue(IME)
  /\ context \in Seq(Context) /\ context # <<>>

(* Only a context that has enabled interrupts is ever interrupted.            *)
IInv ==
  /\ Typed
  /\ \A i \in 1 .. Len(context) - 1 : context[i].enabled
  /\ Shields(Running, IME)

-----------------------------------------------------------------------------
(* The first half of a clock: the entry into a handler, or nothing.           *)
LEMMA Checked ==
  ASSUME IInv
  PROVE  /\ Queue(imeChecked)
         /\ contextChecked \in Seq(Context) /\ contextChecked # <<>>
         /\ Len(contextChecked) \in Nat \ {0}
         /\ runner \in Context
         /\ \A i \in 1 .. Len(contextChecked) - 1 : contextChecked[i].enabled
         /\ Shields(runner, imeChecked)
<1> USE DEF IInv, Typed, Queue
<1>1. Len(context) \in Nat \ {0} /\ Running \in Context
  BY EmptySeq DEF Running
<1>2. Fresh \in Context /\ ~Fresh.enabled
  BY DEF Fresh, Context
<1>3. CASE Accepts
  <2>1. imeChecked = All(FALSE) /\ contextChecked = Append(context, Fresh)
    BY <1>3 DEF imeChecked, contextChecked
  <2>2. IME[0] = TRUE
    BY <1>3 DEF Accepts
  <2>3. Running.enabled
    BY <2>2 DEF Shields
  <2>4. /\ Append(context, Fresh) \in Seq(Context)
        /\ Len(Append(context, Fresh)) = Len(context) + 1
        /\ \A i \in 1 .. Len(context) : Append(context, Fresh)[i] = context[i]
        /\ Append(context, Fresh)[Len(context) + 1] = Fresh
    BY <1>1, <1>2, AppendProperties
  <2>5. runner = Fresh
    BY <2>1, <2>4 DEF runner
  <2>6. \A i \in 1 .. Len(context) : context[i].enabled
    BY <1>1, <2>3 DEF Running
  <2>7. Shields(runner, imeChecked) /\ Queue(imeChecked)
    BY <2>1 DEF Shields, All
  <2>8. Append(context, Fresh) # <<>>
    BY <1>1, <2>4, EmptySeq
  <2>9. Len(contextChecked) \in Nat \ {0} /\ Len(contextChecked) - 1 = Len(context)
    BY <1>1, <2>1, <2>4
  <2>10. \A i \in 1 .. Len(contextChecked) - 1 : contextChecked[i].enabled
    BY <2>1, <2>4, <2>6, <2>9
  <2>11. QED BY <1>2, <2>1, <2>4, <2>5, <2>7, <2>8, <2>9, <2>10
<1>4. CASE ~Accepts
  BY <1>1, <1>4 DEF imeChecked, contextChecked, runner, Running
<1>5. QED BY <1>3, <1>4

(* The second half, when the instruction stays in its context.                *)
LEMMA StaysStep ==
  ASSUME IInv, NEW c \in Context, RunnerBecomes(c),
         Queue(IME'), Shields(c, IME')
  PROVE  IInv'
<1>1. /\ contextChecked \in Seq(Context) /\ Len(contextChecked) \in Nat \ {0}
      /\ \A i \in 1 .. Len(contextChecked) - 1 : contextChecked[i].enabled
  BY Checked
<1>2. /\ context' \in Seq(Context) /\ Len(context') = Len(contextChecked)
      /\ context'[Len(contextChecked)] = c
      /\ \A i \in 1 .. Len(contextChecked) - 1 : context'[i] = contextChecked[i]
  BY <1>1, ExceptSeq DEF RunnerBecomes
<1>3. context' # <<>> /\ Running' = c
  BY <1>1, <1>2, EmptySeq DEF Running
<1>4. QED BY <1>1, <1>2, <1>3 DEF IInv, Typed

(* The second half, when it returns from a handler.                           *)
LEMMA ReturnsStep ==
  ASSUME IInv, Len(contextChecked) > 1, context' = Front(contextChecked),
         Queue(IME')
  PROVE  IInv'
<1>1. /\ contextChecked \in Seq(Context) /\ Len(contextChecked) \in Nat \ {0}
      /\ \A i \in 1 .. Len(contextChecked) - 1 : contextChecked[i].enabled
  BY Checked
<1>2. /\ context' \in Seq(Context) /\ Len(context') = Len(contextChecked) - 1
      /\ \A i \in 1 .. Len(contextChecked) - 1 : context'[i] = contextChecked[i]
  BY <1>1, SubSeqProperties DEF Front
<1>3. context' # <<>> /\ Running'.enabled
  BY <1>1, <1>2, EmptySeq DEF Running
<1>4. QED BY <1>1, <1>2, <1>3 DEF IInv, Typed, Shields

(* What each instruction makes of the queue and of its context.               *)
LEMMA QueueStep ==
  ASSUME IInv
  PROVE  /\ Older(runner) \in Context /\ Shields(Older(runner), Shifted(imeChecked))
         /\ Queue(Shifted(imeChecked))
         /\ \A what \in {"EI", "DI"} :
              LET ime == Shifted([imeChecked EXCEPT ![2] = (what = "EI")])
              IN  /\ Asks(runner, what) \in Context
                  /\ Queue(ime) /\ Shields(Asks(runner, what), ime)
<1>1. Queue(imeChecked) /\ runner \in Context /\ Shields(runner, imeChecked)
  BY Checked
<1>2. Enabled(runner) \in BOOLEAN
  BY <1>1 DEF Enabled, Context
<1>3. Older(runner) \in Context /\ Older(runner).enabled = Enabled(runner)
      /\ Older(runner).asked = runner.asked
  <2> DEFINE since == IF runner.since < 2 THEN runner.since + 1 ELSE 2
  <2>1. since \in 0 .. 2
    BY <1>1 DEF Context
  <2>2. Older(runner) = [asked |-> runner.asked, since |-> since, enabled |-> Enabled(runner)]
    <3>1. runner = [asked |-> runner.asked, since |-> runner.since, enabled |-> runner.enabled]
      BY <1>1 DEF Context
    <3>2. Older(runner) = [runner EXCEPT !.since = since, !.enabled = Enabled(runner)]
      BY DEF Older
    <3> HIDE DEF since
    <3>3. QED BY <3>1, <3>2
  <2>3. QED BY <1>1, <1>2, <2>1, <2>2 DEF Context
<1>4. \A what \in {"EI", "DI"} :
        /\ Asks(runner, what) \in Context
        /\ Asks(runner, what).enabled = Enabled(runner) /\ Asks(runner, what).asked = what
  BY <1>2 DEF Asks, Context
<1>5. ~Enabled(runner) => ~imeChecked[0] /\ ~imeChecked[1] /\ ~imeChecked[2]
  BY <1>1 DEF Enabled, Shields
<1>6. Queue(Shifted(imeChecked)) /\ Shields(Older(runner), Shifted(imeChecked))
  BY <1>1, <1>3, <1>5 DEF Shifted, Shields, Queue
<1>7. ASSUME NEW what \in {"EI", "DI"}
      PROVE  LET ime == Shifted([imeChecked EXCEPT ![2] = (what = "EI")])
             IN  Queue(ime) /\ Shields(Asks(runner, what), ime)
  BY <1>1, <1>4, <1>5 DEF Shifted, Shields, Queue
<1>8. QED BY <1>3, <1>4, <1>6, <1>7

-----------------------------------------------------------------------------
LEMMA InvInit == Init => IInv
<1> SUFFICES ASSUME Init PROVE IInv
  OBVIOUS
<1> DEFINE c == [asked |-> "none", since |-> 2, enabled |-> TRUE]
<1>1. c \in Context /\ c.enabled
  BY DEF Context
<1>2. context \in Seq(Context) /\ Len(context) = 1 /\ context # <<>> /\ context[1] = c
  BY <1>1 DEF Init
<1>3. Queue(IME)
  BY DEF Init, All, Queue
<1>4. QED BY <1>1, <1>2, <1>3 DEF IInv, Typed, Shields, Running

LEMMA InvStep == IInv /\ [Next]_vars => IInv'
<1> SUFFICES ASSUME IInv, [Next]_vars PROVE IInv'
  OBVIOUS
<1>1. CASE UNCHANGED vars
  BY <1>1 DEF vars, IInv, Typed, Queue, Shields, Running
<1>2. CASE Idle
  BY <1>1, <1>2 DEF Idle
<1>3. CASE Other
  BY <1>3, QueueStep, StaysStep DEF Other
<1>4. CASE HALT
  BY <1>4, QueueStep, StaysStep DEF HALT
<1>5. CASE EI
  <2>1. /\ IME' = Shifted([imeChecked EXCEPT ![2] = ("EI" = "EI")])
        /\ RunnerBecomes(Asks(runner, "EI"))
    BY <1>5 DEF EI
  <2>2. QED BY <2>1, QueueStep, StaysStep
<1>6. CASE DI
  <2>1. /\ IME' = Shifted([imeChecked EXCEPT ![2] = ("DI" = "EI")])
        /\ RunnerBecomes(Asks(runner, "DI"))
    BY <1>6 DEF DI
  <2>2. QED BY <2>1, QueueStep, StaysStep
<1>7. CASE RETI
  <2>1. Queue(IME')
    BY <1>7 DEF RETI, Shifted, All, Queue
  <2>2. CASE Len(contextChecked) > 1 /\ context' = Front(contextChecked)
    BY <2>1, <2>2, ReturnsStep
  <2>3. CASE RunnerBecomes(Enabling)
    <3>1. Enabling \in Context /\ Shields(Enabling, IME')
      BY DEF Enabling, Context, Shields
    <3>2. QED BY <2>1, <2>3, <3>1, StaysStep
  <2>4. QED BY <1>7, <2>2, <2>3 DEF RETI
<1>8. CASE RET
  BY <1>8, QueueStep, ReturnsStep DEF RET
<1>9. CASE \E lines \in SUBSET Lines : WriteIE(lines) \/ WriteIF(lines)
  BY <1>9, QueueStep, StaysStep DEF WriteIE, WriteIF
<1>10. CASE DebugTrap
  BY <1>10, Checked, StaysStep DEF DebugTrap
<1>11. CASE \E line \in Lines : Request(line)
  BY <1>11 DEF Request, IInv, Typed, Queue, Shields, Running
<1>12. QED
  BY <1>1, <1>2, <1>3, <1>4, <1>5, <1>6, <1>7, <1>8, <1>9, <1>10, <1>11 DEF Next, Clock

LEMMA InvHolds == Spec => []IInv
BY InvInit, InvStep, PTL DEF Spec

(* No handler is entered on top of one that has not executed EI and an        *)
(* instruction after it, or a RETI it went on after (handleInterrupts, clock, *)
(* EI, RETI).                                                                 *)
THEOREM Shielded == Spec => []HandlerShielded
<1>1. IInv => HandlerShielded
  BY DEF IInv, Typed, Queue, Shields, HandlerShielded, Accepts
<1>2. QED BY <1>1, InvHolds, PTL

-----------------------------------------------------------------------------
(* The steps of the machine are steps of the delay.                           *)
LEMMA DelayInit == Init => Delay!Init
BY DEF Init, All, Delay!Init, triggered

LEMMA DelayStep == IInv /\ [Next]_vars => [Delay!Next]_(Delay!vars)
<1> SUFFICES ASSUME IInv, [Next]_vars PROVE [Delay!Next]_(Delay!vars)
  OBVIOUS
<1> USE DEF Delay!vars
<1>1. /\ (triggered # {}) \in BOOLEAN /\ (triggered # {})' \in BOOLEAN
      /\ Delay!Enters = Accepts
  BY DEF Delay!Enters, Accepts
<1>2. Queue(imeChecked) /\ Delay!before = imeChecked[2]
  <2>1. Queue(imeChecked)
    BY Checked
  <2>2. CASE Accepts
    <3>1. imeChecked[2] = FALSE
      BY <2>2 DEF imeChecked, All
    <3>2. Delay!before = FALSE
      BY <1>1, <2>2 DEF Delay!before
    <3>3. QED BY <2>1, <3>1, <3>2, Zenon
  <2>3. CASE ~Accepts
    <3>1. imeChecked = IME
      BY <2>3 DEF imeChecked
    <3>2. Delay!before = IME[2]
      BY <1>1, <2>3 DEF Delay!before
    <3>3. QED BY <2>1, <3>1, <3>2
  <2>4. QED BY <2>2, <2>3
<1>3. /\ Shifted(imeChecked)[0] = Delay!before /\ Shifted(imeChecked)[2] = Delay!before
      /\ \A b \in BOOLEAN : /\ Shifted([imeChecked EXCEPT ![2] = b])[0] = Delay!before
                            /\ Shifted([imeChecked EXCEPT ![2] = b])[2] = b
      /\ Delay!before \in BOOLEAN
  BY <1>2 DEF Shifted, Queue
<1>4. ASSUME IME' = Shifted(imeChecked) PROVE Delay!Next
  BY <1>1, <1>3, <1>4 DEF Delay!Next, Delay!Completes
<1>5. CASE UNCHANGED vars
  BY <1>5 DEF vars, triggered
<1>6. CASE Idle
  BY <1>5, <1>6 DEF Idle
<1>7. CASE \/ Other \/ HALT \/ RET
           \/ \E lines \in SUBSET Lines : WriteIE(lines) \/ WriteIF(lines)
  BY <1>4, <1>7 DEF Other, HALT, RET, WriteIE, WriteIF
<1>8. CASE EI \/ DI
  <2>1. PICK b \in BOOLEAN : IME' = Shifted([imeChecked EXCEPT ![2] = b])
    BY <1>8 DEF EI, DI
  <2>2. QED BY <1>1, <1>3, <2>1 DEF Delay!Next, Delay!Completes
<1>9. CASE RETI
  <2>1. IME' = All(TRUE)
    BY <1>9 DEF RETI, Shifted, All
  <2>2. QED BY <1>1, <2>1 DEF Delay!Next, Delay!Reti, All
<1>10. CASE DebugTrap
  <2>1. IME'[0] = (IME[0] /\ ~Accepts) /\ IME'[2] = Delay!before
    <3>1. IME' = imeChecked
      BY <1>10 DEF DebugTrap
    <3>2. CASE Accepts
      <4>1. imeChecked[0] = FALSE
        BY <3>2 DEF imeChecked, All
      <4>2. QED BY <1>2, <3>1, <3>2, <4>1
    <3>3. CASE ~Accepts
      <4>1. imeChecked[0] = IME[0] /\ IME[0] \in BOOLEAN
        BY <3>3 DEF imeChecked, IInv, Typed, Queue
      <4>2. QED BY <1>2, <3>1, <3>3, <4>1
    <3>4. QED BY <3>2, <3>3
  <2>2. QED BY <1>1, <2>1 DEF Delay!Next, Delay!Trapped
<1>11. CASE \E line \in Lines : Request(line)
  BY <1>1, <1>11 DEF Request, triggered, Delay!Next, Delay!Raise
<1>12. QED BY <1>5, <1>6, <1>7, <1>8, <1>9, <1>10, <1>11 DEF Next, Clock

(* The queue of three is a delay of one instruction: every behaviour of the   *)
(* interrupt logic is one of ImeDelay (clock, EI, DI, RETI, handleInterrupts).*)
THEOREM DelayCorrect == Spec => QueueIsDelay
BY InvHolds, DelayInit, DelayStep, PTL DEF Spec, QueueIsDelay, Delay!Spec

-----------------------------------------------------------------------------
(* The accumulator.  Flags are told apart by their names.                     *)
LEMMA FlagsAre ==
  ASSUME NEW z \in BOOLEAN, NEW n \in BOOLEAN, NEW h \in BOOLEAN, NEW c \in BOOLEAN
  PROVE  LET flags == Arithmetic!Flags(z, n, h, c)
         IN  /\ "Z" \in flags <=> z
             /\ "N" \in flags <=> n
             /\ "H" \in flags <=> h
             /\ "C" \in flags <=> c
             /\ flags \subseteq {"Z", "N", "H", "C"}
BY DEF Arithmetic!Flags

(* A byte is the sum of its bits.                                             *)
LEMMA PowersAre ==
  /\ Arithmetic!Power[1] = 1 /\ Arithmetic!Power[2] = 2
  /\ Arithmetic!Power[3] = 4 /\ Arithmetic!Power[4] = 8
  /\ Arithmetic!Power[5] = 16 /\ Arithmetic!Power[6] = 32
  /\ Arithmetic!Power[7] = 64 /\ Arithmetic!Power[8] = 128
BY DEF Arithmetic!Power

Bit == {0, 1}
BitSum(b0, b1, b2, b3, b4, b5, b6, b7) ==
  b0 + 2 * b1 + 4 * b2 + 8 * b3 + 16 * b4 + 32 * b5 + 64 * b6 + 128 * b7

HasBits(x, b0, b1, b2, b3, b4, b5, b6, b7) ==
  /\ x \in Arithmetic!Bytes
  /\ Arithmetic!At(x, 0) <=> b0 = 1
  /\ Arithmetic!At(x, 1) <=> b1 = 1
  /\ Arithmetic!At(x, 2) <=> b2 = 1
  /\ Arithmetic!At(x, 3) <=> b3 = 1
  /\ Arithmetic!At(x, 4) <=> b4 = 1
  /\ Arithmetic!At(x, 5) <=> b5 = 1
  /\ Arithmetic!At(x, 6) <=> b6 = 1
  /\ Arithmetic!At(x, 7) <=> b7 = 1

LEMMA SumOfBits ==
  ASSUME NEW b0 \in Bit, NEW b1 \in Bit, NEW b2 \in Bit, NEW b3 \in Bit,
         NEW b4 \in Bit, NEW b5 \in Bit, NEW b6 \in Bit, NEW b7 \in Bit
  PROVE  HasBits(BitSum(b0, b1, b2, b3, b4, b5, b6, b7), b0, b1, b2, b3, b4, b5, b6, b7)
BY PowersAre DEF Bit, BitSum, HasBits, Arithmetic!At, Arithmetic!Bytes

LEMMA ByteHasBits ==
  ASSUME NEW x \in Arithmetic!Bytes
  PROVE  \E b0, b1, b2, b3, b4, b5, b6, b7 \in Bit :
           /\ x = BitSum(b0, b1, b2, b3, b4, b5, b6, b7)
           /\ HasBits(x, b0, b1, b2, b3, b4, b5, b6, b7)
<1> DEFINE b(n) == (x \div n) % 2
<1>1. \A n \in {1, 2, 4, 8, 16, 32, 64, 128} : b(n) \in Bit
  BY DEF Bit, Arithmetic!Bytes
<1>2. x = BitSum(b(1), b(2), b(4), b(8), b(16), b(32), b(64), b(128))
  BY DEF BitSum, Arithmetic!Bytes
<1> HIDE DEF b
<1>3. HasBits(x, b(1), b(2), b(4), b(8), b(16), b(32), b(64), b(128))
  <2>1. HasBits(BitSum(b(1), b(2), b(4), b(8), b(16), b(32), b(64), b(128)),
                b(1), b(2), b(4), b(8), b(16), b(32), b(64), b(128))
    BY <1>1, SumOfBits
  <2>2. QED BY <1>2, <2>1
<1>4. QED BY <1>1, <1>2, <1>3

(* A set of bits is a byte that has them.                                     *)
LEMMA ByteOfBits ==
  ASSUME NEW S
  PROVE  /\ Arithmetic!ByteOf(S) \in Arithmetic!Bytes
         /\ \A i \in 0 .. 7 : Arithmetic!At(Arithmetic!ByteOf(S), i) <=> i \in S
<1> DEFINE b(i) == Arithmetic!Bool(i \in S)
<1>1. \A i : b(i) \in Bit /\ (b(i) = 1 <=> i \in S)
  BY DEF Bit, Arithmetic!Bool
<1>2. Arithmetic!ByteOf(S) = BitSum(b(0), b(1), b(2), b(3), b(4), b(5), b(6), b(7))
  BY DEF Arithmetic!ByteOf, BitSum
<1> HIDE DEF b
<1>3. HasBits(Arithmetic!ByteOf(S), b(0), b(1), b(2), b(3), b(4), b(5), b(6), b(7))
  <2>1. HasBits(BitSum(b(0), b(1), b(2), b(3), b(4), b(5), b(6), b(7)),
                b(0), b(1), b(2), b(3), b(4), b(5), b(6), b(7))
    BY <1>1, SumOfBits
  <2>2. QED BY <1>2, <2>1
<1>4. Arithmetic!ByteOf(S) \in Arithmetic!Bytes
  BY <1>3 DEF HasBits
<1>5. ASSUME NEW i \in 0 .. 7
      PROVE  Arithmetic!At(Arithmetic!ByteOf(S), i) <=> i \in S
  <2>1. \A j \in 0 .. 7 : \/ j = 0 \/ j = 1 \/ j = 2 \/ j = 3 \/ j = 4 \/ j = 5 \/ j = 6 \/ j = 7
    OBVIOUS
  <2>2. QED BY <1>1, <1>3, <2>1, Zenon DEF HasBits
<1>6. QED BY <1>4, <1>5

-----------------------------------------------------------------------------
(* What an instruction leaves, and by which name it goes.                     *)
LEMMA ExecutedIs ==
  ASSUME NEW op, NEW n, NEW result, NEW flags, Arithmetic!Executes(op, n, result, flags)
  PROVE  /\ a' = result /\ f' = flags
         /\ Arithmetic!op_ = op /\ Arithmetic!operand_ = n
BY DEF Arithmetic!Executes, Arithmetic!op_, Arithmetic!operand_

(* An addition, with or without a carry, and a subtraction.                   *)
LEMMA Added ==
  ASSUME a \in Arithmetic!Bytes, NEW n \in Arithmetic!Bytes, NEW op, NEW carry \in BOOLEAN,
         Arithmetic!AddTo(op, n, carry)
  PROVE  /\ a' \in Arithmetic!Bytes
         /\ Arithmetic!op_ = op /\ Arithmetic!operand_ = n
         /\ Arithmetic!Z' <=> a' = 0
         /\ ~Arithmetic!N'
         /\ Arithmetic!H' <=> (a % 16) + (n % 16) + Arithmetic!Bool(carry) > 15
         /\ a' + 256 * Arithmetic!Bool(Arithmetic!C') = a + n + Arithmetic!Bool(carry)
<1> DEFINE c == Arithmetic!Bool(carry)
           result == Arithmetic!Byte(Arithmetic!Byte(a + n) + c)
           z == result = 0
           h == (n % 16) + c > 15 - (a % 16)
           over == Arithmetic!Carries(n, carry)
<1>1. c \in 0 .. 1 /\ (c = 1 <=> carry)
  BY DEF Arithmetic!Bool
<1>2. /\ a' = result /\ f' = Arithmetic!Flags(z, FALSE, h, over)
      /\ Arithmetic!op_ = op /\ Arithmetic!operand_ = n
  BY ExecutedIs DEF Arithmetic!AddTo
<1>3. over <=> a + n + c > 255
  BY <1>1 DEF Arithmetic!Carries, Arithmetic!Byte, Arithmetic!Bytes
<1>4. result = IF a + n + c > 255 THEN a + n + c - 256 ELSE a + n + c
  BY <1>1 DEF Arithmetic!Byte, Arithmetic!Bytes
<1>5. h <=> (a % 16) + (n % 16) + c > 15
  BY <1>1 DEF Arithmetic!Bytes
<1>6. z \in BOOLEAN /\ h \in BOOLEAN /\ over \in BOOLEAN
  BY DEF Arithmetic!Carries
<1> HIDE DEF z, h, over
<1>7. /\ Arithmetic!Z' <=> z
      /\ ~Arithmetic!N'
      /\ Arithmetic!H' <=> h
      /\ Arithmetic!C' <=> over
  BY <1>2, <1>6, FlagsAre DEF Arithmetic!Z, Arithmetic!N, Arithmetic!H, Arithmetic!C
<1>8. Arithmetic!Bool(Arithmetic!C') = IF a + n + c > 255 THEN 1 ELSE 0
  BY <1>3, <1>7 DEF Arithmetic!Bool
<1>9. Arithmetic!Z' <=> a' = 0
  BY <1>2, <1>7 DEF z
<1> HIDE DEF c, result
<1>10. a' \in Arithmetic!Bytes /\ a' + 256 * Arithmetic!Bool(Arithmetic!C') = a + n + c
  BY <1>1, <1>2, <1>4, <1>8 DEF Arithmetic!Bytes
<1>11. QED BY <1>2, <1>5, <1>7, <1>9, <1>10 DEF c

LEMMA Subtracted ==
  ASSUME a \in Arithmetic!Bytes, NEW n \in Arithmetic!Bytes, NEW op, NEW carry \in BOOLEAN,
         Arithmetic!SubFrom(op, n, carry)
  PROVE  /\ a' \in Arithmetic!Bytes
         /\ Arithmetic!op_ = op /\ Arithmetic!operand_ = n
         /\ Arithmetic!Z' <=> a' = 0
         /\ Arithmetic!N'
         /\ Arithmetic!H' <=> (a % 16) - (n % 16) - Arithmetic!Bool(carry) < 0
         /\ a' - 256 * Arithmetic!Bool(Arithmetic!C') = a - n - Arithmetic!Bool(carry)
<1> DEFINE c == Arithmetic!Bool(carry)
           adjusted == Arithmetic!Byte(n + c)
           result == Arithmetic!Byte(a - adjusted)
           z == result = 0
           h == a % 16 < (n % 16) + c
           under == a < adjusted \/ (carry /\ n = 255)
<1>1. c \in 0 .. 1 /\ (c = 1 <=> carry)
  BY DEF Arithmetic!Bool
<1>2. /\ a' = result /\ f' = Arithmetic!Flags(z, TRUE, h, under)
      /\ Arithmetic!op_ = op /\ Arithmetic!operand_ = n
  BY ExecutedIs DEF Arithmetic!SubFrom
<1>3. under <=> a - n - c < 0
  BY <1>1 DEF Arithmetic!Byte, Arithmetic!Bytes
<1>4. result = IF a - n - c < 0 THEN a - n - c + 256 ELSE a - n - c
  BY <1>1 DEF Arithmetic!Byte, Arithmetic!Bytes
<1>5. h <=> (a % 16) - (n % 16) - c < 0
  BY <1>1 DEF Arithmetic!Bytes
<1>6. z \in BOOLEAN /\ h \in BOOLEAN /\ under \in BOOLEAN
  OBVIOUS
<1> HIDE DEF z, h, under
<1>7. /\ Arithmetic!Z' <=> z
      /\ Arithmetic!N'
      /\ Arithmetic!H' <=> h
      /\ Arithmetic!C' <=> under
  BY <1>2, <1>6, FlagsAre DEF Arithmetic!Z, Arithmetic!N, Arithmetic!H, Arithmetic!C
<1>8. Arithmetic!Bool(Arithmetic!C') = IF a - n - c < 0 THEN 1 ELSE 0
  BY <1>3, <1>7 DEF Arithmetic!Bool
<1>9. Arithmetic!Z' <=> a' = 0
  BY <1>2, <1>7 DEF z
<1> HIDE DEF c, result
<1>10. a' \in Arithmetic!Bytes /\ a' - 256 * Arithmetic!Bool(Arithmetic!C') = a - n - c
  BY <1>1, <1>2, <1>4, <1>8 DEF Arithmetic!Bytes
<1>11. QED BY <1>2, <1>5, <1>7, <1>9, <1>10 DEF c

(* The instructions that go by the bits.  Where the bits of a byte are moved  *)
(* to, where they are exchanged, and where they are inverted.                 *)
LEMMA EachBit ==
  \A i \in 0 .. 7 : \/ i = 0 \/ i = 1 \/ i = 2 \/ i = 3
                    \/ i = 4 \/ i = 5 \/ i = 6 \/ i = 7
OBVIOUS

LEMMA Left ==
  ASSUME a \in Arithmetic!Bytes, NEW op, NEW in \in Bit, NEW z \in BOOLEAN,
         Arithmetic!Rotate(op, Arithmetic!ShiftedLeft + in, Arithmetic!Bit7, z)
  PROVE  /\ a' \in Arithmetic!Bytes
         /\ Arithmetic!op_ = op
         /\ Arithmetic!C' <=> Arithmetic!At(a, 7)
         /\ \A i \in 1 .. 7 : Arithmetic!At(a', i) <=> Arithmetic!At(a, i - 1)
         /\ Arithmetic!At(a', 0) <=> in = 1
         /\ Arithmetic!Z' <=> z
<1>1. PICK b0, b1, b2, b3, b4, b5, b6, b7 \in Bit :
        /\ a = BitSum(b0, b1, b2, b3, b4, b5, b6, b7)
        /\ HasBits(a, b0, b1, b2, b3, b4, b5, b6, b7)
  BY ByteHasBits
<1>2. /\ Arithmetic!ShiftedLeft + in = BitSum(in, b0, b1, b2, b3, b4, b5, b6)
      /\ Arithmetic!Bit7 <=> b7 = 1
  BY <1>1 DEF Bit, BitSum, Arithmetic!ShiftedLeft, Arithmetic!Byte, Arithmetic!Bit7
<1>3. /\ a' = Arithmetic!ShiftedLeft + in
      /\ f' = Arithmetic!Flags(z, FALSE, FALSE, Arithmetic!Bit7)
      /\ Arithmetic!op_ = op
  BY ExecutedIs DEF Arithmetic!Rotate
<1>4. HasBits(a', in, b0, b1, b2, b3, b4, b5, b6)
  <2>1. HasBits(BitSum(in, b0, b1, b2, b3, b4, b5, b6),
                in, b0, b1, b2, b3, b4, b5, b6)
    BY SumOfBits
  <2>2. QED BY <1>2, <1>3, <2>1
<1>5. (Arithmetic!C' <=> Arithmetic!Bit7) /\ (Arithmetic!Z' <=> z)
  <2>1. Arithmetic!Bit7 \in BOOLEAN
    BY DEF Arithmetic!Bit7
  <2>2. QED BY <1>3, <2>1, FlagsAre DEF Arithmetic!C, Arithmetic!Z
<1>6. ASSUME NEW i \in 1 .. 7
      PROVE  Arithmetic!At(a', i) <=> Arithmetic!At(a, i - 1)
  <2>1. \/ (i = 1 /\ i - 1 = 0) \/ (i = 2 /\ i - 1 = 1) \/ (i = 3 /\ i - 1 = 2)
        \/ (i = 4 /\ i - 1 = 3) \/ (i = 5 /\ i - 1 = 4) \/ (i = 6 /\ i - 1 = 5)
        \/ (i = 7 /\ i - 1 = 6)
    OBVIOUS
  <2>2. QED BY <1>1, <1>4, <2>1, Zenon DEF HasBits
<1>7. QED BY <1>1, <1>2, <1>3, <1>4, <1>5, <1>6 DEF HasBits

LEMMA Right ==
  ASSUME a \in Arithmetic!Bytes, NEW op, NEW in \in Bit, NEW z \in BOOLEAN, NEW r,
         Arithmetic!Rotate(op, r, Arithmetic!Bit0, z), r = 128 * in + Arithmetic!ShiftedRight
  PROVE  /\ a' \in Arithmetic!Bytes
         /\ Arithmetic!op_ = op /\ a' = r
         /\ Arithmetic!C' <=> Arithmetic!At(a, 0)
         /\ \A i \in 0 .. 6 : Arithmetic!At(a', i) <=> Arithmetic!At(a, i + 1)
         /\ Arithmetic!At(a', 7) <=> in = 1
         /\ Arithmetic!Z' <=> z
<1>1. PICK b0, b1, b2, b3, b4, b5, b6, b7 \in Bit :
        /\ a = BitSum(b0, b1, b2, b3, b4, b5, b6, b7)
        /\ HasBits(a, b0, b1, b2, b3, b4, b5, b6, b7)
  BY ByteHasBits
<1>2. /\ r = BitSum(b1, b2, b3, b4, b5, b6, b7, in)
      /\ Arithmetic!Bit0 <=> b0 = 1
  BY <1>1 DEF Bit, BitSum, Arithmetic!ShiftedRight, Arithmetic!Bit0
<1>3. /\ a' = r
      /\ f' = Arithmetic!Flags(z, FALSE, FALSE, Arithmetic!Bit0)
      /\ Arithmetic!op_ = op
  BY ExecutedIs DEF Arithmetic!Rotate
<1>4. HasBits(a', b1, b2, b3, b4, b5, b6, b7, in)
  <2>1. HasBits(BitSum(b1, b2, b3, b4, b5, b6, b7, in),
                b1, b2, b3, b4, b5, b6, b7, in)
    BY SumOfBits
  <2>2. QED BY <1>2, <1>3, <2>1
<1>5. (Arithmetic!C' <=> Arithmetic!Bit0) /\ (Arithmetic!Z' <=> z)
  <2>1. Arithmetic!Bit0 \in BOOLEAN
    BY DEF Arithmetic!Bit0
  <2>2. QED BY <1>3, <2>1, FlagsAre DEF Arithmetic!C, Arithmetic!Z
<1>6. ASSUME NEW i \in 0 .. 6
      PROVE  Arithmetic!At(a', i) <=> Arithmetic!At(a, i + 1)
  <2>1. \/ (i = 0 /\ i + 1 = 1) \/ (i = 1 /\ i + 1 = 2) \/ (i = 2 /\ i + 1 = 3)
        \/ (i = 3 /\ i + 1 = 4) \/ (i = 4 /\ i + 1 = 5) \/ (i = 5 /\ i + 1 = 6)
        \/ (i = 6 /\ i + 1 = 7)
    OBVIOUS
  <2>2. QED BY <1>1, <1>4, <2>1, Zenon DEF HasBits
<1>7. QED BY <1>1, <1>2, <1>3, <1>4, <1>5, <1>6 DEF HasBits

LEMMA Swapped ==
  ASSUME a \in Arithmetic!Bytes, Arithmetic!SWAP_n
  PROVE  /\ a' \in Arithmetic!Bytes
         /\ Arithmetic!op_ = "SWAP"
         /\ \A i \in 0 .. 7 : Arithmetic!At(a', i) <=> Arithmetic!At(a, (i + 4) % 8)
         /\ Arithmetic!Z' <=> a' = 0
<1>1. PICK b0, b1, b2, b3, b4, b5, b6, b7 \in Bit :
        /\ a = BitSum(b0, b1, b2, b3, b4, b5, b6, b7)
        /\ HasBits(a, b0, b1, b2, b3, b4, b5, b6, b7)
  BY ByteHasBits
<1> DEFINE result == Arithmetic!Byte(16 * (a % 16)) + a \div 16
<1>2. /\ result = BitSum(b4, b5, b6, b7, b0, b1, b2, b3)
      /\ result = 0 <=> a = 0
  BY <1>1 DEF Bit, BitSum, Arithmetic!Byte
<1>3. /\ a' = result /\ f' = Arithmetic!Flags(a = 0, FALSE, FALSE, FALSE)
      /\ Arithmetic!op_ = "SWAP"
  BY ExecutedIs DEF Arithmetic!SWAP_n
<1> HIDE DEF result
<1>4. HasBits(a', b4, b5, b6, b7, b0, b1, b2, b3)
  <2>1. HasBits(BitSum(b4, b5, b6, b7, b0, b1, b2, b3),
                b4, b5, b6, b7, b0, b1, b2, b3)
    BY SumOfBits
  <2>2. QED BY <1>2, <1>3, <2>1
<1>5. Arithmetic!Z' <=> a = 0
  BY <1>3, FlagsAre DEF Arithmetic!Z
<1>6. ASSUME NEW i \in 0 .. 7
      PROVE  Arithmetic!At(a', i) <=> Arithmetic!At(a, (i + 4) % 8)
  <2>1. \/ (i = 0 /\ (i + 4) % 8 = 4) \/ (i = 1 /\ (i + 4) % 8 = 5)
        \/ (i = 2 /\ (i + 4) % 8 = 6) \/ (i = 3 /\ (i + 4) % 8 = 7)
        \/ (i = 4 /\ (i + 4) % 8 = 0) \/ (i = 5 /\ (i + 4) % 8 = 1)
        \/ (i = 6 /\ (i + 4) % 8 = 2) \/ (i = 7 /\ (i + 4) % 8 = 3)
    OBVIOUS
  <2>2. QED BY <1>1, <1>4, <2>1, Zenon DEF HasBits
<1>7. QED BY <1>2, <1>3, <1>4, <1>5, <1>6 DEF HasBits

LEMMA Inverted ==
  ASSUME a \in Arithmetic!Bytes, Arithmetic!CPL
  PROVE  /\ a' \in Arithmetic!Bytes
         /\ Arithmetic!op_ = "CPL"
         /\ \A i \in 0 .. 7 : Arithmetic!At(a', i) <=> ~Arithmetic!At(a, i)
<1>1. PICK b0, b1, b2, b3, b4, b5, b6, b7 \in Bit :
        /\ a = BitSum(b0, b1, b2, b3, b4, b5, b6, b7)
        /\ HasBits(a, b0, b1, b2, b3, b4, b5, b6, b7)
  BY ByteHasBits
<1> DEFINE not(b) == 1 - b
           sum == BitSum(not(b0), not(b1), not(b2), not(b3),
                         not(b4), not(b5), not(b6), not(b7))
<1>2. 255 - a = sum /\ \A b \in Bit : not(b) \in Bit /\ (not(b) = 1 <=> b # 1)
  BY <1>1 DEF Bit, BitSum
<1>3. a' = 255 - a /\ Arithmetic!op_ = "CPL"
  BY ExecutedIs DEF Arithmetic!CPL
<1> HIDE DEF not
<1>4. HasBits(a', not(b0), not(b1), not(b2), not(b3), not(b4), not(b5), not(b6), not(b7))
  <2>1. HasBits(sum, not(b0), not(b1), not(b2), not(b3), not(b4), not(b5), not(b6), not(b7))
    BY <1>2, SumOfBits
  <2> HIDE DEF sum
  <2>2. QED BY <1>2, <1>3, <2>1
<1>5. ASSUME NEW i \in 0 .. 7
      PROVE  Arithmetic!At(a', i) <=> ~Arithmetic!At(a, i)
  <2>1. /\ Arithmetic!At(a', 0) <=> ~Arithmetic!At(a, 0)
        /\ Arithmetic!At(a', 1) <=> ~Arithmetic!At(a, 1)
        /\ Arithmetic!At(a', 2) <=> ~Arithmetic!At(a, 2)
        /\ Arithmetic!At(a', 3) <=> ~Arithmetic!At(a, 3)
        /\ Arithmetic!At(a', 4) <=> ~Arithmetic!At(a, 4)
        /\ Arithmetic!At(a', 5) <=> ~Arithmetic!At(a, 5)
        /\ Arithmetic!At(a', 6) <=> ~Arithmetic!At(a, 6)
        /\ Arithmetic!At(a', 7) <=> ~Arithmetic!At(a, 7)
    BY <1>1, <1>2, <1>4 DEF HasBits
  <2>2. QED BY <2>1, EachBit, Zenon
<1>6. QED BY <1>3, <1>4, <1>5 DEF HasBits

(* Two bytes, or one and one of its bits.                                     *)
LEMMA Logic ==
  ASSUME NEW n, NEW op, NEW h \in BOOLEAN, NEW S,
         Arithmetic!Logical(op, n, Arithmetic!ByteOf(S), h)
  PROVE  /\ a' \in Arithmetic!Bytes
         /\ Arithmetic!op_ = op /\ Arithmetic!operand_ = n
         /\ \A i \in 0 .. 7 : Arithmetic!At(a', i) <=> i \in S
         /\ Arithmetic!Z' <=> a' = 0
<1>1. /\ a' = Arithmetic!ByteOf(S)
      /\ f' = Arithmetic!Flags(Arithmetic!ByteOf(S) = 0, FALSE, h, FALSE)
      /\ Arithmetic!op_ = op /\ Arithmetic!operand_ = n
  BY ExecutedIs DEF Arithmetic!Logical
<1>2. Arithmetic!Z' <=> a' = 0
  BY <1>1, FlagsAre DEF Arithmetic!Z
<1>3. QED BY <1>1, <1>2, ByteOfBits

LEMMA OneBit ==
  ASSUME NEW b \in 0 .. 7, a \in Arithmetic!Bytes
  PROVE  /\ Arithmetic!BIT_b_r(b) =>
              /\ a' = a /\ Arithmetic!op_ = "BIT" /\ Arithmetic!operand_ = b
              /\ Arithmetic!Z' <=> ~Arithmetic!At(a, b)
         /\ Arithmetic!SET_b_r(b) =>
              /\ a' \in Arithmetic!Bytes
              /\ Arithmetic!op_ = "SET" /\ Arithmetic!operand_ = b
              /\ \A i \in 0 .. 7 : Arithmetic!At(a', i) <=> Arithmetic!At(a, i) \/ i = b
         /\ Arithmetic!RES_b_r(b) =>
              /\ a' \in Arithmetic!Bytes
              /\ Arithmetic!op_ = "RES" /\ Arithmetic!operand_ = b
              /\ \A i \in 0 .. 7 : Arithmetic!At(a', i) <=> Arithmetic!At(a, i) /\ i # b
<1>1. ASSUME Arithmetic!BIT_b_r(b)
      PROVE  /\ a' = a /\ Arithmetic!op_ = "BIT" /\ Arithmetic!operand_ = b
             /\ Arithmetic!Z' <=> ~Arithmetic!At(a, b)
  <2> DEFINE z == Arithmetic!Bits(a) \cap {b} = {}
  <2>1. /\ a' = a /\ f' = Arithmetic!Flags(z, FALSE, TRUE, Arithmetic!C)
        /\ Arithmetic!op_ = "BIT" /\ Arithmetic!operand_ = b
    BY <1>1, ExecutedIs DEF Arithmetic!BIT_b_r
  <2>2. z <=> ~Arithmetic!At(a, b)
    BY DEF Arithmetic!Bits
  <2>3. z \in BOOLEAN /\ Arithmetic!C \in BOOLEAN
    BY DEF Arithmetic!C
  <2> HIDE DEF z
  <2>4. Arithmetic!Z' <=> z
    BY <2>1, <2>3, FlagsAre DEF Arithmetic!Z
  <2>5. QED BY <2>1, <2>2, <2>4
<1>2. ASSUME Arithmetic!SET_b_r(b)
      PROVE  /\ a' \in Arithmetic!Bytes
             /\ Arithmetic!op_ = "SET" /\ Arithmetic!operand_ = b
             /\ \A i \in 0 .. 7 : Arithmetic!At(a', i) <=> Arithmetic!At(a, i) \/ i = b
  <2>1. /\ a' = Arithmetic!ByteOf(Arithmetic!Bits(a) \cup {b})
        /\ Arithmetic!op_ = "SET" /\ Arithmetic!operand_ = b
    BY <1>2, ExecutedIs DEF Arithmetic!SET_b_r
  <2>2. QED BY <2>1, ByteOfBits DEF Arithmetic!Bits
<1>3. ASSUME Arithmetic!RES_b_r(b)
      PROVE  /\ a' \in Arithmetic!Bytes
             /\ Arithmetic!op_ = "RES" /\ Arithmetic!operand_ = b
             /\ \A i \in 0 .. 7 : Arithmetic!At(a', i) <=> Arithmetic!At(a, i) /\ i # b
  <2>1. /\ a' = Arithmetic!ByteOf(Arithmetic!Bits(a) \ {b})
        /\ Arithmetic!op_ = "RES" /\ Arithmetic!operand_ = b
    BY <1>3, ExecutedIs DEF Arithmetic!RES_b_r
  <2>2. QED BY <2>1, ByteOfBits DEF Arithmetic!Bits
<1>4. QED BY <1>1, <1>2, <1>3

-----------------------------------------------------------------------------
(* What DAA has to know of the operation before it is in A, N, H and C: they   *)
(* are the binary sum or difference of the two decimal operands.               *)
IsSum(x, y, c) ==
  /\ decimal = Arithmetic!Known(Arithmetic!FromDecimal(x) + Arithmetic!FromDecimal(y) + c)
  /\ ~Arithmetic!N
  /\ Arithmetic!H <=> (x % 16) + (y % 16) + c > 15
  /\ a + 256 * Arithmetic!Bool(Arithmetic!C) = x + y + c
IsDifference(x, y, c) ==
  /\ decimal = Arithmetic!Known(Arithmetic!FromDecimal(x) - Arithmetic!FromDecimal(y) - c)
  /\ Arithmetic!N
  /\ Arithmetic!H <=> (x % 16) - (y % 16) - c < 0
  /\ a - 256 * Arithmetic!Bool(Arithmetic!C) = x - y - c

Recalls ==
  decimal.known =>
    \E x, y \in Arithmetic!Bytes, c \in Bit :
      /\ Arithmetic!IsDecimal(x) /\ Arithmetic!IsDecimal(y)
      /\ (IsSum(x, y, c) \/ IsDifference(x, y, c))

AluInv == a \in Arithmetic!Bytes /\ Recalls

LEMMA Forgets ==
  ASSUME NEW op, NEW n, NEW result, NEW flags, Arithmetic!Executes(op, n, result, flags),
         op \notin {"ADD", "ADC", "SUB", "SBC"}
  PROVE  Recalls'
BY DEF Arithmetic!Executes, Arithmetic!None, Recalls

LEMMA RecallsSum ==
  ASSUME a \in Arithmetic!Bytes, NEW n \in Arithmetic!Bytes, NEW op \in {"ADD", "ADC"},
         NEW carry \in BOOLEAN, carry <=> op = "ADC" /\ Arithmetic!C,
         Arithmetic!AddTo(op, n, carry)
  PROVE  Recalls'
<1> DEFINE c == Arithmetic!Bool(op \in {"ADC", "SBC"} /\ Arithmetic!C)
<1>1. c \in Bit /\ c = Arithmetic!Bool(carry)
  BY DEF Bit, Arithmetic!Bool
<1>2. decimal' = IF Arithmetic!IsDecimal(a) /\ Arithmetic!IsDecimal(n)
                 THEN Arithmetic!Known(Arithmetic!FromDecimal(a) + Arithmetic!FromDecimal(n) + c)
                 ELSE Arithmetic!None
  BY DEF Arithmetic!AddTo, Arithmetic!Executes
<1> HIDE DEF c
<1>3. CASE Arithmetic!IsDecimal(a) /\ Arithmetic!IsDecimal(n)
  <2>1. PICK x \in Arithmetic!Bytes, d \in Bit : x = a /\ d = c
    BY <1>1
  <2>2. decimal' = Arithmetic!Known(Arithmetic!FromDecimal(x) + Arithmetic!FromDecimal(n) + d)
    BY <1>2, <1>3, <2>1
  <2>3. IsSum(x, n, d)'
    BY <1>1, <2>1, <2>2, Added DEF IsSum
  <2>4. QED BY <1>3, <2>1, <2>3 DEF Recalls
<1>4. CASE ~(Arithmetic!IsDecimal(a) /\ Arithmetic!IsDecimal(n))
  BY <1>2, <1>4 DEF Arithmetic!None, Recalls
<1>5. QED BY <1>3, <1>4

LEMMA RecallsDifference ==
  ASSUME a \in Arithmetic!Bytes, NEW n \in Arithmetic!Bytes, NEW op \in {"SUB", "SBC"},
         NEW carry \in BOOLEAN, carry <=> op = "SBC" /\ Arithmetic!C,
         Arithmetic!SubFrom(op, n, carry)
  PROVE  Recalls'
<1> DEFINE c == Arithmetic!Bool(op \in {"ADC", "SBC"} /\ Arithmetic!C)
<1>1. c \in Bit /\ c = Arithmetic!Bool(carry)
  BY DEF Bit, Arithmetic!Bool
<1>2. decimal' = IF Arithmetic!IsDecimal(a) /\ Arithmetic!IsDecimal(n)
                 THEN Arithmetic!Known(Arithmetic!FromDecimal(a) - Arithmetic!FromDecimal(n) - c)
                 ELSE Arithmetic!None
  BY DEF Arithmetic!SubFrom, Arithmetic!Executes
<1> HIDE DEF c
<1>3. CASE Arithmetic!IsDecimal(a) /\ Arithmetic!IsDecimal(n)
  <2>1. PICK x \in Arithmetic!Bytes, d \in Bit : x = a /\ d = c
    BY <1>1
  <2>2. decimal' = Arithmetic!Known(Arithmetic!FromDecimal(x) - Arithmetic!FromDecimal(n) - d)
    BY <1>2, <1>3, <2>1
  <2>3. IsDifference(x, n, d)'
    BY <1>1, <2>1, <2>2, Subtracted DEF IsDifference
  <2>4. QED BY <1>3, <2>1, <2>3 DEF Recalls
<1>4. CASE ~(Arithmetic!IsDecimal(a) /\ Arithmetic!IsDecimal(n))
  BY <1>2, <1>4 DEF Arithmetic!None, Recalls
<1>5. QED BY <1>3, <1>4

(* DAA then makes the decimal one of it.                                      *)
LEMMA Digits ==
  ASSUME NEW x \in Arithmetic!Bytes, Arithmetic!IsDecimal(x)
  PROVE  \E h, l \in 0 .. 9 : /\ x = 16 * h + l /\ x % 16 = l
                              /\ Arithmetic!FromDecimal(x) = 10 * h + l
<1>1. /\ x \div 16 \in 0 .. 9 /\ x % 16 \in 0 .. 9
      /\ x = 16 * (x \div 16) + (x % 16)
  BY DEF Arithmetic!IsDecimal, Arithmetic!Bytes
<1>2. QED BY <1>1 DEF Arithmetic!FromDecimal

LEMMA Adjusted ==
  ASSUME AluInv, Arithmetic!DAA
  PROVE  /\ a' \in Arithmetic!Bytes
         /\ Arithmetic!op_ = "DAA"
         /\ decimal.known => /\ a' = Arithmetic!ToDecimal(decimal.value)
                             /\ Arithmetic!C' <=> decimal.carry
<1> DEFINE upper == IF Arithmetic!N THEN Arithmetic!C ELSE Arithmetic!UpperOutOfRange
           lower == IF Arithmetic!N THEN Arithmetic!H ELSE a % 16 > 9 \/ Arithmetic!H
           adjust == 96 * Arithmetic!Bool(upper) + 6 * Arithmetic!Bool(lower)
           result == Arithmetic!Byte(IF Arithmetic!N THEN a - adjust ELSE a + adjust)
<1>1. /\ a' = result
      /\ f' = Arithmetic!Flags(result = 0, Arithmetic!N, FALSE, upper)
      /\ Arithmetic!op_ = "DAA"
  <2>1. Arithmetic!Executes("DAA", 0, result,
                            Arithmetic!Flags(result = 0, Arithmetic!N, FALSE, upper))
    BY DEF Arithmetic!DAA
  <2> HIDE DEF result, upper
  <2>2. QED BY <2>1, ExecutedIs
<1>2. /\ upper \in BOOLEAN /\ lower \in BOOLEAN
      /\ Arithmetic!N \in BOOLEAN /\ Arithmetic!H \in BOOLEAN /\ Arithmetic!C \in BOOLEAN
  <2>1. Arithmetic!N \in BOOLEAN /\ Arithmetic!H \in BOOLEAN /\ Arithmetic!C \in BOOLEAN
    BY DEF Arithmetic!N, Arithmetic!H, Arithmetic!C
  <2>2. Arithmetic!UpperOutOfRange \in BOOLEAN /\ (a % 16 > 9 \/ Arithmetic!H) \in BOOLEAN
    BY DEF Arithmetic!UpperOutOfRange
  <2>3. QED BY <2>1, <2>2, Zenon
<1>3. Arithmetic!C' <=> upper
  <2>1. (result = 0) \in BOOLEAN
    OBVIOUS
  <2> HIDE DEF upper, result
  <2>2. QED BY <1>1, <1>2, <2>1, FlagsAre DEF Arithmetic!C
<1>4. adjust \in 0 .. 102
  BY <1>2 DEF Arithmetic!Bool
<1>5. a' \in Arithmetic!Bytes
  <2> HIDE DEF adjust
  <2>1. a \in Int /\ adjust \in Int
    BY <1>4 DEF AluInv, Arithmetic!Bytes
  <2>2. (a - adjust) % 256 \in 0 .. 255 /\ (a + adjust) % 256 \in 0 .. 255
    BY <2>1
  <2>3. QED BY <1>1, <2>2 DEF Arithmetic!Byte, Arithmetic!Bytes
<1>6. ASSUME decimal.known
      PROVE  /\ a' = Arithmetic!ToDecimal(decimal.value)
             /\ upper <=> decimal.carry
  <2>1. PICK x, y \in Arithmetic!Bytes, c \in Bit :
          /\ Arithmetic!IsDecimal(x) /\ Arithmetic!IsDecimal(y)
          /\ (IsSum(x, y, c) \/ IsDifference(x, y, c))
    BY <1>6 DEF AluInv, Recalls
  <2>2. PICK xh, xl \in 0 .. 9 : /\ x = 16 * xh + xl /\ x % 16 = xl
                                 /\ Arithmetic!FromDecimal(x) = 10 * xh + xl
    BY <2>1, Digits
  <2>3. PICK yh, yl \in 0 .. 9 : /\ y = 16 * yh + yl /\ y % 16 = yl
                                 /\ Arithmetic!FromDecimal(y) = 10 * yh + yl
    BY <2>1, Digits
  <2>4. c = 0 \/ c = 1
    BY DEF Bit
  <2>5. a \in 0 .. 255
    BY DEF AluInv, Arithmetic!Bytes
  <2>6. CASE IsSum(x, y, c)
    <3> DEFINE high == xh + yh
               low == xl + yl + c
    <3>1. high \in 0 .. 18 /\ low \in 0 .. 19
      BY <2>4
    <3>2. /\ decimal = Arithmetic!Known(10 * high + low)
          /\ ~Arithmetic!N
          /\ Arithmetic!H <=> low > 15
          /\ a + 256 * Arithmetic!Bool(Arithmetic!C) = 16 * high + low
      BY <2>2, <2>3, <2>4, <2>6 DEF IsSum
    <3> HIDE DEF high, low
    <3>3. a = (16 * high + low) % 256 /\ (Arithmetic!C <=> 16 * high + low > 255)
      BY <1>2, <2>5, <3>1, <3>2 DEF Arithmetic!Bool
    <3>4. /\ lower <=> low > 9
          /\ upper <=> 10 * high + low > 99
      BY <3>1, <3>2, <3>3 DEF Arithmetic!UpperOutOfRange
    <3>5. /\ decimal.value = (10 * high + low) % 100
          /\ decimal.carry <=> 10 * high + low > 99
      <4>1. /\ decimal.value = (10 * high + low) % 100
            /\ decimal.carry = (10 * high + low \notin 0 .. 99)
        BY <3>2 DEF Arithmetic!Known
      <4>2. 10 * high + low \notin 0 .. 99 <=> 10 * high + low > 99
        BY <3>1
      <4>3. QED BY <4>1, <4>2, Zenon
    <3>6. a' = (a + (IF 10 * high + low > 99 THEN 96 ELSE 0) + (IF low > 9 THEN 6 ELSE 0)) % 256
      BY <1>1, <1>2, <2>5, <3>2, <3>4 DEF Arithmetic!Bool, Arithmetic!Byte
    <3>7. a' = 16 * (((10 * high + low) % 100) \div 10) + (((10 * high + low) % 100) % 10)
      BY <3>1, <3>3, <3>6
    <3>8. QED BY <3>4, <3>5, <3>7 DEF Arithmetic!ToDecimal
  <2>7. CASE IsDifference(x, y, c)
    <3> DEFINE high == xh - yh
               low == xl - yl - c
    <3>1. high \in -9 .. 9 /\ low \in -10 .. 9
      BY <2>4
    <3>2. /\ decimal = Arithmetic!Known(10 * high + low)
          /\ Arithmetic!N
          /\ Arithmetic!H <=> low < 0
          /\ a - 256 * Arithmetic!Bool(Arithmetic!C) = 16 * high + low
      BY <2>2, <2>3, <2>4, <2>7 DEF IsDifference
    <3> HIDE DEF high, low
    <3>3. a = (16 * high + low) % 256 /\ (Arithmetic!C <=> 16 * high + low < 0)
      BY <1>2, <2>5, <3>1, <3>2 DEF Arithmetic!Bool
    <3>4. /\ lower <=> low < 0
          /\ upper <=> 10 * high + low < 0
      BY <3>1, <3>2, <3>3
    <3>5. /\ decimal.value = (10 * high + low) % 100
          /\ decimal.carry <=> 10 * high + low < 0
      <4>1. /\ decimal.value = (10 * high + low) % 100
            /\ decimal.carry = (10 * high + low \notin 0 .. 99)
        BY <3>2 DEF Arithmetic!Known
      <4>2. 10 * high + low \notin 0 .. 99 <=> 10 * high + low < 0
        BY <3>1
      <4>3. QED BY <4>1, <4>2, Zenon
    <3>6. a' = (a - (IF 10 * high + low < 0 THEN 96 ELSE 0) - (IF low < 0 THEN 6 ELSE 0)) % 256
      BY <1>1, <1>2, <2>5, <3>2, <3>4 DEF Arithmetic!Bool, Arithmetic!Byte
    <3>7. a' = 16 * (((10 * high + low) % 100) \div 10) + (((10 * high + low) % 100) % 10)
      BY <3>1, <3>3, <3>6
    <3>8. QED BY <3>4, <3>5, <3>7 DEF Arithmetic!ToDecimal
  <2>8. QED BY <2>1, <2>6, <2>7
<1>7. QED BY <1>1, <1>3, <1>5, <1>6

-----------------------------------------------------------------------------
(* A comparison, and the steps by one.                                        *)
LEMMA Compared ==
  ASSUME a \in Arithmetic!Bytes, NEW n \in Arithmetic!Bytes, Arithmetic!CP_n(n)
  PROVE  /\ a' = a /\ Arithmetic!op_ = "CP" /\ Arithmetic!operand_ = n
         /\ Arithmetic!Z' <=> a - n = 0
         /\ Arithmetic!C' <=> a - n < 0
         /\ Arithmetic!H' <=> (a % 16) - (n % 16) < 0
<1> DEFINE z == a = n
           h == a % 16 < n % 16
           c == a < n
<1>1. /\ a' = a /\ f' = Arithmetic!Flags(z, TRUE, h, c)
      /\ Arithmetic!op_ = "CP" /\ Arithmetic!operand_ = n
  BY ExecutedIs DEF Arithmetic!CP_n
<1>2. (z <=> a - n = 0) /\ (h <=> (a % 16) - (n % 16) < 0) /\ (c <=> a - n < 0)
  BY DEF Arithmetic!Bytes
<1>3. z \in BOOLEAN /\ h \in BOOLEAN /\ c \in BOOLEAN
  OBVIOUS
<1> HIDE DEF z, h, c
<1>4. (Arithmetic!Z' <=> z) /\ (Arithmetic!H' <=> h) /\ (Arithmetic!C' <=> c)
  BY <1>1, <1>3, FlagsAre DEF Arithmetic!Z, Arithmetic!H, Arithmetic!C
<1>5. QED BY <1>1, <1>2, <1>4

LEMMA Incremented ==
  ASSUME a \in Arithmetic!Bytes, Arithmetic!INC_r
  PROVE  /\ a' = (a + 1) % 256 /\ a' \in Arithmetic!Bytes /\ Arithmetic!op_ = "INC"
         /\ Arithmetic!Z' <=> a' = 0
         /\ Arithmetic!C' <=> Arithmetic!C
         /\ Arithmetic!H' <=> (a % 16) + 1 > 15
<1> DEFINE result == Arithmetic!Byte(a + 1)
           z == result = 0
           h == result % 16 = 0
<1>1. /\ a' = result /\ f' = Arithmetic!Flags(z, FALSE, h, Arithmetic!C)
      /\ Arithmetic!op_ = "INC"
  BY ExecutedIs DEF Arithmetic!INC_r
<1>2. /\ result = (a + 1) % 256 /\ result \in Arithmetic!Bytes
      /\ h <=> (a % 16) + 1 > 15
  BY DEF Arithmetic!Bytes, Arithmetic!Byte
<1>3. z \in BOOLEAN /\ h \in BOOLEAN /\ Arithmetic!C \in BOOLEAN
  BY DEF Arithmetic!C
<1>4. (z <=> a' = 0) /\ a' = (a + 1) % 256 /\ a' \in Arithmetic!Bytes
  BY <1>1, <1>2
<1> HIDE DEF z, h
<1>5. (Arithmetic!Z' <=> z) /\ (Arithmetic!H' <=> h) /\ (Arithmetic!C' <=> Arithmetic!C)
  BY <1>1, <1>3, FlagsAre DEF Arithmetic!Z, Arithmetic!H, Arithmetic!C
<1>6. QED BY <1>1, <1>2, <1>4, <1>5

LEMMA Decremented ==
  ASSUME a \in Arithmetic!Bytes, Arithmetic!DEC_r
  PROVE  /\ a' = (a - 1) % 256 /\ a' \in Arithmetic!Bytes /\ Arithmetic!op_ = "DEC"
         /\ Arithmetic!Z' <=> a' = 0
         /\ Arithmetic!C' <=> Arithmetic!C
         /\ Arithmetic!H' <=> (a % 16) - 1 < 0
<1> DEFINE result == Arithmetic!Byte(a - 1)
           z == result = 0
           h == result % 16 = 15
<1>1. /\ a' = result /\ f' = Arithmetic!Flags(z, TRUE, h, Arithmetic!C)
      /\ Arithmetic!op_ = "DEC"
  BY ExecutedIs DEF Arithmetic!DEC_r
<1>2. /\ result = (a - 1) % 256 /\ result \in Arithmetic!Bytes
      /\ h <=> (a % 16) - 1 < 0
  BY DEF Arithmetic!Bytes, Arithmetic!Byte
<1>3. z \in BOOLEAN /\ h \in BOOLEAN /\ Arithmetic!C \in BOOLEAN
  BY DEF Arithmetic!C
<1>4. (z <=> a' = 0) /\ a' = (a - 1) % 256 /\ a' \in Arithmetic!Bytes
  BY <1>1, <1>2
<1> HIDE DEF z, h
<1>5. (Arithmetic!Z' <=> z) /\ (Arithmetic!H' <=> h) /\ (Arithmetic!C' <=> Arithmetic!C)
  BY <1>1, <1>3, FlagsAre DEF Arithmetic!Z, Arithmetic!H, Arithmetic!C
<1>6. QED BY <1>1, <1>2, <1>4, <1>5

-----------------------------------------------------------------------------
(* What each group of instructions does, and that the properties do not speak *)
(* of it when it is of another group.                                         *)
AluStep ==
  AluInv' /\ Arithmetic!IntegerStep /\ Arithmetic!BitStep /\ Arithmetic!DecimalStep

LEMMA OtherGroups ==
  /\ Arithmetic!op_ \notin {"ADD", "ADC", "SUB", "SBC", "CP", "INC", "DEC"}
       => Arithmetic!IntegerStep
  /\ Arithmetic!op_ \in {"ADD", "ADC", "SUB", "SBC", "CP", "INC", "DEC", "DAA", "CCF", "SCF"}
       => Arithmetic!BitStep
  /\ Arithmetic!op_ # "DAA" => Arithmetic!DecimalStep
BY DEF Arithmetic!IntegerStep, Arithmetic!BitStep, Arithmetic!DecimalStep

LEMMA AdditionStep ==
  ASSUME AluInv, NEW n \in Arithmetic!Bytes, Arithmetic!ADD_n(n) \/ Arithmetic!ADC_n(n)
  PROVE  AluStep
<1>1. PICK op \in {"ADD", "ADC"}, carry \in BOOLEAN :
        /\ carry <=> op = "ADC" /\ Arithmetic!C
        /\ Arithmetic!AddTo(op, n, carry)
  <2>1. CASE Arithmetic!ADD_n(n)
    <3>1. Arithmetic!AddTo("ADD", n, FALSE)
      BY <2>1 DEF Arithmetic!ADD_n
    <3>2. QED BY <3>1
  <2>2. CASE Arithmetic!ADC_n(n)
    <3>1. Arithmetic!AddTo("ADC", n, Arithmetic!C) /\ Arithmetic!C \in BOOLEAN
      BY <2>2 DEF Arithmetic!ADC_n, Arithmetic!C
    <3>2. QED BY <3>1
  <2>3. QED BY <2>1, <2>2
<1>2. /\ a' \in Arithmetic!Bytes
      /\ Arithmetic!op_ = op /\ Arithmetic!operand_ = n
      /\ Arithmetic!Z' <=> a' = 0
      /\ Arithmetic!H' <=> (a % 16) + (n % 16) + Arithmetic!Bool(carry) > 15
      /\ a' + 256 * Arithmetic!Bool(Arithmetic!C') = a + n + Arithmetic!Bool(carry)
  BY <1>1, Added DEF AluInv
<1>3. Arithmetic!Bool(Arithmetic!op_ \in {"ADC", "SBC"} /\ Arithmetic!C) = Arithmetic!Bool(carry)
  BY <1>1, <1>2 DEF Arithmetic!Bool
<1>4. Arithmetic!IntegerStep
  BY <1>1, <1>2, <1>3 DEF Arithmetic!IntegerStep
<1>5. Recalls'
  BY <1>1, RecallsSum DEF AluInv
<1>6. QED BY <1>1, <1>2, <1>4, <1>5, OtherGroups DEF AluStep, AluInv

LEMMA SubtractionStep ==
  ASSUME AluInv, NEW n \in Arithmetic!Bytes, Arithmetic!SUB_n(n) \/ Arithmetic!SBC_n(n)
  PROVE  AluStep
<1>1. PICK op \in {"SUB", "SBC"}, carry \in BOOLEAN :
        /\ carry <=> op = "SBC" /\ Arithmetic!C
        /\ Arithmetic!SubFrom(op, n, carry)
  <2>1. CASE Arithmetic!SUB_n(n)
    <3>1. Arithmetic!SubFrom("SUB", n, FALSE)
      BY <2>1 DEF Arithmetic!SUB_n
    <3>2. QED BY <3>1
  <2>2. CASE Arithmetic!SBC_n(n)
    <3>1. Arithmetic!SubFrom("SBC", n, Arithmetic!C) /\ Arithmetic!C \in BOOLEAN
      BY <2>2 DEF Arithmetic!SBC_n, Arithmetic!C
    <3>2. QED BY <3>1
  <2>3. QED BY <2>1, <2>2
<1>2. /\ a' \in Arithmetic!Bytes
      /\ Arithmetic!op_ = op /\ Arithmetic!operand_ = n
      /\ Arithmetic!Z' <=> a' = 0
      /\ Arithmetic!H' <=> (a % 16) - (n % 16) - Arithmetic!Bool(carry) < 0
      /\ a' - 256 * Arithmetic!Bool(Arithmetic!C') = a - n - Arithmetic!Bool(carry)
  BY <1>1, Subtracted DEF AluInv
<1>3. Arithmetic!Bool(Arithmetic!op_ \in {"ADC", "SBC"} /\ Arithmetic!C) = Arithmetic!Bool(carry)
  BY <1>1, <1>2 DEF Arithmetic!Bool
<1>4. Arithmetic!IntegerStep
  BY <1>1, <1>2, <1>3 DEF Arithmetic!IntegerStep
<1>5. Recalls'
  BY <1>1, RecallsDifference DEF AluInv
<1>6. QED BY <1>1, <1>2, <1>4, <1>5, OtherGroups DEF AluStep, AluInv

LEMMA StepByOne ==
  ASSUME AluInv, Arithmetic!INC_r \/ Arithmetic!DEC_r
  PROVE  AluStep
<1>1. Recalls'
  BY Forgets DEF Arithmetic!INC_r, Arithmetic!DEC_r
<1>2. CASE Arithmetic!INC_r
  BY <1>1, <1>2, Incremented, OtherGroups DEF AluStep, AluInv, Arithmetic!IntegerStep
<1>3. CASE Arithmetic!DEC_r
  BY <1>1, <1>3, Decremented, OtherGroups DEF AluStep, AluInv, Arithmetic!IntegerStep
<1>4. QED BY <1>2, <1>3

LEMMA ComparisonStep ==
  ASSUME AluInv, NEW n \in Arithmetic!Bytes, Arithmetic!CP_n(n)
  PROVE  AluStep
<1>1. Recalls'
  <2>1. PICK flags : Arithmetic!Executes("CP", n, a, flags)
    BY DEF Arithmetic!CP_n
  <2>2. QED BY <2>1, Forgets
<1>2. QED
  BY <1>1, Compared, OtherGroups DEF AluStep, AluInv, Arithmetic!IntegerStep

LEMMA LogicStep ==
  ASSUME AluInv, NEW n \in Arithmetic!Bytes,
         Arithmetic!AND_n(n) \/ Arithmetic!OR_n(n) \/ Arithmetic!XOR_n(n)
  PROVE  AluStep
<1>1. Recalls'
  BY Forgets DEF Arithmetic!AND_n, Arithmetic!OR_n, Arithmetic!XOR_n, Arithmetic!Logical
<1>2. CASE Arithmetic!AND_n(n)
  <2>1. /\ a' \in Arithmetic!Bytes /\ Arithmetic!op_ = "AND" /\ Arithmetic!operand_ = n
        /\ \A i \in 0 .. 7 :
             Arithmetic!At(a', i) <=> i \in Arithmetic!Bits(a) \cap Arithmetic!Bits(n)
        /\ Arithmetic!Z' <=> a' = 0
    BY <1>2, Logic DEF Arithmetic!AND_n
  <2>2. Arithmetic!BitStep
    BY <2>1 DEF Arithmetic!BitStep, Arithmetic!Bits
  <2>3. QED BY <1>1, <2>1, <2>2, OtherGroups DEF AluStep, AluInv
<1>3. CASE Arithmetic!OR_n(n)
  <2>1. /\ a' \in Arithmetic!Bytes /\ Arithmetic!op_ = "OR" /\ Arithmetic!operand_ = n
        /\ \A i \in 0 .. 7 :
             Arithmetic!At(a', i) <=> i \in Arithmetic!Bits(a) \cup Arithmetic!Bits(n)
        /\ Arithmetic!Z' <=> a' = 0
    BY <1>3, Logic DEF Arithmetic!OR_n
  <2>2. Arithmetic!BitStep
    BY <2>1 DEF Arithmetic!BitStep, Arithmetic!Bits
  <2>3. QED BY <1>1, <2>1, <2>2, OtherGroups DEF AluStep, AluInv
<1>4. CASE Arithmetic!XOR_n(n)
  <2> DEFINE S == (Arithmetic!Bits(a) \cup Arithmetic!Bits(n))
                    \ (Arithmetic!Bits(a) \cap Arithmetic!Bits(n))
  <2>1. /\ a' \in Arithmetic!Bytes /\ Arithmetic!op_ = "XOR" /\ Arithmetic!operand_ = n
        /\ \A i \in 0 .. 7 : Arithmetic!At(a', i) <=> i \in S
        /\ Arithmetic!Z' <=> a' = 0
    BY <1>4, Logic DEF Arithmetic!XOR_n
  <2>2. Arithmetic!BitStep
    BY <2>1 DEF Arithmetic!BitStep, Arithmetic!Bits
  <2>3. QED BY <1>1, <2>1, <2>2, OtherGroups DEF AluStep, AluInv
<1>5. QED BY <1>2, <1>3, <1>4

LEMMA OneBitStep ==
  ASSUME AluInv, NEW b \in 0 .. 7,
         Arithmetic!BIT_b_r(b) \/ Arithmetic!SET_b_r(b) \/ Arithmetic!RES_b_r(b)
  PROVE  AluStep
<1>1. Recalls'
  BY Forgets DEF Arithmetic!BIT_b_r, Arithmetic!SET_b_r, Arithmetic!RES_b_r
<1>2. a' \in Arithmetic!Bytes /\ Arithmetic!BitStep /\ Arithmetic!op_ \in {"BIT", "SET", "RES"}
  BY OneBit DEF AluInv, Arithmetic!BitStep
<1>3. QED BY <1>1, <1>2, OtherGroups DEF AluStep, AluInv

LEMMA RotatesLeft ==
  ASSUME AluInv, NEW op \in {"RLCA", "RLA", "RLC", "RL", "SLA"}, NEW in \in Bit, NEW z \in BOOLEAN,
         Arithmetic!Rotate(op, Arithmetic!ShiftedLeft + in, Arithmetic!Bit7, z),
         in = 1 <=> \/ op \in {"RLCA", "RLC"} /\ Arithmetic!At(a, 7)
                    \/ op \in {"RLA", "RL"} /\ Arithmetic!C,
         op \notin {"RLCA", "RLA"} => (z <=> Arithmetic!ShiftedLeft + in = 0)
  PROVE  AluStep
<1>1. /\ a' \in Arithmetic!Bytes /\ Arithmetic!op_ = op
      /\ Arithmetic!C' <=> Arithmetic!At(a, 7)
      /\ \A i \in 1 .. 7 : Arithmetic!At(a', i) <=> Arithmetic!At(a, i - 1)
      /\ Arithmetic!At(a', 0) <=> in = 1
      /\ Arithmetic!Z' <=> z
      /\ a' = Arithmetic!ShiftedLeft + in
  BY Left, ExecutedIs DEF AluInv, Arithmetic!Rotate
<1>2. Recalls'
  BY Forgets DEF Arithmetic!Rotate
<1>3. Arithmetic!BitStep
  BY <1>1 DEF Arithmetic!BitStep
<1>4. QED BY <1>1, <1>2, <1>3, OtherGroups DEF AluStep, AluInv

LEMMA LeftStep ==
  ASSUME AluInv,
         \/ Arithmetic!RLCA \/ Arithmetic!RLA
         \/ Arithmetic!RLC_r \/ Arithmetic!RL_r \/ Arithmetic!SLA_n
  PROVE  AluStep
<1>1. a \div 128 \in Bit /\ (a \div 128 = 1 <=> Arithmetic!At(a, 7))
  BY PowersAre DEF AluInv, Bit, Arithmetic!At, Arithmetic!Bytes
<1>2. /\ Arithmetic!Bool(Arithmetic!C) \in Bit
      /\ Arithmetic!Bool(Arithmetic!C) = 1 <=> Arithmetic!C
  BY DEF Bit, Arithmetic!Bool
<1>3. /\ Arithmetic!ShiftedLeft + 0 = Arithmetic!ShiftedLeft
      /\ a % 128 = 0 <=> Arithmetic!ShiftedLeft + 0 = 0
  BY DEF AluInv, Arithmetic!Bytes, Arithmetic!ShiftedLeft, Arithmetic!Byte
<1>4. CASE Arithmetic!RLCA
  <2> DEFINE z == FALSE
  <2>1. Arithmetic!Rotate("RLCA", Arithmetic!ShiftedLeft + a \div 128, Arithmetic!Bit7, z)
    BY <1>4 DEF Arithmetic!RLCA
  <2>2. z \in BOOLEAN
    OBVIOUS
  <2>3. QED BY <1>1, <1>2, <1>3, <2>1, <2>2, RotatesLeft DEF Bit
<1>5. CASE Arithmetic!RLA
  <2> DEFINE z == FALSE
  <2>1. Arithmetic!Rotate("RLA", Arithmetic!ShiftedLeft + Arithmetic!Bool(Arithmetic!C),
                          Arithmetic!Bit7, z)
    BY <1>5 DEF Arithmetic!RLA
  <2>2. z \in BOOLEAN
    OBVIOUS
  <2>3. QED BY <1>1, <1>2, <1>3, <2>1, <2>2, RotatesLeft DEF Bit
<1>6. CASE Arithmetic!RLC_r
  <2> DEFINE z == Arithmetic!ShiftedLeft + a \div 128 = 0
  <2>1. Arithmetic!Rotate("RLC", Arithmetic!ShiftedLeft + a \div 128, Arithmetic!Bit7, z)
    BY <1>6 DEF Arithmetic!RLC_r
  <2>2. z \in BOOLEAN
    OBVIOUS
  <2>3. QED BY <1>1, <1>2, <1>3, <2>1, <2>2, RotatesLeft DEF Bit
<1>7. CASE Arithmetic!RL_r
  <2> DEFINE z == Arithmetic!ShiftedLeft + Arithmetic!Bool(Arithmetic!C) = 0
  <2>1. Arithmetic!Rotate("RL", Arithmetic!ShiftedLeft + Arithmetic!Bool(Arithmetic!C),
                          Arithmetic!Bit7, z)
    BY <1>7 DEF Arithmetic!RL_r
  <2>2. z \in BOOLEAN
    OBVIOUS
  <2>3. QED BY <1>1, <1>2, <1>3, <2>1, <2>2, RotatesLeft DEF Bit
<1>8. CASE Arithmetic!SLA_n
  <2> DEFINE z == a % 128 = 0
  <2>1. Arithmetic!Rotate("SLA", Arithmetic!ShiftedLeft + 0, Arithmetic!Bit7, z)
    BY <1>3, <1>8 DEF Arithmetic!SLA_n
  <2>2. z \in BOOLEAN
    OBVIOUS
  <2>3. (z <=> Arithmetic!ShiftedLeft + 0 = 0) /\ 0 \in Bit /\ 0 # 1
    BY <1>3 DEF Bit
  <2> HIDE DEF z
  <2>4. QED BY <2>1, <2>2, <2>3, RotatesLeft
<1>9. QED BY <1>4, <1>5, <1>6, <1>7, <1>8

Rights == {"RRCA", "RRA", "RRC", "RR", "SRA", "SRL"}
EntersRight(op, in) ==
  in = 1 <=> \/ op \in {"RRCA", "RRC"} /\ Arithmetic!At(a, 0)
             \/ op \in {"RRA", "RR"} /\ Arithmetic!C
             \/ op = "SRA" /\ Arithmetic!At(a, 7)

LEMMA RotatesRight ==
  ASSUME AluInv, NEW op \in Rights, NEW in \in Bit, NEW z \in BOOLEAN, NEW r,
         Arithmetic!Rotate(op, r, Arithmetic!Bit0, z), r = 128 * in + Arithmetic!ShiftedRight,
         EntersRight(op, in), op \notin {"RRCA", "RRA"} => (z <=> r = 0)
  PROVE  AluStep
<1>1. /\ a' \in Arithmetic!Bytes /\ Arithmetic!op_ = op
      /\ Arithmetic!C' <=> Arithmetic!At(a, 0)
      /\ \A i \in 0 .. 6 : Arithmetic!At(a', i) <=> Arithmetic!At(a, i + 1)
      /\ Arithmetic!At(a', 7) <=> in = 1
      /\ Arithmetic!Z' <=> z
      /\ a' = r
  BY Right DEF AluInv
<1>2. Recalls'
  BY Forgets DEF Arithmetic!Rotate, Rights
<1>3. Arithmetic!BitStep
  BY <1>1 DEF Arithmetic!BitStep, Rights, EntersRight
<1>4. QED BY <1>1, <1>2, <1>3, OtherGroups DEF AluStep, AluInv, Rights

LEMMA RightStep ==
  ASSUME AluInv,
         \/ Arithmetic!RRCA \/ Arithmetic!RRA
         \/ Arithmetic!RRC_r \/ Arithmetic!RR_r \/ Arithmetic!SRA_n \/ Arithmetic!SRL_n
  PROVE  AluStep
<1> DEFINE first == a % 2
           last == a \div 128
           carry == Arithmetic!Bool(Arithmetic!C)
<1>1. /\ first \in Bit /\ (first = 1 <=> Arithmetic!At(a, 0))
      /\ last \in Bit /\ (last = 1 <=> Arithmetic!At(a, 7))
  BY PowersAre DEF AluInv, Bit, Arithmetic!At, Arithmetic!Bytes
<1>2. carry \in Bit /\ (carry = 1 <=> Arithmetic!C)
  BY DEF Bit, Arithmetic!Bool
<1>3. /\ Arithmetic!RotatedRight = 128 * first + Arithmetic!ShiftedRight
      /\ Arithmetic!ShiftedRight + 128 * last = 128 * last + Arithmetic!ShiftedRight
      /\ 0 \in Bit /\ Arithmetic!ShiftedRight = 128 * 0 + Arithmetic!ShiftedRight
  BY DEF AluInv, Bit, Arithmetic!Bytes, Arithmetic!ShiftedRight, Arithmetic!RotatedRight
<1>4. CASE Arithmetic!RRCA
  <2> DEFINE r == Arithmetic!RotatedRight
             z == FALSE
  <2>1. Arithmetic!Rotate("RRCA", r, Arithmetic!Bit0, z)
    BY <1>4, Zenon DEF Arithmetic!RRCA
  <2>2. EntersRight("RRCA", first)
    BY <1>1, <1>2 DEF EntersRight
  <2>3. r = 128 * first + Arithmetic!ShiftedRight /\ z \in BOOLEAN
    BY <1>3
  <2> HIDE DEF r, z, first
  <2>4. QED BY <1>1, <1>2, <1>3, <2>1, <2>2, <2>3, RotatesRight DEF Rights
<1>5. CASE Arithmetic!RRA
  <2> DEFINE r == 128 * carry + Arithmetic!ShiftedRight
             z == FALSE
  <2>1. Arithmetic!Rotate("RRA", r, Arithmetic!Bit0, z)
    BY <1>5 DEF Arithmetic!RRA
  <2>2. EntersRight("RRA", carry)
    BY <1>1, <1>2 DEF EntersRight
  <2>3. r = 128 * carry + Arithmetic!ShiftedRight /\ z \in BOOLEAN
    BY <1>3
  <2> HIDE DEF r, z, carry
  <2>4. QED BY <1>1, <1>2, <1>3, <2>1, <2>2, <2>3, RotatesRight DEF Rights
<1>6. CASE Arithmetic!RRC_r
  <2> DEFINE r == Arithmetic!RotatedRight
             z == r = 0
  <2>1. Arithmetic!Rotate("RRC", r, Arithmetic!Bit0, z)
    BY <1>6 DEF Arithmetic!RRC_r
  <2>2. EntersRight("RRC", first)
    BY <1>1, <1>2 DEF EntersRight
  <2>3. r = 128 * first + Arithmetic!ShiftedRight /\ z \in BOOLEAN /\ (z <=> r = 0)
    BY <1>3
  <2> HIDE DEF r, z, first
  <2>4. QED BY <1>1, <1>2, <1>3, <2>1, <2>2, <2>3, RotatesRight DEF Rights
<1>7. CASE Arithmetic!RR_r
  <2> DEFINE r == 128 * carry + Arithmetic!ShiftedRight
             z == r = 0
  <2>1. Arithmetic!Rotate("RR", r, Arithmetic!Bit0, z)
    BY <1>7 DEF Arithmetic!RR_r
  <2>2. EntersRight("RR", carry)
    BY <1>1, <1>2 DEF EntersRight
  <2>3. r = 128 * carry + Arithmetic!ShiftedRight /\ z \in BOOLEAN /\ (z <=> r = 0)
    BY <1>3
  <2> HIDE DEF r, z, carry
  <2>4. QED BY <1>1, <1>2, <1>3, <2>1, <2>2, <2>3, RotatesRight DEF Rights
<1>8. CASE Arithmetic!SRA_n
  <2> DEFINE r == Arithmetic!ShiftedRight + 128 * last
             z == r = 0
  <2>1. Arithmetic!Rotate("SRA", r, Arithmetic!Bit0, z)
    BY <1>8 DEF Arithmetic!SRA_n
  <2>2. EntersRight("SRA", last)
    BY <1>1, <1>2 DEF EntersRight
  <2>3. r = 128 * last + Arithmetic!ShiftedRight /\ z \in BOOLEAN /\ (z <=> r = 0)
    BY <1>3
  <2> HIDE DEF r, z, last
  <2>4. QED BY <1>1, <1>2, <1>3, <2>1, <2>2, <2>3, RotatesRight DEF Rights
<1>9. CASE Arithmetic!SRL_n
  <2> DEFINE r == Arithmetic!ShiftedRight
             z == r = 0
  <2>1. Arithmetic!Rotate("SRL", r, Arithmetic!Bit0, z)
    BY <1>9 DEF Arithmetic!SRL_n
  <2>2. EntersRight("SRL", 0)
    BY <1>1, <1>2 DEF EntersRight
  <2>3. r = 128 * 0 + Arithmetic!ShiftedRight /\ z \in BOOLEAN /\ (z <=> r = 0)
    BY <1>3
  <2> HIDE DEF r, z
  <2>4. QED BY <1>1, <1>2, <1>3, <2>1, <2>2, <2>3, RotatesRight DEF Rights
<1>10. QED BY <1>4, <1>5, <1>6, <1>7, <1>8, <1>9

LEMMA WholeByteStep ==
  ASSUME AluInv,
         Arithmetic!SWAP_n \/ Arithmetic!CPL \/ Arithmetic!CCF \/ Arithmetic!SCF \/ Arithmetic!DAA
  PROVE  AluStep
<1>1. Recalls'
  <2>1. PICK op \in {"SWAP", "CPL", "CCF", "SCF", "DAA"} :
          \E result, flags : Arithmetic!Executes(op, 0, result, flags)
    BY DEF Arithmetic!SWAP_n, Arithmetic!CPL, Arithmetic!CCF, Arithmetic!SCF, Arithmetic!DAA
  <2>2. QED BY <2>1, Forgets
<1>2. CASE Arithmetic!SWAP_n
  BY <1>1, <1>2, Swapped, OtherGroups DEF AluStep, AluInv, Arithmetic!BitStep
<1>3. CASE Arithmetic!CPL
  BY <1>1, <1>3, Inverted, OtherGroups DEF AluStep, AluInv, Arithmetic!BitStep
<1>4. CASE Arithmetic!CCF \/ Arithmetic!SCF
  <2>1. a' = a /\ Arithmetic!op_ \in {"CCF", "SCF"}
    BY <1>4, ExecutedIs DEF Arithmetic!CCF, Arithmetic!SCF
  <2>2. QED BY <1>1, <2>1, OtherGroups DEF AluStep, AluInv
<1>5. CASE Arithmetic!DAA
  BY <1>1, <1>5, Adjusted, OtherGroups DEF AluStep, AluInv, Arithmetic!DecimalStep
<1>6. QED BY <1>2, <1>3, <1>4, <1>5

LEMMA BytesNext == ASSUME AluInv, Arithmetic!ByteNext PROVE AluStep
<1>1. ASSUME NEW n \in OperandBytes,
             \/ Arithmetic!ADD_n(n) \/ Arithmetic!ADC_n(n)
             \/ Arithmetic!SUB_n(n) \/ Arithmetic!SBC_n(n)
             \/ Arithmetic!CP_n(n) \/ Arithmetic!AND_n(n)
             \/ Arithmetic!OR_n(n) \/ Arithmetic!XOR_n(n)
      PROVE  AluStep
  <2>1. n \in Arithmetic!Bytes
    BY ArithmeticAssumption DEF Arithmetic!OperandAssumption
  <2>2. QED BY <1>1, <2>1, AdditionStep, SubtractionStep, ComparisonStep, LogicStep
<1>2. ASSUME NEW b \in 0 .. 7,
             Arithmetic!BIT_b_r(b) \/ Arithmetic!SET_b_r(b) \/ Arithmetic!RES_b_r(b)
      PROVE  AluStep
  BY <1>2, OneBitStep
<1>3. QED
  BY <1>1, <1>2, StepByOne, LeftStep, RightStep, WholeByteStep
     DEF Arithmetic!ByteNext

-----------------------------------------------------------------------------
(* The pairs.  An instruction on bytes leaves them alone, and one on words the  *)
(* accumulator.                                                               *)
WordOps == {"LD16", "INC16", "DEC16", "ADD16", "ADDSP", "LDHL"}
WordInv == Arithmetic!IsWord(hl) /\ Arithmetic!IsWord(sp)

Runs(ops) ==
  \E op \in ops : \E n, result, flags : Arithmetic!Executes(op, n, result, flags)

LEMMA RunsOnBytes ==
  ASSUME NEW ops, Runs(ops), ops \cap WordOps = {}
  PROVE  UNCHANGED <<hl, sp>> /\ Arithmetic!op_ \notin WordOps
<1>1. PICK op \in ops : \E n, result, flags : Arithmetic!Executes(op, n, result, flags)
  BY DEF Runs
<1>2. UNCHANGED <<hl, sp>> /\ Arithmetic!op_ = op
  BY <1>1 DEF Arithmetic!Executes, Arithmetic!op_
<1>3. QED BY <1>2

LEMMA BytesLeaveWords ==
  ASSUME WordInv, Arithmetic!ByteNext
  PROVE  WordInv' /\ Arithmetic!WordStep
<1> DEFINE Leaves == UNCHANGED <<hl, sp>> /\ Arithmetic!op_ \notin WordOps
<1>1. ASSUME NEW n \in OperandBytes, Arithmetic!ADD_n(n) \/ Arithmetic!ADC_n(n)
      PROVE  Leaves
  <2>1. Runs({"ADD", "ADC"})
    BY <1>1 DEF Runs, Arithmetic!ADD_n, Arithmetic!ADC_n, Arithmetic!AddTo
  <2>2. QED BY <2>1, RunsOnBytes DEF WordOps
<1>2. ASSUME NEW n \in OperandBytes, Arithmetic!SUB_n(n) \/ Arithmetic!SBC_n(n)
      PROVE  Leaves
  <2>1. Runs({"SUB", "SBC"})
    BY <1>2 DEF Runs, Arithmetic!SUB_n, Arithmetic!SBC_n, Arithmetic!SubFrom
  <2>2. QED BY <2>1, RunsOnBytes DEF WordOps
<1>3. ASSUME NEW n \in OperandBytes,
             \/ Arithmetic!CP_n(n) \/ Arithmetic!AND_n(n)
             \/ Arithmetic!OR_n(n) \/ Arithmetic!XOR_n(n)
      PROVE  Leaves
  <2>1. Runs({"CP", "AND", "OR", "XOR"})
    BY <1>3 DEF Runs, Arithmetic!CP_n, Arithmetic!AND_n, Arithmetic!OR_n, Arithmetic!XOR_n,
       Arithmetic!Logical
  <2>2. QED BY <2>1, RunsOnBytes DEF WordOps
<1>4. ASSUME NEW b \in 0 .. 7,
             Arithmetic!BIT_b_r(b) \/ Arithmetic!SET_b_r(b) \/ Arithmetic!RES_b_r(b)
      PROVE  Leaves
  <2>1. Runs({"BIT", "SET", "RES"})
    BY <1>4 DEF Runs, Arithmetic!BIT_b_r, Arithmetic!SET_b_r, Arithmetic!RES_b_r
  <2>2. QED BY <2>1, RunsOnBytes DEF WordOps
<1>5. ASSUME \/ Arithmetic!INC_r \/ Arithmetic!DEC_r
             \/ Arithmetic!SWAP_n \/ Arithmetic!DAA
      PROVE  Leaves
  <2>1. Runs({"INC", "DEC", "SWAP", "DAA"})
    BY <1>5 DEF Runs, Arithmetic!INC_r, Arithmetic!DEC_r, Arithmetic!SWAP_n, Arithmetic!DAA
  <2>2. QED BY <2>1, RunsOnBytes DEF WordOps
<1>6. ASSUME Arithmetic!CPL \/ Arithmetic!CCF \/ Arithmetic!SCF
      PROVE  Leaves
  <2>1. Runs({"CPL", "CCF", "SCF"})
    BY <1>6 DEF Runs, Arithmetic!CPL, Arithmetic!CCF, Arithmetic!SCF
  <2>2. QED BY <2>1, RunsOnBytes DEF WordOps
<1>7. ASSUME \/ Arithmetic!RLCA \/ Arithmetic!RLA \/ Arithmetic!RLC_r
             \/ Arithmetic!RL_r \/ Arithmetic!SLA_n
      PROVE  Leaves
  <2>1. Runs({"RLCA", "RLA", "RLC", "RL", "SLA"})
    BY <1>7 DEF Runs, Arithmetic!RLCA, Arithmetic!RLA, Arithmetic!RLC_r, Arithmetic!RL_r,
       Arithmetic!SLA_n, Arithmetic!Rotate
  <2>2. QED BY <2>1, RunsOnBytes DEF WordOps
<1>8. ASSUME \/ Arithmetic!RRCA \/ Arithmetic!RRA \/ Arithmetic!RRC_r
             \/ Arithmetic!RR_r \/ Arithmetic!SRA_n \/ Arithmetic!SRL_n
      PROVE  Leaves
  <2>1. Runs({"RRCA", "RRA", "RRC", "RR", "SRA", "SRL"})
    BY <1>8 DEF Runs, Arithmetic!RRCA, Arithmetic!RRA, Arithmetic!RRC_r, Arithmetic!RR_r,
       Arithmetic!SRA_n, Arithmetic!SRL_n, Arithmetic!Rotate
  <2>2. QED BY <2>1, RunsOnBytes DEF WordOps
<1>9. Leaves
  <2> HIDE DEF Leaves
  <2>1. QED
    BY <1>1, <1>2, <1>3, <1>4, <1>5, <1>6, <1>7, <1>8, Zenon DEF Arithmetic!ByteNext
<1>10. QED BY <1>9 DEF WordInv, WordOps, Arithmetic!WordStep

LEMMA WordsLeaveByte ==
  ASSUME AluInv, Arithmetic!op_ \in WordOps, a' = a, decimal' = Arithmetic!None
  PROVE  AluStep
<1>1. AluInv'
  BY DEF AluInv, Recalls, Arithmetic!None
<1>2. Arithmetic!IntegerStep /\ Arithmetic!BitStep /\ Arithmetic!DecimalStep
  BY DEF WordOps, Arithmetic!IntegerStep, Arithmetic!BitStep, Arithmetic!DecimalStep
<1>3. QED BY <1>1, <1>2 DEF AluStep

(* The carry of a sum is what the sum of the words has beyond the range.        *)
LEMMA SumStep ==
  ASSUME AluInv, WordInv, NEW n, Arithmetic!IsWord(n), Arithmetic!ADD16_HL_n(n)
  PROVE  AluStep /\ WordInv' /\ Arithmetic!WordStep
<1> DEFINE h == n % 4096 > 4095 - (hl % 4096)
           c == n > 65535 - hl
<1>1. /\ Arithmetic!op_ = "ADD16" /\ Arithmetic!operand_ = n
      /\ f' = Arithmetic!Flags(Arithmetic!Z, FALSE, h, c)
      /\ a' = a /\ decimal' = Arithmetic!None
  BY DEF Arithmetic!ADD16_HL_n, Arithmetic!ExecutesWord, Arithmetic!op_, Arithmetic!operand_
<1>2. hl' = Arithmetic!Word(hl + n) /\ sp' = sp
  BY DEF Arithmetic!ADD16_HL_n
<1>3. /\ Arithmetic!IsWord(hl')
      /\ c => hl' + 65536 = hl + n
      /\ ~c => hl' = hl + n
  BY <1>2 DEF Arithmetic!Word, Arithmetic!IsWord, WordInv
<1>4. h <=> (hl % 4096) + (n % 4096) > 4095
  BY DEF Arithmetic!IsWord, WordInv
<1> HIDE DEF h, c
<1>5. AluStep
  BY <1>1, WordsLeaveByte DEF WordOps
<1>6. /\ Arithmetic!Z' <=> Arithmetic!Z
      /\ ~Arithmetic!N' /\ (Arithmetic!H' <=> h) /\ (Arithmetic!C' <=> c)
  <2>1. Arithmetic!Z \in BOOLEAN /\ h \in BOOLEAN /\ c \in BOOLEAN
    BY DEF Arithmetic!Z, h, c
  <2>2. QED
    BY <1>1, <2>1, FlagsAre DEF Arithmetic!Z, Arithmetic!N, Arithmetic!H, Arithmetic!C
<1>7. hl' + 65536 * Arithmetic!Bool(Arithmetic!C') = hl + n
  <2>1. CASE c
    <3>1. Arithmetic!Bool(Arithmetic!C') = 1
      BY <1>6, <2>1 DEF Arithmetic!Bool
    <3>2. hl' + 65536 = hl + n
      BY <1>3, <2>1
    <3>3. QED BY <3>1, <3>2
  <2>2. CASE ~c
    BY <1>3, <1>6, <2>2 DEF Arithmetic!Bool, Arithmetic!IsWord, WordInv
  <2>3. QED BY <2>1, <2>2
<1>8. WordInv' BY <1>2, <1>3 DEF WordInv
<1>9. QED BY <1>1, <1>4, <1>5, <1>6, <1>7, <1>8 DEF Arithmetic!WordStep

(* Of a word and a signed byte the low byte is the sum of bytes, and the high   *)
(* one takes the carry and, for a negative byte, one less.                     *)
LEMMA SignedSum ==
  ASSUME NEW w, Arithmetic!IsWord(w), NEW n \in Arithmetic!Bytes
  PROVE  LET c == n > 255 - (w % 256)
             high == (w \div 256) + Arithmetic!Bool(c) - (n \div 128)
             sum == Arithmetic!Word(w + Arithmetic!Signed(n))
         IN  /\ sum = 256 * (high % 256) + Arithmetic!Byte(w + n)
             /\ Arithmetic!IsWord(sum)
             /\ n % 16 > 15 - (w % 16) <=> (w % 16) + (n % 16) > 15
<1> DEFINE q == w \div 256
           l == w % 256
           c == n > 255 - l
           k == IF c THEN 1 ELSE 0
           s == IF n < 128 THEN 0 ELSE 1
<1>1. q \in 0 .. 255 /\ l \in 0 .. 255 /\ w = 256 * q + l
  BY DEF Arithmetic!IsWord
<1>2. n \in 0 .. 255 /\ n \div 128 = s
  BY DEF Arithmetic!Bytes
<1> HIDE DEF q, l
<1>3. k \in {0, 1} /\ s \in {0, 1} /\ l + n - 256 * k \in 0 .. 255
  BY <1>1, <1>2
<1>4. Arithmetic!Byte(w + n) = l + n - 256 * k
  <2>1. w + n = 256 * (q + k) + (l + n - 256 * k)
    BY <1>1, <1>2, <1>3
  <2> DEFINE r == l + n - 256 * k
             e == q + k
  <2>2. r \in 0 .. 255 /\ e \in Int
    BY <1>1, <1>3
  <2> HIDE DEF r, e
  <2>3. (256 * e + r) % 256 = r
    BY <2>2
  <2>4. QED BY <2>1, <2>3 DEF Arithmetic!Byte, r, e
<1>5. Arithmetic!Signed(n) = n - 256 * s
  BY <1>2 DEF Arithmetic!Signed
<1> DEFINE high == q + k - s
<1>6. w + Arithmetic!Signed(n) = 256 * high + (l + n - 256 * k)
  BY <1>1, <1>2, <1>3, <1>5
<1>7. high \in -1 .. 256
  BY <1>1, <1>3
<1>8. Arithmetic!Word(w + Arithmetic!Signed(n)) = 256 * (high % 256) + (l + n - 256 * k)
  <2> DEFINE r == l + n - 256 * k
  <2>1. r \in 0 .. 255
    BY <1>3
  <2>2. w + Arithmetic!Signed(n) = 256 * high + r
    BY <1>6
  <2> HIDE DEF r, high
  <2>3. (256 * high + r) % 65536 = 256 * (high % 256) + r
    BY <1>7, <2>1
  <2>4. QED BY <2>2, <2>3 DEF Arithmetic!Word, r
<1>9. Arithmetic!Bool(c) = k
  BY DEF Arithmetic!Bool
<1>10. Arithmetic!IsWord(Arithmetic!Word(w + Arithmetic!Signed(n)))
  BY <1>2, <1>5, <1>3 DEF Arithmetic!IsWord, Arithmetic!Word
<1>11. n % 16 > 15 - (w % 16) <=> (w % 16) + (n % 16) > 15
  BY <1>2 DEF Arithmetic!IsWord
<1>12. QED BY <1>2, <1>4, <1>8, <1>9, <1>10, <1>11 DEF q, l

LEMMA SignedStep ==
  ASSUME AluInv, WordInv, NEW n \in Arithmetic!Bytes,
         Arithmetic!ADD16_SP_n(n) \/ Arithmetic!LDHL_SP_n(n)
  PROVE  AluStep /\ WordInv' /\ Arithmetic!WordStep
<1> DEFINE h == n % 16 > 15 - (sp % 16)
           c == n > 255 - (sp % 256)
<1>1. /\ Arithmetic!op_ \in {"ADDSP", "LDHL"} /\ Arithmetic!operand_ = n
      /\ f' = Arithmetic!Flags(FALSE, FALSE, h, c)
      /\ a' = a /\ decimal' = Arithmetic!None
      /\ Arithmetic!op_ = "ADDSP" => sp' = Arithmetic!AddedToSP(n) /\ hl' = hl
      /\ Arithmetic!op_ = "LDHL" => hl' = Arithmetic!AddedToSP(n) /\ sp' = sp
  <2>1. CASE Arithmetic!ADD16_SP_n(n)
    BY <2>1 DEF Arithmetic!ADD16_SP_n, Arithmetic!ADD16_SIGN,
       Arithmetic!ExecutesWord, Arithmetic!op_, Arithmetic!operand_
  <2>2. CASE Arithmetic!LDHL_SP_n(n)
    BY <2>2 DEF Arithmetic!LDHL_SP_n, Arithmetic!ADD16_SIGN,
       Arithmetic!ExecutesWord, Arithmetic!op_, Arithmetic!operand_
  <2>3. QED BY <2>1, <2>2
<1> DEFINE high == (sp \div 256) + Arithmetic!Bool(c) - (n \div 128)
           low == Arithmetic!Byte(sp + n)
<1>2. /\ Arithmetic!AddedToSP(n) = 256 * (high % 256) + low
      /\ Arithmetic!IsWord(Arithmetic!AddedToSP(n))
      /\ h <=> (sp % 16) + (n % 16) > 15
  BY SignedSum DEF WordInv, Arithmetic!AddedToSP
<1>3. h \in BOOLEAN /\ c \in BOOLEAN
  OBVIOUS
<1> HIDE DEF h, c
<1>4. AluStep
  BY <1>1, WordsLeaveByte DEF WordOps
<1>5. ~Arithmetic!Z' /\ ~Arithmetic!N' /\ (Arithmetic!H' <=> h) /\ (Arithmetic!C' <=> c)
  BY <1>1, <1>3, FlagsAre DEF Arithmetic!Z, Arithmetic!N, Arithmetic!H, Arithmetic!C
<1>6. WordInv' BY <1>1, <1>2 DEF WordInv
<1>7. Arithmetic!Bool(Arithmetic!C') = Arithmetic!Bool(c)
  BY <1>5 DEF Arithmetic!Bool
<1>8. Arithmetic!WordStep
  <2> DEFINE m == Arithmetic!operand_
             sum == 256 * (((sp \div 256) + Arithmetic!Bool(Arithmetic!C') - (m \div 128)) % 256)
                      + Arithmetic!Byte(sp + m)
             half == (sp % 16) + (m % 16) > 15
  <2>1. (IF Arithmetic!op_ = "LDHL" THEN hl' ELSE sp') = sum
    BY <1>1, <1>2, <1>7
  <2>2. Arithmetic!H' <=> half
    BY <1>1, <1>2, <1>5
  <2>3. Arithmetic!op_ \notin {"ADD16", "INC16", "DEC16"}
    BY <1>1
  <2> SUFFICES Arithmetic!op_ \in {"ADDSP", "LDHL"} =>
                 /\ (IF Arithmetic!op_ = "LDHL" THEN hl' ELSE sp') = sum
                 /\ (Arithmetic!H' <=> half) /\ ~Arithmetic!N' /\ ~Arithmetic!Z'
    BY <2>3, SMTT(40) DEF Arithmetic!WordStep
  <2> HIDE DEF sum, half
  <2>4. QED BY <1>5, <2>1, <2>2, Zenon
<1>9. QED BY <1>4, <1>6, <1>8

LEMMA StepOfPair ==
  ASSUME AluInv, WordInv, Arithmetic!INC16_nn \/ Arithmetic!DEC16_nn
  PROVE  AluStep /\ WordInv' /\ Arithmetic!WordStep
<1>1. /\ Arithmetic!op_ \in {"INC16", "DEC16"}
      /\ f' = f /\ sp' = sp /\ a' = a /\ decimal' = Arithmetic!None
      /\ Arithmetic!op_ = "INC16" => hl' = Arithmetic!Word(hl + 1)
      /\ Arithmetic!op_ = "DEC16" => hl' = Arithmetic!Word(hl - 1)
  BY DEF Arithmetic!INC16_nn, Arithmetic!DEC16_nn, Arithmetic!ExecutesWord, Arithmetic!op_
<1>2. /\ Arithmetic!IsWord(hl')
      /\ Arithmetic!op_ = "INC16" => hl' - hl \in {1, -65535}
      /\ Arithmetic!op_ = "DEC16" => hl - hl' \in {1, -65535}
  BY <1>1 DEF WordInv, Arithmetic!IsWord, Arithmetic!Word
<1>3. AluStep
  BY <1>1, WordsLeaveByte DEF WordOps
<1>4. QED BY <1>1, <1>2, <1>3 DEF WordInv, Arithmetic!WordStep

LEMMA LoadOfPair ==
  ASSUME AluInv, WordInv,
         Arithmetic!LD16_SP_HL \/ (\E w \in Words : Arithmetic!LD16_n_nn(w))
  PROVE  AluStep /\ WordInv' /\ Arithmetic!WordStep
<1>1. /\ Arithmetic!op_ = "LD16" /\ a' = a /\ decimal' = Arithmetic!None
      /\ WordInv'
  BY ArithmeticAssumption DEF Arithmetic!OperandAssumption, WordInv, Arithmetic!LD16_SP_HL,
     Arithmetic!LD16_n_nn, Arithmetic!ExecutesWord, Arithmetic!op_
<1>2. AluStep
  BY <1>1, WordsLeaveByte DEF WordOps
<1>3. QED BY <1>1, <1>2 DEF Arithmetic!WordStep

LEMMA WordsNext ==
  ASSUME AluInv, WordInv, Arithmetic!WordNext
  PROVE  AluStep /\ WordInv' /\ Arithmetic!WordStep
<1>1. OperandBytes \subseteq Arithmetic!Bytes /\ \A w \in Words : Arithmetic!IsWord(w)
  BY ArithmeticAssumption DEF Arithmetic!OperandAssumption
<1>2. CASE \E n \in Words \cup {hl, sp} : Arithmetic!ADD16_HL_n(n)
  BY <1>1, <1>2, SumStep DEF WordInv
<1>3. CASE \E n \in OperandBytes : Arithmetic!ADD16_SP_n(n) \/ Arithmetic!LDHL_SP_n(n)
  BY <1>1, <1>3, SignedStep
<1>4. QED
  BY <1>2, <1>3, StepOfPair, LoadOfPair DEF Arithmetic!WordNext

LEMMA AluInit == Arithmetic!Init => AluInv /\ WordInv
<1>1. Arithmetic!Init => AluInv
  <2>1. Arithmetic!Init => a \in Arithmetic!Bytes /\ ~decimal.known
    BY DEF Arithmetic!Init, Arithmetic!None, Arithmetic!Bytes
  <2>2. QED BY <2>1 DEF AluInv, Recalls
<1>2. Arithmetic!Init => WordInv
  BY DEF Arithmetic!Init, WordInv, Arithmetic!IsWord
<1>3. QED BY <1>1, <1>2

LEMMA AluNext ==
  AluInv /\ WordInv /\ Arithmetic!Next => AluStep /\ WordInv' /\ Arithmetic!WordStep
BY BytesNext, BytesLeaveWords, WordsNext DEF Arithmetic!Next

-----------------------------------------------------------------------------
(* Opcodes.  The forms of an instruction: what it takes after its opcode, what   *)
(* it does on the bus, and so how many cycles it takes.                         *)
Kinds == {"fetch", "read", "write", "idle"}
Single == {"B", "C", "D", "E", "H", "L", "A"}
Pointers == {"(BC)", "(DE)", "(HL+)", "(HL-)", "(C)"}
Plain == {"NOP", "HALT", "STOP", "DI", "EI", "RLCA", "RLA", "RRCA", "RRA", "DAA", "CPL", "CCF",
          "SCF", "Trap", "DebugTrap"}

LEMMA OperandsAre ==
  /\ \A x : Codes!Operands(<<x>>) = {}
  /\ \A x, y : Codes!Operands(<<x, y>>) = {y}
  /\ \A x, y, z : Codes!Operands(<<x, y, z>>) = {y, z}
BY DEF Codes!Operands

LEMMA ConditionalAre ==
  /\ \A x : ~Codes!IsConditional(<<x>>)
  /\ \A x, y : Codes!IsConditional(<<x, y>>) <=>
       x \in {"JP", "JR", "CALL", "RET"} /\ y \in Codes!Conditions
  /\ \A x, y, z : Codes!IsConditional(<<x, y, z>>) <=>
       x \in {"JP", "JR", "CALL", "RET"} /\ {y, z} \cap Codes!Conditions # {}
BY OperandsAre DEF Codes!IsConditional

Following(x, y) ==
  IF {x, y} \cap {"nn", "(nn)"} # {} THEN 2 ELSE IF {x, y} \cap {"n", "(n)"} # {} THEN 1 ELSE 0

LEMMA ImmediatesAre ==
  ASSUME opcode # \hCB
  PROVE  /\ \A x : Codes!Immediates(<<x>>) = 0
         /\ \A x, y : Codes!Immediates(<<x, y>>) =
              IF x = "RST" THEN 0
              ELSE IF y \in {"nn", "(nn)"} THEN 2 ELSE IF y \in {"n", "(n)"} THEN 1 ELSE 0
         /\ \A x, y, z : x # "RST" => Codes!Immediates(<<x, y, z>>) = Following(y, z)
<1>1. ASSUME NEW x PROVE Codes!Immediates(<<x>>) = 0
  <2>1. /\ Codes!Operands(<<x>>) \cap {"nn", "(nn)"} = {}
        /\ Codes!Operands(<<x>>) \cap {"n", "(n)"} = {}
    BY OperandsAre
  <2>2. QED BY <2>1 DEF Codes!Immediates
<1>2. ASSUME NEW x, NEW y
      PROVE  Codes!Immediates(<<x, y>>) =
               IF x = "RST" THEN 0
               ELSE IF y \in {"nn", "(nn)"} THEN 2 ELSE IF y \in {"n", "(n)"} THEN 1 ELSE 0
  <2>1. CASE y \in {"nn", "(nn)", "n", "(n)"}
    BY <2>1, OperandsAre DEF Codes!Immediates
  <2>2. CASE y \notin {"nn", "(nn)", "n", "(n)"}
    BY <2>2, OperandsAre DEF Codes!Immediates
  <2>3. QED BY <2>1, <2>2
<1>3. ASSUME NEW x, NEW y, NEW z, x # "RST"
      PROVE  Codes!Immediates(<<x, y, z>>) = Following(y, z)
  <2>1. Codes!Operands(<<x, y, z>>) = {y, z} /\ <<x, y, z>>[1] = x
    BY OperandsAre
  <2>2. QED BY <1>3, <2>1, Zenon DEF Codes!Immediates, Following
<1>4. QED BY <1>1, <1>2, <1>3

LEMMA CyclesByName ==
  ASSUME opcode # \hCB, NEW i
  PROVE  /\ i[1] \in {"LD", "LDH", "LDHL"} => Codes!Cycles(i) = Codes!LoadCycles(i)
         /\ i[1] = "PUSH" => Codes!Cycles(i) = <<"idle", "write", "write">>
         /\ i[1] = "POP" => Codes!Cycles(i) = <<"read", "read">>
         /\ i[1] \in Codes!ByteOperations \cup {"INC", "DEC"}
              => Codes!Cycles(i) = Codes!ArithmeticCycles(i)
         /\ i[1] \in {"JP", "JR", "CALL", "RST", "RET", "RETI"}
              => Codes!Cycles(i) = Codes!ControlCycles(i)
         /\ i[1] \in Plain => Codes!Cycles(i) = <<>>
BY DEF Codes!Cycles, Codes!ByteOperations, Codes!PushCycles, Codes!PopCycles, Plain

LEMMA LoadsTake ==
  /\ \A x, y : x \notin Codes!InMemory /\ y \notin Codes!InMemory /\ <<x, y>> # <<"SP", "HL">>
       => Codes!LoadCycles(<<"LD", x, y>>) = <<>>
  /\ \A o \in {"LD", "LDH"} : \A x, y : x \in Codes!InMemory /\ y # "SP"
       => Codes!LoadCycles(<<o, x, y>>) = <<"write">>
  /\ \A o \in {"LD", "LDH"} : \A x, y : x \notin Codes!InMemory /\ y \in Codes!InMemory
       => Codes!LoadCycles(<<o, x, y>>) = <<"read">>
  /\ Codes!LoadCycles(<<"LD", "(nn)", "SP">>) = <<"write", "write">>
  /\ Codes!LoadCycles(<<"LD", "SP", "HL">>) = <<"idle">>
  /\ Codes!LoadCycles(<<"LDHL", "SP", "n">>) = <<"idle">>
BY DEF Codes!LoadCycles, Codes!InMemory

LEMMA ArithmeticTakes ==
  /\ \A o \in Codes!ByteOperations, x \in Single \cup {"n"} :
       Codes!ArithmeticCycles(<<o, x>>) = <<>>
  /\ \A o \in Codes!ByteOperations : Codes!ArithmeticCycles(<<o, "(HL)">>) = <<"read">>
  /\ \A o \in {"INC", "DEC"}, x \in Single : Codes!ArithmeticCycles(<<o, x>>) = <<>>
  /\ \A o \in {"INC", "DEC"} : Codes!ArithmeticCycles(<<o, "(HL)">>) = <<"read", "write">>
  /\ \A o \in {"INC", "DEC"}, x \in Codes!Wide : Codes!ArithmeticCycles(<<o, x>>) = <<"idle">>
  /\ \A x : Codes!ArithmeticCycles(<<"ADD", "HL", x>>) = <<"idle">>
  /\ Codes!ArithmeticCycles(<<"ADD", "SP", "n">>) = <<"idle", "idle">>
BY DEF Codes!ArithmeticCycles, Codes!Wide, Codes!ByteOperations, Single

LEMMA JumpsTake ==
  ASSUME taken \in BOOLEAN
  PROVE  /\ Codes!ControlCycles(<<"JP", "HL">>) = <<>>
         /\ Codes!ControlCycles(<<"JP", "nn">>) = <<"idle">>
         /\ Codes!ControlCycles(<<"JR", "n">>) = <<"idle">>
         /\ Codes!ControlCycles(<<"CALL", "nn">>) = <<"idle", "write", "write">>
         /\ \A x : Codes!ControlCycles(<<"RST", x>>) = <<"idle", "write", "write">>
         /\ \A c \in Codes!Conditions :
              /\ Codes!ControlCycles(<<"JP", c, "nn">>) = IF taken THEN <<"idle">> ELSE <<>>
              /\ Codes!ControlCycles(<<"JR", c, "n">>) = IF taken THEN <<"idle">> ELSE <<>>
              /\ Codes!ControlCycles(<<"CALL", c, "nn">>) =
                   IF taken THEN <<"idle", "write", "write">> ELSE <<>>
<1>1. \A i \in {<<"JP", "nn">>, <<"JP", "HL">>, <<"JR", "n">>, <<"CALL", "nn">>} :
        ~Codes!IsConditional(i)
  BY ConditionalAre DEF Codes!Conditions
<1>2. \A x : ~Codes!IsConditional(<<"RST", x>>)
  BY ConditionalAre
<1>3. \A c \in Codes!Conditions :
        /\ Codes!IsConditional(<<"JP", c, "nn">>) /\ Codes!IsConditional(<<"JR", c, "n">>)
        /\ Codes!IsConditional(<<"CALL", c, "nn">>)
  BY ConditionalAre
<1>4. /\ Codes!ControlCycles(<<"JP", "HL">>) = <<>>
      /\ Codes!ControlCycles(<<"JP", "nn">>) = <<"idle">>
      /\ Codes!ControlCycles(<<"JR", "n">>) = <<"idle">>
      /\ Codes!ControlCycles(<<"CALL", "nn">>) = <<"idle", "write", "write">>
      /\ \A x : Codes!ControlCycles(<<"RST", x>>) = <<"idle", "write", "write">>
  BY <1>1, <1>2 DEF Codes!ControlCycles, Codes!Goes, Codes!PushCycles
<1>5. \A c \in Codes!Conditions :
        /\ Codes!ControlCycles(<<"JP", c, "nn">>) = IF taken THEN <<"idle">> ELSE <<>>
        /\ Codes!ControlCycles(<<"JR", c, "n">>) = IF taken THEN <<"idle">> ELSE <<>>
        /\ Codes!ControlCycles(<<"CALL", c, "nn">>) =
             IF taken THEN <<"idle", "write", "write">> ELSE <<>>
  BY <1>3 DEF Codes!ControlCycles, Codes!Goes, Codes!PushCycles, Codes!Conditions
<1>6. QED BY <1>4, <1>5

LEMMA Joined ==
  ASSUME NEW s \in Seq(Kinds), NEW t \in Seq(Kinds)
  PROVE  s \o t \in Seq(Kinds) /\ Len(s \o t) = Len(s) + Len(t)
BY ConcatProperties

LEMMA ReturnsTake ==
  ASSUME taken \in BOOLEAN
  PROVE  /\ Len(Codes!ControlCycles(<<"RET">>)) = 3 /\ Len(Codes!ControlCycles(<<"RETI">>)) = 3
         /\ \A c \in Codes!Conditions :
              Len(Codes!ControlCycles(<<"RET", c>>)) = IF taken THEN 4 ELSE 1
<1> DEFINE pop == Codes!PopCycles
           idle == <<"idle">>
           none == <<>>
           jump == none \o (pop \o idle)
           tested == idle \o (pop \o idle)
           failed == idle \o none
<1>1. /\ pop \in Seq(Kinds) /\ Len(pop) = 2
      /\ idle \in Seq(Kinds) /\ Len(idle) = 1
      /\ none \in Seq(Kinds) /\ Len(none) = 0
  BY DEF Codes!PopCycles, Kinds
<1>2. ASSUME NEW i, i[1] \in {"RET", "RETI"}
      PROVE  /\ ~Codes!IsConditional(i) => Codes!ControlCycles(i) = jump
             /\ Codes!IsConditional(i) /\ taken => Codes!ControlCycles(i) = tested
             /\ Codes!IsConditional(i) /\ ~taken => Codes!ControlCycles(i) = failed
  <2>1. Codes!ControlCycles(i) = Codes!ReturnCycles(i)
    BY <1>2 DEF Codes!ControlCycles
  <2>2. CASE ~Codes!IsConditional(i)
    BY <2>1, <2>2 DEF Codes!ReturnCycles, Codes!Goes
  <2>3. CASE Codes!IsConditional(i) /\ taken
    BY <2>1, <2>3 DEF Codes!ReturnCycles, Codes!Goes
  <2>4. CASE Codes!IsConditional(i) /\ ~taken
    BY <2>1, <2>4 DEF Codes!ReturnCycles, Codes!Goes
  <2>5. QED BY <2>2, <2>3, <2>4
<1> HIDE DEF pop, idle, none
<1>3. pop \o idle \in Seq(Kinds) /\ Len(pop \o idle) = Len(pop) + Len(idle)
  BY <1>1, Joined, Zenon
<1>4. /\ Len(none \o (pop \o idle)) = Len(none) + Len(pop \o idle)
      /\ Len(idle \o (pop \o idle)) = Len(idle) + Len(pop \o idle)
      /\ Len(idle \o none) = Len(idle) + Len(none)
  BY <1>1, <1>3, Joined, Zenon
<1>5. Len(jump) = 3 /\ Len(tested) = 4 /\ Len(failed) = 1
  BY <1>1, <1>3, <1>4
<1> HIDE DEF jump, tested, failed
<1>6. ASSUME NEW i \in {<<"RET">>, <<"RETI">>} PROVE Len(Codes!ControlCycles(i)) = 3
  <2>1. ~Codes!IsConditional(i) /\ i[1] \in {"RET", "RETI"}
    BY ConditionalAre
  <2>2. Codes!ControlCycles(i) = jump
    BY <1>2, <2>1
  <2>3. QED BY <1>5, <2>2
<1>7. ASSUME NEW c \in Codes!Conditions
      PROVE  Len(Codes!ControlCycles(<<"RET", c>>)) = IF taken THEN 4 ELSE 1
  <2> DEFINE i == <<"RET", c>>
  <2>1. Codes!IsConditional(i) /\ i[1] \in {"RET", "RETI"}
    BY ConditionalAre
  <2> HIDE DEF i
  <2>2. CASE taken
    <3>1. Codes!ControlCycles(i) = tested
      BY <1>2, <2>1, <2>2
    <3>2. QED BY <1>5, <2>2, <3>1 DEF i
  <2>3. CASE ~taken
    <3>1. Codes!ControlCycles(i) = failed
      BY <1>2, <2>1, <2>3
    <3>2. QED BY <1>5, <2>3, <3>1 DEF i
  <2>4. QED BY <2>2, <2>3
<1>8. QED BY <1>6, <1>7
(* The cycles of an instruction on one opcode byte.                            *)
Spent(i) == 1 + Codes!Immediates(i) + Len(Codes!Cycles(i))

LEMMA Sums ==
  ASSUME NEW i
  PROVE  /\ Codes!Cycles(i) = <<>> => Spent(i) = 1 + Codes!Immediates(i) + 0
         /\ Codes!Cycles(i) \in {<<"idle">>, <<"read">>, <<"write">>}
              => Spent(i) = 1 + Codes!Immediates(i) + 1
         /\ Codes!Cycles(i) \in {<<"idle", "idle">>, <<"read", "read">>, <<"write", "write">>,
                           <<"read", "write">>}
              => Spent(i) = 1 + Codes!Immediates(i) + 2
         /\ Codes!Cycles(i) = <<"idle", "write", "write">> => Spent(i) = 1 + Codes!Immediates(i) + 3
BY DEF Spent

LEMMA PlainSpends ==
  ASSUME opcode # \hCB, NEW x \in Plain
  PROVE  Spent(<<x>>) = 1
<1>1. Codes!Immediates(<<x>>) = 0
  BY ImmediatesAre
<1>2. Codes!Cycles(<<x>>) = <<>>
  BY CyclesByName
<1>3. QED BY <1>1, <1>2, Sums

LEMMA LoadSpends ==
  ASSUME opcode # \hCB, NEW o \in {"LD", "LDH", "LDHL"}, NEW x, NEW y
  PROVE  /\ Codes!Immediates(<<o, x, y>>) = Following(x, y)
         /\ Codes!Cycles(<<o, x, y>>) = Codes!LoadCycles(<<o, x, y>>)
<1>1. Codes!Immediates(<<o, x, y>>) = Following(x, y)
  BY ImmediatesAre
<1>2. Codes!Cycles(<<o, x, y>>) = Codes!LoadCycles(<<o, x, y>>)
  BY CyclesByName
<1>3. QED BY <1>1, <1>2

LEMMA RegisterLoadsSpend ==
  ASSUME opcode # \hCB, NEW r \in Single, NEW s \in Single
  PROVE  /\ Spent(<<"LD", r, s>>) = 1
         /\ Spent(<<"LD", r, "(HL)">>) = 2 /\ Spent(<<"LD", "(HL)", s>>) = 2
         /\ Spent(<<"LD", r, "n">>) = 2 /\ Spent(<<"LD", "(HL)", "n">>) = 3
<1>1. /\ Following(r, s) = 0 /\ Following(r, "(HL)") = 0 /\ Following("(HL)", s) = 0
      /\ Following(r, "n") = 1 /\ Following("(HL)", "n") = 1
  BY DEF Following, Single
<1>2. /\ Codes!LoadCycles(<<"LD", r, s>>) = <<>> /\ Codes!LoadCycles(<<"LD", r, "n">>) = <<>>
      /\ Codes!LoadCycles(<<"LD", r, "(HL)">>) = <<"read">>
      /\ Codes!LoadCycles(<<"LD", "(HL)", s>>) = <<"write">>
      /\ Codes!LoadCycles(<<"LD", "(HL)", "n">>) = <<"write">>
  BY LoadsTake DEF Single, Codes!InMemory
<1>3. QED BY <1>1, <1>2, LoadSpends, Sums

LEMMA PointerLoadsSpend ==
  ASSUME opcode # \hCB, NEW p \in Pointers
  PROVE  Spent(<<"LD", p, "A">>) = 2 /\ Spent(<<"LD", "A", p>>) = 2
<1>1. Following(p, "A") = 0 /\ Following("A", p) = 0
  BY DEF Following, Pointers
<1>2. /\ Codes!LoadCycles(<<"LD", p, "A">>) = <<"write">>
      /\ Codes!LoadCycles(<<"LD", "A", p>>) = <<"read">>
  BY LoadsTake DEF Pointers, Codes!InMemory
<1>3. QED BY <1>1, <1>2, LoadSpends, Sums

LEMMA PairLoadsSpend ==
  ASSUME opcode # \hCB, NEW p \in Codes!Wide
  PROVE  Spent(<<"LD", p, "nn">>) = 3
<1>1. Following(p, "nn") = 2
  BY DEF Following
<1>2. Codes!LoadCycles(<<"LD", p, "nn">>) = <<>>
  BY LoadsTake DEF Codes!Wide, Codes!InMemory
<1>3. QED BY <1>1, <1>2, LoadSpends, Sums

LEMMA OtherLoadsSpend ==
  ASSUME opcode # \hCB
  PROVE  /\ Spent(<<"LD", "(nn)", "A">>) = 4 /\ Spent(<<"LD", "A", "(nn)">>) = 4
         /\ Spent(<<"LD", "(nn)", "SP">>) = 5 /\ Spent(<<"LD", "SP", "HL">>) = 2
         /\ Spent(<<"LDH", "(n)", "A">>) = 3 /\ Spent(<<"LDH", "A", "(n)">>) = 3
         /\ Spent(<<"LDHL", "SP", "n">>) = 3
<1>1. /\ Following("(nn)", "A") = 2 /\ Following("A", "(nn)") = 2
      /\ Following("(nn)", "SP") = 2 /\ Following("SP", "HL") = 0
      /\ Following("(n)", "A") = 1 /\ Following("A", "(n)") = 1 /\ Following("SP", "n") = 1
  BY DEF Following
<1>2. /\ Codes!LoadCycles(<<"LD", "(nn)", "A">>) = <<"write">>
      /\ Codes!LoadCycles(<<"LD", "A", "(nn)">>) = <<"read">>
      /\ Codes!LoadCycles(<<"LDH", "(n)", "A">>) = <<"write">>
      /\ Codes!LoadCycles(<<"LDH", "A", "(n)">>) = <<"read">>
      /\ Codes!LoadCycles(<<"LD", "(nn)", "SP">>) = <<"write", "write">>
      /\ Codes!LoadCycles(<<"LD", "SP", "HL">>) = <<"idle">>
      /\ Codes!LoadCycles(<<"LDHL", "SP", "n">>) = <<"idle">>
  BY LoadsTake DEF Codes!InMemory
<1>3. QED BY <1>1, <1>2, LoadSpends, Sums

LEMMA StepsSpend ==
  ASSUME opcode # \hCB, NEW o \in {"INC", "DEC"}, NEW x
  PROVE  /\ x \in Single => Spent(<<o, x>>) = 1
         /\ x = "(HL)" => Spent(<<o, x>>) = 3
         /\ x \in Codes!Wide => Spent(<<o, x>>) = 2
<1>1. x \in Single \cup {"(HL)"} \cup Codes!Wide => Codes!Immediates(<<o, x>>) = 0
  BY ImmediatesAre DEF Single, Codes!Wide
<1>2. Codes!Cycles(<<o, x>>) = Codes!ArithmeticCycles(<<o, x>>)
  BY CyclesByName
<1>3. /\ x \in Single => Codes!ArithmeticCycles(<<o, x>>) = <<>>
      /\ x = "(HL)" => Codes!ArithmeticCycles(<<o, x>>) = <<"read", "write">>
      /\ x \in Codes!Wide => Codes!ArithmeticCycles(<<o, x>>) = <<"idle">>
  BY ArithmeticTakes, Sums
<1>4. QED BY <1>1, <1>2, <1>3, Sums

LEMMA OperationsSpend ==
  ASSUME opcode # \hCB, NEW o \in Codes!ByteOperations, NEW x
  PROVE  /\ x \in Single => Spent(<<o, x>>) = 1
         /\ x \in {"(HL)", "n"} => Spent(<<o, x>>) = 2
<1>1. /\ x \in Single \cup {"(HL)"} => Codes!Immediates(<<o, x>>) = 0
      /\ x = "n" => Codes!Immediates(<<o, x>>) = 1
  BY ImmediatesAre DEF Single, Codes!ByteOperations
<1>2. Codes!Cycles(<<o, x>>) = Codes!ArithmeticCycles(<<o, x>>)
  BY CyclesByName
<1>3. /\ x \in Single \cup {"n"} => Codes!ArithmeticCycles(<<o, x>>) = <<>>
      /\ x = "(HL)" => Codes!ArithmeticCycles(<<o, x>>) = <<"read">>
  BY ArithmeticTakes, Sums
<1>4. QED BY <1>1, <1>2, <1>3, Sums

LEMMA PairSumsSpend ==
  ASSUME opcode # \hCB
  PROVE  /\ \A p \in Codes!Wide : Spent(<<"ADD", "HL", p>>) = 2
         /\ Spent(<<"ADD", "SP", "n">>) = 4
<1>1. ASSUME NEW x, NEW y
      PROVE  /\ Codes!Immediates(<<"ADD", x, y>>) = Following(x, y)
             /\ Codes!Cycles(<<"ADD", x, y>>) = Codes!ArithmeticCycles(<<"ADD", x, y>>)
  <2>1. Codes!Immediates(<<"ADD", x, y>>) = Following(x, y)
    BY ImmediatesAre
  <2>2. Codes!Cycles(<<"ADD", x, y>>) = Codes!ArithmeticCycles(<<"ADD", x, y>>)
    BY CyclesByName DEF Codes!ByteOperations
  <2>3. QED BY <2>1, <2>2
<1>2. ASSUME NEW p \in Codes!Wide PROVE Spent(<<"ADD", "HL", p>>) = 2
  <2>1. Following("HL", p) = 0
    BY DEF Following, Codes!Wide
  <2>2. QED BY <1>1, <2>1, ArithmeticTakes, Sums
<1>3. Spent(<<"ADD", "SP", "n">>) = 4
  <2>1. Following("SP", "n") = 1
    BY DEF Following
  <2>2. QED BY <1>1, <2>1, ArithmeticTakes, Sums
<1>4. QED BY <1>2, <1>3

LEMMA StackSpends ==
  ASSUME opcode # \hCB, NEW p \in {"AF", "BC", "DE", "HL"}
  PROVE  Spent(<<"PUSH", p>>) = 4 /\ Spent(<<"POP", p>>) = 3
<1>1. Codes!Immediates(<<"PUSH", p>>) = 0 /\ Codes!Immediates(<<"POP", p>>) = 0
  BY ImmediatesAre
<1>2. /\ Codes!Cycles(<<"PUSH", p>>) = <<"idle", "write", "write">>
      /\ Codes!Cycles(<<"POP", p>>) = <<"read", "read">>
  BY CyclesByName
<1>3. QED BY <1>1, <1>2, Sums

LEMMA JumpsSpend ==
  ASSUME opcode # \hCB, taken \in BOOLEAN
  PROVE  /\ Spent(<<"JP", "HL">>) = 1 /\ Spent(<<"JP", "nn">>) = 4
         /\ Spent(<<"JR", "n">>) = 3 /\ Spent(<<"CALL", "nn">>) = 6
         /\ \A x : Spent(<<"RST", x>>) = 4
<1>1. ASSUME NEW o \in {"JP", "JR", "CALL", "RST"}, NEW x
      PROVE  Codes!Cycles(<<o, x>>) = Codes!ControlCycles(<<o, x>>)
  BY CyclesByName
<1>2. /\ Codes!Immediates(<<"JP", "HL">>) = 0 /\ Codes!Immediates(<<"JP", "nn">>) = 2
      /\ Codes!Immediates(<<"JR", "n">>) = 1 /\ Codes!Immediates(<<"CALL", "nn">>) = 2
  BY ImmediatesAre
<1>3. ASSUME NEW x PROVE Spent(<<"RST", x>>) = 4
  <2>1. Codes!Immediates(<<"RST", x>>) = 0
    BY ImmediatesAre
  <2>2. Codes!Cycles(<<"RST", x>>) = <<"idle", "write", "write">>
    BY <1>1, JumpsTake
  <2>3. QED BY <2>1, <2>2, Sums
<1>4. /\ Codes!Cycles(<<"JP", "HL">>) = <<>> /\ Codes!Cycles(<<"JP", "nn">>) = <<"idle">>
      /\ Codes!Cycles(<<"JR", "n">>) = <<"idle">>
      /\ Codes!Cycles(<<"CALL", "nn">>) = <<"idle", "write", "write">>
  BY <1>1, JumpsTake
<1>5. QED BY <1>2, <1>3, <1>4, Sums

LEMMA ConditionsSpend ==
  ASSUME opcode # \hCB, taken \in BOOLEAN, NEW c \in Codes!Conditions
  PROVE  /\ Spent(<<"JP", c, "nn">>) = IF taken THEN 4 ELSE 3
         /\ Spent(<<"JR", c, "n">>) = IF taken THEN 3 ELSE 2
         /\ Spent(<<"CALL", c, "nn">>) = IF taken THEN 6 ELSE 3
<1>1. ASSUME NEW o \in {"JP", "JR", "CALL"}, NEW x
      PROVE  Codes!Cycles(<<o, c, x>>) = Codes!ControlCycles(<<o, c, x>>)
  BY CyclesByName
<1>2. /\ Codes!Immediates(<<"JP", c, "nn">>) = 2 /\ Codes!Immediates(<<"CALL", c, "nn">>) = 2
      /\ Codes!Immediates(<<"JR", c, "n">>) = 1
  <2>1. Following(c, "nn") = 2 /\ Following(c, "n") = 1
    BY DEF Following, Codes!Conditions
  <2>2. QED BY <2>1, ImmediatesAre
<1>3. /\ Codes!Cycles(<<"JP", c, "nn">>) = IF taken THEN <<"idle">> ELSE <<>>
      /\ Codes!Cycles(<<"JR", c, "n">>) = IF taken THEN <<"idle">> ELSE <<>>
      /\ Codes!Cycles(<<"CALL", c, "nn">>) = IF taken THEN <<"idle", "write", "write">> ELSE <<>>
  BY <1>1, JumpsTake
<1>4. CASE taken
  BY <1>2, <1>3, <1>4, Sums
<1>5. CASE ~taken
  BY <1>2, <1>3, <1>5, Sums
<1>6. QED BY <1>4, <1>5

LEMMA ReturnsSpend ==
  ASSUME opcode # \hCB, taken \in BOOLEAN
  PROVE  /\ Spent(<<"RET">>) = 4 /\ Spent(<<"RETI">>) = 4
         /\ \A c \in Codes!Conditions : Spent(<<"RET", c>>) = IF taken THEN 5 ELSE 2
<1>1. /\ Codes!Immediates(<<"RET">>) = 0 /\ Codes!Immediates(<<"RETI">>) = 0
      /\ Codes!Cycles(<<"RET">>) = Codes!ControlCycles(<<"RET">>)
      /\ Codes!Cycles(<<"RETI">>) = Codes!ControlCycles(<<"RETI">>)
  BY ImmediatesAre, CyclesByName
<1>2. Spent(<<"RET">>) = 4 /\ Spent(<<"RETI">>) = 4
  <2>1. \A i : Codes!Immediates(i) = 0 /\ Len(Codes!Cycles(i)) = 3 => Spent(i) = 4
    BY DEF Spent
  <2>2. Len(Codes!Cycles(<<"RET">>)) = 3 /\ Len(Codes!Cycles(<<"RETI">>)) = 3
    BY <1>1, ReturnsTake
  <2>3. QED BY <1>1, <2>1, <2>2
<1>3. ASSUME NEW c \in Codes!Conditions PROVE Spent(<<"RET", c>>) = IF taken THEN 5 ELSE 2
  <2>1. Codes!Immediates(<<"RET", c>>) = 0
    BY ImmediatesAre DEF Codes!Conditions
  <2>2. Codes!Cycles(<<"RET", c>>) = Codes!ControlCycles(<<"RET", c>>)
    BY CyclesByName
  <2>3. Len(Codes!ControlCycles(<<"RET", c>>)) = IF taken THEN 4 ELSE 1
    BY ReturnsTake
  <2>4. QED BY <2>1, <2>2, <2>3 DEF Spent
<1>4. QED BY <1>2, <1>3
(* The table, by the fields of an opcode.                                      *)
LEMMA FieldsAre ==
  ASSUME NEW q \in 0 .. 3, NEW y \in 0 .. 7, NEW z \in 0 .. 7, NEW op, op = 64 * q + 8 * y + z
  PROVE  /\ op \div 64 = q /\ (op \div 8) % 8 = y /\ op % 8 = z
         /\ op \div 16 = 4 * q + (y \div 2) /\ op % 16 = 8 * (y % 2) + z
OBVIOUS

Entry(q, y, z) == Codes!Table[4 * q + (y \div 2) + 1][8 * (y % 2) + z + 1]

LEMMA FirstEntries ==
  ASSUME NEW y \in 0 .. 7
  PROVE  /\ Entry(0, y, 0) = IF y < 4 THEN <<1, 5, 0, 3>>[y + 1] ELSE 2
         /\ Entry(0, y, 1) = IF y % 2 = 0 THEN 3 ELSE 2
         /\ Entry(0, y, 2) = 2 /\ Entry(0, y, 3) = 2
         /\ Entry(0, y, 4) = IF y = 6 THEN 3 ELSE 1
         /\ Entry(0, y, 5) = IF y = 6 THEN 3 ELSE 1
         /\ Entry(0, y, 6) = IF y = 6 THEN 3 ELSE 2
         /\ Entry(0, y, 7) = 1
<1>1. CASE y = 0
  BY <1>1 DEF Entry, Codes!Table
<1>2. CASE y = 1
  BY <1>2 DEF Entry, Codes!Table
<1>3. CASE y = 2
  BY <1>3 DEF Entry, Codes!Table
<1>4. CASE y = 3
  BY <1>4 DEF Entry, Codes!Table
<1>5. CASE y = 4
  BY <1>5 DEF Entry, Codes!Table
<1>6. CASE y = 5
  BY <1>6 DEF Entry, Codes!Table
<1>7. CASE y = 6
  BY <1>7 DEF Entry, Codes!Table
<1>8. CASE y = 7
  BY <1>8 DEF Entry, Codes!Table
<1>9. QED BY <1>1, <1>2, <1>3, <1>4, <1>5, <1>6, <1>7, <1>8

LEMMA MiddleEntries ==
  ASSUME NEW y \in 0 .. 7, NEW z \in 0 .. 7
  PROVE  /\ Entry(1, y, z) = IF y = 6 /\ z = 6 THEN 0 ELSE IF y = 6 \/ z = 6 THEN 2 ELSE 1
         /\ Entry(2, y, z) = IF z = 6 THEN 2 ELSE 1
<1>1. CASE y = 0
  BY <1>1 DEF Entry, Codes!Table
<1>2. CASE y = 1
  BY <1>2 DEF Entry, Codes!Table
<1>3. CASE y = 2
  BY <1>3 DEF Entry, Codes!Table
<1>4. CASE y = 3
  BY <1>4 DEF Entry, Codes!Table
<1>5. CASE y = 4
  BY <1>5 DEF Entry, Codes!Table
<1>6. CASE y = 5
  BY <1>6 DEF Entry, Codes!Table
<1>7. CASE y = 6
  BY <1>7 DEF Entry, Codes!Table
<1>8. CASE y = 7
  BY <1>8 DEF Entry, Codes!Table
<1>9. QED BY <1>1, <1>2, <1>3, <1>4, <1>5, <1>6, <1>7, <1>8

LEMMA LastEntries ==
  ASSUME NEW y \in 0 .. 7
  PROVE  /\ Entry(3, y, 0) = IF y < 4 THEN 2 ELSE <<3, 4, 3, 3>>[y - 3]
         /\ Entry(3, y, 1) = IF y % 2 = 0 THEN 3 ELSE <<4, 4, 1, 2>>[(y \div 2) + 1]
         /\ Entry(3, y, 2) = IF y < 4 THEN 3 ELSE <<2, 4, 2, 4>>[y - 3]
         /\ Entry(3, y, 3) = <<4, 0, 0, 0, 0, 0, 1, 1>>[y + 1]
         /\ Entry(3, y, 4) = IF y < 4 THEN 3 ELSE 0
         /\ Entry(3, y, 5) = IF y % 2 = 0 THEN 4 ELSE IF y = 1 THEN 6 ELSE 0
         /\ Entry(3, y, 6) = 2 /\ Entry(3, y, 7) = 4
<1>1. CASE y = 0
  BY <1>1 DEF Entry, Codes!Table
<1>2. CASE y = 1
  BY <1>2 DEF Entry, Codes!Table
<1>3. CASE y = 2
  BY <1>3 DEF Entry, Codes!Table
<1>4. CASE y = 3
  BY <1>4 DEF Entry, Codes!Table
<1>5. CASE y = 4
  BY <1>5 DEF Entry, Codes!Table
<1>6. CASE y = 5
  BY <1>6 DEF Entry, Codes!Table
<1>7. CASE y = 6
  BY <1>7 DEF Entry, Codes!Table
<1>8. CASE y = 7
  BY <1>8 DEF Entry, Codes!Table
<1>9. QED BY <1>1, <1>2, <1>3, <1>4, <1>5, <1>6, <1>7, <1>8

LEMMA TakenEntries ==
  /\ Codes!TakenEntry.JP = 4 /\ Codes!TakenEntry.JR = 3
  /\ Codes!TakenEntry.CALL = 6 /\ Codes!TakenEntry.RET = 5
BY DEF Codes!TakenEntry, Codes!TableEntry, Codes!Table

(* An instruction takes n cycles, or those of a condition that holds; the table  *)
(* leaves it out when n is 0.                                                  *)
Fits(i, n) ==
  Spent(i) = IF Codes!IsConditional(i) /\ taken THEN Codes!TakenEntry[i[1]]
             ELSE IF n = 0 THEN Spent(i) ELSE n

LEMMA FitsPlain ==
  ASSUME NEW i, NEW n, ~Codes!IsConditional(i), Spent(i) = n \/ n = 0
  PROVE  Fits(i, n)
BY DEF Fits

LEMMA FitsCondition ==
  ASSUME opcode # \hCB, taken \in BOOLEAN, NEW c \in Codes!Conditions
  PROVE  /\ Fits(<<"JP", c, "nn">>, 3) /\ Fits(<<"CALL", c, "nn">>, 3)
         /\ Fits(<<"JR", c, "n">>, 2) /\ Fits(<<"RET", c>>, 2)
<1>1. /\ Codes!IsConditional(<<"JP", c, "nn">>) /\ Codes!IsConditional(<<"CALL", c, "nn">>)
      /\ Codes!IsConditional(<<"JR", c, "n">>) /\ Codes!IsConditional(<<"RET", c>>)
  BY ConditionalAre
<1>2. CASE taken
  <2>1. /\ Spent(<<"JP", c, "nn">>) = 4 /\ Spent(<<"CALL", c, "nn">>) = 6
        /\ Spent(<<"JR", c, "n">>) = 3
    BY <1>2, ConditionsSpend
  <2>2. Spent(<<"RET", c>>) = 5
    BY <1>2, ReturnsSpend
  <2>3. QED BY <1>1, <1>2, <2>1, <2>2, TakenEntries DEF Fits
<1>3. CASE ~taken
  <2>1. /\ Spent(<<"JP", c, "nn">>) = 3 /\ Spent(<<"CALL", c, "nn">>) = 3
        /\ Spent(<<"JR", c, "n">>) = 2
    BY <1>3, ConditionsSpend
  <2>2. Spent(<<"RET", c>>) = 2
    BY <1>3, ReturnsSpend
  <2>3. QED BY <1>3, <2>1, <2>2 DEF Fits
<1>4. QED BY <1>2, <1>3

LEMMA FirstQuarterFits ==
  ASSUME opcode # \hCB, taken \in BOOLEAN, NEW y \in 0 .. 7, NEW z \in 0 .. 7
  PROVE  Fits(Codes!FirstQuarter(y, z), Entry(0, y, z))
<1> DEFINE p == Codes!Pairs[(y \div 2) + 1]
           r == Codes!Bytes[y + 1]
<1>1. /\ p \in Codes!Wide /\ r \in Single \cup {"(HL)"} /\ (r = "(HL)" <=> y = 6)
      /\ Codes!Pointer[(y \div 2) + 1] \in Pointers
  BY DEF Codes!Pairs, Codes!Bytes, Codes!Pointer, Codes!Wide, Single, Pointers
<1> HIDE DEF p, r
<1>2. CASE z = 0 /\ y < 4
  <2>1. Codes!FirstQuarter(y, z) =
          << <<"NOP">>, <<"LD", "(nn)", "SP">>, <<"STOP">>, <<"JR", "n">> >>[y + 1]
    BY <1>2 DEF Codes!FirstQuarter
  <2>2. /\ Fits(<<"NOP">>, 1) /\ Fits(<<"STOP">>, 0)
        /\ Fits(<<"LD", "(nn)", "SP">>, 5) /\ Fits(<<"JR", "n">>, 3)
    BY PlainSpends, OtherLoadsSpend, JumpsSpend, ConditionalAre, FitsPlain
       DEF Plain, Codes!Conditions
  <2>3. QED BY <1>2, <2>1, <2>2, FirstEntries
<1>3. CASE z = 0 /\ y >= 4
  <2>1. Codes!FirstQuarter(y, z) = <<"JR", Codes!ConditionAt[y - 3], "n">>
    BY <1>3 DEF Codes!FirstQuarter
  <2>2. Codes!ConditionAt[y - 3] \in Codes!Conditions
    BY <1>3 DEF Codes!ConditionAt, Codes!Conditions
  <2>3. Fits(<<"JR", Codes!ConditionAt[y - 3], "n">>, 2)
    BY <2>2, FitsCondition
  <2>4. Entry(0, y, 0) = 2
    BY <1>3, FirstEntries
  <2>5. QED BY <1>3, <2>1, <2>3, <2>4
<1>4. CASE z = 1
  <2>1. Codes!FirstQuarter(y, z) = IF y % 2 = 0 THEN <<"LD", p, "nn">> ELSE <<"ADD", "HL", p>>
    BY <1>4 DEF Codes!FirstQuarter, p
  <2>2. Fits(<<"LD", p, "nn">>, 3) /\ Fits(<<"ADD", "HL", p>>, 2)
    BY <1>1, PairLoadsSpend, PairSumsSpend, ConditionalAre, FitsPlain
  <2>3. QED BY <1>4, <2>1, <2>2, FirstEntries
<1>5. CASE z = 2
  <2> DEFINE at == Codes!Pointer[(y \div 2) + 1]
  <2>1. Codes!FirstQuarter(y, z) = IF y % 2 = 0 THEN <<"LD", at, "A">> ELSE <<"LD", "A", at>>
    BY <1>5 DEF Codes!FirstQuarter
  <2> HIDE DEF at
  <2>2. Fits(<<"LD", at, "A">>, 2) /\ Fits(<<"LD", "A", at>>, 2)
    BY <1>1, PointerLoadsSpend, ConditionalAre, FitsPlain DEF at
  <2>3. QED BY <1>5, <2>1, <2>2, FirstEntries
<1>6. CASE z = 3
  <2>1. Codes!FirstQuarter(y, z) = <<IF y % 2 = 0 THEN "INC" ELSE "DEC", p>>
    BY <1>6 DEF Codes!FirstQuarter, p
  <2>2. Fits(<<"INC", p>>, 2) /\ Fits(<<"DEC", p>>, 2)
    BY <1>1, StepsSpend, ConditionalAre, FitsPlain
  <2>3. QED BY <1>6, <2>1, <2>2, FirstEntries
<1>7. CASE z \in {4, 5}
  <2>1. Codes!FirstQuarter(y, z) = <<IF z = 4 THEN "INC" ELSE "DEC", r>>
    BY <1>7 DEF Codes!FirstQuarter, r
  <2>2. \A o \in {"INC", "DEC"} : Fits(<<o, r>>, IF y = 6 THEN 3 ELSE 1)
    BY <1>1, StepsSpend, ConditionalAre, FitsPlain
  <2>3. QED BY <1>7, <2>1, <2>2, FirstEntries
<1>8. CASE z = 6
  <2>1. Codes!FirstQuarter(y, z) = <<"LD", r, "n">>
    BY <1>8 DEF Codes!FirstQuarter, r
  <2>2. Fits(<<"LD", r, "n">>, IF y = 6 THEN 3 ELSE 2)
    <3>1. Spent(<<"LD", r, "n">>) = IF y = 6 THEN 3 ELSE 2
      BY <1>1, RegisterLoadsSpend DEF Single
    <3>2. QED BY <3>1, ConditionalAre, FitsPlain
  <2>3. QED BY <1>8, <2>1, <2>2, FirstEntries
<1>9. CASE z = 7
  <2>1. PICK o \in Plain : Codes!FirstQuarter(y, z) = <<o>>
    BY <1>9 DEF Codes!FirstQuarter, Plain
  <2>2. QED BY <1>9, <2>1, PlainSpends, ConditionalAre, FitsPlain, FirstEntries
<1>10. QED BY <1>2, <1>3, <1>4, <1>5, <1>6, <1>7, <1>8, <1>9

LEMMA MiddleQuarterFits ==
  ASSUME opcode # \hCB, NEW y \in 0 .. 7, NEW z \in 0 .. 7
  PROVE  /\ y # 6 \/ z # 6 => Fits(<<"LD", Codes!Bytes[y + 1], Codes!Bytes[z + 1]>>, Entry(1, y, z))
         /\ Fits(<<"HALT">>, Entry(1, 6, 6))
         /\ Fits(<<Codes!Operation[y + 1], Codes!Bytes[z + 1]>>, Entry(2, y, z))
<1> DEFINE r == Codes!Bytes[y + 1]
           s == Codes!Bytes[z + 1]
           o == Codes!Operation[y + 1]
<1>1. /\ r \in Single \cup {"(HL)"} /\ (r = "(HL)" <=> y = 6)
      /\ s \in Single \cup {"(HL)"} /\ (s = "(HL)" <=> z = 6)
      /\ o \in Codes!ByteOperations
  BY DEF Codes!Bytes, Codes!Operation, Codes!ByteOperations, Single
<1> HIDE DEF r, s, o
<1>2. ASSUME y # 6 \/ z # 6 PROVE Fits(<<"LD", r, s>>, Entry(1, y, z))
  <2>1. Spent(<<"LD", r, s>>) = Entry(1, y, z)
    <3>1. CASE y = 6
      BY <1>1, <1>2, <3>1, RegisterLoadsSpend, MiddleEntries
    <3>2. CASE z = 6
      BY <1>1, <1>2, <3>2, RegisterLoadsSpend, MiddleEntries
    <3>3. CASE y # 6 /\ z # 6
      <4>1. r \in Single /\ s \in Single
        BY <1>1, <3>3
      <4>2. Spent(<<"LD", r, s>>) = 1
        BY <4>1, RegisterLoadsSpend
      <4>3. Entry(1, y, z) = 1
        BY <3>3, MiddleEntries
      <4>4. QED BY <4>2, <4>3
    <3>4. QED BY <3>1, <3>2, <3>3
  <2>2. ~Codes!IsConditional(<<"LD", r, s>>)
    BY ConditionalAre
  <2>3. QED BY <2>1, <2>2, FitsPlain
<1>3. Fits(<<"HALT">>, Entry(1, 6, 6))
  <2>1. Entry(1, 6, 6) = 0
    BY MiddleEntries
  <2>2. QED BY <2>1, ConditionalAre, FitsPlain
<1>4. Fits(<<o, s>>, Entry(2, y, z))
  <2>1. Spent(<<o, s>>) = Entry(2, y, z)
    BY <1>1, OperationsSpend, MiddleEntries
  <2>2. ~Codes!IsConditional(<<o, s>>)
    BY <1>1, ConditionalAre DEF Codes!ByteOperations
  <2>3. QED BY <2>1, <2>2, FitsPlain
<1>5. QED BY <1>2, <1>3, <1>4 DEF r, s, o

LEMMA OthersFit ==
  ASSUME opcode # \hCB, taken \in BOOLEAN
  PROVE  /\ Fits(<<"LDH", "(n)", "A">>, 3) /\ Fits(<<"LDH", "A", "(n)">>, 3)
         /\ Fits(<<"ADD", "SP", "n">>, 4) /\ Fits(<<"LDHL", "SP", "n">>, 3)
         /\ Fits(<<"LD", "SP", "HL">>, 2)
         /\ Fits(<<"LD", "(C)", "A">>, 2) /\ Fits(<<"LD", "A", "(C)">>, 2)
         /\ Fits(<<"LD", "(nn)", "A">>, 4) /\ Fits(<<"LD", "A", "(nn)">>, 4)
         /\ Fits(<<"RET">>, 4) /\ Fits(<<"RETI">>, 4)
         /\ Fits(<<"JP", "HL">>, 1) /\ Fits(<<"JP", "nn">>, 4) /\ Fits(<<"CALL", "nn">>, 6)
<1>1. /\ ~Codes!IsConditional(<<"LDH", "(n)", "A">>) /\ ~Codes!IsConditional(<<"LDH", "A", "(n)">>)
      /\ ~Codes!IsConditional(<<"ADD", "SP", "n">>) /\ ~Codes!IsConditional(<<"LDHL", "SP", "n">>)
      /\ ~Codes!IsConditional(<<"LD", "SP", "HL">>)
      /\ ~Codes!IsConditional(<<"LD", "(C)", "A">>) /\ ~Codes!IsConditional(<<"LD", "A", "(C)">>)
      /\ ~Codes!IsConditional(<<"LD", "(nn)", "A">>) /\ ~Codes!IsConditional(<<"LD", "A", "(nn)">>)
  BY ConditionalAre
<1>2. /\ ~Codes!IsConditional(<<"RET">>) /\ ~Codes!IsConditional(<<"RETI">>)
      /\ ~Codes!IsConditional(<<"JP", "HL">>) /\ ~Codes!IsConditional(<<"JP", "nn">>)
      /\ ~Codes!IsConditional(<<"CALL", "nn">>)
  BY ConditionalAre DEF Codes!Conditions
<1>3. /\ Fits(<<"LDH", "(n)", "A">>, 3) /\ Fits(<<"LDH", "A", "(n)">>, 3)
      /\ Fits(<<"LDHL", "SP", "n">>, 3) /\ Fits(<<"LD", "SP", "HL">>, 2)
      /\ Fits(<<"LD", "(nn)", "A">>, 4) /\ Fits(<<"LD", "A", "(nn)">>, 4)
  BY <1>1, OtherLoadsSpend, FitsPlain
<1>4. Fits(<<"ADD", "SP", "n">>, 4)
  BY <1>1, PairSumsSpend, FitsPlain
<1>5. Fits(<<"LD", "(C)", "A">>, 2) /\ Fits(<<"LD", "A", "(C)">>, 2)
  BY <1>1, PointerLoadsSpend, FitsPlain DEF Pointers
<1>6. Fits(<<"RET">>, 4) /\ Fits(<<"RETI">>, 4)
  BY <1>2, ReturnsSpend, FitsPlain
<1>7. Fits(<<"JP", "HL">>, 1) /\ Fits(<<"JP", "nn">>, 4) /\ Fits(<<"CALL", "nn">>, 6)
  BY <1>2, JumpsSpend, FitsPlain
<1>8. QED BY <1>3, <1>4, <1>5, <1>6, <1>7

LEMMA LastQuarterFits ==
  ASSUME opcode # \hCB, taken \in BOOLEAN, NEW y \in 0 .. 7, NEW z \in 0 .. 7,
         y # 1 \/ z # 3, Codes!LastQuarter(y, z) # Codes!BAD
  PROVE  Fits(Codes!LastQuarter(y, z), Entry(3, y, z))
<1> DEFINE p == Codes!StackPairs[(y \div 2) + 1]
<1>1. p \in {"AF", "BC", "DE", "HL"}
  BY DEF Codes!StackPairs
<1> HIDE DEF p
<1>2. CASE z \in {0, 2, 4} /\ y < 4
  <2> DEFINE c == Codes!ConditionAt[y + 1]
  <2>1. c \in Codes!Conditions
    BY <1>2 DEF Codes!ConditionAt, Codes!Conditions
  <2> HIDE DEF c
  <2>2. CASE z = 0
    <3>1. Codes!LastQuarter(y, z) = <<"RET", c>>
      BY <1>2, <2>2 DEF Codes!LastQuarter, c
    <3>2. Entry(3, y, 0) = 2
      BY <1>2, LastEntries
    <3>3. Fits(<<"RET", c>>, 2)
      BY <2>1, FitsCondition
    <3>4. QED BY <2>2, <3>1, <3>2, <3>3
  <2>3. CASE z = 2
    <3>1. Codes!LastQuarter(y, z) = <<"JP", c, "nn">>
      BY <1>2, <2>3 DEF Codes!LastQuarter, c
    <3>2. Entry(3, y, 2) = 3
      BY <1>2, LastEntries
    <3>3. Fits(<<"JP", c, "nn">>, 3)
      BY <2>1, FitsCondition
    <3>4. QED BY <2>3, <3>1, <3>2, <3>3
  <2>4. CASE z = 4
    <3>1. Codes!LastQuarter(y, z) = <<"CALL", c, "nn">>
      BY <1>2, <2>4 DEF Codes!LastQuarter, c
    <3>2. Entry(3, y, 4) = 3
      BY <1>2, LastEntries
    <3>3. Fits(<<"CALL", c, "nn">>, 3)
      BY <2>1, FitsCondition
    <3>4. QED BY <2>4, <3>1, <3>2, <3>3
  <2>5. QED BY <1>2, <2>2, <2>3, <2>4
<1>3. CASE z = 0 /\ y >= 4
  <2>1. Codes!LastQuarter(y, z) = << <<"LDH", "(n)", "A">>, <<"ADD", "SP", "n">>,
                               <<"LDH", "A", "(n)">>, <<"LDHL", "SP", "n">> >>[y - 3]
    BY <1>3 DEF Codes!LastQuarter
  <2>2. Entry(3, y, 0) = <<3, 4, 3, 3>>[y - 3]
    BY <1>3, LastEntries
  <2>3. y - 3 \in 1 .. 4
    BY <1>3
  <2>4. QED BY <1>3, <2>1, <2>2, <2>3, OthersFit
<1>4. CASE z = 1
  <2>1. CASE y % 2 = 0
    <3>1. Codes!LastQuarter(y, z) = <<"POP", p>>
      BY <1>4, <2>1 DEF Codes!LastQuarter, p
    <3>2. Spent(<<"POP", p>>) = Entry(3, y, 1)
      BY <1>1, <2>1, StackSpends, LastEntries
    <3>3. QED BY <1>4, <3>1, <3>2, ConditionalAre, FitsPlain
  <2>2. CASE y % 2 # 0
    <3>1. Codes!LastQuarter(y, z) =
            << <<"RET">>, <<"RETI">>, <<"JP", "HL">>, <<"LD", "SP", "HL">> >>[(y \div 2) + 1]
      BY <1>4, <2>2 DEF Codes!LastQuarter
    <3>2. Entry(3, y, 1) = <<4, 4, 1, 2>>[(y \div 2) + 1]
      BY <2>2, LastEntries
    <3>3. (y \div 2) + 1 \in 1 .. 4
      OBVIOUS
    <3>4. QED BY <1>4, <3>1, <3>2, <3>3, OthersFit
  <2>3. QED BY <2>1, <2>2
<1>5. CASE z = 2 /\ y >= 4
  <2>1. Codes!LastQuarter(y, z) = << <<"LD", "(C)", "A">>, <<"LD", "(nn)", "A">>,
                               <<"LD", "A", "(C)">>, <<"LD", "A", "(nn)">> >>[y - 3]
    BY <1>5 DEF Codes!LastQuarter
  <2>2. Entry(3, y, 2) = <<2, 4, 2, 4>>[y - 3]
    BY <1>5, LastEntries
  <2>3. y - 3 \in 1 .. 4
    BY <1>5
  <2>4. QED BY <1>5, <2>1, <2>2, <2>3, OthersFit
<1>6. CASE z = 3
  <2>1. Codes!LastQuarter(y, z) = << <<"JP", "nn">>, Codes!NONE, <<"Trap">>, Codes!BAD,
                               <<"DebugTrap">>, Codes!BAD,
                               <<"DI">>, <<"EI">> >>[y + 1]
    BY <1>6 DEF Codes!LastQuarter
  <2>2. Entry(3, y, 3) = <<4, 0, 0, 0, 0, 0, 1, 1>>[y + 1]
    BY LastEntries
  <2>3. CASE y = 0
    BY <1>6, <2>1, <2>2, <2>3, OthersFit
  <2>4. CASE y \in {2, 4}
    <3>1. PICK x : Codes!LastQuarter(y, z) = <<x>>
      BY <2>1, <2>4
    <3>2. Entry(3, y, z) = 0
      BY <1>6, <2>2, <2>4
    <3>3. QED BY <3>1, <3>2, ConditionalAre, FitsPlain
  <2>5. CASE y \in {6, 7}
    <3>1. PICK x \in Plain : Codes!LastQuarter(y, z) = <<x>>
      BY <2>1, <2>5 DEF Plain
    <3>2. Entry(3, y, z) = 1
      BY <1>6, <2>2, <2>5
    <3>3. QED BY <3>1, <3>2, PlainSpends, ConditionalAre, FitsPlain
  <2>6. y \notin {1, 3, 5}
    BY <1>6, <2>1
  <2>7. QED BY <2>3, <2>4, <2>5, <2>6
<1>7. z # 4 \/ y < 4
  BY DEF Codes!LastQuarter
<1>8. CASE z = 5
  <2>1. CASE y % 2 = 0
    <3>1. Codes!LastQuarter(y, z) = <<"PUSH", p>>
      BY <1>8, <2>1 DEF Codes!LastQuarter, p
    <3>2. Spent(<<"PUSH", p>>) = Entry(3, y, 5)
      BY <1>1, <2>1, StackSpends, LastEntries
    <3>3. QED BY <1>8, <3>1, <3>2, ConditionalAre, FitsPlain
  <2>2. CASE y % 2 # 0
    <3>1. Codes!LastQuarter(y, z) = IF y \div 2 = 0 THEN <<"CALL", "nn">> ELSE Codes!BAD
      BY <1>8, <2>2 DEF Codes!LastQuarter
    <3>2. y = 1 /\ Codes!LastQuarter(y, z) = <<"CALL", "nn">>
      BY <2>2, <3>1
    <3>3. Entry(3, y, 5) = 6
      BY <3>2, LastEntries
    <3>4. QED BY <1>8, <3>2, <3>3, OthersFit
  <2>3. QED BY <2>1, <2>2
<1>9. CASE z = 6
  <2> DEFINE o == Codes!Operation[y + 1]
  <2>1. o \in Codes!ByteOperations
    BY DEF Codes!Operation, Codes!ByteOperations
  <2>2. Codes!LastQuarter(y, z) = <<o, "n">>
    BY <1>9 DEF Codes!LastQuarter
  <2> HIDE DEF o
  <2>3. Spent(<<o, "n">>) = 2 /\ Entry(3, y, 6) = 2
    BY <2>1, OperationsSpend, LastEntries
  <2>4. ~Codes!IsConditional(<<o, "n">>)
    BY <2>1, ConditionalAre DEF Codes!ByteOperations
  <2>5. QED BY <1>9, <2>2, <2>3, <2>4, FitsPlain
<1>10. CASE z = 7
  <2>1. Codes!LastQuarter(y, z) = <<"RST", 8 * y>>
    BY <1>10 DEF Codes!LastQuarter
  <2>2. Spent(<<"RST", 8 * y>>) = 4 /\ Entry(3, y, 7) = 4
    BY JumpsSpend, LastEntries
  <2>3. ~Codes!IsConditional(<<"RST", 8 * y>>)
    BY ConditionalAre
  <2>4. QED BY <1>10, <2>1, <2>2, <2>3, FitsPlain
<1>11. QED BY <1>2, <1>3, <1>4, <1>5, <1>6, <1>7, <1>8, <1>9, <1>10

LEMMA ByFieldsFits ==
  ASSUME opcode # \hCB, taken \in BOOLEAN, NEW op \in Codes!Byte, op # \hCB,
         Codes!ByFields(op) # Codes!BAD
  PROVE  Fits(Codes!ByFields(op), Codes!TableEntry(op))
<1> DEFINE q == op \div 64
           y == (op \div 8) % 8
           z == op % 8
<1>1. /\ q \in 0 .. 3 /\ y \in 0 .. 7 /\ z \in 0 .. 7
      /\ op = 64 * q + 8 * y + z
  BY DEF Codes!Byte
<1>2. /\ op = \h76 <=> q = 1 /\ y = 6 /\ z = 6
      /\ q = 3 => y # 1 \/ z # 3
  BY <1>1
<1>3. Codes!TableEntry(op) = Entry(q, y, z)
  <2>1. op \div 16 = 4 * q + (y \div 2) /\ op % 16 = 8 * (y % 2) + z
    BY <1>1, FieldsAre
  <2>2. QED BY <2>1, Zenon DEF Codes!TableEntry, Entry
<1>4. /\ q = 0 => Codes!ByFields(op) = Codes!FirstQuarter(y, z)
      /\ op = \h76 => Codes!ByFields(op) = <<"HALT">>
      /\ q = 1 /\ op # \h76 => Codes!ByFields(op) = <<"LD", Codes!Bytes[y + 1], Codes!Bytes[z + 1]>>
      /\ q = 2 => Codes!ByFields(op) = <<Codes!Operation[y + 1], Codes!Bytes[z + 1]>>
      /\ q = 3 => Codes!ByFields(op) = Codes!LastQuarter(y, z)
  BY <1>2 DEF Codes!ByFields
<1> HIDE DEF q, y, z
<1>5. CASE q = 0
  BY <1>1, <1>3, <1>4, <1>5, FirstQuarterFits
<1>6. CASE op = \h76
  <2>1. Fits(<<"HALT">>, Entry(1, 6, 6))
    BY MiddleQuarterFits
  <2>2. q = 1 /\ y = 6 /\ z = 6
    BY <1>2, <1>6
  <2>3. QED BY <1>3, <1>4, <1>6, <2>1, <2>2
<1>7. CASE q = 1 /\ op # \h76
  BY <1>1, <1>2, <1>3, <1>4, <1>7, MiddleQuarterFits
<1>8. CASE q = 2
  BY <1>1, <1>3, <1>4, <1>8, MiddleQuarterFits
<1>9. CASE q = 3
  BY <1>1, <1>2, <1>3, <1>4, <1>9, LastQuarterFits
<1>10. QED BY <1>1, <1>5, <1>6, <1>7, <1>8, <1>9

(* The accesses of an instruction come last.                                   *)
Shapes == {<<>>, <<"idle">>, <<"read">>, <<"write">>, <<"idle", "idle">>, <<"read", "read">>,
           <<"write", "write">>, <<"read", "write">>, <<"idle", "write", "write">>}

Rotations == {"RLC", "RRC", "RL", "RR", "SLA", "SRA", "SWAP", "SRL", "BIT", "RES", "SET"}

LEMMA CyclesShape ==
  ASSUME NEW i, opcode # \hCB, i[1] \notin {"RET", "RETI"}
  PROVE  Codes!Cycles(i) \in Shapes
<1>1. Codes!LoadCycles(i) \in Shapes
  BY DEF Codes!LoadCycles, Shapes
<1>2. Codes!ArithmeticCycles(i) \in Shapes
  BY DEF Codes!ArithmeticCycles, Shapes
<1>3. i[1] \in {"JP", "JR", "CALL", "RST"} => Codes!ControlCycles(i) \in Shapes
  BY DEF Codes!ControlCycles, Codes!PushCycles, Shapes
<1>4. /\ <<"idle", "write", "write">> \in Shapes /\ <<"read", "read">> \in Shapes
      /\ <<>> \in Shapes
  BY DEF Shapes
<1> DEFINE named == {"LD", "LDH", "LDHL", "PUSH", "POP", "INC", "DEC", "JP", "JR", "CALL", "RST"}
                      \cup Codes!ByteOperations
<1>5. CASE i[1] \in named
  BY <1>1, <1>2, <1>3, <1>4, <1>5, CyclesByName
<1>6. CASE i[1] \notin named
  <2>1. Codes!Cycles(i) = <<>>
    BY <1>6 DEF Codes!Cycles
  <2>2. QED BY <1>4, <2>1
<1>7. QED BY <1>5, <1>6

LEMMA PrefixedTakes ==
  ASSUME NEW i, opcode = \hCB, i[1] \in Rotations
  PROVE  Codes!Cycles(i) = Codes!PrefixedCycles(i) /\ Codes!Cycles(i) \in Shapes
<1>1. Codes!Cycles(i) = Codes!PrefixedCycles(i)
  BY DEF Codes!Cycles, Rotations
<1>2. Codes!PrefixedCycles(i) \in Shapes
  BY DEF Codes!PrefixedCycles, Shapes
<1>3. QED BY <1>1, <1>2

LEMMA ShapesAre ==
  ASSUME NEW s \in Shapes
  PROVE  /\ s \in Seq(Kinds)
         /\ \A k \in 1 .. Len(s) - 1 :
              /\ s[k] = "read" => s[k + 1] \in {"read", "write"}
              /\ s[k] = "write" => s[k + 1] = "write"
<1>1. CASE s = <<>>
  BY <1>1 DEF Kinds
<1>2. CASE s = <<"idle">>
  BY <1>2 DEF Kinds
<1>3. CASE s = <<"read">>
  BY <1>3 DEF Kinds
<1>4. CASE s = <<"write">>
  BY <1>4 DEF Kinds
<1>5. CASE s = <<"idle", "idle">>
  BY <1>5 DEF Kinds
<1>6. CASE s = <<"read", "read">>
  BY <1>6 DEF Kinds
<1>7. CASE s = <<"write", "write">>
  BY <1>7 DEF Kinds
<1>8. CASE s = <<"read", "write">>
  BY <1>8 DEF Kinds
<1>9. CASE s = <<"idle", "write", "write">>
  BY <1>9 DEF Kinds
<1>10. QED BY <1>1, <1>2, <1>3, <1>4, <1>5, <1>6, <1>7, <1>8, <1>9 DEF Shapes

(* The groups of the switch give the instruction that the fields say, or none.  *)
Agrees(op) ==
  Codes!Groups(op) = IF Codes!ByFields(op) = Codes!BAD THEN {} ELSE {Codes!ByFields(op)}

LEMMA Decodes == ASSUME NEW op \in Codes!Byte, op # \hCB PROVE Agrees(op)
<1> USE DEF Codes!Groups, Codes!Load8, Codes!Load16, Codes!Arithmetic,
      Codes!Miscellaneous, Codes!Control, Codes!Condition, Codes!ByFields,
      Codes!FirstQuarter, Codes!LastQuarter, Codes!Reg, Codes!RegBy8, Codes!Reg16,
      Codes!registerOpcodes, Codes!register16Opcodes, Codes!Column, Codes!Bytes,
      Codes!Pairs, Codes!StackPairs, Codes!ConditionAt, Codes!Operation, Codes!Pointer,
      Codes!NONE, Codes!BAD
<1>1. CASE op \in 0 .. 15
  <2>1. /\ Agrees(0) /\ Agrees(1) /\ Agrees(2) /\ Agrees(3)
        /\ Agrees(4) /\ Agrees(5) /\ Agrees(6) /\ Agrees(7)
        /\ Agrees(8) /\ Agrees(9) /\ Agrees(10) /\ Agrees(11)
        /\ Agrees(12) /\ Agrees(13) /\ Agrees(14) /\ Agrees(15)
    BY DEF Agrees
  <2>2. QED BY <1>1, <2>1
<1>2. CASE op \in 16 .. 31
  <2>1. /\ Agrees(16) /\ Agrees(17) /\ Agrees(18) /\ Agrees(19)
        /\ Agrees(20) /\ Agrees(21) /\ Agrees(22) /\ Agrees(23)
        /\ Agrees(24) /\ Agrees(25) /\ Agrees(26) /\ Agrees(27)
        /\ Agrees(28) /\ Agrees(29) /\ Agrees(30) /\ Agrees(31)
    BY DEF Agrees
  <2>2. QED BY <1>2, <2>1
<1>3. CASE op \in 32 .. 47
  <2>1. /\ Agrees(32) /\ Agrees(33) /\ Agrees(34) /\ Agrees(35)
        /\ Agrees(36) /\ Agrees(37) /\ Agrees(38) /\ Agrees(39)
        /\ Agrees(40) /\ Agrees(41) /\ Agrees(42) /\ Agrees(43)
        /\ Agrees(44) /\ Agrees(45) /\ Agrees(46) /\ Agrees(47)
    BY DEF Agrees
  <2>2. QED BY <1>3, <2>1
<1>4. CASE op \in 48 .. 63
  <2>1. /\ Agrees(48) /\ Agrees(49) /\ Agrees(50) /\ Agrees(51)
        /\ Agrees(52) /\ Agrees(53) /\ Agrees(54) /\ Agrees(55)
        /\ Agrees(56) /\ Agrees(57) /\ Agrees(58) /\ Agrees(59)
        /\ Agrees(60) /\ Agrees(61) /\ Agrees(62) /\ Agrees(63)
    BY DEF Agrees
  <2>2. QED BY <1>4, <2>1
<1>5. CASE op \in 64 .. 79
  <2>1. /\ Agrees(64) /\ Agrees(65) /\ Agrees(66) /\ Agrees(67)
        /\ Agrees(68) /\ Agrees(69) /\ Agrees(70) /\ Agrees(71)
        /\ Agrees(72) /\ Agrees(73) /\ Agrees(74) /\ Agrees(75)
        /\ Agrees(76) /\ Agrees(77) /\ Agrees(78) /\ Agrees(79)
    BY DEF Agrees
  <2>2. QED BY <1>5, <2>1
<1>6. CASE op \in 80 .. 95
  <2>1. /\ Agrees(80) /\ Agrees(81) /\ Agrees(82) /\ Agrees(83)
        /\ Agrees(84) /\ Agrees(85) /\ Agrees(86) /\ Agrees(87)
        /\ Agrees(88) /\ Agrees(89) /\ Agrees(90) /\ Agrees(91)
        /\ Agrees(92) /\ Agrees(93) /\ Agrees(94) /\ Agrees(95)
    BY DEF Agrees
  <2>2. QED BY <1>6, <2>1
<1>7. CASE op \in 96 .. 111
  <2>1. /\ Agrees(96) /\ Agrees(97) /\ Agrees(98) /\ Agrees(99)
        /\ Agrees(100) /\ Agrees(101) /\ Agrees(102) /\ Agrees(103)
        /\ Agrees(104) /\ Agrees(105) /\ Agrees(106) /\ Agrees(107)
        /\ Agrees(108) /\ Agrees(109) /\ Agrees(110) /\ Agrees(111)
    BY DEF Agrees
  <2>2. QED BY <1>7, <2>1
<1>8. CASE op \in 112 .. 127
  <2>1. /\ Agrees(112) /\ Agrees(113) /\ Agrees(114) /\ Agrees(115)
        /\ Agrees(116) /\ Agrees(117) /\ Agrees(118) /\ Agrees(119)
        /\ Agrees(120) /\ Agrees(121) /\ Agrees(122) /\ Agrees(123)
        /\ Agrees(124) /\ Agrees(125) /\ Agrees(126) /\ Agrees(127)
    BY DEF Agrees
  <2>2. QED BY <1>8, <2>1
<1>9. CASE op \in 128 .. 143
  <2>1. /\ Agrees(128) /\ Agrees(129) /\ Agrees(130) /\ Agrees(131)
        /\ Agrees(132) /\ Agrees(133) /\ Agrees(134) /\ Agrees(135)
        /\ Agrees(136) /\ Agrees(137) /\ Agrees(138) /\ Agrees(139)
        /\ Agrees(140) /\ Agrees(141) /\ Agrees(142) /\ Agrees(143)
    BY DEF Agrees
  <2>2. QED BY <1>9, <2>1
<1>10. CASE op \in 144 .. 159
  <2>1. /\ Agrees(144) /\ Agrees(145) /\ Agrees(146) /\ Agrees(147)
        /\ Agrees(148) /\ Agrees(149) /\ Agrees(150) /\ Agrees(151)
        /\ Agrees(152) /\ Agrees(153) /\ Agrees(154) /\ Agrees(155)
        /\ Agrees(156) /\ Agrees(157) /\ Agrees(158) /\ Agrees(159)
    BY DEF Agrees
  <2>2. QED BY <1>10, <2>1
<1>11. CASE op \in 160 .. 175
  <2>1. /\ Agrees(160) /\ Agrees(161) /\ Agrees(162) /\ Agrees(163)
        /\ Agrees(164) /\ Agrees(165) /\ Agrees(166) /\ Agrees(167)
        /\ Agrees(168) /\ Agrees(169) /\ Agrees(170) /\ Agrees(171)
        /\ Agrees(172) /\ Agrees(173) /\ Agrees(174) /\ Agrees(175)
    BY DEF Agrees
  <2>2. QED BY <1>11, <2>1
<1>12. CASE op \in 176 .. 191
  <2>1. /\ Agrees(176) /\ Agrees(177) /\ Agrees(178) /\ Agrees(179)
        /\ Agrees(180) /\ Agrees(181) /\ Agrees(182) /\ Agrees(183)
        /\ Agrees(184) /\ Agrees(185) /\ Agrees(186) /\ Agrees(187)
        /\ Agrees(188) /\ Agrees(189) /\ Agrees(190) /\ Agrees(191)
    BY DEF Agrees
  <2>2. QED BY <1>12, <2>1
<1>13. CASE op \in 192 .. 207
  <2>1. /\ Agrees(192) /\ Agrees(193) /\ Agrees(194) /\ Agrees(195)
        /\ Agrees(196) /\ Agrees(197) /\ Agrees(198) /\ Agrees(199)
        /\ Agrees(200) /\ Agrees(201) /\ Agrees(202) /\ Agrees(204)
        /\ Agrees(205) /\ Agrees(206) /\ Agrees(207)
    BY DEF Agrees
  <2>2. QED BY <1>13, <2>1
<1>14. CASE op \in 208 .. 223
  <2>1. /\ Agrees(208) /\ Agrees(209) /\ Agrees(210) /\ Agrees(211)
        /\ Agrees(212) /\ Agrees(213) /\ Agrees(214) /\ Agrees(215)
        /\ Agrees(216) /\ Agrees(217) /\ Agrees(218) /\ Agrees(219)
        /\ Agrees(220) /\ Agrees(221) /\ Agrees(222) /\ Agrees(223)
    BY DEF Agrees
  <2>2. QED BY <1>14, <2>1
<1>15. CASE op \in 224 .. 239
  <2>1. /\ Agrees(224) /\ Agrees(225) /\ Agrees(226) /\ Agrees(227)
        /\ Agrees(228) /\ Agrees(229) /\ Agrees(230) /\ Agrees(231)
        /\ Agrees(232) /\ Agrees(233) /\ Agrees(234) /\ Agrees(235)
        /\ Agrees(236) /\ Agrees(237) /\ Agrees(238) /\ Agrees(239)
    BY DEF Agrees
  <2>2. QED BY <1>15, <2>1
<1>16. CASE op \in 240 .. 255
  <2>1. /\ Agrees(240) /\ Agrees(241) /\ Agrees(242) /\ Agrees(243)
        /\ Agrees(244) /\ Agrees(245) /\ Agrees(246) /\ Agrees(247)
        /\ Agrees(248) /\ Agrees(249) /\ Agrees(250) /\ Agrees(251)
        /\ Agrees(252) /\ Agrees(253) /\ Agrees(254) /\ Agrees(255)
    BY DEF Agrees
  <2>2. QED BY <1>16, <2>1
<1>17. QED BY <1>1, <1>2, <1>3, <1>4, <1>5, <1>6, <1>7, <1>8, <1>9, <1>10,
               <1>11, <1>12, <1>13, <1>14, <1>15, <1>16 DEF Codes!Byte

LEMMA PrefixDecodes == Codes!Groups(\hCB) = {}
<1>1. /\ Codes!Load8(\hCB) = Codes!NONE /\ Codes!Load16(\hCB) = Codes!NONE
      /\ Codes!Arithmetic(\hCB) = Codes!NONE
      /\ Codes!Miscellaneous(\hCB) = Codes!NONE /\ Codes!Control(\hCB) = Codes!NONE
  BY DEF Codes!Load8, Codes!Load16, Codes!Arithmetic, Codes!Miscellaneous, Codes!Control,
     Codes!Column
<1>2. QED BY <1>1 DEF Codes!Groups

LEMMA PrefixedDecodes ==
  ASSUME NEW byte \in Codes!Byte
  PROVE  Codes!Prefixed(byte) = Codes!PrefixedByFields(byte)
<1>1. Codes!registerOpcodes = Codes!Bytes
  BY DEF Codes!registerOpcodes, Codes!Bytes
<1>2. byte = 8 * (byte \div 8) + (byte % 8) /\ byte \div 8 \in 0 .. 31 /\ byte % 8 \in 0 .. 7
  BY DEF Codes!Byte
<1>3. byte < 64 => Codes!PrefixedByFields(byte) =
                     <<Codes!Rotation[(byte \div 8) + 1], Codes!Bytes[(byte % 8) + 1]>>
  <2>1. byte < 64 => (byte \div 8) % 8 = byte \div 8
    BY <1>2
  <2>2. QED BY <2>1 DEF Codes!PrefixedByFields
<1>4. byte >= 64 => Codes!PrefixedByFields(byte) =
        << <<"BIT", "RES", "SET">>[byte \div 64], Codes!Bytes[(byte % 8) + 1], (byte \div 8) % 8>>
  BY DEF Codes!PrefixedByFields, Codes!Byte
<1>5. CASE byte \div 8 = 0
  <2>1. Codes!Prefixed(byte) = <<"RLC", Codes!Bytes[(byte % 8) + 1]>>
    BY <1>1, <1>2, <1>5 DEF Codes!Prefixed, Codes!Reg
  <2>2. byte < 64 /\ Codes!Rotation[(byte \div 8) + 1] = "RLC"
    BY <1>2, <1>5 DEF Codes!Rotation
  <2>3. QED BY <1>3, <2>1, <2>2
<1>6. CASE byte \div 8 = 1
  <2>1. Codes!Prefixed(byte) = <<"RRC", Codes!Bytes[(byte % 8) + 1]>>
    BY <1>1, <1>2, <1>6 DEF Codes!Prefixed, Codes!Reg
  <2>2. byte < 64 /\ Codes!Rotation[(byte \div 8) + 1] = "RRC"
    BY <1>2, <1>6 DEF Codes!Rotation
  <2>3. QED BY <1>3, <2>1, <2>2
<1>7. CASE byte \div 8 = 2
  <2>1. Codes!Prefixed(byte) = <<"RL", Codes!Bytes[(byte % 8) + 1]>>
    BY <1>1, <1>2, <1>7 DEF Codes!Prefixed, Codes!Reg
  <2>2. byte < 64 /\ Codes!Rotation[(byte \div 8) + 1] = "RL"
    BY <1>2, <1>7 DEF Codes!Rotation
  <2>3. QED BY <1>3, <2>1, <2>2
<1>8. CASE byte \div 8 = 3
  <2>1. Codes!Prefixed(byte) = <<"RR", Codes!Bytes[(byte % 8) + 1]>>
    BY <1>1, <1>2, <1>8 DEF Codes!Prefixed, Codes!Reg
  <2>2. byte < 64 /\ Codes!Rotation[(byte \div 8) + 1] = "RR"
    BY <1>2, <1>8 DEF Codes!Rotation
  <2>3. QED BY <1>3, <2>1, <2>2
<1>9. CASE byte \div 8 = 4
  <2>1. Codes!Prefixed(byte) = <<"SLA", Codes!Bytes[(byte % 8) + 1]>>
    BY <1>1, <1>2, <1>9 DEF Codes!Prefixed, Codes!Reg
  <2>2. byte < 64 /\ Codes!Rotation[(byte \div 8) + 1] = "SLA"
    BY <1>2, <1>9 DEF Codes!Rotation
  <2>3. QED BY <1>3, <2>1, <2>2
<1>10. CASE byte \div 8 = 5
  <2>1. Codes!Prefixed(byte) = <<"SRA", Codes!Bytes[(byte % 8) + 1]>>
    BY <1>1, <1>2, <1>10 DEF Codes!Prefixed, Codes!Reg
  <2>2. byte < 64 /\ Codes!Rotation[(byte \div 8) + 1] = "SRA"
    BY <1>2, <1>10 DEF Codes!Rotation
  <2>3. QED BY <1>3, <2>1, <2>2
<1>11. CASE byte \div 8 = 6
  <2>1. Codes!Prefixed(byte) = <<"SWAP", Codes!Bytes[(byte % 8) + 1]>>
    BY <1>1, <1>2, <1>11 DEF Codes!Prefixed, Codes!Reg
  <2>2. byte < 64 /\ Codes!Rotation[(byte \div 8) + 1] = "SWAP"
    BY <1>2, <1>11 DEF Codes!Rotation
  <2>3. QED BY <1>3, <2>1, <2>2
<1>12. CASE byte \div 8 = 7
  <2>1. Codes!Prefixed(byte) = <<"SRL", Codes!Bytes[(byte % 8) + 1]>>
    BY <1>1, <1>2, <1>12 DEF Codes!Prefixed, Codes!Reg
  <2>2. byte < 64 /\ Codes!Rotation[(byte \div 8) + 1] = "SRL"
    BY <1>2, <1>12 DEF Codes!Rotation
  <2>3. QED BY <1>3, <2>1, <2>2
<1>13. CASE byte \div 8 \in 8 .. 15
  <2>1. byte \in 64 .. 127 /\ byte \div 64 = 1 /\ (byte - 64) \div 8 = (byte \div 8) % 8
    BY <1>2, <1>13
  <2>2. Codes!Prefixed(byte) = <<"BIT", Codes!Bytes[(byte % 8) + 1], (byte - 64) \div 8>>
    BY <1>1, <2>1 DEF Codes!Prefixed
  <2>3. QED BY <1>4, <2>1, <2>2
<1>14. CASE byte \div 8 \in 16 .. 23
  <2>1. byte \in 128 .. 191 /\ byte \div 64 = 2 /\ (byte - 128) \div 8 = (byte \div 8) % 8
    BY <1>2, <1>14
  <2>2. Codes!Prefixed(byte) = <<"RES", Codes!Bytes[(byte % 8) + 1], (byte - 128) \div 8>>
    BY <1>1, <2>1 DEF Codes!Prefixed
  <2>3. QED BY <1>4, <2>1, <2>2
<1>15. CASE byte \div 8 \in 24 .. 31
  <2>1. byte \in 192 .. 255 /\ byte \div 64 = 3 /\ (byte - 192) \div 8 = (byte \div 8) % 8
    BY <1>2, <1>15
  <2>2. Codes!Prefixed(byte) = <<"SET", Codes!Bytes[(byte % 8) + 1], (byte - 192) \div 8>>
    BY <1>1, <2>1 DEF Codes!Prefixed
  <2>3. QED BY <1>4, <2>1, <2>2
<1>16. QED BY <1>2, <1>5, <1>6, <1>7, <1>8, <1>9, <1>10, <1>11, <1>12, <1>13, <1>14, <1>15

LEMMA PrefixedFits ==
  ASSUME opcode = \hCB, NEW byte \in Codes!Byte
  PROVE  LET i == Codes!PrefixedByFields(byte)
         IN /\ i[1] \in Rotations /\ Codes!Immediates(i) = 0
            /\ 2 + Len(Codes!Cycles(i)) = Codes!PrefixedEntry(byte)
<1> DEFINE i == Codes!PrefixedByFields(byte)
<1>1. byte % 8 \in 0 .. 7 /\ byte \div 64 \in 0 .. 3 /\ (byte < 64 <=> byte \div 64 = 0)
  BY DEF Codes!Byte
<1>2. i[2] = "(HL)" <=> byte % 8 = 6
  <2>1. i[2] = Codes!Bytes[(byte % 8) + 1]
    BY <1>1 DEF Codes!PrefixedByFields
  <2>2. QED BY <1>1, <2>1 DEF Codes!Bytes
<1>3. i[1] \in Rotations /\ (i[1] = "BIT" <=> byte \div 64 = 1)
  <2>1. CASE byte < 64
    <3>1. (byte \div 8) % 8 \in 0 .. 7
      BY DEF Codes!Byte
    <3>2. i[1] = Codes!Rotation[((byte \div 8) % 8) + 1]
      BY <2>1 DEF Codes!PrefixedByFields
    <3>3. QED BY <1>1, <2>1, <3>1, <3>2 DEF Codes!Rotation, Rotations
  <2>2. CASE byte >= 64
    <3>1. i[1] = <<"BIT", "RES", "SET">>[byte \div 64]
      BY <2>2 DEF Codes!PrefixedByFields, Codes!Byte
    <3>2. QED BY <1>1, <2>2, <3>1 DEF Rotations, Codes!Byte
  <2>3. QED BY <2>1, <2>2 DEF Codes!Byte
<1> HIDE DEF i
<1>4. Codes!Immediates(i) = 0
  BY DEF Codes!Immediates
<1>5. Codes!Cycles(i) = Codes!PrefixedCycles(i)
  BY <1>3, PrefixedTakes
<1>6. 2 + Len(Codes!PrefixedCycles(i)) = Codes!PrefixedEntry(byte)
  BY <1>2, <1>3 DEF Codes!PrefixedCycles, Codes!PrefixedEntry
<1>7. QED BY <1>3, <1>4, <1>5, <1>6 DEF i

LEMMA ReturnsAreSequences ==
  ASSUME NEW i, opcode # \hCB, i[1] \in {"RET", "RETI"}
  PROVE  Codes!Cycles(i) \in Seq(Kinds)
<1>1. Codes!Cycles(i) = Codes!ReturnCycles(i)
  <2>1. Codes!Cycles(i) = Codes!ControlCycles(i)
    BY CyclesByName
  <2>2. QED BY <2>1 DEF Codes!ControlCycles
<1>2. /\ Codes!PopCycles \in Seq(Kinds) /\ <<"idle">> \in Seq(Kinds) /\ <<>> \in Seq(Kinds)
  BY DEF Codes!PopCycles, Kinds
<1>3. Codes!PopCycles \o <<"idle">> \in Seq(Kinds)
  BY <1>2, Joined
<1> DEFINE first == IF Codes!IsConditional(i) THEN <<"idle">> ELSE <<>>
           second == IF Codes!Goes(i) THEN Codes!PopCycles \o <<"idle">> ELSE <<>>
<1>4. first \in Seq(Kinds) /\ second \in Seq(Kinds)
  BY <1>2, <1>3
<1>5. Codes!ReturnCycles(i) = first \o second
  BY DEF Codes!ReturnCycles
<1> HIDE DEF first, second
<1>6. QED BY <1>1, <1>4, <1>5, Joined

LEMMA ProgramIs ==
  ASSUME Codes!Immediates(instruction) \in Nat, Codes!Cycles(instruction) \in Seq(Kinds)
  PROVE  LET m == (IF opcode = \hCB THEN 2 ELSE 1) + Codes!Immediates(instruction)
             s == Codes!Cycles(instruction)
         IN /\ Len(Codes!Program) = m + Len(s)
            /\ \A k \in 1 .. m : Codes!Program[k] = "fetch"
            /\ \A k \in 1 .. Len(s) : Codes!Program[m + k] = s[k]
<1> DEFINE m == (IF opcode = \hCB THEN 2 ELSE 1) + Codes!Immediates(instruction)
           s == Codes!Cycles(instruction)
<1>1. m \in Nat /\ s \in Seq(Kinds)
  OBVIOUS
<1>2. Codes!Fetches = [n \in 1 .. m |-> "fetch"]
  BY DEF Codes!Fetches
<1>3. Codes!Program = Codes!Fetches \o s
  BY DEF Codes!Program
<1> HIDE DEF m, s
<1>4. Codes!Fetches \in Seq(Kinds) /\ Len(Codes!Fetches) = m
  BY <1>1, <1>2 DEF Kinds
<1>5. /\ Len(Codes!Program) = m + Len(s)
      /\ \A k \in 1 .. m + Len(s) :
           Codes!Program[k] = IF k <= m THEN Codes!Fetches[k] ELSE s[k - m]
  BY <1>1, <1>3, <1>4, ConcatProperties
<1>6. ASSUME NEW k \in 1 .. m PROVE Codes!Program[k] = "fetch"
  BY <1>1, <1>2, <1>5
<1>7. ASSUME NEW k \in 1 .. Len(s) PROVE Codes!Program[m + k] = s[k]
  <2>1. m + k \in 1 .. m + Len(s) /\ ~(m + k <= m) /\ (m + k) - m = k
    BY <1>1
  <2>2. QED BY <1>5, <2>1
<1>8. QED BY <1>5, <1>6, <1>7 DEF m, s

(* What is decoded is what the fields of the bytes taken say.                   *)
CodeInv ==
  /\ opcode \in Codes!Byte /\ arg \in Codes!Byte /\ taken \in BOOLEAN
  /\ opcode # \hCB => instruction = Codes!ByFields(opcode)
  /\ opcode = \hCB => instruction \in {Codes!NONE, Codes!PrefixedByFields(arg)}

LEMMA CodesInit == ASSUME Codes!Init PROVE CodeInv
<1>1. Codes!ByFields(0) = <<"NOP">>
  BY DEF Codes!ByFields, Codes!FirstQuarter
<1>2. opcode = 0 /\ arg = 0 /\ taken = FALSE /\ instruction = <<"NOP">>
  BY DEF Codes!Init
<1>3. opcode \in Codes!Byte /\ arg \in Codes!Byte /\ opcode # \hCB
  BY <1>2 DEF Codes!Byte
<1>4. taken \in BOOLEAN
  BY <1>2, Zenon
<1>5. instruction = Codes!ByFields(opcode)
  BY <1>1, <1>2
<1>6. QED BY <1>3, <1>4, <1>5 DEF CodeInv

LEMMA FieldsName == ASSUME NEW op \in Codes!Byte, op # \hCB PROVE Codes!ByFields(op) # Codes!NONE
<1>1. Codes!NONE \notin Codes!Groups(op) /\ Codes!NONE # Codes!BAD
  BY DEF Codes!Groups, Codes!NONE, Codes!BAD
<1>2. QED BY <1>1, Decodes DEF Agrees

LEMMA CodesNext == CodeInv /\ [Codes!Next]_Codes!vars => CodeInv'
<1> SUFFICES ASSUME CodeInv, [Codes!Next]_Codes!vars PROVE CodeInv'
  OBVIOUS
<1>1. ASSUME NEW op \in Codes!Byte, Codes!TakeOpcode(op) PROVE CodeInv'
  <2>1. opcode' = op /\ arg' \in Codes!Byte /\ taken' \in BOOLEAN
    BY <1>1 DEF Codes!TakeOpcode, Codes!Byte
  <2>2. CASE op = \hCB
    BY <1>1, <2>1, <2>2 DEF Codes!TakeOpcode, CodeInv
  <2>3. CASE op # \hCB
    <3>1. instruction' = IF Codes!Groups(op) = {} THEN Codes!BAD ELSE Codes!Decoded(op)
      BY <1>1, <2>3 DEF Codes!TakeOpcode
    <3>2. Codes!Groups(op) = IF Codes!ByFields(op) = Codes!BAD THEN {} ELSE {Codes!ByFields(op)}
      BY <2>3, Decodes DEF Agrees
    <3>3. instruction' = Codes!ByFields(op)
      BY <3>1, <3>2 DEF Codes!Decoded
    <3>4. Codes!ByFields(opcode)' = Codes!ByFields(op)
      BY <2>1 DEF Codes!ByFields, Codes!FirstQuarter, Codes!LastQuarter
    <3>5. QED BY <2>1, <2>3, <3>3, <3>4 DEF CodeInv
  <2>4. QED BY <2>2, <2>3
<1>2. ASSUME NEW byte \in Codes!Byte, Codes!TakePrefixed(byte) PROVE CodeInv'
  <2>1. opcode = \hCB
    BY <1>2, FieldsName DEF CodeInv, Codes!TakePrefixed
  <2>2. /\ opcode' = \hCB /\ taken' \in BOOLEAN /\ arg' = byte
        /\ instruction' = Codes!PrefixedByFields(byte)
    BY <1>2, <2>1, PrefixedDecodes DEF CodeInv, Codes!TakePrefixed
  <2>3. QED BY <2>2 DEF CodeInv, Codes!Byte
<1>3. ASSUME UNCHANGED <<opcode, arg, instruction, taken>> PROVE CodeInv'
  BY <1>3 DEF CodeInv
<1>4. QED BY <1>1, <1>2, <1>3 DEF Codes!Next, Codes!Cycle, Codes!vars

(* The bytes, the cycles and where they are in the program of an instruction.    *)
LEMMA Spending ==
  ASSUME CodeInv, instruction \notin {Codes!NONE, Codes!BAD}
  PROVE  /\ Codes!Immediates(instruction) \in Nat
         /\ Codes!Cycles(instruction) \in Seq(Kinds)
         /\ instruction[1] \notin {"RET", "RETI"} => Codes!Cycles(instruction) \in Shapes
         /\ opcode # \hCB => Len(Codes!Program) = Spent(instruction)
         /\ opcode = \hCB => Len(Codes!Program) = 2 + Len(Codes!Cycles(instruction))
<1>1. Codes!Immediates(instruction) \in Nat
  BY DEF Codes!Immediates
<1>2. instruction[1] \notin {"RET", "RETI"} => Codes!Cycles(instruction) \in Shapes
  <2>1. CASE opcode = \hCB
    <3>1. instruction[1] \in Rotations
      BY <2>1, PrefixedFits DEF CodeInv
    <3>2. QED BY <2>1, <3>1, PrefixedTakes
  <2>2. CASE opcode # \hCB
    BY <2>2, CyclesShape
  <2>3. QED BY <2>1, <2>2
<1>3. Codes!Cycles(instruction) \in Seq(Kinds)
  <2>1. CASE instruction[1] \in {"RET", "RETI"}
    <3>1. opcode # \hCB
      BY <2>1, PrefixedFits DEF CodeInv, Rotations
    <3>2. QED BY <2>1, <3>1, ReturnsAreSequences
  <2>2. CASE instruction[1] \notin {"RET", "RETI"}
    BY <1>2, <2>2, ShapesAre
  <2>3. QED BY <2>1, <2>2
<1>4. opcode = \hCB => Codes!Immediates(instruction) = 0
  BY DEF Codes!Immediates
<1>5. QED BY <1>1, <1>2, <1>3, <1>4, ProgramIs DEF Spent

LEMMA DecodedAndTimed ==
  ASSUME CodeInv
  PROVE  Codes!DecodedByFields /\ Codes!TimedAsTable
<1>1. Codes!DecodedByFields
  <2>1. \A i, j \in Codes!Groups(opcode) : i = j
    BY Decodes, PrefixDecodes DEF CodeInv, Agrees
  <2>2. QED BY <2>1 DEF Codes!DecodedByFields, CodeInv
<1>2. ASSUME Codes!Complete, opcode = \hCB PROVE Len(bus) = Codes!PrefixedEntry(arg)
  <2>1. instruction = Codes!PrefixedByFields(arg) /\ arg \in Codes!Byte
    BY <1>2 DEF Codes!Complete, CodeInv
  <2>2. Len(bus) = 2 + Len(Codes!Cycles(instruction))
    BY <1>2, Spending DEF Codes!Complete
  <2>3. QED BY <1>2, <2>1, <2>2, PrefixedFits
<1>3. ASSUME Codes!Complete, opcode # \hCB
      PROVE  Len(bus) = IF Codes!IsConditional(instruction) /\ taken
                        THEN Codes!TakenEntry[instruction[1]]
                        ELSE IF Codes!TableEntry(opcode) = 0 THEN Len(bus)
                        ELSE Codes!TableEntry(opcode)
  <2>1. Len(bus) = Spent(instruction)
    BY <1>3, Spending DEF Codes!Complete
  <2>2. Fits(instruction, Codes!TableEntry(opcode))
    BY <1>3, ByFieldsFits DEF Codes!Complete, CodeInv
  <2>3. QED BY <2>1, <2>2 DEF Fits
<1>4. QED BY <1>1, <1>2, <1>3 DEF Codes!TimedAsTable

LEMMA AccessesAreLast == ASSUME CodeInv PROVE Codes!AccessesLast
<1> SUFFICES ASSUME Codes!Complete, instruction[1] \notin {"RET", "RETI"},
                    NEW k \in 1 .. Len(bus) - 1
             PROVE  /\ bus[k] = "read"  => bus[k + 1] \in {"read", "write"}
                    /\ bus[k] = "write" => bus[k + 1] = "write"
  BY DEF Codes!AccessesLast
<1> DEFINE m == (IF opcode = \hCB THEN 2 ELSE 1) + Codes!Immediates(instruction)
           s == Codes!Cycles(instruction)
<1>1. m \in Nat /\ s \in Shapes /\ s \in Seq(Kinds)
  BY Spending DEF Codes!Complete
<1>2. /\ Len(bus) = m + Len(s)
      /\ \A n \in 1 .. m : bus[n] = "fetch"
      /\ \A n \in 1 .. Len(s) : bus[m + n] = s[n]
  BY Spending, ProgramIs DEF Codes!Complete
<1> HIDE DEF m, s
<1>3. CASE k <= m
  BY <1>1, <1>2, <1>3
<1>4. CASE k > m
  <2> DEFINE n == k - m
  <2>1. n \in 1 .. Len(s) - 1 /\ k = m + n /\ k + 1 = m + (n + 1)
    BY <1>1, <1>2, <1>4
  <2>2. bus[k] = s[n] /\ bus[k + 1] = s[n + 1]
    BY <1>1, <1>2, <2>1
  <2>3. QED BY <1>1, <2>1, <2>2, ShapesAre
<1>5. QED BY <1>1, <1>3, <1>4

-----------------------------------------------------------------------------
(* A behaviour of the composition is one of each part.                        *)
THEOREM PartsBehave == CpuSpec => Spec /\ Arithmetic!Spec /\ Codes!Spec
<1>1. CpuInit => Init /\ Arithmetic!Init /\ Codes!Init
  BY DEF CpuInit
<1>2. [CpuNext]_<<unit, vars, aluVars, codeVars>>
        => /\ [Next]_vars
           /\ [Arithmetic!Next]_(Arithmetic!vars)
           /\ [Codes!Next]_(Codes!vars)
  <2> SUFFICES ASSUME [CpuNext]_<<unit, vars, aluVars, codeVars>>
               PROVE  /\ [Next]_vars
                      /\ [Arithmetic!Next]_(Arithmetic!vars)
                      /\ [Codes!Next]_(Codes!vars)
    OBVIOUS
  <2>1. /\ UNCHANGED aluVars => UNCHANGED Arithmetic!vars
        /\ UNCHANGED codeVars => UNCHANGED Codes!vars
    BY DEF aluVars, codeVars, Arithmetic!vars, Codes!vars
  <2>2. /\ Arithmetic!ByteNext => Arithmetic!Next
        /\ Arithmetic!WordNext => Arithmetic!Next
    BY DEF Arithmetic!Next
  <2>3. QED BY <2>1, <2>2 DEF CpuNext
<1>3. QED BY <1>1, <1>2, PTL DEF CpuSpec, Spec, Arithmetic!Spec, Codes!Spec

(* For all operands: additions and subtractions are those of the integers,    *)
(* logic, rotations and shifts act on the bits and lose none, DAA leaves the   *)
(* decimal result of the operation before it, and the sums of words and their  *)
(* carries are exact (ADD_n to RES_b_r, DAA, ADD16 to DEC16_nn).               *)
THEOREM ArithmeticCorrect == CpuSpec => ResultsExact
<1>1. Arithmetic!Spec => [](AluInv /\ WordInv)
  <2>1. AluInv /\ WordInv /\ [Arithmetic!Next]_(Arithmetic!vars) => (AluInv /\ WordInv)'
    <3>1. ASSUME AluInv /\ WordInv, UNCHANGED Arithmetic!vars PROVE (AluInv /\ WordInv)'
      BY <3>1 DEF AluInv, WordInv, Recalls, IsSum, IsDifference, Arithmetic!vars,
         Arithmetic!N, Arithmetic!H, Arithmetic!C
    <3>2. QED BY <3>1, AluNext DEF AluStep
  <2>2. QED BY <2>1, AluInit, PTL DEF Arithmetic!Spec
<1>2. AluInv /\ WordInv /\ [Arithmetic!Next]_(Arithmetic!vars)
        => /\ [Arithmetic!IntegerStep]_(Arithmetic!vars)
           /\ [Arithmetic!BitStep]_(Arithmetic!vars)
           /\ [Arithmetic!DecimalStep]_(Arithmetic!vars)
           /\ [Arithmetic!WordStep]_(Arithmetic!vars)
  BY AluNext DEF AluStep
<1>3. QED
  BY <1>1, <1>2, PartsBehave, PTL DEF Arithmetic!Spec, ResultsExact, Arithmetic!ArithmeticExact,
     Arithmetic!BitsExact, Arithmetic!DecimalAdjusted, Arithmetic!WordsExact

(* For every opcode: the switch decodes it to the one instruction that its      *)
(* fields say, which takes the cycles of the table and makes its accesses on    *)
(* the last of them (processNextInstruction and the operations it calls).       *)
THEOREM OpcodesDocumented == CpuSpec => []InstructionsAsDocumented
<1>1. Codes!Spec => []CodeInv
  BY CodesInit, CodesNext, PTL DEF Codes!Spec
<1>2. CodeInv => InstructionsAsDocumented
  BY DecodedAndTimed, AccessesAreLast DEF InstructionsAsDocumented
<1>3. QED BY <1>1, <1>2, PartsBehave, PTL
=============================================================================
