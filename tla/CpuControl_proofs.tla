-------------------------- MODULE CpuControl_proofs --------------------------
(* Theorems about the stack of the CPU, for every address space, memory,       *)
(* program and set of interrupt handlers: about CallFrames, the sanitizer and   *)
(* any program (Spec), then about CpuControl, the clock of the CPU and a        *)
(* program that keeps to the stack discipline (ControlSpec).                   *)
EXTENDS CpuControl, SequenceTheorems, WellFoundedInduction, TLAPS

USE DEF Addr

LEMMA WrapType ==
  ASSUME NEW a \in Addr
  PROVE  Wrap(a + 1) \in Addr /\ Wrap(a - 2) \in Addr /\ Wrap(a + 2) \in Addr
  BY AddressAssumption DEF Wrap

LEMMA StoreType ==
  ASSUME NEW m \in [Addr -> Byte], NEW a \in Addr, NEW v \in Byte
  PROVE  Store(m, a, v) \in [Addr -> Byte]
  BY MemoryAssumption DEF Store

LEMMA WordAtType ==
  ASSUME NEW m \in [Addr -> Byte], NEW a \in Addr
  PROVE  WordAt(m, a) \in Word
  BY WrapType, MemoryAssumption DEF WordAt, Word

(* Dropping entries from the end keeps a prefix. *)
LEMMA DropLastType ==
  ASSUME NEW S, NEW s \in Seq(S), NEW n \in Nat
  PROVE  /\ DropLast(s, n) \in Seq(S)
         /\ Len(DropLast(s, n)) = IF n <= Len(s) THEN Len(s) - n ELSE 0
         /\ \A i \in 1 .. Len(s) - n : DropLast(s, n)[i] = s[i]
<1>1. CASE n <= Len(s)
  BY <1>1, SubSeqProperties DEF DropLast
<1>2. CASE n > Len(s)
  BY <1>2, SubSeqProperties DEF DropLast
<1>3. QED BY <1>1, <1>2

LEMMA DropLastEmpty == DropLast(<<>>, 1) = <<>>
<1>1. <<>> \in Seq({0}) /\ Len(<<>>) = 0
  BY EmptySeq
<1>2. SubSeq(<<>>, 1, -1) = <<>>
  BY <1>1, SubSeqEmpty
<1>3. QED BY <1>1, <1>2 DEF DropLast

LEMMA PushWordType ==
  ASSUME TypeOK, NEW w \in Word, PushWord(w)
  PROVE  sp' \in Addr /\ mem' \in [Addr -> Byte]
<1> DEFINE top == Wrap(sp - 2)
           low == Store(mem, top, w[2])
<1>1. top \in Addr /\ Wrap(top + 1) \in Addr
  BY WrapType DEF TypeOK
<1>2. w[1] \in Byte /\ w[2] \in Byte
  BY DEF Word
<1>3. low \in [Addr -> Byte]
  BY <1>1, <1>2, StoreType DEF TypeOK
<1>4. Store(low, Wrap(top + 1), w[1]) \in [Addr -> Byte]
  BY <1>1, <1>2, <1>3, StoreType
<1>5. QED BY <1>1, <1>3, <1>4 DEF PushWord, TypeOK

LEMMA LastOrType ==
  ASSUME NEW S, NEW s \in Seq(S), NEW none \in S
  PROVE  LastOr(s, none) \in S
  BY DEF LastOr

LEMMA TypeStep == TypeOK /\ [Next]_vars => TypeOK'
<1> SUFFICES ASSUME TypeOK, [Next]_vars PROVE TypeOK'
  OBVIOUS
<1>1. ASSUME NEW nn \in Code, Call(nn) PROVE TypeOK'
  <2>1. sp' \in Addr /\ mem' \in [Addr -> Byte]
    BY <1>1, PushWordType DEF Call, TypeOK
  <2>2. Wrap(sp - 2) \in Addr /\ Wrap(Wrap(sp - 2) + 1) \in Addr
    BY WrapType DEF TypeOK
  <2>3. <<Wrap(Wrap(sp - 2) + 1), Wrap(sp - 2)>> \in Seq(Addr)
    BY <2>2
  <2>4. return_address_pointers' \in Seq(Addr)
    BY <1>1, <2>3, ConcatProperties DEF Call, TypeOK, shadow
  <2>5. expected_return_addresses' \in Seq(Word)
    <3>1. Append(expected_return_addresses, pc) \in Seq(Word)
      BY AppendProperties DEF TypeOK
    <3>2. expected_return_addresses' \in
            {expected_return_addresses, Append(expected_return_addresses, pc)}
      BY <1>1 DEF Call, shadow
    <3>3. QED BY <3>1, <3>2 DEF TypeOK
  <2>6. pc' \in Word /\ error' \in ErrorKinds \cup {NoError} /\ options' = options
    BY <1>1, ProgramAssumption DEF Call, TypeOK, ErrorKinds
  <2>7. QED BY <2>1, <2>4, <2>5, <2>6 DEF TypeOK
<1>2. ASSUME NEW nn \in Code, Jump(nn) PROVE TypeOK'
  BY <1>2, ProgramAssumption DEF Jump, TypeOK, ErrorKinds, shadow
<1>3. ASSUME Ret PROVE TypeOK'
  <2> DEFINE spDiffers == LastOr(return_address_pointers, 0) # sp
             pointers  == IF spDiffers THEN <<>> ELSE DropLast(return_address_pointers, 2)
             values    == IF spDiffers THEN <<>> ELSE expected_return_addresses
             actual    == WordAt(mem, sp)
             popped    == DropLast(values, 1)
  <2>1. DropLast(return_address_pointers, 2) \in Seq(Addr)
    BY DropLastType DEF TypeOK
  <2>2. pointers \in Seq(Addr) /\ values \in Seq(Word)
    BY <2>1, EmptySeq DEF TypeOK
  <2>3. popped \in Seq(Word)
    BY <2>2, DropLastType
  <2>4. actual \in Word /\ Wrap(sp + 2) \in Addr
    BY WordAtType, WrapType DEF TypeOK
  <2>5. <<>> \in Seq(Addr) /\ <<>> \in Seq(Word)
    BY EmptySeq
  <2> HIDE DEF spDiffers, pointers, values, actual, popped
  <2>6. /\ return_address_pointers' \in {DropLast(return_address_pointers, 2), pointers, <<>>}
        /\ expected_return_addresses' \in {expected_return_addresses, popped, <<>>}
        /\ sp' \in {sp, Wrap(sp + 2)}
        /\ pc' \in {pc, actual}
        /\ mem' = mem /\ options' = options
        /\ error' \in ErrorKinds \cup {NoError}
    BY <1>3 DEF Ret, Clobbered, ErrorKinds, spDiffers, pointers, values, actual, popped
  <2>7. QED BY <2>1, <2>2, <2>3, <2>4, <2>5, <2>6 DEF TypeOK
<1>4. ASSUME NEW w \in PushWords, Push(w) PROVE TypeOK'
  BY <1>4, PushWordType, ProgramAssumption DEF Push, TypeOK, ErrorKinds, shadow
<1>5. CASE Pop
  BY <1>5, WrapType DEF Pop, TypeOK, ErrorKinds, shadow
<1>6. ASSUME NEW a \in DataAddrs, NEW v \in DataBytes, Write(a, v) PROVE TypeOK'
  BY <1>6, StoreType, ProgramAssumption DEF Write, TypeOK, ErrorKinds, shadow
<1>7. ASSUME NEW a \in DataAddrs, Read(a) PROVE TypeOK'
  BY <1>7 DEF Read, TypeOK, ErrorKinds, shadow
<1>8. ASSUME NEW a \in StackTops, SetSP(a) PROVE TypeOK'
  BY <1>8, ProgramAssumption DEF SetSP, TypeOK, shadow
<1>9. CASE Continue
  BY <1>9, ProgramAssumption DEF Continue, TypeOK, shadow
<1>10. CASE Abort
  BY <1>10 DEF Abort, TypeOK, shadow
<1>11. CASE UNCHANGED vars
  BY <1>11 DEF vars, shadow, TypeOK
<1>12. QED
  BY <1>1, <1>2, <1>3, <1>4, <1>5, <1>6, <1>7, <1>8, <1>9, <1>10, <1>11 DEF Next

(* Type correctness: whatever the program does and whatever is permitted. *)
THEOREM TypeCorrect == Spec => []TypeOK
<1>1. Init => TypeOK
  BY AddressAssumption, ProgramAssumption, MemoryAssumption
  DEF Init, TypeOK, PowerUpSP
<1>2. TypeOK /\ [Next]_vars => TypeOK'
  BY TypeStep
<1>3. QED BY <1>1, <1>2, PTL DEF Spec

-----------------------------------------------------------------------------
(* A write leaves every private cell alone but the one it is aimed at.        *)
LEMMA StoreElsewhere ==
  ASSUME NEW m \in [Addr -> Byte], NEW a \in Addr, NEW v \in Byte,
         NEW b \in PrivateRam, a # b
  PROVE  Store(m, a, v)[Cell[b]] = m[Cell[b]]
  BY MemoryAssumption DEF Store, PrivateRam

LEMMA StoreThere ==
  ASSUME NEW m \in [Addr -> Byte], NEW a \in PrivateRam, NEW v \in Byte
  PROVE  Store(m, a, v)[Cell[a]] = v
  BY MemoryAssumption DEF Store, PrivateRam

LEMMA WrapDistinct ==
  ASSUME NEW a \in Addr
  PROVE  Wrap(a + 1) # a
  BY AddressAssumption DEF Wrap

(* Two writes of a PUSH leave a private word elsewhere unchanged, and put     *)
(* their own word in place when the top of the stack is private.              *)
LEMMA PushElsewhere ==
  ASSUME TypeOK, NEW w \in Word, PushWord(w), ~PushThrows,
         NEW b \in PrivateRam, b # Wrap(sp - 2), b # Wrap(Wrap(sp - 2) + 1)
  PROVE  mem'[Cell[b]] = mem[Cell[b]]
<1> DEFINE top == Wrap(sp - 2)
           low == Store(mem, top, w[2])
<1>1. top \in Addr /\ Wrap(top + 1) \in Addr
  BY WrapType DEF TypeOK
<1>2. w[1] \in Byte /\ w[2] \in Byte
  BY DEF Word
<1>3. low \in [Addr -> Byte]
  BY <1>1, <1>2, StoreType DEF TypeOK
<1>4. mem' = Store(low, Wrap(top + 1), w[1])
  BY DEF PushWord, PushThrows
<1>5. low[Cell[b]] = mem[Cell[b]]
  BY <1>1, <1>2, StoreElsewhere DEF TypeOK
<1> HIDE DEF low
<1>6. QED BY <1>1, <1>2, <1>3, <1>4, <1>5, StoreElsewhere

LEMMA PushThere ==
  ASSUME TypeOK, NEW w \in Word, PushWord(w), ~PushThrows,
         Wrap(sp - 2) \in PrivateRam, Wrap(Wrap(sp - 2) + 1) \in PrivateRam
  PROVE  WordAt(mem', Wrap(sp - 2)) = w
<1> DEFINE top == Wrap(sp - 2)
           low == Store(mem, top, w[2])
<1>1. top \in Addr /\ Wrap(top + 1) \in Addr /\ Wrap(top + 1) # top
  BY WrapType, WrapDistinct DEF TypeOK
<1>2. w[1] \in Byte /\ w[2] \in Byte /\ w = <<w[1], w[2]>>
  BY DEF Word
<1>3. low \in [Addr -> Byte]
  BY <1>1, <1>2, StoreType DEF TypeOK
<1>4. mem' = Store(low, Wrap(top + 1), w[1])
  BY DEF PushWord, PushThrows
<1>5. low[Cell[top]] = w[2]
  BY <1>1, <1>2, StoreThere DEF TypeOK
<1> HIDE DEF low, top
<1>6. mem'[Cell[top]] = w[2]
  BY <1>1, <1>2, <1>3, <1>4, <1>5, StoreElsewhere DEF top
<1>7. mem'[Cell[Wrap(top + 1)]] = w[1]
  BY <1>1, <1>2, <1>3, <1>4, StoreThere DEF top
<1>8. QED BY <1>2, <1>6, <1>7 DEF WordAt, top

(* The addresses of the recorded frames are recorded addresses.               *)
LEMMA FrameRecorded ==
  ASSUME TypeOK, RecordsAgree, Running,
         NEW k \in 1 .. Len(expected_return_addresses)
  PROVE  /\ 2 * k \in DOMAIN return_address_pointers
         /\ 2 * k - 1 \in DOMAIN return_address_pointers
         /\ Frame(k) = return_address_pointers[2 * k]
         /\ Wrap(Frame(k) + 1) = return_address_pointers[2 * k - 1]
         /\ Frame(k) \in Addr /\ Wrap(Frame(k) + 1) \in Addr
<1>1. /\ Len(return_address_pointers) = 2 * Len(expected_return_addresses)
      /\ return_address_pointers[2 * k - 1] = Wrap(Frame(k) + 1)
  BY DEF RecordsAgree
<1>2. Len(expected_return_addresses) \in Nat
  BY DEF TypeOK
<1>3. 2 * k \in 1 .. Len(return_address_pointers)
      /\ 2 * k - 1 \in 1 .. Len(return_address_pointers)
  BY <1>1, <1>2
<1>4. DOMAIN return_address_pointers = 1 .. Len(return_address_pointers)
  BY DEF TypeOK
<1>5. /\ return_address_pointers[2 * k] \in Addr
      /\ return_address_pointers[2 * k - 1] \in Addr
  BY <1>3, ElementOfSeq DEF TypeOK
<1>6. QED BY <1>1, <1>3, <1>4, <1>5 DEF Frame

LEMMA ShadowStep ==
  ASSUME Throws("clobbered_return_address"), ~options.debugger,
         TypeOK, RecordsAgree, [Next]_vars
  PROVE  RecordsAgree'
<1> DEFINE n == Len(expected_return_addresses)
<1>n. n \in Nat
  BY DEF TypeOK
<1>1. ASSUME UNCHANGED <<mem, shadow>>, Running PROVE RecordsAgree'
  BY <1>1 DEF RecordsAgree, Frame, WordAt, shadow
<1>2. ASSUME NEW w \in Word, PushWord(w), ~PushThrows, Running,
             NEW k \in 1 .. n,
             Frame(k) \in PrivateRam, Wrap(Frame(k) + 1) \in PrivateRam
      PROVE  WordAt(mem', Frame(k)) = expected_return_addresses[k]
  <2>1. /\ Frame(k) \notin {Wrap(sp - 2), Wrap(Wrap(sp - 2) + 1)}
        /\ Wrap(Frame(k) + 1) \notin {Wrap(sp - 2), Wrap(Wrap(sp - 2) + 1)}
    BY <1>2, FrameRecorded DEF PushThrows, WriteThrows
  <2>2. /\ mem'[Cell[Frame(k)]] = mem[Cell[Frame(k)]]
        /\ mem'[Cell[Wrap(Frame(k) + 1)]] = mem[Cell[Wrap(Frame(k) + 1)]]
    BY <1>2, <2>1, PushElsewhere
  <2>3. WordAt(mem, Frame(k)) = expected_return_addresses[k]
    BY <1>2 DEF RecordsAgree
  <2>4. QED BY <2>2, <2>3 DEF WordAt
<1>3. ASSUME NEW nn \in Code, Call(nn) PROVE RecordsAgree'
  <2> SUFFICES ASSUME Running' PROVE RecordsAgree'
    BY DEF RecordsAgree
  <2> DEFINE top == Wrap(sp - 2)
             two == <<Wrap(top + 1), top>>
  <2>1. Running /\ ~PushThrows /\ PushWord(pc) /\ pc \in Word
    BY <1>3 DEF Call, Running, NoError, TypeOK
  <2>2. /\ expected_return_addresses' = Append(expected_return_addresses, pc)
        /\ return_address_pointers' = return_address_pointers \o two
    BY <1>3, <2>1 DEF Call
  <2>3. top \in Addr /\ Wrap(top + 1) \in Addr
    BY WrapType DEF TypeOK
  <2>4. two \in Seq(Addr) /\ Len(two) = 2 /\ two[1] = Wrap(top + 1) /\ two[2] = top
    BY <2>3
  <2> HIDE DEF two, top
  <2>5. Len(return_address_pointers) = 2 * n
    BY <2>1 DEF RecordsAgree
  <2>6. /\ Len(return_address_pointers') = 2 * (n + 1)
        /\ \A i \in 1 .. 2 * n : return_address_pointers'[i] = return_address_pointers[i]
        /\ return_address_pointers'[2 * n + 1] = Wrap(top + 1)
        /\ return_address_pointers'[2 * n + 2] = top
    <3>1. return_address_pointers \in Seq(Addr)
      BY DEF TypeOK
    <3>2. /\ Len(return_address_pointers \o two) = 2 * n + 2
          /\ \A i \in 1 .. 2 * n + 2 :
               (return_address_pointers \o two)[i] =
                 IF i <= 2 * n THEN return_address_pointers[i] ELSE two[i - 2 * n]
      <4>1. /\ Len(return_address_pointers \o two)
                 = Len(return_address_pointers) + Len(two)
            /\ \A i \in 1 .. Len(return_address_pointers) + Len(two) :
                 (return_address_pointers \o two)[i] =
                   IF i <= Len(return_address_pointers) THEN return_address_pointers[i]
                   ELSE two[i - Len(return_address_pointers)]
        BY <2>4, <3>1, ConcatProperties, Zenon
      <4>2. QED BY <2>4, <2>5, <4>1
    <3>3. /\ \A i \in 1 .. 2 * n : i \in 1 .. 2 * n + 2 /\ i <= 2 * n
          /\ 2 * n + 1 \in 1 .. 2 * n + 2 /\ ~(2 * n + 1 <= 2 * n) /\ 2 * n + 1 - 2 * n = 1
          /\ 2 * n + 2 \in 1 .. 2 * n + 2 /\ ~(2 * n + 2 <= 2 * n) /\ 2 * n + 2 - 2 * n = 2
          /\ 2 * n + 2 = 2 * (n + 1)
      BY <1>n
    <3>4. QED BY <2>2, <2>4, <3>2, <3>3
  <2>7. /\ Len(expected_return_addresses') = n + 1
        /\ \A i \in 1 .. n : expected_return_addresses'[i] = expected_return_addresses[i]
        /\ expected_return_addresses'[n + 1] = pc
    BY <2>1, <2>2, AppendProperties DEF TypeOK
  <2>8. ASSUME NEW k \in 1 .. n + 1
        PROVE  /\ return_address_pointers'[2 * k - 1] = Wrap(Frame(k)' + 1)
               /\ Frame(k)' \in PrivateRam /\ Wrap(Frame(k)' + 1) \in PrivateRam
                    => WordAt(mem', Frame(k)') = expected_return_addresses'[k]
    <3>1. CASE k = n + 1
      <4>1. Frame(k)' = top /\ return_address_pointers'[2 * k - 1] = Wrap(top + 1)
        BY <1>n, <2>6, <3>1 DEF Frame
      <4>2. QED BY <2>1, <2>7, <3>1, <4>1, PushThere DEF top
    <3>2. CASE k \in 1 .. n
      <4>1. 2 * k \in 1 .. 2 * n /\ 2 * k - 1 \in 1 .. 2 * n
        BY <1>n, <3>2
      <4>2. Frame(k)' = Frame(k)
            /\ return_address_pointers'[2 * k - 1] = return_address_pointers[2 * k - 1]
        BY <2>6, <4>1 DEF Frame
      <4>3. return_address_pointers[2 * k - 1] = Wrap(Frame(k) + 1)
        BY <2>1, <3>2 DEF RecordsAgree
      <4>4. expected_return_addresses'[k] = expected_return_addresses[k]
        BY <2>7, <3>2
      <4>5. QED BY <1>2, <2>1, <3>2, <4>2, <4>3, <4>4
    <3>3. QED BY <1>n, <3>1, <3>2
  <2>9. QED BY <2>6, <2>7, <2>8 DEF RecordsAgree
<1>4. ASSUME Ret PROVE RecordsAgree'
  <2> SUFFICES ASSUME Running' PROVE RecordsAgree'
    BY DEF RecordsAgree
  <2> DEFINE spDiffers == LastOr(return_address_pointers, 0) # sp
             pointers  == IF spDiffers THEN <<>> ELSE DropLast(return_address_pointers, 2)
             values    == IF spDiffers THEN <<>> ELSE expected_return_addresses
             popped    == DropLast(values, 1)
  <2>1. /\ Running /\ mem' = mem
        /\ return_address_pointers' = pointers
        /\ expected_return_addresses' = popped
    BY <1>4 DEF Ret, Clobbered, Running, NoError
  <2>2. CASE spDiffers
    <3>1. return_address_pointers' = <<>>
      BY <2>1, <2>2
    <3>2. expected_return_addresses' = <<>>
      <4>1. DropLast(<<>>, 1) = <<>>
        BY DropLastEmpty
      <4>2. values = <<>>
        BY <2>2
      <4> HIDE DEF values
      <4>3. QED BY <2>1, <4>1, <4>2
    <3>3. QED BY <3>1, <3>2 DEF RecordsAgree
  <2>3. CASE ~spDiffers
    <3>1. /\ return_address_pointers' = DropLast(return_address_pointers, 2)
          /\ expected_return_addresses' = DropLast(expected_return_addresses, 1)
      BY <2>1, <2>3
    <3>2. Len(return_address_pointers) = 2 * n
      BY <2>1 DEF RecordsAgree
    <3>3. /\ Len(return_address_pointers') = IF n = 0 THEN 0 ELSE 2 * (n - 1)
          /\ \A i \in 1 .. 2 * (n - 1) : return_address_pointers'[i] = return_address_pointers[i]
      <4>1. return_address_pointers \in Seq(Addr) /\ 2 \in Nat
        BY DEF TypeOK
      <4>2. /\ Len(DropLast(return_address_pointers, 2)) = IF 2 <= 2 * n THEN 2 * n - 2 ELSE 0
            /\ \A i \in 1 .. 2 * n - 2 :
                 DropLast(return_address_pointers, 2)[i] = return_address_pointers[i]
        BY <3>2, <4>1, DropLastType
      <4>3. 2 * n - 2 = 2 * (n - 1) /\ (2 <= 2 * n <=> n # 0)
        BY <1>n
      <4>4. QED BY <3>1, <4>2, <4>3
    <3>4. /\ Len(expected_return_addresses') = IF n = 0 THEN 0 ELSE n - 1
          /\ \A i \in 1 .. n - 1 : expected_return_addresses'[i] = expected_return_addresses[i]
      <4>1. expected_return_addresses \in Seq(Word) /\ 1 \in Nat
        BY DEF TypeOK
      <4>2. /\ Len(DropLast(expected_return_addresses, 1)) = IF 1 <= n THEN n - 1 ELSE 0
            /\ \A i \in 1 .. n - 1 :
                 DropLast(expected_return_addresses, 1)[i] = expected_return_addresses[i]
        BY <4>1, DropLastType
      <4>3. QED BY <1>n, <3>1, <4>2
    <3>5. ASSUME NEW k \in 1 .. n - 1
          PROVE  /\ return_address_pointers'[2 * k - 1] = Wrap(Frame(k)' + 1)
                 /\ Frame(k)' \in PrivateRam /\ Wrap(Frame(k)' + 1) \in PrivateRam
                      => WordAt(mem', Frame(k)') = expected_return_addresses'[k]
      <4>1. 2 * k \in 1 .. 2 * (n - 1) /\ 2 * k - 1 \in 1 .. 2 * (n - 1) /\ k \in 1 .. n
        BY <1>n
      <4>2. Frame(k)' = Frame(k)
            /\ return_address_pointers'[2 * k - 1] = return_address_pointers[2 * k - 1]
        BY <3>3, <4>1 DEF Frame
      <4>3. QED BY <2>1, <3>4, <4>1, <4>2 DEF RecordsAgree
    <3>6. QED BY <1>n, <3>3, <3>4, <3>5 DEF RecordsAgree
  <2>4. QED BY <2>2, <2>3
<1>5. ASSUME NEW w \in PushWords, Push(w) PROVE RecordsAgree'
  <2> SUFFICES ASSUME Running' PROVE RecordsAgree'
    BY DEF RecordsAgree
  <2>1. Running /\ ~PushThrows /\ PushWord(w) /\ w \in Word /\ UNCHANGED shadow
    BY <1>5, ProgramAssumption DEF Push, Running, NoError
  <2>2. \A k \in 1 .. n : Frame(k)' = Frame(k)
    BY <2>1 DEF Frame, shadow
  <2>3. QED BY <1>2, <2>1, <2>2 DEF RecordsAgree, shadow
<1>6. ASSUME NEW a \in DataAddrs, NEW v \in DataBytes, Write(a, v) PROVE RecordsAgree'
  <2> SUFFICES ASSUME Running' PROVE RecordsAgree'
    BY DEF RecordsAgree
  <2>1. Running /\ ~WriteThrows(a) /\ mem' = Store(mem, a, v) /\ UNCHANGED shadow
    BY <1>6 DEF Write, Running, NoError
  <2>2. a \in Addr /\ v \in Byte
    BY ProgramAssumption
  <2>3. ASSUME NEW k \in 1 .. n, Frame(k) \in PrivateRam, Wrap(Frame(k) + 1) \in PrivateRam
        PROVE  WordAt(mem', Frame(k)) = expected_return_addresses[k]
    <3>1. Frame(k) # a /\ Wrap(Frame(k) + 1) # a
      BY <2>1, FrameRecorded DEF WriteThrows
    <3>2. /\ mem'[Cell[Frame(k)]] = mem[Cell[Frame(k)]]
          /\ mem'[Cell[Wrap(Frame(k) + 1)]] = mem[Cell[Wrap(Frame(k) + 1)]]
      BY <2>1, <2>2, <2>3, <3>1, StoreElsewhere DEF TypeOK
    <3>3. QED BY <2>1, <2>3, <3>2 DEF RecordsAgree, WordAt
  <2>4. QED BY <2>1, <2>3 DEF RecordsAgree, Frame, shadow
<1>7. QED
  BY <1>1, <1>3, <1>4, <1>5, <1>6
  DEF Next, Jump, Pop, Read, SetSP, Continue, Abort, vars, shadow,
      RecordsAgree, Running, Aborted, NoError

(* The sanitizer never loses a return address in private RAM: if clobbering   *)
(* is thrown and no debugger goes on, the write that does it is reported.     *)
THEOREM ShadowCorrect == Spec => []ShadowMatchesStack
<1>1. Init => ShadowMatchesStack
  BY DEF Init, ShadowMatchesStack, RecordsAgree
<1>2. TypeOK /\ ShadowMatchesStack /\ [Next]_vars => ShadowMatchesStack'
  <2> SUFFICES ASSUME TypeOK, ShadowMatchesStack, [Next]_vars,
                      Throws("clobbered_return_address")', ~options'.debugger
               PROVE  RecordsAgree'
    BY DEF ShadowMatchesStack
  <2>1. options' = options
    BY DEF Next, vars, Call, Jump, Ret, Clobbered, Abort, Push, Pop, Write, Read, SetSP, Continue
  <2>2. Throws("clobbered_return_address") /\ ~options.debugger
    BY <2>1 DEF Throws
  <2>3. QED BY <2>2, ShadowStep DEF ShadowMatchesStack
<1>3. QED BY <1>1, <1>2, TypeCorrect, PTL DEF Spec
-----------------------------------------------------------------------------
(* The strict machine implements CallStack.                                   *)

LEMMA OptionsStay ==
  ASSUME [Next]_vars
  PROVE  options' = options
BY DEF Next, vars, Call, Jump, Ret, Clobbered, Abort, Push, Pop, Write, Read, SetSP, Continue

(* A step that throws is the trap of CallStack; one that does not calls,       *)
(* jumps, returns to the word on top, or leaves PC and the records alone.     *)
Promise ==
  \/ ~Running' /\ UNCHANGED pc
  \/ Running' /\ UNCHANGED <<pc, expected_return_addresses>>
  \/ /\ Running'
     /\ \E nn \in Word :
          /\ pc' = nn
          /\ \/ UNCHANGED expected_return_addresses
             \/ expected_return_addresses' = Append(expected_return_addresses, pc)
  \/ /\ Running' /\ expected_return_addresses # <<>>
     /\ pc' = expected_return_addresses[Len(expected_return_addresses)]
     /\ expected_return_addresses' = DropLast(expected_return_addresses, 1)

LEMMA StrictStep ==
  ASSUME TypeOK, Strict, Running, Next
  PROVE  Promise
<1> USE DEF Promise
<1>1. ASSUME NEW nn \in Code, Call(nn) PROVE Promise
  <2>1. options' = options /\ nn \in Word
    BY <1>1, ProgramAssumption DEF Call
  <2>2. CASE PushThrows
    BY <1>1, <2>1, <2>2 DEF Call, Running, NoError
  <2>3. CASE ~PushThrows /\ JumpThrows(nn)
    BY <1>1, <2>1, <2>3 DEF Call, Running, NoError
  <2>4. CASE ~PushThrows /\ ~JumpThrows(nn)
    BY <1>1, <2>1, <2>4 DEF Call, Running
  <2>5. QED BY <2>2, <2>3, <2>4, <2>1
<1>2. ASSUME NEW nn \in Code, Jump(nn) PROVE Promise
  BY <1>2, ProgramAssumption DEF Jump, Running, NoError, shadow
<1>3. ASSUME Ret PROVE Promise
  <2> DEFINE spDiffers == LastOr(return_address_pointers, 0) # sp
             pointers  == IF spDiffers THEN <<>> ELSE DropLast(return_address_pointers, 2)
             values    == IF spDiffers THEN <<>> ELSE expected_return_addresses
             expected  == LastOr(values, NullWord)
             actual    == WordAt(mem, sp)
             popped    == DropLast(values, 1)
  <2>1. /\ Throws("call_frame_violation") /\ Throws("clobbered_return_address")
    BY DEF Strict, Throws
  <2>2. CASE ~Running'
    <3>1. options' = options /\ pc' = pc
      BY <1>3, <2>2 DEF Ret, Running
    <3>2. QED BY <2>2, <3>1
  <2>3. CASE Running'
    <3>1. /\ options' = options /\ ~spDiffers /\ ~Clobbered(expected, actual)
          /\ pc' = actual /\ expected_return_addresses' = popped
      BY <1>3, <2>1, <2>3 DEF Ret, Running, NoError
    <3>2. pc' = LastOr(expected_return_addresses, NullWord)
      BY <3>1 DEF Clobbered
    <3>3. expected_return_addresses' = DropLast(expected_return_addresses, 1)
      BY <3>1
    <3> HIDE DEF spDiffers, pointers, values, expected, actual, popped
    <3>4. CASE expected_return_addresses = <<>>
      <4>1. expected_return_addresses' = expected_return_addresses
        BY <3>3, <3>4, DropLastEmpty
      <4>2. pc' = NullWord /\ NullWord \in Word
        BY <3>2, <3>4, ByteAssumption DEF LastOr, NullWord, Word
      <4>3. QED BY <2>3, <3>1, <4>1, <4>2
    <3>5. CASE expected_return_addresses # <<>>
      <4>1. pc' = expected_return_addresses[Len(expected_return_addresses)]
        BY <3>2, <3>5 DEF LastOr
      <4>2. QED BY <2>3, <3>1, <3>3, <3>5, <4>1
    <3>6. QED BY <3>4, <3>5
  <2>4. QED BY <2>2, <2>3
<1>4. ASSUME NEW w \in PushWords, Push(w) PROVE Promise
  BY <1>4 DEF Push, Running, NoError, shadow
<1>5. CASE Pop
  BY <1>5 DEF Pop, Running, NoError, shadow
<1>6. ASSUME NEW a \in DataAddrs, NEW v \in DataBytes, Write(a, v)
      PROVE Promise
  <2>1. /\ UNCHANGED <<options, pc, expected_return_addresses>>
        /\ error' \in {NoError, "clobbered_return_address"}
    BY <1>6 DEF Write, shadow
  <2>2. QED BY <2>1
<1>7. ASSUME NEW a \in DataAddrs, Read(a) PROVE Promise
  <2>1. UNCHANGED <<options, pc, expected_return_addresses>>
    BY <1>7 DEF Read, shadow
  <2>2. QED BY <2>1
<1>8. ASSUME NEW a \in StackTops, SetSP(a) PROVE Promise
  BY <1>8 DEF SetSP, Running, NoError, shadow
<1>9. CASE Abort
  BY <1>9 DEF Abort, Running, NoError, Aborted, shadow
<1>10. ~Continue
  BY DEF Continue, Strict
<1> HIDE DEF Promise
<1>11. QED
  BY <1>1, <1>2, <1>3, <1>4, <1>5, <1>6, <1>7, <1>8, <1>9, <1>10 DEF Next

(* Once the strict machine has thrown it does nothing any more. *)
LEMMA StoppedStep ==
  ASSUME ~Running, ~options.debugger
  PROVE  ~Next
BY DEF Next, Call, Jump, Ret, Abort, Push, Pop, Write, Read, SetSP, Continue

nestedPC == IF Strict THEN pc ELSE NullWord
nestedStack == IF Strict /\ Running THEN expected_return_addresses ELSE <<>>
nestedTrapped == ~(Strict /\ Running)

LEMMA NestingStep ==
  ASSUME TypeOK, [Next]_vars
  PROVE  [Nesting!Next]_<<nestedPC, nestedStack, nestedTrapped>>
<1> USE DEF nestedPC, nestedStack, nestedTrapped
<1>1. Strict' = Strict
  BY OptionsStay DEF Strict
<1>2. CASE ~Strict
  BY <1>1, <1>2
<1>3. CASE UNCHANGED vars
  BY <1>1, <1>3 DEF vars, shadow, Running
<1>4. CASE Strict /\ ~Running /\ Next
  BY <1>4, StoppedStep DEF Strict
<1>5. CASE Strict /\ Running /\ Next
  <2>1. nestedPC = pc /\ nestedPC' = pc' /\ ~nestedTrapped
        /\ nestedStack = expected_return_addresses /\ nestedTrapped' = ~Running'
        /\ nestedStack' = IF Running' THEN expected_return_addresses' ELSE <<>>
    BY <1>1, <1>5
  <2>2. CASE ~Running' /\ UNCHANGED pc
    BY <2>1, <2>2 DEF Nesting!Next, Nesting!Trap
  <2>3. CASE Running' /\ UNCHANGED <<pc, expected_return_addresses>>
    BY <2>1, <2>3
  <2>4. ASSUME Running', NEW nn \in Word, pc' = nn, UNCHANGED expected_return_addresses
        PROVE  Nesting!Next
    BY <2>1, <2>4 DEF Nesting!Next, Nesting!Jump
  <2>5. ASSUME Running', NEW nn \in Word, pc' = nn,
               expected_return_addresses' = Append(expected_return_addresses, pc)
        PROVE  Nesting!Next
    BY <2>1, <2>5 DEF Nesting!Next, Nesting!Call
  <2>6. ASSUME Running', expected_return_addresses # <<>>,
               pc' = expected_return_addresses[Len(expected_return_addresses)],
               expected_return_addresses' = DropLast(expected_return_addresses, 1)
        PROVE  Nesting!Next
    BY <2>1, <2>6 DEF Nesting!Next, Nesting!Return, DropLast
  <2>7. QED BY <1>5, <2>2, <2>3, <2>4, <2>5, <2>6, StrictStep DEF Promise
<1>6. QED BY <1>2, <1>3, <1>4, <1>5

(* With every kind thrown, calls and returns nest: until the first report each *)
(* RET goes back to where the CALL it matches came from (CALL_nn, RET).        *)
THEOREM CallsReturn == Spec => CallsNest
<1>1. Init => Nesting!Init
  BY ProgramAssumption, ByteAssumption DEF Init, Nesting!Init, Word, NullWord, Strict, Running, NoError
<1>2. TypeOK /\ [Next]_vars => [Nesting!Next]_<<nestedPC, nestedStack, nestedTrapped>>
  BY NestingStep
<1>3. QED
  BY <1>1, <1>2, TypeCorrect, PTL
  DEF Spec, CallsNest, Nesting!Spec, nestedPC, nestedStack, nestedTrapped
-----------------------------------------------------------------------------
(* The permissive machine implements HardwareStack.                           *)

(* The remainder by the size of the address space wraps as uint16_t does.     *)
LEMMA Remainder ==
  ASSUME NEW r \in Addr, NEW k \in 0 .. 2
  PROVE  (k * AddrCount + r) % AddrCount = r
<1> DEFINE x == k * AddrCount + r
           q == x \div AddrCount
           s == x % AddrCount
<1>1. x \in Nat /\ AddrCount \in Nat /\ AddrCount > 0
  BY AddressAssumption
<1>2. q \in Nat /\ s \in Addr /\ x = AddrCount * q + s
  BY <1>1
<1>3. x = AddrCount * k + r
  BY AddressAssumption
<1> HIDE DEF x, q, s
<1>4. ASSUME q <= k - 1 PROVE FALSE
  <2>1. AddrCount * q <= AddrCount * (k - 1) /\ AddrCount * (k - 1) = AddrCount * k - AddrCount
    BY <1>1, <1>2, <1>4
  <2>2. QED BY <1>1, <1>2, <1>3, <2>1
<1>5. ASSUME q >= k + 1 PROVE FALSE
  <2>1. AddrCount * q >= AddrCount * (k + 1) /\ AddrCount * (k + 1) = AddrCount * k + AddrCount
    BY <1>1, <1>2, <1>5
  <2>2. QED BY <1>1, <1>2, <1>3, <2>1
<1>6. q = k
  BY <1>2, <1>4, <1>5
<1>7. s = r
  BY <1>1, <1>2, <1>3, <1>6
<1>8. QED BY <1>7 DEF x, s

LEMMA OffsetIsWrap ==
  ASSUME NEW a \in Addr, NEW d \in {-2, 1, 2}
  PROVE  Hardware!Offset(a, d) = Wrap(a + d)
<1>1. AddrCount \in Nat /\ AddrCount >= 4
  BY AddressAssumption
<1>2. CASE a + d < 0
  <2>1. a + d + AddrCount \in Addr /\ a + d + AddrCount = 0 * AddrCount + (a + d + AddrCount)
    BY <1>1, <1>2
  <2>2. (a + d + AddrCount) % AddrCount = a + d + AddrCount
    BY <2>1, Remainder
  <2>3. QED BY <1>2, <2>2 DEF Hardware!Offset, Wrap
<1>3. CASE a + d >= AddrCount
  <2>1. a + d - AddrCount \in Addr /\ a + d + AddrCount = 2 * AddrCount + (a + d - AddrCount)
    BY <1>1, <1>3
  <2>2. (a + d + AddrCount) % AddrCount = a + d - AddrCount
    BY <2>1, Remainder
  <2>3. QED BY <1>1, <1>3, <2>2 DEF Hardware!Offset, Wrap
<1>4. CASE a + d >= 0 /\ a + d < AddrCount
  <2>1. a + d \in Addr /\ a + d + AddrCount = 1 * AddrCount + (a + d)
    BY <1>1, <1>4
  <2>2. (a + d + AddrCount) % AddrCount = a + d
    BY <2>1, Remainder
  <2>3. Wrap(a + d) = a + d
    BY <1>1, <1>4 DEF Wrap
  <2>4. QED BY <2>2, <2>3 DEF Hardware!Offset
<1>5. QED BY <1>1, <1>2, <1>3, <1>4

LEMMA NothingThrows ==
  ASSUME Permissive
  PROVE  /\ \A kind \in ErrorKinds : ~Throws(kind)
         /\ ~PushThrows
         /\ \A a : ~WriteThrows(a)
         /\ \A pointers, a : ~ReadThrows(pointers, a) /\ ~ReadWordThrows(pointers, a)
         /\ \A w : ~JumpThrows(w)
<1>1. \A kind \in ErrorKinds : ~Throws(kind)
  BY DEF Permissive, Throws
<1>2. QED
  BY <1>1 DEF ErrorKinds, PushThrows, WriteThrows, ReadThrows, ReadWordThrows, JumpThrows

bareSP == IF Permissive THEN sp ELSE PowerUpSP
barePC == IF Permissive THEN pc ELSE NullWord
bareMem == IF Permissive THEN mem ELSE InitMem

(* What a PUSH or a CALL writes, with nothing to stop it. *)
LEMMA BarePush ==
  ASSUME TypeOK, Permissive, NEW w, PushWord(w)
  PROVE  /\ sp' = Hardware!Offset(sp, -2)
         /\ mem' = Hardware!Pushed(Hardware!Offset(sp, -2), w)
<1> DEFINE top == Wrap(sp - 2)
<1>1. top \in Addr /\ Hardware!Offset(sp, -2) = top
  BY OffsetIsWrap, WrapType DEF TypeOK
<1>2. sp' = top /\ mem' = Store(Store(mem, top, w[2]), Wrap(top + 1), w[1])
  BY NothingThrows DEF PushWord
<1> HIDE DEF top
<1>3. Hardware!Offset(top, 1) = Wrap(top + 1)
  BY <1>1, OffsetIsWrap
<1>4. \A m, a, v : Hardware!Stored(m, a, v) = Store(m, a, v)
  BY DEF Hardware!Stored, Store
<1>5. Hardware!Pushed(top, w) = Store(Store(mem, top, w[2]), Wrap(top + 1), w[1])
  BY <1>3, <1>4 DEF Hardware!Pushed
<1>6. QED BY <1>1, <1>2, <1>5

(* Every instruction is one of the bare hardware, or reads and does not move. *)
Bare == /\ error' \in {NoError, Aborted}
        /\ Hardware!Next \/ UNCHANGED <<sp, pc, mem>>

LEMMA BareStep ==
  ASSUME TypeOK, Permissive, Next
  PROVE  Bare
<1> USE DEF Bare
<1>0. Permissive' = Permissive
  BY OptionsStay DEF Permissive
<1>1. ASSUME NEW nn \in Code, Call(nn) PROVE Bare
  <2>1. PushWord(pc) /\ pc' = nn /\ error' = NoError /\ nn \in Word
    BY <1>1, NothingThrows, ProgramAssumption DEF Call
  <2>2. Hardware!Call(nn)
    BY <1>0, <2>1, BarePush DEF Hardware!Call
  <2>3. QED BY <2>1, <2>2 DEF Hardware!Next, Hardware!Word, Word
<1>2. ASSUME NEW nn \in Code, Jump(nn) PROVE Bare
  <2>1. pc' = nn /\ error' = NoError /\ nn \in Word /\ UNCHANGED <<sp, mem>>
    BY <1>2, NothingThrows, ProgramAssumption DEF Jump
  <2>2. Hardware!Jump(nn)
    BY <1>0, <2>1 DEF Hardware!Jump
  <2>3. QED BY <2>1, <2>2 DEF Hardware!Next, Hardware!Word, Word
<1>3. ASSUME Ret PROVE Bare
  <2>1. /\ error' = NoError /\ pc' = WordAt(mem, sp) /\ sp' = Wrap(sp + 2) /\ UNCHANGED mem
    BY <1>3, NothingThrows DEF Ret, ErrorKinds
  <2>2. Hardware!Offset(sp, 2) = Wrap(sp + 2) /\ Hardware!Offset(sp, 1) = Wrap(sp + 1)
    BY OffsetIsWrap DEF TypeOK
  <2>3. Hardware!Ret
    BY <1>0, <2>1, <2>2 DEF Hardware!Ret, WordAt
  <2>4. QED BY <2>1, <2>3 DEF Hardware!Next
<1>4. ASSUME NEW w \in PushWords, Push(w) PROVE Bare
  <2>1. PushWord(w) /\ pc' = pc /\ error' = NoError /\ w \in Word
    BY <1>4, NothingThrows, ProgramAssumption DEF Push
  <2>2. Hardware!Push(w)
    BY <1>0, <2>1, BarePush DEF Hardware!Push
  <2>3. QED BY <2>1, <2>2 DEF Hardware!Next, Hardware!Word, Word
<1>5. CASE Pop
  <2>1. error' = NoError /\ sp' = Wrap(sp + 2) /\ UNCHANGED <<pc, mem>>
    BY <1>5, NothingThrows DEF Pop
  <2>2. Hardware!Offset(sp, 2) = Wrap(sp + 2)
    BY OffsetIsWrap DEF TypeOK
  <2>3. Hardware!Pop
    BY <1>0, <2>1, <2>2 DEF Hardware!Pop
  <2>4. QED BY <2>1, <2>3 DEF Hardware!Next
<1>6. ASSUME NEW a \in DataAddrs, NEW v \in DataBytes, Write(a, v) PROVE Bare
  <2>1. error' = NoError /\ mem' = Store(mem, a, v) /\ UNCHANGED <<sp, pc>>
    BY <1>6, NothingThrows DEF Write
  <2>2. Hardware!Write(a, v)
    BY <1>0, <2>1 DEF Hardware!Write, Hardware!Stored, Store
  <2>3. a \in Addr /\ v \in Byte
    BY ProgramAssumption
  <2>4. QED BY <2>1, <2>2, <2>3 DEF Hardware!Next, Hardware!Addr
<1>7. ASSUME NEW a \in DataAddrs, Read(a) PROVE Bare
  BY <1>7, NothingThrows DEF Read
<1>8. ASSUME NEW a \in StackTops, SetSP(a) PROVE Bare
  <2>1. error' = NoError /\ sp' = a /\ UNCHANGED <<pc, mem>>
    BY <1>8 DEF SetSP, Running
  <2>2. Hardware!SetSP(a)
    BY <1>0, <2>1 DEF Hardware!SetSP
  <2>3. QED BY <2>1, <2>2 DEF Hardware!Next
<1>9. CASE Abort
  BY <1>9 DEF Abort
<1>10. ~Continue
  BY DEF Continue, Permissive
<1> HIDE DEF Bare
<1>11. QED
  BY <1>1, <1>2, <1>3, <1>4, <1>5, <1>6, <1>7, <1>8, <1>9, <1>10 DEF Next

LEMMA InvisibleStep ==
  ASSUME TypeOK, [Next]_vars
  PROVE  [Hardware!Next]_<<bareSP, barePC, bareMem>>
<1>1. Permissive' = Permissive
  BY OptionsStay DEF Permissive
<1>2. CASE ~Permissive
  BY <1>1, <1>2 DEF bareSP, barePC, bareMem
<1>3. CASE UNCHANGED vars
  BY <1>1, <1>3 DEF vars, bareSP, barePC, bareMem
<1>4. CASE Permissive /\ Next
  BY <1>1, <1>4, BareStep DEF Bare, bareSP, barePC, bareMem
<1>5. QED BY <1>2, <1>3, <1>4

NeverReported == Permissive => error \in {NoError, Aborted}

(* With every kind permitted the sanitizer cannot be told from its absence:    *)
(* SP, PC and memory are those of the bare hardware (throw_error and every      *)
(* instruction with a stack).                                                 *)
THEOREM PermittedIsInvisible == Spec => SanitizerInvisible
<1>1. Init => Hardware!Init /\ NeverReported
  <2>1. PowerUpSP \in Addr /\ NullWord \in Word
    BY AddressAssumption, ByteAssumption DEF PowerUpSP, NullWord, Word
  <2>2. QED
    BY <2>1, ProgramAssumption, MemoryAssumption
    DEF Init, Hardware!Init, Hardware!Addr, Hardware!Word, Word, NeverReported
<1>2. TypeOK /\ [Next]_vars => [Hardware!Next]_<<bareSP, barePC, bareMem>>
  BY InvisibleStep
<1>3. TypeOK /\ NeverReported /\ [Next]_vars => NeverReported'
  <2> SUFFICES ASSUME TypeOK, NeverReported, [Next]_vars, Permissive'
               PROVE  error' \in {NoError, Aborted}
    BY DEF NeverReported
  <2>1. Permissive
    BY OptionsStay DEF Permissive
  <2>2. QED BY <2>1, BareStep DEF Bare, NeverReported, vars
<1>4. QED
  BY <1>1, <1>2, <1>3, TypeCorrect, PTL
  DEF Spec, SanitizerInvisible, Hardware!Spec, NeverReported, bareSP, barePC, bareMem
-----------------------------------------------------------------------------
(* CpuControl: the frames of a disciplined program and of its handlers.       *)

(* The program's frames lie below one another, two addresses apart at least,  *)
(* in the region of the stack.                                                *)
Frames ==
  /\ bases \in Seq(Addr) /\ Len(bases) > 0
  /\ \A k \in 1 .. Len(bases) : StackLimit <= bases[k] /\ bases[k] <= PowerUpSP
  /\ \A j, k \in 1 .. Len(bases) : j < k => bases[k] + 2 <= bases[j]
  /\ StackLimit <= sp /\ sp <= base

(* Each frame begins with the address its CALL pushed, and it is a valid one.  *)
Intact ==
  \A k \in 1 .. Len(expected_return_addresses) :
    /\ WordAt(mem, bases[k + 1]) = expected_return_addresses[k]
    /\ expected_return_addresses[k] \in ValidPC

(* The handlers' frames, the outermost first. *)
Handled ==
  /\ handlers \in Seq(Nat)
  /\ \A i \in 1 .. Len(handlers) : 2 <= handlers[i] /\ handlers[i] <= Len(bases)
  /\ \A i, j \in 1 .. Len(handlers) : i < j => handlers[i] < handlers[j]

Sound ==
  /\ TypeOK /\ Running /\ pc \in ValidPC
  /\ RecordsAreFrames /\ Frames /\ Intact

IInv == Sound /\ Handled /\ IFreg \subseteq Lines

(* A set of numbers that is not empty has a least one: there is a line to serve. *)
LEMMA Lowest ==
  ASSUME NEW S, S \subseteq Nat, S # {}
  PROVE  \E l \in S : \A other \in S : l <= other
<1> DEFINE Less == {ss \in Nat \X Nat : ss[1] < ss[2]}
<1>1. IsWellFoundedOn(Less, Nat)
  BY NatLessThanWellFounded DEF OpToRel
<1> HIDE DEF Less
<1>2. \E l \in S : \A other \in S : <<other, l>> \notin Less
  BY <1>1, WFMin
<1>3. \A x, y \in Nat : <<x, y>> \in Less <=> x < y
  BY DEF Less
<1>4. PICK l \in S : \A other \in S : <<other, l>> \notin Less
  BY <1>2
<1>5. \A other \in S : l \in Nat /\ other \in Nat /\ ~(other < l)
  BY <1>3, <1>4
<1>6. QED BY <1>5

-----------------------------------------------------------------------------
(* Facts about a state of the invariant. *)

(* The stack is in private RAM, away from both ends of the address space. *)
LEMMA Region ==
  /\ AddrCount \in Nat /\ StackLimit \in Addr /\ StackLimit > 0
  /\ PowerUpSP = AddrCount - 2 /\ PowerUpSP \in Addr /\ StackLimit <= PowerUpSP
  /\ \A a \in Int : StackLimit <= a /\ a <= PowerUpSP + 1 => a \in Addr /\ a \in PrivateRam
  /\ \A a \in Int : 0 <= a /\ a < AddrCount => Wrap(a) = a
BY AddressAssumption, StackAssumption DEF PowerUpSP, Wrap

LEMMA BaseFacts ==
  ASSUME Sound
  PROVE  /\ sp \in Addr /\ base \in Addr /\ base = bases[Len(bases)]
         /\ StackLimit <= sp /\ sp <= base /\ base <= PowerUpSP
         /\ Len(bases) \in Nat /\ Len(bases) \in 1 .. Len(bases)
         /\ \A k \in 1 .. Len(bases) : bases[k] \in Addr /\ base <= bases[k]
         /\ \A k \in 1 .. Len(bases) - 1 : base + 2 <= bases[k]
<1>1. Len(bases) \in Nat /\ Len(bases) > 0 /\ bases \in Seq(Addr)
  BY DEF Sound, Frames
<1>2. \A k \in 1 .. Len(bases) : bases[k] \in Addr
  BY <1>1, ElementOfSeq
<1>3. \A k \in 1 .. Len(bases) - 1 : base + 2 <= bases[k]
  BY <1>1 DEF Sound, Frames, base
<1>4. QED BY <1>1, <1>2, <1>3 DEF Sound, Frames, base, TypeOK

(* No byte that the program may touch is recorded: not its data, and not its   *)
(* own part of the stack.                                                     *)
LEMMA Unrecorded ==
  ASSUME Sound, NEW a \in Addr, a < StackLimit \/ a < base
  PROVE  /\ \A i \in DOMAIN return_address_pointers : return_address_pointers[i] # a
         /\ ~WriteThrows(a) /\ ~ReadThrows(return_address_pointers, a)
<1> DEFINE n == Len(expected_return_addresses)
<1>1. /\ n \in Nat /\ Len(return_address_pointers) = 2 * n /\ Len(bases) = n + 1
      /\ DOMAIN return_address_pointers = 1 .. 2 * n
  BY DEF Sound, TypeOK, RecordsAreFrames
<1>2. ASSUME NEW k \in 1 .. n
      PROVE  return_address_pointers[2 * k] # a /\ return_address_pointers[2 * k - 1] # a
  <2>1. k + 1 \in 1 .. Len(bases)
    BY <1>1
  <2>2. bases[k + 1] \in Addr /\ StackLimit <= bases[k + 1] /\ base <= bases[k + 1]
    BY <2>1, BaseFacts DEF Sound, Frames
  <2>3. return_address_pointers[2 * k] = bases[k + 1]
        /\ return_address_pointers[2 * k - 1] = bases[k + 1] + 1
    BY DEF Sound, RecordsAreFrames, Frame
  <2>4. QED BY <2>2, <2>3, BaseFacts, Region
<1>3. ASSUME NEW i \in 1 .. 2 * n
      PROVE  \E k \in 1 .. n : i = 2 * k \/ i = 2 * k - 1
  <2>1. n \in Nat
    BY <1>1
  <2> HIDE DEF n
  <2>2. CASE i = 2 * (i \div 2)
    <3>1. i \div 2 \in 1 .. n
      BY <2>1, <2>2
    <3>2. QED BY <2>2, <3>1
  <2>3. CASE i # 2 * (i \div 2)
    <3>1. (i + 1) \div 2 \in 1 .. n /\ i = 2 * ((i + 1) \div 2) - 1
      BY <2>1, <2>3
    <3>2. QED BY <3>1
  <2>4. QED BY <2>2, <2>3
<1> HIDE DEF n
<1>4. \A i \in DOMAIN return_address_pointers : return_address_pointers[i] # a
  BY <1>1, <1>2, <1>3
<1>5. QED BY <1>4 DEF WriteThrows, ReadThrows

(* A push has two bytes of room below SP, which no frame needs. *)
LEMMA PushRoom ==
  ASSUME Sound, HasRoom
  PROVE  /\ Wrap(sp - 2) = sp - 2 /\ Wrap(sp - 2 + 1) = sp - 1
         /\ sp - 2 \in Addr /\ sp - 1 \in Addr
         /\ sp - 2 \in PrivateRam /\ sp - 1 \in PrivateRam
         /\ ~PushThrows
<1>1. /\ Wrap(sp - 2) = sp - 2 /\ Wrap(sp - 2 + 1) = sp - 1
      /\ sp - 2 \in Addr /\ sp - 1 \in Addr
      /\ sp - 2 \in PrivateRam /\ sp - 1 \in PrivateRam
  BY Region, BaseFacts DEF HasRoom
<1>2. ~WriteThrows(sp - 2) /\ ~WriteThrows(sp - 1)
  BY <1>1, Unrecorded, BaseFacts
<1>3. QED BY <1>1, <1>2 DEF PushThrows

LEMMA PushKeeps ==
  ASSUME Sound, HasRoom, NEW w \in Word, PushWord(w)
  PROVE  /\ sp' = sp - 2 /\ WordAt(mem', sp - 2) = w
         /\ \A a \in Addr : sp <= a => mem'[Cell[a]] = mem[Cell[a]]
<1>1. TypeOK /\ ~PushThrows
  BY PushRoom DEF Sound
<1>2. sp' = sp - 2
  BY PushRoom DEF PushWord
<1>3. WordAt(mem', sp - 2) = w
  BY <1>1, PushRoom, PushThere
<1>4. ASSUME NEW a \in Addr, sp <= a
      PROVE  mem'[Cell[a]] = mem[Cell[a]]
  <2>1. a \in PrivateRam /\ a # sp - 2 /\ a # sp - 1
    BY <1>4, StackAssumption, BaseFacts
  <2>2. QED BY <1>1, <2>1, PushRoom, PushElsewhere
<1>5. QED BY <1>2, <1>3, <1>4

-----------------------------------------------------------------------------
(* Steps between two states of the invariant. *)

(* A step that leaves the frames and what lies above them alone keeps them    *)
(* intact.                                                                    *)
LEMMA KeptIntact ==
  ASSUME Sound, UNCHANGED <<bases, shadow>>,
         \A a \in Addr : base <= a => mem'[Cell[a]] = mem[Cell[a]]
  PROVE  Intact'
<1> DEFINE n == Len(expected_return_addresses)
<1>1. ASSUME NEW k \in 1 .. n PROVE WordAt(mem', bases[k + 1]) = expected_return_addresses[k]
  <2>1. k + 1 \in 1 .. Len(bases)
    BY DEF Sound, RecordsAreFrames, TypeOK
  <2>2. bases[k + 1] \in Addr /\ base <= bases[k + 1] /\ StackLimit <= bases[k + 1]
        /\ bases[k + 1] <= PowerUpSP
    BY <2>1, BaseFacts DEF Sound, Frames
  <2>3. Wrap(bases[k + 1] + 1) = bases[k + 1] + 1 /\ bases[k + 1] + 1 \in Addr
        /\ base <= bases[k + 1] + 1
    BY <2>2, BaseFacts, Region
  <2>4. WordAt(mem', bases[k + 1]) = WordAt(mem, bases[k + 1])
    BY <2>2, <2>3 DEF WordAt
  <2>5. QED BY <2>4 DEF Sound, Intact
<1>2. QED BY <1>1 DEF Intact, Sound, shadow

LEMMA KeptRecords ==
  ASSUME Sound, UNCHANGED <<bases, shadow>>, sp' \in Addr, StackLimit <= sp', sp' <= base
  PROVE  RecordsAreFrames' /\ Frames'
BY DEF Sound, RecordsAreFrames, Frames, Frame, base, shadow

LEMMA KeptSound ==
  ASSUME Sound, TypeOK', UNCHANGED <<bases, shadow>>, sp' \in Addr, StackLimit <= sp', sp' <= base,
         error' = NoError, pc' \in ValidPC,
         \A a \in Addr : base <= a => mem'[Cell[a]] = mem[Cell[a]]
  PROVE  Sound'
BY KeptIntact, KeptRecords DEF Sound, Running

LEMMA CallFacts ==
  ASSUME Sound, HasRoom, NEW nn \in Code \cap ValidPC, Call(nn)
  PROVE  /\ TypeOK' /\ error' = NoError /\ pc' = nn /\ sp' = sp - 2
         /\ expected_return_addresses' = Append(expected_return_addresses, pc)
         /\ return_address_pointers' = return_address_pointers \o <<sp - 1, sp - 2>>
         /\ WordAt(mem', sp - 2) = pc
         /\ \A a \in Addr : sp <= a => mem'[Cell[a]] = mem[Cell[a]]
<1>1. TypeOK'
  BY TypeStep DEF Sound, Next
<1>2. ~PushThrows /\ ~JumpThrows(nn)
  BY PushRoom DEF JumpThrows
<1>3. /\ error' = NoError /\ pc' = nn /\ PushWord(pc)
      /\ expected_return_addresses' = Append(expected_return_addresses, pc)
      /\ return_address_pointers' = return_address_pointers \o <<sp - 1, sp - 2>>
  BY <1>2, PushRoom DEF Call
<1>4. pc \in Word
  BY DEF Sound, TypeOK
<1>5. QED BY <1>1, <1>3, <1>4, PushKeeps

(* The new frame begins two addresses below SP. *)
LEMMA CallSound ==
  ASSUME Sound, HasRoom, NEW nn \in Code \cap ValidPC, Call(nn), bases' = Append(bases, sp - 2)
  PROVE  Sound'
<1> DEFINE n == Len(expected_return_addresses)
           two == <<sp - 1, sp - 2>>
<1>1. n \in Nat /\ Len(bases) = n + 1 /\ Len(return_address_pointers) = 2 * n
      /\ bases \in Seq(Addr) /\ expected_return_addresses \in Seq(Word)
      /\ return_address_pointers \in Seq(Addr)
  BY DEF Sound, TypeOK, RecordsAreFrames, Frames
<1>2. /\ TypeOK' /\ error' = NoError /\ pc' \in ValidPC /\ sp' = sp - 2
      /\ expected_return_addresses' = Append(expected_return_addresses, pc)
      /\ return_address_pointers' = return_address_pointers \o two
      /\ WordAt(mem', sp - 2) = pc
      /\ \A a \in Addr : sp <= a => mem'[Cell[a]] = mem[Cell[a]]
  BY CallFacts
<1>3. sp - 2 \in Addr /\ sp - 1 \in Addr /\ StackLimit <= sp - 2 /\ sp \in Addr /\ sp <= base
      /\ base <= PowerUpSP /\ AddrCount \in Nat
  BY PushRoom, BaseFacts, Region DEF HasRoom
<1>4. /\ bases' \in Seq(Addr) /\ Len(bases') = n + 2 /\ bases'[n + 2] = sp - 2
      /\ \A k \in 1 .. n + 1 : bases'[k] = bases[k]
  BY <1>1, <1>3, AppendProperties
<1>5. /\ Len(expected_return_addresses') = n + 1 /\ expected_return_addresses'[n + 1] = pc
      /\ \A k \in 1 .. n : expected_return_addresses'[k] = expected_return_addresses[k]
  BY <1>1, <1>2, AppendProperties DEF Sound, TypeOK
<1>6. /\ Len(return_address_pointers') = 2 * n + 2
      /\ return_address_pointers'[2 * n + 1] = sp - 1
      /\ return_address_pointers'[2 * n + 2] = sp - 2
      /\ \A i \in 1 .. 2 * n : return_address_pointers'[i] = return_address_pointers[i]
  <2>1. two \in Seq(Addr) /\ Len(two) = 2 /\ two[1] = sp - 1 /\ two[2] = sp - 2
    BY <1>3
  <2> HIDE DEF two, n
  <2>2. /\ Len(return_address_pointers \o two) = Len(return_address_pointers) + Len(two)
        /\ \A i \in 1 .. Len(return_address_pointers) + Len(two) :
             (return_address_pointers \o two)[i] =
               IF i <= Len(return_address_pointers) THEN return_address_pointers[i]
               ELSE two[i - Len(return_address_pointers)]
    BY <1>1, <2>1, ConcatProperties, Zenon
  <2>3. /\ Len(return_address_pointers') = 2 * n + 2
        /\ \A i \in 1 .. 2 * n + 2 :
             return_address_pointers'[i] =
               IF i <= 2 * n THEN return_address_pointers[i] ELSE two[i - 2 * n]
    BY <1>1, <1>2, <2>1, <2>2
  <2>4. QED BY <1>1, <2>1, <2>3
<1> HIDE DEF n, two
<1>7. Frames'
  <2>1. base' = sp - 2
    BY <1>1, <1>4 DEF base
  <2>2. ASSUME NEW k \in 1 .. n + 2
        PROVE  StackLimit <= bases'[k] /\ bases'[k] <= PowerUpSP
    <3>1. CASE k = n + 2
      BY <1>3, <1>4, <3>1, Region
    <3>2. CASE k \in 1 .. n + 1
      BY <1>1, <1>4, <3>2 DEF Sound, Frames
    <3>3. QED BY <1>1, <3>1, <3>2
  <2>3. \A j, k \in 1 .. n + 2 : j < k => bases'[k] + 2 <= bases'[j]
    <3>1. \A j \in 1 .. n + 1 : sp <= bases[j]
      BY <1>1, <1>3, BaseFacts
    <3>2. \A j, k \in 1 .. n + 1 : j < k => bases[k] + 2 <= bases[j]
      BY <1>1 DEF Sound, Frames
    <3>3. ASSUME NEW j \in 1 .. n + 2, NEW k \in 1 .. n + 2, j < k
          PROVE  bases'[k] + 2 <= bases'[j]
      <4>1. j \in 1 .. n + 1
        BY <1>1, <3>3
      <4>2. CASE k = n + 2
        BY <1>3, <1>4, <3>1, <4>1, <4>2
      <4>3. CASE k \in 1 .. n + 1
        BY <1>4, <3>2, <3>3, <4>1, <4>3
      <4>4. QED BY <1>1, <4>2, <4>3
    <3>4. QED BY <3>3
  <2>4. Len(bases') > 0 /\ StackLimit <= sp' /\ sp' <= base'
    BY <1>1, <1>2, <1>3, <1>4, <2>1
  <2>5. QED BY <1>4, <2>2, <2>3, <2>4 DEF Frames
<1>8. RecordsAreFrames'
  <2>1. ASSUME NEW k \in 1 .. n + 1
        PROVE  /\ return_address_pointers'[2 * k] = bases'[k + 1]
               /\ return_address_pointers'[2 * k - 1] = bases'[k + 1] + 1
    <3>1. CASE k = n + 1
      BY <1>1, <1>3, <1>4, <1>6, <3>1
    <3>2. CASE k \in 1 .. n
      <4>1. 2 * k \in 1 .. 2 * n /\ 2 * k - 1 \in 1 .. 2 * n /\ k + 1 \in 1 .. n + 1
        BY <1>1, <3>2
      <4>2. /\ return_address_pointers[2 * k] = bases[k + 1]
            /\ return_address_pointers[2 * k - 1] = bases[k + 1] + 1
        BY <3>2 DEF n, Sound, RecordsAreFrames, Frame
      <4>3. QED BY <1>4, <1>6, <4>1, <4>2
    <3>3. QED BY <1>1, <3>1, <3>2
  <2>2. sp' <= base' /\ Len(bases') = n + 2 /\ Len(expected_return_addresses') = n + 1
        /\ Len(return_address_pointers') = 2 * (n + 1)
    BY <1>1, <1>4, <1>5, <1>6, <1>7 DEF Frames
  <2>3. QED BY <1>1, <2>1, <2>2 DEF RecordsAreFrames, Frame
<1>9. Intact'
  <2>1. ASSUME NEW k \in 1 .. n + 1
        PROVE  /\ WordAt(mem', bases'[k + 1]) = expected_return_addresses'[k]
               /\ expected_return_addresses'[k] \in ValidPC
    <3>1. CASE k = n + 1
      BY <1>1, <1>2, <1>4, <1>5, <3>1 DEF Sound
    <3>2. CASE k \in 1 .. n
      <4>1. k + 1 \in 1 .. Len(bases) /\ bases'[k + 1] = bases[k + 1]
        BY <1>1, <1>4, <3>2
      <4>2. bases[k + 1] \in Addr /\ sp <= bases[k + 1] /\ StackLimit <= bases[k + 1]
            /\ bases[k + 1] <= PowerUpSP
        <5>1. StackLimit <= bases[k + 1] /\ bases[k + 1] <= PowerUpSP
          BY <4>1 DEF Sound, Frames
        <5>2. bases[k + 1] \in Addr /\ base <= bases[k + 1] /\ base \in Addr
          BY <4>1, BaseFacts
        <5>3. QED BY <1>3, <5>1, <5>2
      <4>3. Wrap(bases[k + 1] + 1) = bases[k + 1] + 1 /\ bases[k + 1] + 1 \in Addr
            /\ sp <= bases[k + 1] + 1
        BY <1>3, <4>2, Region
      <4>4. WordAt(mem', bases[k + 1]) = WordAt(mem, bases[k + 1])
        BY <1>2, <4>2, <4>3 DEF WordAt
      <4>5. WordAt(mem, bases[k + 1]) = expected_return_addresses[k]
            /\ expected_return_addresses[k] \in ValidPC
        BY <3>2 DEF n, Sound, Intact
      <4>6. QED BY <1>5, <3>2, <4>1, <4>4, <4>5
    <3>3. QED BY <1>1, <3>1, <3>2
  <2>2. QED BY <1>5, <2>1 DEF Intact
<1>10. QED BY <1>2, <1>7, <1>8, <1>9 DEF Sound, Running

LEMMA Shorter ==
  ASSUME NEW S, NEW s \in Seq(S), NEW d \in Nat, d <= Len(s)
  PROVE  /\ DropLast(s, d) \in Seq(S) /\ Len(DropLast(s, d)) = Len(s) - d
         /\ \A i \in 1 .. Len(s) - d : DropLast(s, d)[i] = s[i]
BY DropLastType

(* RET finds the frame, and in it the word that its CALL pushed. *)
LEMMA RetFacts ==
  ASSUME Sound, DRet
  PROVE  LET n == Len(expected_return_addresses) IN
         /\ TypeOK' /\ error' = NoError /\ sp' = sp + 2 /\ mem' = mem
         /\ n > 0 /\ pc' = expected_return_addresses[n] /\ pc' = WordAt(mem, sp)
         /\ expected_return_addresses' = DropLast(expected_return_addresses, 1)
         /\ return_address_pointers' = DropLast(return_address_pointers, 2)
<1> DEFINE n == Len(expected_return_addresses)
           spDiffers == LastOr(return_address_pointers, 0) # sp
           pointers  == IF spDiffers THEN <<>> ELSE DropLast(return_address_pointers, 2)
           values    == IF spDiffers THEN <<>> ELSE expected_return_addresses
           expected  == LastOr(values, NullWord)
           actual    == WordAt(mem, sp)
           popped    == DropLast(values, 1)
<1>1. n \in Nat /\ n > 0 /\ Len(bases) = n + 1 /\ Len(return_address_pointers) = 2 * n
      /\ return_address_pointers \in Seq(Addr) /\ expected_return_addresses \in Seq(Word)
  BY DEF DRet, Sound, RecordsAreFrames, TypeOK
<1>2. sp = base /\ base = bases[n + 1] /\ Ret
  BY <1>1 DEF DRet, base
<1>3. n \in 1 .. n
  BY <1>1
<1>4. return_address_pointers[2 * n] = bases[n + 1]
  BY <1>3 DEF Sound, RecordsAreFrames, Frame
<1>5. return_address_pointers # <<>> /\ expected_return_addresses # <<>>
  BY <1>1
<1>6. ~spDiffers
  BY <1>1, <1>2, <1>4, <1>5 DEF LastOr
<1>7. /\ pointers = DropLast(return_address_pointers, 2)
      /\ expected = expected_return_addresses[n]
      /\ popped = DropLast(expected_return_addresses, 1)
  BY <1>5, <1>6 DEF LastOr
<1>8. /\ actual = expected_return_addresses[n] /\ actual \in ValidPC
  BY <1>2, <1>3 DEF Sound, Intact
<1>9. Wrap(sp + 1) = sp + 1 /\ Wrap(sp + 2) = sp + 2 /\ sp + 1 \in Addr
  <2>1. base + 2 <= bases[n] /\ bases[n] <= PowerUpSP
    BY <1>1, <1>3, BaseFacts DEF Sound, Frames
  <2>2. n \in 1 .. Len(bases)
    BY <1>1
  <2>3. bases[n] \in Addr
    BY <2>2, BaseFacts
  <2>4. QED BY <1>2, <2>1, <2>3, BaseFacts, Region
<1> HIDE DEF n
<1>10. DropLast(return_address_pointers, 2) \in Seq(Addr)
       /\ Len(DropLast(return_address_pointers, 2)) = 2 * n - 2
       /\ \A i \in 1 .. 2 * n - 2 : DropLast(return_address_pointers, 2)[i] = return_address_pointers[i]
  <2> DEFINE m == Len(return_address_pointers)
  <2>1. 2 \in Nat /\ 2 <= m /\ m - 2 = 2 * n - 2
    BY <1>1
  <2>2. /\ DropLast(return_address_pointers, 2) \in Seq(Addr)
        /\ Len(DropLast(return_address_pointers, 2)) = m - 2
        /\ \A i \in 1 .. m - 2 : DropLast(return_address_pointers, 2)[i] = return_address_pointers[i]
    BY <1>1, <2>1, Shorter
  <2> HIDE DEF m
  <2>3. QED BY <2>1, <2>2
<1>11. \A i \in DOMAIN DropLast(return_address_pointers, 2) :
         DropLast(return_address_pointers, 2)[i] \notin {sp, sp + 1}
  <2> SUFFICES ASSUME NEW i \in 1 .. 2 * n - 2
               PROVE  return_address_pointers[i] \notin {sp, sp + 1}
    BY <1>10
  <2>1. ASSUME NEW k \in 1 .. n - 1
        PROVE  /\ return_address_pointers[2 * k] \notin {sp, sp + 1}
               /\ return_address_pointers[2 * k - 1] \notin {sp, sp + 1}
    <3>1. k \in 1 .. n /\ k + 1 \in 1 .. Len(bases) - 1
      BY <1>1
    <3>2. /\ return_address_pointers[2 * k] = bases[k + 1]
          /\ return_address_pointers[2 * k - 1] = bases[k + 1] + 1
      BY <3>1 DEF n, Sound, RecordsAreFrames, Frame
    <3>3. base + 2 <= bases[k + 1]
      BY <3>1, BaseFacts
    <3>4. bases[k + 1] \in Addr
      BY <1>1, <3>1, BaseFacts
    <3>5. QED BY <1>2, <3>2, <3>3, <3>4, BaseFacts
  <2>2. \E k \in 1 .. n - 1 : i = 2 * k \/ i = 2 * k - 1
    <3>1. CASE i = 2 * (i \div 2)
      <4>1. i \div 2 \in 1 .. n - 1
        BY <1>1, <3>1
      <4>2. QED BY <3>1, <4>1
    <3>2. CASE i # 2 * (i \div 2)
      <4>1. (i + 1) \div 2 \in 1 .. n - 1 /\ i = 2 * ((i + 1) \div 2) - 1
        BY <1>1, <3>2
      <4>2. QED BY <4>1
    <3>3. QED BY <3>1, <3>2
  <2>3. QED BY <2>1, <2>2
<1>12. ~ReadWordThrows(pointers, sp) /\ ~JumpThrows(actual) /\ ~Clobbered(expected, actual)
  BY <1>7, <1>8, <1>9, <1>11 DEF ReadWordThrows, ReadThrows, JumpThrows, Clobbered
<1>13. TypeOK'
  BY <1>2, TypeStep DEF Sound, Next
<1> HIDE DEF spDiffers, pointers, values, expected, actual, popped
<1>14. /\ error' = NoError /\ sp' = Wrap(sp + 2) /\ mem' = mem /\ pc' = actual
       /\ return_address_pointers' = pointers /\ expected_return_addresses' = popped
  BY <1>2, <1>6, <1>12 DEF Ret, spDiffers, pointers, values, expected, actual, popped
<1>15. QED BY <1>1, <1>7, <1>8, <1>9, <1>13, <1>14 DEF n, actual

LEMMA RetSound ==
  ASSUME Sound, DRet
  PROVE  Sound'
<1> DEFINE n == Len(expected_return_addresses)
<1>1. n \in Nat /\ n > 0 /\ Len(bases) = n + 1 /\ Len(return_address_pointers) = 2 * n
      /\ return_address_pointers \in Seq(Addr) /\ expected_return_addresses \in Seq(Word)
      /\ bases \in Seq(Addr)
  BY RetFacts DEF Sound, RecordsAreFrames, TypeOK, Frames
<1>2. /\ TypeOK' /\ error' = NoError /\ sp' = sp + 2 /\ mem' = mem
      /\ pc' = expected_return_addresses[n]
      /\ expected_return_addresses' = DropLast(expected_return_addresses, 1)
      /\ return_address_pointers' = DropLast(return_address_pointers, 2)
  BY RetFacts
<1>3. sp = base /\ bases' = SubSeq(bases, 1, Len(bases) - 1)
  BY DEF DRet
<1> HIDE DEF n
<1>4. bases' \in Seq(Addr) /\ Len(bases') = n /\ \A k \in 1 .. n : bases'[k] = bases[k]
  <2> DEFINE m == Len(bases)
  <2>1. 1 \in Nat /\ 1 <= m /\ m - 1 = n
    BY <1>1 DEF n
  <2>2. /\ DropLast(bases, 1) \in Seq(Addr)
        /\ Len(DropLast(bases, 1)) = m - 1
        /\ \A k \in 1 .. m - 1 : DropLast(bases, 1)[k] = bases[k]
    BY <1>1, <2>1, Shorter
  <2> HIDE DEF m
  <2>3. bases' = DropLast(bases, 1)
    BY <1>3 DEF DropLast
  <2>4. QED BY <2>1, <2>2, <2>3
<1>5. /\ Len(expected_return_addresses') = n - 1
      /\ \A k \in 1 .. n - 1 : expected_return_addresses'[k] = expected_return_addresses[k]
  <2> DEFINE m == Len(expected_return_addresses)
  <2>1. 1 \in Nat /\ 1 <= m /\ m - 1 = n - 1
    BY <1>1 DEF n
  <2>2. /\ DropLast(expected_return_addresses, 1) \in Seq(Word)
        /\ Len(DropLast(expected_return_addresses, 1)) = m - 1
        /\ \A k \in 1 .. m - 1 : DropLast(expected_return_addresses, 1)[k] = expected_return_addresses[k]
    BY <1>1, <2>1, Shorter
  <2> HIDE DEF m
  <2>3. expected_return_addresses' = DropLast(expected_return_addresses, 1)
    BY <1>2
  <2>4. QED BY <2>1, <2>2, <2>3
<1>6. /\ Len(return_address_pointers') = 2 * n - 2
      /\ \A k \in 1 .. 2 * n - 2 : return_address_pointers'[k] = return_address_pointers[k]
  <2> DEFINE m == Len(return_address_pointers)
  <2>1. 2 \in Nat /\ 2 <= m /\ m - 2 = 2 * n - 2
    BY <1>1 DEF n
  <2>2. /\ DropLast(return_address_pointers, 2) \in Seq(Addr)
        /\ Len(DropLast(return_address_pointers, 2)) = m - 2
        /\ \A k \in 1 .. m - 2 : DropLast(return_address_pointers, 2)[k] = return_address_pointers[k]
    BY <1>1, <2>1, Shorter
  <2> HIDE DEF m
  <2>3. return_address_pointers' = DropLast(return_address_pointers, 2)
    BY <1>2
  <2>4. QED BY <2>1, <2>2, <2>3
<1>7. n \in 1 .. n /\ n \in 1 .. Len(bases) /\ n \in 1 .. Len(bases) - 1
  BY <1>1
<1>8. base' = bases[n] /\ base + 2 <= bases[n] /\ bases[n] \in Addr
  BY <1>1, <1>4, <1>7, BaseFacts DEF base
<1>9. Frames'
  <2>1. \A k \in 1 .. n : StackLimit <= bases[k] /\ bases[k] <= PowerUpSP
    BY <1>1 DEF Sound, Frames
  <2>2. \A j, k \in 1 .. n : j < k => bases[k] + 2 <= bases[j]
    BY <1>1 DEF Sound, Frames
  <2>3. StackLimit <= sp' /\ sp' <= base'
    BY <1>2, <1>3, <1>8, BaseFacts, Region
  <2>4. QED BY <1>1, <1>4, <2>1, <2>2, <2>3 DEF Frames
<1>10. RecordsAreFrames'
  <2>1. ASSUME NEW k \in 1 .. n - 1
        PROVE  /\ return_address_pointers'[2 * k] = bases'[k + 1]
               /\ return_address_pointers'[2 * k - 1] = bases'[k + 1] + 1
    <3>1. /\ 2 * k \in 1 .. 2 * n - 2 /\ 2 * k - 1 \in 1 .. 2 * n - 2
          /\ k + 1 \in 1 .. n /\ k \in 1 .. n
      BY <1>1
    <3>2. /\ return_address_pointers[2 * k] = bases[k + 1]
          /\ return_address_pointers[2 * k - 1] = bases[k + 1] + 1
      BY <3>1 DEF n, Sound, RecordsAreFrames, Frame
    <3>3. QED BY <1>4, <1>6, <3>1, <3>2
  <2>2. sp' <= base'
    BY <1>9 DEF Frames
  <2>3. QED BY <1>1, <1>4, <1>5, <1>6, <2>1, <2>2 DEF RecordsAreFrames, Frame
<1>11. Intact'
  <2>1. ASSUME NEW k \in 1 .. n - 1
        PROVE  /\ WordAt(mem', bases'[k + 1]) = expected_return_addresses'[k]
               /\ expected_return_addresses'[k] \in ValidPC
    <3>1. k + 1 \in 1 .. n /\ k \in 1 .. n
      BY <1>1
    <3>2. WordAt(mem, bases[k + 1]) = expected_return_addresses[k]
          /\ expected_return_addresses[k] \in ValidPC
      BY <3>1 DEF n, Sound, Intact
    <3>3. QED BY <1>2, <1>4, <1>5, <3>1, <3>2
  <2>2. QED BY <1>5, <2>1 DEF Intact
<1>12. pc' \in ValidPC
  BY <1>2, <1>7 DEF n, Sound, Intact
<1>13. QED BY <1>2, <1>9, <1>10, <1>11, <1>12 DEF Sound, Running

-----------------------------------------------------------------------------
(* What an instruction other than RET leaves alone: the memory from the last   *)
(* frame on, and every frame when there is more than the outermost one.        *)
Kept ==
  /\ \A a \in Addr : base <= a => mem'[Cell[a]] = mem[Cell[a]]
  /\ Len(bases') >= Len(bases)
  /\ Len(bases) > 1 => \A k \in 1 .. Len(bases) : bases'[k] = bases[k]

LEMMA CallKeeps ==
  ASSUME Sound, HasRoom, NEW nn \in Code \cap ValidPC, Call(nn), bases' = Append(bases, sp - 2)
  PROVE  Kept
<1>1. \A a \in Addr : sp <= a => mem'[Cell[a]] = mem[Cell[a]]
  BY CallFacts
<1>2. bases \in Seq(Addr) /\ sp - 2 \in Addr
  BY PushRoom DEF Sound, Frames
<1>3. Len(bases') = Len(bases) + 1 /\ \A k \in 1 .. Len(bases) : bases'[k] = bases[k]
  BY <1>2, AppendProperties
<1>4. QED BY <1>1, <1>2, <1>3, BaseFacts DEF Kept

LEMMA WriteKeeps ==
  ASSUME Sound, NEW a \in DataAddrs, NEW v \in DataBytes, DWrite(a, v)
  PROVE  /\ error' = NoError /\ UNCHANGED <<sp, pc, bases, shadow>>
         /\ \A b \in Addr : base <= b => mem'[Cell[b]] = mem[Cell[b]]
<1>1. a \in Addr /\ v \in Byte /\ mem \in [Addr -> Byte]
  BY ProgramAssumption DEF Sound, TypeOK
<1>2. a < StackLimit \/ a < base
  BY DEF DWrite, OwnData
<1>3. ~WriteThrows(a)
  BY <1>1, <1>2, Unrecorded
<1>4. error' = NoError /\ mem' = Store(mem, a, v) /\ UNCHANGED <<sp, pc, bases, shadow>>
  BY <1>3 DEF DWrite, Write
<1>5. ASSUME NEW b \in Addr, base <= b PROVE mem'[Cell[b]] = mem[Cell[b]]
  <2>1. b \in PrivateRam /\ b # a
    BY <1>1, <1>2, <1>5, StackAssumption, BaseFacts DEF Sound, Frames
  <2>2. QED BY <1>1, <1>4, <2>1, StoreElsewhere
<1>6. QED BY <1>4, <1>5

LEMMA PopKeeps ==
  ASSUME Sound, DPop
  PROVE  error' = NoError /\ sp' = sp + 2 /\ UNCHANGED <<pc, mem, bases, shadow>>
<1>1. sp \in Addr /\ sp + 2 <= base /\ base <= PowerUpSP /\ base \in Addr
  BY BaseFacts DEF DPop
<1>2. /\ Wrap(sp + 1) = sp + 1 /\ Wrap(sp + 2) = sp + 2
      /\ sp + 1 \in Addr /\ sp < base /\ sp + 1 < base
  BY <1>1, Region
<1>3. ~ReadThrows(return_address_pointers, sp) /\ ~ReadThrows(return_address_pointers, sp + 1)
  BY <1>1, <1>2, Unrecorded
<1>4. ~ReadWordThrows(return_address_pointers, sp)
  BY <1>2, <1>3 DEF ReadWordThrows
<1>5. QED BY <1>2, <1>4 DEF DPop, Pop

(* Every instruction but RET keeps to the frames and is not reported. *)
LEMMA InstructionSound ==
  ASSUME Sound, DisciplinedInstruction
  PROVE  Sound' /\ Kept
<1>0. /\ base \in Addr /\ sp \in Addr /\ StackLimit <= sp /\ sp <= base /\ StackLimit \in Addr
      /\ Len(bases) \in Nat /\ pc \in ValidPC /\ error = NoError
  BY BaseFacts, Region DEF Sound, Running
<1>1. ASSUME NEW nn \in Code, DCall(nn) PROVE Sound' /\ Kept
  <2>1. nn \in Code \cap ValidPC /\ HasRoom /\ Call(nn) /\ bases' = Append(bases, sp - 2)
    BY <1>1 DEF DCall
  <2>2. QED BY <2>1, CallSound, CallKeeps
<1>2. ASSUME NEW nn \in Code, DJump(nn) PROVE Sound' /\ Kept
  <2>1. pc' = nn /\ nn \in ValidPC /\ error' = NoError /\ UNCHANGED <<sp, mem, bases, shadow>>
    BY <1>2 DEF DJump, Jump, JumpThrows
  <2>2. TypeOK'
    BY <1>2, TypeStep DEF Sound, Next, DJump
  <2>3. Sound'
    BY <1>0, <2>1, <2>2, KeptSound
  <2>4. QED BY <1>0, <2>1, <2>3 DEF Kept
<1>3. ASSUME NEW w \in PushWords, DPush(w) PROVE Sound' /\ Kept
  <2>1. HasRoom /\ w \in Word /\ PushWord(w) /\ ~PushThrows
    BY <1>3, PushRoom, ProgramAssumption DEF DPush, Push
  <2>2. error' = NoError /\ UNCHANGED <<pc, bases, shadow>>
    BY <1>3, <2>1 DEF DPush, Push
  <2>3. sp' = sp - 2 /\ \A a \in Addr : sp <= a => mem'[Cell[a]] = mem[Cell[a]]
    BY <2>1, PushKeeps
  <2>4. TypeOK'
    BY <1>3, TypeStep DEF Sound, Next, DPush
  <2>5. sp' \in Addr /\ StackLimit <= sp' /\ sp' <= base
    BY <1>0, <2>1, <2>3, PushRoom DEF HasRoom
  <2>6. \A a \in Addr : base <= a => mem'[Cell[a]] = mem[Cell[a]]
    BY <1>0, <2>3
  <2>7. Sound'
    BY <1>0, <2>2, <2>4, <2>5, <2>6, KeptSound
  <2>8. QED BY <1>0, <2>2, <2>6, <2>7 DEF Kept
<1>4. ASSUME DPop PROVE Sound' /\ Kept
  <2>1. error' = NoError /\ sp' = sp + 2 /\ UNCHANGED <<pc, mem, bases, shadow>>
    BY <1>4, PopKeeps
  <2>2. TypeOK'
    BY <1>4, TypeStep DEF Sound, Next, DPop
  <2>3. sp' \in Addr /\ StackLimit <= sp' /\ sp' <= base
    <3>1. sp + 2 <= base /\ AddrCount \in Nat
      BY <1>4, Region DEF DPop
    <3>2. QED BY <1>0, <2>1, <3>1
  <2>4. Sound'
    BY <1>0, <2>1, <2>2, <2>3, KeptSound
  <2>5. QED BY <1>0, <2>1, <2>4 DEF Kept
<1>5. ASSUME NEW a \in DataAddrs, NEW v \in DataBytes, DWrite(a, v) PROVE Sound' /\ Kept
  <2>1. TypeOK'
    BY <1>5, TypeStep DEF Sound, Next, DWrite
  <2>2. /\ error' = NoError /\ UNCHANGED <<sp, pc, bases, shadow>>
        /\ \A b \in Addr : base <= b => mem'[Cell[b]] = mem[Cell[b]]
    BY <1>5, WriteKeeps
  <2>3. Sound'
    BY <1>0, <2>1, <2>2, KeptSound
  <2>4. QED BY <1>0, <2>2, <2>3 DEF Kept
<1>6. ASSUME NEW a \in DataAddrs, DRead(a) PROVE Sound' /\ Kept
  <2>1. a \in Addr /\ (a < StackLimit \/ a < base)
    BY <1>6, ProgramAssumption DEF DRead, OwnData
  <2>2. error' = NoError /\ UNCHANGED <<sp, pc, mem, bases, shadow>>
    BY <1>6, <2>1, Unrecorded DEF DRead, Read
  <2>3. TypeOK'
    BY <1>6, TypeStep DEF Sound, Next, DRead
  <2>4. Sound'
    BY <1>0, <2>2, <2>3, KeptSound
  <2>5. QED BY <1>0, <2>2, <2>4 DEF Kept
<1>7. ASSUME NEW a \in StackTops, DSetSP(a) PROVE Sound' /\ Kept
  <2>1. /\ sp' = a /\ bases' = <<a>> /\ Len(bases) = 1 /\ error' = NoError
        /\ UNCHANGED <<pc, mem, shadow>>
    BY <1>0, <1>7 DEF DSetSP, SetSP
  <2>2. a \in Addr /\ StackLimit <= a /\ a <= PowerUpSP
    BY ProgramAssumption, StackAssumption
  <2>3. TypeOK'
    BY <1>7, TypeStep DEF Sound, Next, DSetSP
  <2>4. bases' \in Seq(Addr) /\ Len(bases') = 1 /\ bases'[1] = a /\ base' = a
    BY <2>1, <2>2 DEF base
  <2>5. Len(expected_return_addresses) = 0 /\ Len(return_address_pointers) = 0
    BY <2>1 DEF Sound, RecordsAreFrames, TypeOK
  <2>6. Frames'
    BY <2>1, <2>2, <2>4 DEF Frames
  <2>7. RecordsAreFrames' /\ Intact'
    BY <2>1, <2>2, <2>4, <2>5 DEF RecordsAreFrames, Intact, shadow
  <2>8. Sound'
    BY <1>0, <2>1, <2>3, <2>6, <2>7 DEF Sound, Running
  <2>9. QED BY <2>1, <2>4, <2>8 DEF Kept
<1>8. QED
  BY <1>1, <1>2, <1>3, <1>4, <1>5, <1>6, <1>7 DEF DisciplinedInstruction

-----------------------------------------------------------------------------
(* The clock of the CPU around the instructions. *)

(* The request that is served is one of those that were raised. *)
LEMMA Served ==
  ASSUME IFreg \subseteq Lines, IFreg # {}
  PROVE  LET line == CHOOSE l \in IFreg : \A other \in IFreg : l <= other
         IN line \in IFreg /\ Vector[line] \in Code \cap ValidPC
<1>1. \E l \in IFreg : \A other \in IFreg : l <= other
  BY Lowest, LinesAssumption
<1>2. QED BY <1>1, LinesAssumption

LEMMA EnterFacts ==
  ASSUME IInv, Enter
  PROVE  /\ HasRoom /\ error' = NoError
         /\ \E nn \in Code \cap ValidPC : Call(nn)
         /\ bases' = Append(bases, sp - 2) /\ handlers' = Append(handlers, Len(bases'))
<1> DEFINE line == CHOOSE l \in IFreg : \A other \in IFreg : l <= other
<1>1. HasRoom /\ IFreg # {} /\ Call(Vector[line])
  BY DEF Enter
<1>2. Vector[line] \in Code \cap ValidPC
  BY <1>1, Served DEF IInv
<1> HIDE DEF line
<1>3. error' = NoError
  BY <1>1, <1>2, CallFacts DEF IInv
<1>4. QED BY <1>1, <1>2, <1>3 DEF Enter

LEMMA HandlerFacts ==
  ASSUME Handled, Interrupted
  PROVE  /\ Len(handlers) \in Nat /\ Len(handlers) >= 1
         /\ handlers[1] \in Nat /\ 2 <= handlers[1] /\ handlers[1] <= Len(bases)
         /\ Last(handlers) = handlers[Len(handlers)]
<1>1. handlers \in Seq(Nat) /\ handlers # <<>>
  BY DEF Handled, Interrupted
<1>2. Len(handlers) \in Nat /\ Len(handlers) >= 1
  BY <1>1
<1>3. 1 \in 1 .. Len(handlers)
  BY <1>2
<1>4. handlers[1] \in Nat
  BY <1>1, <1>3, ElementOfSeq
<1>5. QED BY <1>2, <1>3, <1>4 DEF Handled, Last

(* The handlers that are left when the innermost one has returned. *)
LEMMA FrontFacts ==
  ASSUME Handled, Interrupted
  PROVE  /\ Front(handlers) \in Seq(Nat) /\ Len(Front(handlers)) = Len(handlers) - 1
         /\ \A i \in 1 .. Len(handlers) - 1 : Front(handlers)[i] = handlers[i]
<1>1. Front(handlers) = DropLast(handlers, 1)
  BY DEF Front, DropLast
<1>2. handlers \in Seq(Nat) /\ 1 \in Nat /\ 1 <= Len(handlers)
  BY HandlerFacts DEF Handled
<1>3. /\ DropLast(handlers, 1) \in Seq(Nat) /\ Len(DropLast(handlers, 1)) = Len(handlers) - 1
      /\ \A i \in 1 .. Len(handlers) - 1 : DropLast(handlers, 1)[i] = handlers[i]
  BY <1>2, Shorter
<1>4. QED BY <1>1, <1>3

LEMMA EnterInvariant ==
  ASSUME IInv, Enter
  PROVE  IInv'
<1>1. PICK nn \in Code \cap ValidPC : Call(nn)
  BY EnterFacts
<1>2. HasRoom /\ bases' = Append(bases, sp - 2) /\ handlers' = Append(handlers, Len(bases'))
  BY EnterFacts
<1>3. Sound'
  BY <1>1, <1>2, CallSound DEF IInv
<1>4. bases \in Seq(Addr) /\ sp - 2 \in Addr /\ handlers \in Seq(Nat) /\ Len(handlers) \in Nat
      /\ Len(bases) \in Nat /\ Len(bases) > 0
  BY <1>2, PushRoom DEF IInv, Sound, Frames, Handled
<1>5. Len(bases') = Len(bases) + 1
  BY <1>2, <1>4, AppendProperties
<1>6. /\ handlers' \in Seq(Nat) /\ Len(handlers') = Len(handlers) + 1
      /\ handlers'[Len(handlers) + 1] = Len(bases) + 1
      /\ \A i \in 1 .. Len(handlers) : handlers'[i] = handlers[i]
  BY <1>2, <1>4, <1>5, AppendProperties
<1>7. Handled'
  <2> DEFINE h == Len(handlers)
             b == Len(bases)
  <2>1. h \in Nat /\ b \in Nat /\ b > 0
    BY <1>4
  <2>2. /\ \A i \in 1 .. h : 2 <= handlers[i] /\ handlers[i] <= b /\ handlers[i] \in Nat
        /\ \A i, j \in 1 .. h : i < j => handlers[i] < handlers[j]
    BY <1>4, ElementOfSeq DEF IInv, Handled
  <2>3. /\ handlers' \in Seq(Nat) /\ Len(handlers') = h + 1 /\ Len(bases') = b + 1
        /\ handlers'[h + 1] = b + 1 /\ \A i \in 1 .. h : handlers'[i] = handlers[i]
    BY <1>5, <1>6
  <2> HIDE DEF h, b
  <2>4. \A i \in 1 .. h + 1 : i \in 1 .. h \/ i = h + 1
    BY <2>1
  <2>5. ASSUME NEW i \in 1 .. h
        PROVE  handlers'[i] \in Nat /\ 2 <= handlers'[i] /\ handlers'[i] < b + 1
    <3>1. handlers'[i] = handlers[i]
      BY <2>3
    <3>2. handlers[i] \in Nat /\ 2 <= handlers[i] /\ handlers[i] <= b
      BY <2>2
    <3>3. QED BY <2>1, <3>1, <3>2
  <2>6. \A i \in 1 .. h + 1 : 2 <= handlers'[i] /\ handlers'[i] <= b + 1
    BY <2>1, <2>3, <2>4, <2>5
  <2>7. ASSUME NEW i \in 1 .. h + 1, NEW j \in 1 .. h + 1, i < j
        PROVE  handlers'[i] < handlers'[j]
    <3>1. i \in 1 .. h
      BY <2>1, <2>7
    <3>2. CASE j = h + 1
      BY <2>3, <2>5, <3>1, <3>2
    <3>3. CASE j \in 1 .. h
      BY <2>2, <2>3, <2>7, <3>1, <3>3
    <3>4. QED BY <2>4, <3>2, <3>3
  <2>8. QED BY <2>3, <2>6, <2>7 DEF Handled
<1>8. IFreg' \subseteq Lines
  BY DEF Enter, IInv
<1>9. QED BY <1>3, <1>7, <1>8 DEF IInv

(* After a RET the frames but the last are as before; a handler that has       *)
(* returned is struck off.                                                    *)
LEMMA RetFrames ==
  ASSUME Sound, DRet
  PROVE  /\ Len(bases) \in Nat /\ Len(bases) > 1 /\ Len(bases') = Len(bases) - 1
         /\ \A k \in 1 .. Len(bases) - 1 : bases'[k] = bases[k]
         /\ mem' = mem /\ sp = base
<1>1. bases \in Seq(Addr) /\ Len(bases) \in Nat /\ Len(bases) > 1 /\ 1 \in Nat /\ 1 <= Len(bases)
  BY DEF Sound, Frames, DRet
<1>2. bases' = DropLast(bases, 1)
  BY DEF DRet, DropLast
<1>3. /\ DropLast(bases, 1) \in Seq(Addr) /\ Len(DropLast(bases, 1)) = Len(bases) - 1
      /\ \A k \in 1 .. Len(bases) - 1 : DropLast(bases, 1)[k] = bases[k]
  BY <1>1, Shorter
<1>4. QED BY <1>1, <1>2, <1>3, RetFacts DEF DRet

LEMMA ReturnsInvariant ==
  ASSUME IInv, NEW reti \in BOOLEAN, Returns(reti)
  PROVE  IInv'
<1>1. DRet /\ Sound' /\ IFreg' = IFreg
  BY RetSound DEF Returns, IInv, Completes
<1>2. Len(bases) \in Nat /\ Len(bases) > 1 /\ Len(bases') = Len(bases) - 1
  BY <1>1, RetFrames DEF IInv
<1>3. CASE InHandler
  <2>1. Interrupted /\ Last(handlers) = Len(bases) /\ handlers' = Front(handlers)
    BY <1>3 DEF InHandler, Interrupted, Returns
  <2>2. /\ handlers' \in Seq(Nat) /\ Len(handlers') = Len(handlers) - 1
        /\ \A i \in 1 .. Len(handlers) - 1 : handlers'[i] = handlers[i]
    BY <2>1, FrontFacts DEF IInv
  <2>3. Len(handlers) \in Nat /\ Len(handlers) >= 1 /\ handlers[Len(handlers)] = Len(bases)
    BY <2>1, HandlerFacts DEF IInv
  <2>4. ASSUME NEW i \in 1 .. Len(handlers) - 1
        PROVE  2 <= handlers'[i] /\ handlers'[i] <= Len(bases')
    <3>1. i \in 1 .. Len(handlers) /\ Len(handlers) \in 1 .. Len(handlers) /\ i < Len(handlers)
      BY <2>3
    <3>2. handlers[i] \in Nat /\ 2 <= handlers[i] /\ handlers[i] < handlers[Len(handlers)]
      BY <3>1, ElementOfSeq DEF IInv, Handled
    <3>3. QED BY <1>2, <2>2, <2>3, <3>2
  <2>5. ASSUME NEW i \in 1 .. Len(handlers) - 1, NEW j \in 1 .. Len(handlers) - 1, i < j
        PROVE  handlers'[i] < handlers'[j]
    <3>1. i \in 1 .. Len(handlers) /\ j \in 1 .. Len(handlers)
      BY <2>3
    <3>2. handlers[i] < handlers[j]
      BY <2>5, <3>1 DEF IInv, Handled
    <3>3. QED BY <2>2, <3>2
  <2>6. Handled'
    BY <2>2, <2>4, <2>5 DEF Handled
  <2>7. QED BY <1>1, <2>1, <2>6 DEF IInv
<1>4. CASE ~InHandler
  <2>1. handlers' = handlers
    BY <1>4 DEF Returns
  <2>2. ASSUME NEW i \in 1 .. Len(handlers) PROVE handlers[i] <= Len(bases')
    <3>1. Interrupted /\ Len(handlers) \in Nat /\ Len(handlers) >= 1
      BY DEF Interrupted, IInv, Handled
    <3>2. handlers[Len(handlers)] # Len(bases)
      BY <1>4, <3>1, HandlerFacts DEF InHandler, IInv, Interrupted
    <3>3. Len(handlers) \in 1 .. Len(handlers)
      BY <3>1
    <3>4. /\ handlers[i] \in Nat /\ handlers[Len(handlers)] \in Nat
          /\ handlers[Len(handlers)] <= Len(bases)
          /\ i < Len(handlers) => handlers[i] < handlers[Len(handlers)]
      BY <3>3, ElementOfSeq DEF IInv, Handled
    <3>5. QED BY <1>2, <3>1, <3>2, <3>4
  <2>3. Handled'
    BY <2>1, <2>2 DEF Handled, IInv
  <2>4. QED BY <1>1, <2>1, <2>3 DEF IInv, Interrupted
<1>5. QED BY <1>3, <1>4

LEMMA InitInvariant == ControlInit => IInv
<1> SUFFICES ASSUME ControlInit PROVE IInv
  OBVIOUS
<1> USE DEF ControlInit, DisciplinedInit
<1>1. TypeOK
  BY AddressAssumption, ProgramAssumption, MemoryAssumption DEF Init, TypeOK, PowerUpSP
<1>2. /\ bases \in Seq(Addr) /\ Len(bases) = 1 /\ bases[1] = PowerUpSP /\ base = PowerUpSP
      /\ expected_return_addresses = <<>> /\ return_address_pointers = <<>> /\ sp = PowerUpSP
  BY Region DEF Init, base
<1>3. Frames
  BY <1>2, Region DEF Frames
<1>4. RecordsAreFrames /\ Intact
  BY <1>2, Region DEF RecordsAreFrames, Intact
<1>5. Sound
  BY <1>1, <1>3, <1>4 DEF Init, Sound, Running
<1>6. Handled
  BY DEF Handled
<1>7. QED BY <1>5, <1>6 DEF IInv

LEMMA InstructionInvariant ==
  ASSUME IInv, Instruction
  PROVE  IInv'
<1>1. Sound' /\ Kept /\ UNCHANGED <<handlers, IFreg>>
  BY InstructionSound DEF Instruction, IInv, Completes
<1>2. ASSUME NEW i \in 1 .. Len(handlers) PROVE handlers[i] <= Len(bases')
  <2>1. handlers[i] \in Nat /\ handlers[i] <= Len(bases)
    BY ElementOfSeq DEF IInv, Handled
  <2>2. Len(bases) \in Nat /\ Len(bases') \in Nat /\ Len(bases') >= Len(bases)
    BY <1>1 DEF Kept, Sound, Frames, IInv
  <2>3. QED BY <2>1, <2>2
<1>3. QED BY <1>1, <1>2 DEF IInv, Handled, Interrupted

(* The records, and what handlers there are, stay with the stack. *)
LEMMA QuietInvariant ==
  ASSUME IInv, UNCHANGED <<allVars, handlers>>, IFreg' \subseteq Lines
  PROVE  IInv'
BY DEF IInv, Sound, TypeOK, Running, RecordsAreFrames, Frames, Intact, Frame, WordAt, base,
       Handled, Interrupted, allVars, vars, shadow

LEMMA StepInvariant == IInv /\ [ControlNext]_controlVars => IInv'
<1> SUFFICES ASSUME IInv, [ControlNext]_controlVars PROVE IInv'
  OBVIOUS
<1>1. ASSUME NEW line \in Lines, Request(line) PROVE IInv'
  BY <1>1, QuietInvariant DEF Request, IInv
<1>2. CASE Ignore
  BY <1>2, QuietInvariant DEF Ignore, IgnoredQueue, IInv
<1>3. CASE Enter
  BY <1>3, EnterInvariant
<1>4. CASE Instruction
  BY <1>4, InstructionInvariant
<1>5. CASE HALT
  BY <1>5, QuietInvariant DEF HALT, Completes, IInv
<1>6. ASSUME NEW b \in BOOLEAN, Returns(b) PROVE IInv'
  BY <1>6, ReturnsInvariant
<1>7. ASSUME NEW b \in BOOLEAN, SetsIME(b) PROVE IInv'
  BY <1>7, QuietInvariant DEF SetsIME, Completes, IInv
<1>8. CASE UNCHANGED controlVars
  BY <1>8, QuietInvariant DEF controlVars, control, IInv
<1>9. QED
  BY <1>1, <1>2, <1>3, <1>4, <1>5, <1>6, <1>7, <1>8 DEF ControlNext

LEMMA InvariantHolds == ControlSpec => []IInv
<1>1. QED BY InitInvariant, StepInvariant, PTL DEF ControlSpec

(* No false positive: a program that keeps to the stack discipline is never    *)
(* reported, wherever its interrupts come (readU8, writeU8, CALL_nn, RET).     *)
THEOREM NeverReportedFalsely == ControlSpec => []NoFalseReport
<1>1. IInv => NoFalseReport
  BY DEF IInv, Sound, Running, NoFalseReport
<1>2. QED BY <1>1, InvariantHolds, PTL

(* The queue between two instructions: its last two places agree with each     *)
(* other and with what the program asked for.                                  *)
Queued ==
  /\ IME \in [0 .. 2 -> BOOLEAN] /\ IME[1] = IME[2]
  /\ ProgramDecides

LEMMA QueueStep ==
  ASSUME Queued, IInv, IInv', [ControlNext]_controlVars
  PROVE  Queued'
<1>1. error' = NoError
  BY DEF IInv, Sound, Running
<1> USE DEF Queued, ProgramDecides, Interrupted
<1>2. ASSUME UNCHANGED <<IME, asked, handlers>> PROVE Queued'
  BY <1>2
<1>3. ASSUME UNCHANGED <<asked, handlers>>, Completes(IME) PROVE Queued'
  BY <1>1, <1>3 DEF Completes, Shifted
<1>4. ASSUME NEW line \in Lines, Request(line) PROVE Queued'
  BY <1>2, <1>4 DEF Request
<1>5. CASE Ignore
  BY <1>2, <1>5 DEF Ignore, IgnoredQueue
<1>6. CASE Enter
  <2>1. handlers' # <<>>
    <3>1. handlers' = Append(handlers, Len(bases')) /\ handlers \in Seq(Nat) /\ Len(bases') \in Nat
      BY <1>6, EnterFacts DEF IInv, Handled, Sound, Frames
    <3>2. Len(handlers') = Len(handlers) + 1 /\ Len(handlers) \in Nat
      BY <3>1, AppendProperties
    <3>3. QED BY <3>2
  <2>2. IME' = All(FALSE)
    BY <1>6 DEF Enter
  <2>3. QED BY <2>1, <2>2 DEF All
<1>7. CASE Instruction
  BY <1>3, <1>7 DEF Instruction
<1>8. CASE HALT
  BY <1>3, <1>8 DEF HALT
<1>9. ASSUME NEW reti \in BOOLEAN, Returns(reti) PROVE Queued'
  <2>1. CASE reti
    BY <1>1, <1>9, <2>1 DEF Returns, Completes, Shifted, All
  <2>2. CASE ~reti /\ InHandler
    BY <1>1, <1>9, <2>2 DEF Returns, Completes, Shifted
  <2>3. CASE ~reti /\ ~InHandler
    BY <1>3, <1>9, <2>3 DEF Returns
  <2>4. QED BY <2>1, <2>2, <2>3
<1>10. ASSUME NEW b \in BOOLEAN, SetsIME(b) PROVE Queued'
  BY <1>1, <1>10 DEF SetsIME, Completes, Shifted
<1>11. CASE UNCHANGED controlVars
  BY <1>2, <1>11 DEF controlVars, control
<1>12. QED
  BY <1>4, <1>5, <1>6, <1>7, <1>8, <1>9, <1>10, <1>11 DEF ControlNext

(* Whatever the CPU has served, outside handlers the queue of IME is about to    *)
(* do what the program asked for last (handleInterrupts, clock, EI, DI, RETI).  *)
THEOREM ProgramIsObeyed == ControlSpec => []ProgramDecides
<1>1. ControlInit => Queued
  BY DEF ControlInit, All, Queued, ProgramDecides, Interrupted
<1>2. Queued /\ IInv /\ IInv' /\ [ControlNext]_controlVars => Queued'
  BY QueueStep
<1>3. Queued => ProgramDecides
  BY DEF Queued
<1>4. QED BY <1>1, <1>2, <1>3, InvariantHolds, PTL DEF ControlSpec

-----------------------------------------------------------------------------
(* The main program's view of a handler. *)

LEMMA ViewKept ==
  ASSUME IInv, Interrupted, Interrupted', entry' = entry,
         \A a \in Addr : base <= a => mem'[Cell[a]] = mem[Cell[a]]
  PROVE  UNCHANGED <<mainPC, mainStack>>
<1>1. handlers[1] \in 1 .. Len(bases)
  BY HandlerFacts, BaseFacts DEF IInv
<1>2. entry \in Addr /\ base <= entry /\ StackLimit <= entry /\ entry <= PowerUpSP
      /\ base \in Addr
  BY <1>1, BaseFacts DEF entry, IInv, Sound, Frames
<1>3. Wrap(entry + 1) = entry + 1 /\ entry + 1 \in Addr /\ base <= entry + 1
  BY <1>2, Region
<1>4. WordAt(mem', entry) = WordAt(mem, entry)
  BY <1>2, <1>3 DEF WordAt
<1>5. mainPC' = mainPC
  BY <1>4 DEF mainPC
<1>6. mainSP = entry + 2 /\ mainSP' = entry + 2
  BY DEF mainSP
<1>7. ASSUME NEW a \in entry + 2 .. PowerUpSP - 1
      PROVE  mem'[Cell[a]] = mem[Cell[a]]
  <2>1. a \in Addr /\ base <= a
    BY <1>2, Region
  <2>2. QED BY <2>1
<1> HIDE DEF entry
<1>8. mainStack' = mainStack
  BY <1>6, <1>7 DEF mainStack
<1>9. QED BY <1>5, <1>8

LEMMA EnterInvisible ==
  ASSUME IInv, Enter
  PROVE  UNCHANGED <<mainPC, mainStack>>
<1>1. PICK nn \in Code \cap ValidPC : Call(nn)
  BY EnterFacts
<1>2. /\ Sound /\ HasRoom /\ bases' = Append(bases, sp - 2) /\ handlers' = Append(handlers, Len(bases'))
      /\ bases \in Seq(Addr) /\ sp - 2 \in Addr /\ handlers \in Seq(Nat)
  BY EnterFacts, PushRoom DEF IInv, Sound, Frames, Handled
<1>3. Kept
  BY <1>1, <1>2, CallKeeps
<1>4. /\ Len(bases') = Len(bases) + 1 /\ bases'[Len(bases) + 1] = sp - 2
      /\ \A k \in 1 .. Len(bases) : bases'[k] = bases[k]
  BY <1>2, AppendProperties
<1>5. /\ Len(handlers') = Len(handlers) + 1
      /\ handlers'[Len(handlers) + 1] = Len(bases) + 1
      /\ \A i \in 1 .. Len(handlers) : handlers'[i] = handlers[i]
  BY <1>2, <1>4, AppendProperties, BaseFacts
<1>6. Interrupted'
  BY <1>2, <1>5 DEF Interrupted
<1>7. CASE Interrupted
  <2>1. 1 \in 1 .. Len(handlers) /\ handlers[1] \in 1 .. Len(bases)
    BY <1>2, <1>7, HandlerFacts, BaseFacts DEF IInv
  <2>2. entry' = entry
    BY <1>4, <1>5, <2>1 DEF entry
  <2>3. QED BY <1>3, <1>6, <1>7, <2>2, ViewKept DEF Kept
<1>8. CASE ~Interrupted
  <2>1. entry' = sp - 2
    <3>1. Len(handlers) = 0
      BY <1>8 DEF Interrupted
    <3>2. handlers'[1] = Len(bases) + 1
      BY <1>5, <3>1
    <3>3. QED BY <1>4, <3>2 DEF entry
  <2>2. WordAt(mem', sp - 2) = pc /\ \A a \in Addr : sp <= a => mem'[Cell[a]] = mem[Cell[a]]
    BY <1>1, <1>2, CallFacts
  <2>3. mainPC' = pc /\ mainPC = pc
    BY <1>6, <1>8, <2>1, <2>2 DEF mainPC
  <2>4. mainSP = sp /\ mainSP' = sp
    BY <1>2, <1>6, <1>8, <2>1, BaseFacts DEF mainSP
  <2>5. ASSUME NEW a \in sp .. PowerUpSP - 1
        PROVE  mem'[Cell[a]] = mem[Cell[a]]
    <3>1. a \in Addr /\ sp <= a
      BY <1>2, BaseFacts, Region
    <3>2. QED BY <2>2, <3>1
  <2>6. mainStack' = mainStack
    BY <2>4, <2>5 DEF mainStack
  <2>7. QED BY <2>3, <2>6
<1>9. QED BY <1>7, <1>8

(* A handler returns to where the main program was; a subroutine of a handler, *)
(* or a nested handler, returns into a handler.                               *)
LEMMA ReturnInvisible ==
  ASSUME IInv, Interrupted, NEW reti \in BOOLEAN, Returns(reti)
  PROVE  UNCHANGED <<mainPC, mainStack>>
<1>1. DRet /\ Sound
  BY DEF Returns, IInv
<1>2. /\ Len(bases) \in Nat /\ Len(bases) > 1
      /\ \A k \in 1 .. Len(bases) - 1 : bases'[k] = bases[k]
      /\ mem' = mem /\ sp = base
  BY <1>1, RetFrames
<1>3. /\ Len(handlers) \in Nat /\ Len(handlers) >= 1 /\ handlers[1] \in Nat
      /\ 2 <= handlers[1] /\ handlers[1] <= Len(bases)
      /\ Last(handlers) = handlers[Len(handlers)]
  BY HandlerFacts DEF IInv
<1>4. ASSUME Interrupted', handlers'[1] = handlers[1], handlers[1] < Len(bases)
      PROVE  UNCHANGED <<mainPC, mainStack>>
  <2>1. handlers[1] \in 1 .. Len(bases) - 1
    BY <1>2, <1>3, <1>4
  <2>2. entry' = entry
    BY <1>2, <1>4, <2>1 DEF entry
  <2>3. QED BY <1>2, <1>4, <2>2, ViewKept
<1>5. CASE ~InHandler
  <2>1. handlers' = handlers
    BY <1>5 DEF Returns
  <2>2. handlers[Len(handlers)] # Len(bases)
    BY <1>3, <1>5 DEF InHandler, Interrupted
  <2>3. handlers[1] < Len(bases)
    <3>1. 1 \in 1 .. Len(handlers) /\ Len(handlers) \in 1 .. Len(handlers)
      BY <1>3
    <3>2. /\ handlers[Len(handlers)] <= Len(bases) /\ handlers[Len(handlers)] \in Nat
          /\ 1 < Len(handlers) => handlers[1] < handlers[Len(handlers)]
      BY <3>1, ElementOfSeq DEF IInv, Handled
    <3>3. QED BY <1>2, <1>3, <2>2, <3>2
  <2>4. QED BY <1>4, <2>1, <2>3 DEF Interrupted
<1>6. CASE InHandler
  <2>1. handlers' = Front(handlers) /\ handlers[Len(handlers)] = Len(bases)
    BY <1>3, <1>6 DEF Returns, InHandler
  <2>2. /\ handlers' \in Seq(Nat) /\ Len(handlers') = Len(handlers) - 1
        /\ \A i \in 1 .. Len(handlers) - 1 : handlers'[i] = handlers[i]
    BY <2>1, FrontFacts DEF IInv
  <2>3. CASE Len(handlers) > 1
    <3>1. 1 \in 1 .. Len(handlers) - 1 /\ 1 \in 1 .. Len(handlers) /\ Len(handlers) \in 1 .. Len(handlers)
      BY <1>3, <2>3
    <3>2. handlers'[1] = handlers[1] /\ handlers[1] < Len(bases)
      BY <2>1, <2>2, <2>3, <3>1 DEF IInv, Handled
    <3>3. Interrupted'
      BY <2>2, <3>1 DEF Interrupted
    <3>4. QED BY <1>4, <3>2, <3>3
  <2>4. CASE Len(handlers) = 1
    <3>1. handlers[1] = Len(bases) /\ ~Interrupted'
      BY <2>1, <2>2, <2>4 DEF Interrupted
    <3>2. entry = sp
      BY <1>2, <3>1 DEF entry, base
    <3>3. pc' = WordAt(mem, sp) /\ sp' = sp + 2
      BY <1>1, RetFacts
    <3>4. mainPC' = mainPC
      BY <3>1, <3>2, <3>3 DEF mainPC
    <3>5. mainSP' = mainSP
      BY <3>1, <3>2, <3>3 DEF mainSP
    <3>6. mainStack' = mainStack
      BY <1>2, <3>5 DEF mainStack
    <3>7. QED BY <3>4, <3>6
  <2>5. QED BY <1>3, <2>3, <2>4
<1>7. QED BY <1>5, <1>6

LEMMA InstructionInvisible ==
  ASSUME IInv, Interrupted, Instruction
  PROVE  UNCHANGED <<mainPC, mainStack>>
<1>1. Kept /\ handlers' = handlers /\ Interrupted'
  BY InstructionSound DEF Instruction, IInv, Interrupted
<1>2. handlers[1] \in 1 .. Len(bases) /\ Len(bases) > 1
  BY HandlerFacts, BaseFacts DEF IInv
<1>3. entry' = entry
  BY <1>1, <1>2 DEF entry, Kept
<1>4. QED BY <1>1, <1>3, ViewKept DEF Kept

(* No step of a handler, nested or not, changes the PC or the stack of the      *)
(* program it interrupts (handleInterrupts, CALL_nn, RET, RETI).               *)
THEOREM HandlersInvisible == ControlSpec => InterruptsInvisible
<1> DEFINE Same == UNCHANGED <<mainPC, mainStack>>
<1>1. ASSUME UNCHANGED <<allVars, handlers>> PROVE Same
  BY <1>1 DEF allVars, vars, mainPC, mainStack, mainSP, entry, Interrupted, WordAt
<1>2. ASSUME IInv, ControlNext, Enter \/ Interrupted PROVE Same
  <2> HIDE DEF Same
  <2>1. ASSUME NEW line \in Lines, Request(line) PROVE Same
    BY <1>1, <2>1 DEF Request
  <2>2. CASE Ignore
    BY <1>1, <2>2 DEF Ignore
  <2>3. CASE Enter
    BY <1>2, <2>3, EnterInvisible DEF Same
  <2>4. CASE Instruction
    BY <1>2, <2>3, <2>4, InstructionInvisible DEF Same
  <2>5. CASE HALT
    BY <1>1, <2>5 DEF HALT
  <2>6. ASSUME NEW b \in BOOLEAN, Returns(b) PROVE Same
    BY <1>2, <2>3, <2>6, ReturnInvisible DEF Same
  <2>7. ASSUME NEW b \in BOOLEAN, SetsIME(b) PROVE Same
    BY <1>1, <2>7 DEF SetsIME
  <2>8. QED BY <1>2, <2>1, <2>2, <2>3, <2>4, <2>5, <2>6, <2>7 DEF ControlNext
<1>3. IInv /\ [ControlNext]_controlVars
        => [Enter \/ Interrupted => UNCHANGED <<mainPC, mainStack>>]_controlVars
  BY <1>2
<1>4. QED BY <1>3, InvariantHolds, PTL DEF ControlSpec, InterruptsInvisible
=============================================================================
