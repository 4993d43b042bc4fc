--------------------------- MODULE Devices_proofs ---------------------------
(* Theorems about the devices: the OAM DMA of Dma (Spec), the bank controller   *)
(* of Mbc1 (MbcSpec), and the timers, the ports and the sound unit's source of *)
(* events as Devices composes them (DevicesSpec).                             *)
(*                                                                            *)
(* DMA.  The copy at once implements the transfer of one byte per cycle, for   *)
(* every length and every set of values: while a transfer would hold the bus,  *)
(* its source and the attributes of sprites are as they were when it started,  *)
(* because every access but one to high RAM is a conflict, so that what is     *)
(* left to copy is still what was copied.                                     *)
(*                                                                            *)
(* Timers.  What an update would make of the registers is, at any moment, what *)
(* timers hold that count every cycle: one cycle more to count is one cycle    *)
(* counted (CycleIsEager), and an update changes nothing of it (Settled).      *)
(*                                                                            *)
(* Events.  The bit of DIV is the parity of the half periods that have passed; *)
(* from one update to the next there is at most one more of them (FallIsEvent), *)
(* also where the cycles wrap.                                                *)
EXTENDS Devices, TLAPS

OamIs(mem, t) ==
  \A k \in Index : mem[<<"oam", k>>] = IF k < t.until THEN mem[<<Home(t.source), k>>] ELSE t.before[k]

IInv ==
  /\ TypeOK
  /\ Dealt < Length => OamIs(memory, transfer)

-----------------------------------------------------------------------------
LEMMA HomeType == \A area \in Area \cup Source : Home(area) \in Area
  BY DEF Home, Area, Source

LEMMA SourceHome == \A source \in Source : Home(source) \in {"work", "tiles"}
  BY DEF Home, Source

LEMMA AtType == \A addr \in Addr : At(addr) \in Location
  BY HomeType DEF At, Addr, Location

LEMMA OamLocation == \A k \in Index : <<"oam", k>> \in Location
  BY DEF Location, Area

LEMMA DealtType == TypeOK => Dealt \in 0 .. Length
  BY LengthAssumption, MaxCycleAssumption DEF TypeOK, Dealt

LEMMA LengthFacts == Length \in Nat /\ Length > 0 /\ 0 \in Index
  BY LengthAssumption DEF Index

(* The slow transfer holds the bus exactly when isInDMA says so. *)
LEMMA BusyIsInDMA ==
  ASSUME TypeOK
  PROVE  /\ isInDMA(cycle + 1) <=> Slow!Passed < Length
         /\ Slow!Passed \in 0 .. Length
         /\ ~isInDMA(cycle + 1) => Slow!Passed = Length
  BY LengthFacts, MaxCycleAssumption DEF TypeOK, isInDMA, Slow!Passed, Dealt

LEMMA ConflictIsBusy ==
  ASSUME TypeOK, NEW area
  PROVE  Conflicts(area) <=> Slow!Busy(area)
  BY BusyIsInDMA DEF Conflicts, Slow!Busy, isHighRam

(* One cycle deals with one byte. *)
LEMMA PassDealt ==
  ASSUME TypeOK, cycle' = cycle + 1, UNCHANGED dmaStartTime
  PROVE  Dealt' = Slow!Passed
  BY LengthFacts, MaxCycleAssumption DEF TypeOK, Slow!Passed, Dealt

(* The copied byte is the one that was left to copy. *)
LEMMA CopiedIs ==
  ASSUME IInv
  PROVE  Slow!Copied = [location \in Location |->
                          IF location[1] = "oam" /\ location[2] >= Slow!Passed
                            THEN transfer.before[location[2]] ELSE memory[location]]
  <1> DEFINE after == [location \in Location |->
                         IF location[1] = "oam" /\ location[2] >= Slow!Passed
                           THEN transfer.before[location[2]] ELSE memory[location]]
  <1>1. Dealt \in 0 .. Length /\ transfer.until \in 0 .. Length
    BY DealtType DEF IInv, TypeOK
  <1>2. Slow!Passed = IF Dealt = Length THEN Length ELSE Dealt + 1
    BY DEF Slow!Passed
  <1>4. CASE Dealt < transfer.until
    <2>1. Dealt < Length /\ Slow!Passed = Dealt + 1 /\ Dealt \in Index
      BY <1>1, <1>2, <1>4, LengthFacts DEF Index
    <2>2. <<"oam", Dealt>> \in Location
      BY <2>1, OamLocation
    <2>3. Home(transfer.source) \in {"work", "tiles"}
      BY SourceHome DEF IInv, TypeOK
    <2>4. <<Home(transfer.source), Dealt>> \in Location
      BY <2>1, <2>3 DEF Location, Area
    <2>5. memory[<<"oam", Dealt>>] = memory[<<Home(transfer.source), Dealt>>]
      BY <1>4, <2>1 DEF IInv, OamIs
    <2>6. SlowMemory[<<Home(transfer.source), Dealt>>] = memory[<<"oam", Dealt>>]
      BY <2>3, <2>4, <2>5 DEF SlowMemory
    <2>7. Slow!Copied = [SlowMemory EXCEPT ![<<"oam", Dealt>>] = memory[<<"oam", Dealt>>]]
      BY <1>4, <2>6 DEF Slow!Copied, Slow!Home, Home
    <2>8. ASSUME NEW location \in Location PROVE after[location] = Slow!Copied[location]
      <3>1. location[2] \in Int /\ location = <<location[1], location[2]>>
        BY LengthFacts DEF Location, Index
      <3> QED BY <1>1, <2>1, <2>2, <2>7, <3>1 DEF SlowMemory
    <2> QED BY <2>7, <2>8 DEF SlowMemory
  <1>5. CASE ~(Dealt < transfer.until)
    <2>1. Slow!Copied = SlowMemory
      BY <1>5 DEF Slow!Copied
    <2>2. ASSUME NEW location \in Location PROVE after[location] = SlowMemory[location]
      <3>1. location[2] \in Index /\ location = <<location[1], location[2]>>
        BY DEF Location
      <3>2. ASSUME Dealt < Length, location[1] = "oam", location[2] >= transfer.until
            PROVE  memory[location] = transfer.before[location[2]]
        <4> DEFINE k == location[2]
        <4>1. k \in Index /\ location = <<"oam", k>> /\ ~(k < transfer.until)
          BY <1>1, <3>1, <3>2, LengthFacts DEF Index
        <4> HIDE DEF k
        <4>2. memory[<<"oam", k>>] = transfer.before[k]
          BY <3>2, <4>1 DEF IInv, OamIs
        <4> QED BY <4>1, <4>2 DEF k
      <3> QED BY <1>1, <1>2, <1>5, <3>1, <3>2, LengthFacts DEF SlowMemory, Index
    <2> QED BY <2>1, <2>2 DEF SlowMemory
  <1> QED BY <1>4, <1>5

LEMMA PassCopied ==
  ASSUME IInv, cycle' = cycle + 1, UNCHANGED <<dmaStartTime, transfer, memory>>
  PROVE  SlowMemory' = Slow!Copied
  BY CopiedIs, PassDealt DEF IInv, SlowMemory

-----------------------------------------------------------------------------
LEMMA ConstantTypes ==
  /\ Zero \in Value /\ Garbage \in Value
  /\ "work" \in Source
  BY ValueAssumption DEF Source

LEMMA InitInvariant == Init => IInv
  <1> SUFFICES ASSUME Init PROVE IInv
    OBVIOUS
  <1>1. TypeOK
    BY ConstantTypes, MaxCycleAssumption, LengthFacts DEF Init, TypeOK
  <1>2. Dealt = Length
    BY DEF Init, Dealt
  <1> QED BY <1>1, <1>2, LengthFacts DEF IInv

(* A step that keeps memory, the start and the history, and counts at most.   *)
LEMMA Kept ==
  ASSUME IInv, cycle' \in {cycle, cycle + 1}, cycle' \in 0 .. MaxCycle, UNCHANGED <<memory, dmaStartTime, transfer>>,
         mode' \in Mode, permitted' \in BOOLEAN, answer' \in Value \cup {"done", "refused", "conflict", "lost"}
  PROVE  IInv'
  <1>1. TypeOK'
    BY MaxCycleAssumption DEF IInv, TypeOK
  <1>2. Dealt' < Length => Dealt < Length
    <2>1. CASE cycle' = cycle
      BY <2>1 DEF Dealt
    <2>2. CASE cycle' = cycle + 1
      BY <2>2, LengthFacts, MaxCycleAssumption DEF IInv, TypeOK, Dealt
    <2> QED BY <2>1, <2>2
  <1> QED BY <1>1, <1>2 DEF IInv, OamIs

LEMMA CountTypes ==
  ASSUME TypeOK, Count
  PROVE  /\ cycle' = cycle + 1 /\ cycle' \in 0 .. MaxCycle /\ mode' \in Mode /\ permitted' \in BOOLEAN
         /\ UNCHANGED <<mode, permitted>>
  BY MaxCycleAssumption DEF TypeOK, Count

LEMMA WriteInvariant ==
  ASSUME IInv, NEW addr \in Addr, NEW value \in Value, writeU8(addr, value)
  PROVE  IInv'
  <1>1. TypeOK /\ Count
    BY DEF IInv, writeU8
  <1>2. CASE Conflicts(addr[1]) /\ Report
    BY <1>1, <1>2, CountTypes, Kept DEF Report
  <1>3. CASE answer' = "refused" /\ UNCHANGED <<memory, dmaStartTime, transfer>>
    BY <1>1, <1>3, CountTypes, Kept
  <1>4. CASE /\ ~Conflicts(addr[1]) /\ answer' = "done" /\ memory' = [memory EXCEPT ![At(addr)] = value]
             /\ UNCHANGED <<dmaStartTime, transfer>>
    <2>1. memory' \in [Location -> Value]
      BY <1>1, <1>4 DEF TypeOK
    <2>2. TypeOK'
      BY <1>1, <1>4, <2>1, CountTypes, MaxCycleAssumption DEF TypeOK
    <2>3. CASE addr[1] = "high"
      <3>1. At(addr) = <<"high", addr[2]>>
        BY <2>3 DEF At, Home
      <3>2. ASSUME NEW k \in Index PROVE memory'[<<"oam", k>>] = memory[<<"oam", k>>]
        <4>1. <<"oam", k>> \in Location /\ <<"oam", k>> # At(addr)
          BY <3>1, OamLocation
        <4> QED BY <1>1, <1>4, <4>1 DEF TypeOK
      <3>3. Home(transfer.source) \in {"work", "tiles"}
        BY <1>1, SourceHome DEF TypeOK
      <3>4. ASSUME NEW k \in Index
            PROVE  memory'[<<Home(transfer.source), k>>] = memory[<<Home(transfer.source), k>>]
        <4>1. <<Home(transfer.source), k>> \in Location /\ <<Home(transfer.source), k>> # At(addr)
          BY <3>1, <3>3 DEF Location, Area
        <4> QED BY <1>1, <1>4, <4>1 DEF TypeOK
      <3>5. Dealt' < Length => Dealt < Length
        BY <1>1, <1>4, CountTypes, LengthFacts, MaxCycleAssumption DEF TypeOK, Dealt
      <3> QED BY <1>4, <2>2, <3>2, <3>4, <3>5 DEF IInv, OamIs
    <2>4. CASE addr[1] # "high"
      <3>1. ~isInDMA(cycle + 1)
        BY <1>4, <2>4 DEF Conflicts, isHighRam
      <3>2. Dealt' = Length
        BY <1>1, <1>4, <3>1, CountTypes, BusyIsInDMA, PassDealt
      <3> QED BY <2>2, <3>2, LengthFacts DEF IInv
    <2> QED BY <2>3, <2>4
  <1> QED BY <1>2, <1>3, <1>4 DEF writeU8

LEMMA CopyInvariant ==
  ASSUME IInv, NEW source \in Source, Count, startDMA, NEW n \in 0 .. Length, Copy(source, n)
  PROVE  IInv' /\ Dealt' = 0 /\ SlowMemory' = memory
  <1>1. /\ TypeOK /\ cycle' = cycle + 1 /\ cycle' \in 0 .. MaxCycle /\ mode' \in Mode /\ permitted' \in BOOLEAN
        /\ Home(source) \in {"work", "tiles"}
    BY CountTypes, SourceHome DEF IInv
  <1>2. ASSUME NEW location \in Location
        PROVE  /\ memory'[location] \in Value
               /\ location[1] # "oam" => memory'[location] = memory[location]
    <2>1. location[2] \in Index /\ <<Home(source), location[2]>> \in Location
      BY <1>1 DEF Location, Area
    <2> QED BY <1>1, <2>1 DEF Copy, TypeOK
  <1>3. memory' \in [Location -> Value]
    BY <1>2 DEF Copy
  <1>4. transfer' \in [source : Source, until : 0 .. Length, before : [Index -> Value]]
    BY <1>1, OamLocation DEF Copy, TypeOK
  <1>5. TypeOK'
    BY <1>1, <1>3, <1>4, MaxCycleAssumption DEF Copy, TypeOK, startDMA
  <1>6. Dealt' = 0
    BY <1>1, LengthFacts, MaxCycleAssumption DEF startDMA, Dealt, TypeOK
  <1>7. ASSUME NEW k \in Index
        PROVE  /\ memory'[<<"oam", k>>] = IF k < n THEN memory'[<<Home(source), k>>] ELSE transfer'.before[k]
               /\ transfer'.before[k] = memory[<<"oam", k>>]
    <2>1. <<"oam", k>> \in Location /\ <<Home(source), k>> \in Location
      BY <1>1, OamLocation DEF Location, Area
    <2>2. memory'[<<"oam", k>>] = IF k < n THEN memory[<<Home(source), k>>] ELSE memory[<<"oam", k>>]
      BY <2>1 DEF Copy
    <2>3. memory'[<<Home(source), k>>] = memory[<<Home(source), k>>]
      BY <1>1, <1>2, <2>1
    <2> QED BY <2>2, <2>3 DEF Copy
  <1>8. transfer'.until = n /\ transfer'.source = source
    BY DEF Copy
  <1>9. IInv'
    BY <1>5, <1>7, <1>8 DEF IInv, OamIs
  <1>10. SlowMemory' = [location \in Location |->
                          IF location[1] = "oam" /\ location[2] >= 0
                            THEN transfer'.before[location[2]] ELSE memory'[location]]
    BY <1>6 DEF SlowMemory
  <1>11. ASSUME NEW location \in Location PROVE SlowMemory'[location] = memory[location]
    <2>1. location[2] \in Index /\ location = <<location[1], location[2]>> /\ location[2] >= 0
      BY DEF Location, Index
    <2>2. CASE location[1] = "oam"
      <3> DEFINE k == location[2]
      <3>1. location = <<"oam", k>> /\ k \in Index
        BY <2>1, <2>2
      <3>2. transfer'.before[k] = memory[<<"oam", k>>]
        BY <1>7, <3>1
      <3>3. SlowMemory'[location] = transfer'.before[k]
        BY <1>10, <2>1, <2>2
      <3> HIDE DEF k
      <3> QED BY <3>1, <3>2, <3>3
    <2>3. CASE location[1] # "oam"
      BY <1>2, <1>10, <2>1, <2>3
    <2> QED BY <2>2, <2>3
  <1>12. SlowMemory' = memory
    BY <1>1, <1>10, <1>11 DEF TypeOK
  <1> QED BY <1>6, <1>9, <1>12

LEMMA StepInvariant == IInv /\ [Next]_vars => IInv'
  <1> SUFFICES ASSUME IInv, [Next]_vars PROVE IInv'
    OBVIOUS
  <1>0. TypeOK
    BY DEF IInv
  <1>1. CASE UNCHANGED vars
    BY <1>1 DEF vars, IInv, TypeOK, Dealt, OamIs
  <1>2. CASE Tick
    BY <1>0, <1>2, CountTypes, Kept DEF Tick
  <1>3. CASE ReadDMA
    BY <1>0, <1>3, CountTypes, Kept DEF ReadDMA, Report
  <1>4. CASE SetMode
    BY <1>0, <1>4, Kept DEF SetMode, TypeOK
  <1>5. ASSUME NEW addr \in Addr, readU8(addr) PROVE IInv'
    <2>1. answer' \in Value \cup {"done", "refused", "conflict", "lost"}
      BY <1>0, <1>5, AtType DEF readU8, Report, TypeOK
    <2> QED BY <1>0, <1>5, <2>1, CountTypes, Kept DEF readU8, Report
  <1>6. ASSUME NEW addr \in Addr, NEW value \in Value, writeU8(addr, value) PROVE IInv'
    BY <1>6, WriteInvariant
  <1>7. ASSUME NEW source \in Source \cup {"register"}, DMA(source) PROVE IInv'
    <2>1. CASE answer' \in {"refused", "conflict", "lost"} /\ UNCHANGED <<memory, dmaStartTime, transfer>>
      BY <1>0, <1>7, <2>1, CountTypes, Kept DEF DMA
    <2>2. CASE source \in Source /\ startDMA /\ \E n \in 0 .. Length : Copy(source, n)
      BY <1>7, <2>2, CopyInvariant DEF DMA
    <2> QED BY <1>7, <2>1, <2>2 DEF DMA, Report
  <1> QED BY <1>1, <1>2, <1>3, <1>4, <1>5, <1>6, <1>7 DEF Next

(* Accesses and transfers keep memory, the cycles and the last transfer in    *)
(* their types; a transfer is never recorded after the present cycle.         *)
THEOREM TypeCorrect == Spec => []TypeOK
  <1>1. IInv => TypeOK
    BY DEF IInv
  <1> QED BY <1>1, InitInvariant, StepInvariant, PTL DEF Spec

-----------------------------------------------------------------------------
(* The refinement: steps of the code are steps of the slow transfer. *)
slow == <<SlowMemory, Dealt, transfer.source, transfer.until, answer>>

LEMMA FreeNow ==
  ASSUME IInv, Slow!Passed = Length
  PROVE  Slow!Copied = memory
  <1>2. ASSUME NEW mem \in [Location -> Value]
        PROVE  [location \in Location |-> IF location[1] = "oam" /\ location[2] >= Length
                  THEN transfer.before[location[2]] ELSE mem[location]] = mem
    <2>1. ASSUME NEW location \in Location PROVE ~(location[2] >= Length)
      BY LengthFacts DEF Location, Index
    <2> QED BY <2>1
  <1>4. CASE Dealt = Length
    <2>1. SlowMemory = memory
      BY <1>2, <1>4 DEF SlowMemory, IInv, TypeOK
    <2>2. ~(Dealt < transfer.until)
      BY <1>4, LengthFacts DEF IInv, TypeOK
    <2> QED BY <2>1, <2>2 DEF Slow!Copied
  <1>5. CASE Dealt # Length
    (* The last byte is copied: the slow transfer has caught up. *)
    <2>1. Dealt + 1 = Length /\ Dealt \in Index
      BY <1>5, DealtType, LengthFacts DEF IInv, Slow!Passed, Index
    <2>2. ASSUME NEW location \in Location PROVE Slow!Copied[location] = memory[location]
      <3>1. location[2] \in Index /\ location = <<location[1], location[2]>>
        BY DEF Location
      <3>2. Home(transfer.source) \in {"work", "tiles"}
        BY SourceHome DEF IInv, TypeOK
      <3>3. <<Home(transfer.source), Dealt>> \in Location /\ <<"oam", Dealt>> \in Location
        BY <2>1, <3>2 DEF Location, Area
      <3>4. SlowMemory[<<Home(transfer.source), Dealt>>] = memory[<<Home(transfer.source), Dealt>>]
        BY <3>2, <3>3 DEF SlowMemory
      <3>5. memory[<<"oam", Dealt>>] =
              IF Dealt < transfer.until THEN memory[<<Home(transfer.source), Dealt>>] ELSE transfer.before[Dealt]
        <4>1. Dealt < Length
          BY <2>1, LengthFacts DEF Index
        <4> QED BY <2>1, <4>1 DEF IInv, OamIs
      <3>6. Slow!Copied = IF Dealt < transfer.until
                            THEN [SlowMemory EXCEPT ![<<"oam", Dealt>>] = memory[<<"oam", Dealt>>]]
                            ELSE SlowMemory
        BY <3>4, <3>5 DEF Slow!Copied, Slow!Home, Home
      <3>7. CASE location = <<"oam", Dealt>>
        BY <2>1, <3>3, <3>5, <3>6, <3>7, LengthFacts DEF SlowMemory, Index
      <3>8. CASE location # <<"oam", Dealt>>
        <4>1. SlowMemory[location] = memory[location]
          <5>1. ~(location[1] = "oam" /\ location[2] >= Dealt)
            BY <2>1, <3>1, <3>8, LengthFacts DEF Index
          <5> QED BY <5>1 DEF SlowMemory
        <4> QED BY <3>6, <3>8, <4>1 DEF SlowMemory
      <3> QED BY <3>7, <3>8
    <2>3. Slow!Copied = memory
      BY <2>2 DEF Slow!Copied, SlowMemory, IInv, TypeOK
    <2> QED BY <2>3
  <1> QED BY <1>4, <1>5

LEMMA FreeCopied ==
  ASSUME IInv, Slow!Passed = Length, cycle' = cycle + 1, UNCHANGED <<dmaStartTime, transfer>>,
         memory' \in [Location -> Value]
  PROVE  SlowMemory' = memory'
  <1>1. Dealt' = Length
    BY PassDealt DEF IInv
  <1>2. ASSUME NEW location \in Location PROVE ~(location[2] >= Length)
    BY LengthFacts DEF Location, Index
  <1> QED BY <1>1, <1>2 DEF SlowMemory

LEMMA InitRefines == Init => Slow!Init
  <1> SUFFICES ASSUME Init PROVE Slow!Init
    OBVIOUS
  <1>1. IInv /\ Dealt = Length
    BY InitInvariant DEF Init, Dealt
  <1>2. SlowMemory \in [Location -> Value]
    BY <1>1, LengthFacts DEF SlowMemory, IInv, TypeOK, Location, Index
  <1>3. Slow!Location = Location
    BY DEF Slow!Location, Location, Slow!Area, Area, Slow!Index, Index
  <1> QED BY <1>1, <1>2, <1>3 DEF Slow!Init, Init

LEMMA StepRefines == IInv /\ [Next]_vars => [Slow!Next]_slow
  <1> SUFFICES ASSUME IInv, [Next]_vars PROVE [Slow!Next]_slow
    OBVIOUS
  <1>0. TypeOK /\ Slow!Addr = Addr /\ Slow!Source = Source
    BY DEF IInv, Slow!Addr, Addr, Slow!Source, Source, Slow!Area, Area, Slow!Index, Index
  <1>a. ASSUME cycle' = cycle + 1, UNCHANGED <<dmaStartTime, transfer, memory>>
        PROVE  SlowMemory' = Slow!Copied /\ Slow!Pass
    BY <1>0, <1>a, PassCopied, PassDealt DEF Slow!Pass
  <1>b. ASSUME Count, NEW area, Conflicts(area), Report
        PROVE  Slow!Conflict(area)
    <2>1. Slow!Busy(area)
      BY <1>0, <1>b, ConflictIsBusy
    <2> QED BY <1>0, <1>a, <1>b, <2>1, CountTypes DEF Slow!Conflict, Report
  <1>1. CASE UNCHANGED vars
    BY <1>1 DEF vars, slow, SlowMemory, Dealt
  <1>2. CASE Next
    <2>0. answer # "lost"
      BY <1>2 DEF Next
    <2>1. CASE Tick
      BY <1>0, <1>a, <2>0, <2>1, CountTypes DEF Tick, Slow!Next, Slow!Tick
    <2>2. CASE ReadDMA
      <3>1. CASE Conflicts("register") /\ Report
        BY <1>0, <1>b, <2>0, <2>2, <3>1 DEF ReadDMA, Slow!Next, Slow!Start
      <3>2. CASE ~Conflicts("register") /\ answer' = "refused" /\ UNCHANGED <<memory, dmaStartTime, transfer>>
        <4>1. ~Slow!Busy("register")
          BY <1>0, <3>2, ConflictIsBusy
        <4> QED BY <1>0, <1>a, <2>0, <2>2, <3>2, <4>1, CountTypes DEF ReadDMA, Slow!Next, Slow!Start
      <3> QED BY <2>2, <3>1, <3>2 DEF ReadDMA
    <2>3. CASE SetMode
      BY <2>3 DEF SetMode, slow, SlowMemory, Dealt
    <2>4. ASSUME NEW addr \in Addr, readU8(addr) PROVE Slow!Next
      <3>1. CASE Conflicts(addr[1]) /\ Report
        BY <1>0, <1>b, <2>0, <2>4, <3>1 DEF readU8, Slow!Next, Slow!Read
      <3>2. CASE ~Conflicts(addr[1])
        <4>1. ~Slow!Busy(addr[1]) /\ cycle' = cycle + 1 /\ UNCHANGED <<memory, dmaStartTime, transfer>>
          BY <1>0, <2>4, <3>2, ConflictIsBusy, CountTypes DEF readU8
        <4>2. SlowMemory' = Slow!Copied /\ Slow!Pass
          BY <1>a, <4>1
        <4>3. Slow!Copied[Slow!At(addr)] = memory[At(addr)]
          <5>1. Slow!At(addr) = At(addr) /\ At(addr) \in Location
            BY AtType DEF Slow!At, At, Slow!Home, Home
          <5>2. CASE addr[1] = "high"
            <6>1. At(addr) = <<"high", addr[2]>>
              BY <5>2 DEF At, Home
            <6>2. SlowMemory'[At(addr)] = memory'[At(addr)]
              BY <5>1, <6>1 DEF SlowMemory
            <6> QED BY <4>1, <4>2, <5>1, <6>2
          <5>3. CASE addr[1] # "high"
            <6>1. Slow!Passed = Length
              BY <1>0, <3>2, <5>3, BusyIsInDMA DEF Conflicts, isHighRam
            <6> QED BY <5>1, <6>1, FreeNow
          <5> QED BY <5>2, <5>3
        <4>4. (answer' = Slow!Copied[Slow!At(addr)] /\ answer' # Garbage) \/ answer' = "refused"
          BY <2>4, <3>2, <4>3 DEF readU8
        <4>5. Slow!Read(addr)
          BY <4>1, <4>2, <4>4 DEF Slow!Read
        <4> QED BY <1>0, <2>0, <4>5 DEF Slow!Next
      <3> QED BY <2>4, <3>1, <3>2 DEF readU8
    <2>5. ASSUME NEW addr \in Addr, NEW value \in Value, writeU8(addr, value) PROVE Slow!Next
      <3>1. CASE Conflicts(addr[1]) /\ Report
        BY <1>0, <1>b, <2>0, <2>5, <3>1 DEF writeU8, Slow!Next, Slow!Write
      <3>2. CASE ~Conflicts(addr[1])
        <4>1. ~Slow!Busy(addr[1]) /\ cycle' = cycle + 1 /\ UNCHANGED <<dmaStartTime, transfer>>
          BY <1>0, <2>5, <3>2, ConflictIsBusy, CountTypes DEF writeU8
        <4>2. Slow!Pass
          BY <1>0, <4>1, PassDealt DEF Slow!Pass
        <4>3. CASE answer' = "refused" /\ UNCHANGED memory
          BY <1>0, <1>a, <2>0, <4>1, <4>2, <4>3 DEF Slow!Next, Slow!Write
        <4>4. CASE answer' = "done" /\ memory' = [memory EXCEPT ![At(addr)] = value]
          <5>1. Slow!At(addr) = At(addr) /\ At(addr) \in Location
            BY AtType DEF Slow!At, At, Slow!Home, Home
          <5>2. memory' \in [Location -> Value]
            BY <1>0, <4>4 DEF TypeOK
          <5>3. SlowMemory' = [Slow!Copied EXCEPT ![At(addr)] = value]
            <6>1. CASE addr[1] = "high"
              <7>1. At(addr) = <<"high", addr[2]>>
                BY <6>1 DEF At, Home
              <7> DEFINE Slowed(mem, n) == [location \in Location |->
                           IF location[1] = "oam" /\ location[2] >= n
                             THEN transfer.before[location[2]] ELSE mem[location]]
              <7>2. SlowMemory' = Slowed(memory', Dealt')
                BY <4>1 DEF SlowMemory
              <7>3. Slow!Copied = Slowed(memory, Slow!Passed)
                BY CopiedIs
              <7>4. Dealt' = Slow!Passed
                BY <1>0, <4>1, PassDealt
              <7>5. \A location \in Location : memory'[location] = IF location = At(addr) THEN value ELSE memory[location]
                BY <1>0, <4>4, <5>1 DEF TypeOK
              <7>6. ASSUME NEW location \in Location
                    PROVE  SlowMemory'[location] = [Slow!Copied EXCEPT ![At(addr)] = value][location]
                <8>1. location = At(addr) => location[1] # "oam"
                  BY <7>1
                <8> QED BY <5>1, <7>2, <7>3, <7>4, <7>5, <8>1
              <7> QED BY <5>1, <7>2, <7>3, <7>6
            <6>2. CASE addr[1] # "high"
              <7>1. Slow!Passed = Length
                BY <1>0, <3>2, <6>2, BusyIsInDMA DEF Conflicts, isHighRam
              <7> QED BY <4>1, <4>4, <5>2, <7>1, FreeCopied, FreeNow
            <6> QED BY <6>1, <6>2
          <5>4. Slow!Write(addr, value)
            BY <4>1, <4>2, <4>4, <5>1, <5>3 DEF Slow!Write
          <5> QED BY <1>0, <2>0, <5>4 DEF Slow!Next
        <4> QED BY <2>5, <3>2, <4>3, <4>4 DEF writeU8
      <3> QED BY <2>5, <3>1, <3>2 DEF writeU8
    <2>6. ASSUME NEW source \in Source \cup {"register"}, DMA(source) PROVE Slow!Next
      <3>1. CASE Conflicts("register") /\ Report
        BY <1>0, <1>b, <2>0, <2>6, <3>1 DEF DMA, Slow!Next, Slow!Start
      <3>2. CASE ~Conflicts("register") /\ answer' = "refused" /\ UNCHANGED <<memory, dmaStartTime, transfer>>
        <4>1. ~Slow!Busy("register")
          BY <1>0, <3>2, ConflictIsBusy
        <4> QED BY <1>0, <1>a, <2>0, <2>6, <3>2, <4>1, CountTypes DEF DMA, Slow!Next, Slow!Start
      <3>3. CASE /\ ~Conflicts("register") /\ source \in Source /\ startDMA
                 /\ \E n \in 0 .. Length : Copy(source, n)
        <4>1. PICK n \in 0 .. Length : Copy(source, n)
          BY <3>3
        <4>2. Dealt' = 0 /\ SlowMemory' = memory
          BY <2>6, <3>3, <4>1, CopyInvariant DEF DMA
        <4>3. ~Slow!Busy("register") /\ Slow!Passed = Length
          BY <1>0, <3>3, ConflictIsBusy, BusyIsInDMA DEF Conflicts, isHighRam
        <4>4. Slow!Copied = memory
          BY <4>3, FreeNow
        <4>5. transfer'.source = source /\ transfer'.until = n
          BY <4>1 DEF Copy
        <4>6. Slow!IsPrefix(Slow!Copied, source, n)
          BY <4>1, <4>4 DEF Copy, IsPrefix, Slow!IsPrefix, Slow!Home, Home, Slow!Index, Index
        <4>7. answer' = IF n = Length THEN "done" ELSE "refused"
          BY <4>1 DEF Copy
        <4> QED BY <1>0, <2>0, <3>3, <4>2, <4>3, <4>4, <4>5, <4>6, <4>7 DEF Slow!Next, Slow!Start
      <3> QED BY <2>6, <3>1, <3>2, <3>3 DEF DMA
    <2> QED BY <1>2, <2>1, <2>2, <2>3, <2>4, <2>5, <2>6 DEF Next
  <1> QED BY <1>1, <1>2 DEF vars

(* The copy at once, with the checks around it, implements a transfer of one  *)
(* byte per cycle; MemoryMap::DMA, IO::isInDMA, CPU::readU8 and writeU8.      *)
THEOREM Refinement == Spec => IsSlowTransfer
  <1>1. Spec => []IInv
    BY InitInvariant, StepInvariant, PTL DEF Spec
  <1>2. Init => Slow!Init
    BY InitRefines
  <1>3. IInv /\ [Next]_vars => [Slow!Next]_slow
    BY StepRefines
  <1> QED BY <1>1, <1>2, <1>3, PTL DEF Spec, IsSlowTransfer, Slow!Spec, slow

(* No undefined byte reaches a device, over a transfer that is broken off     *)
(* either: MemoryMap::write and MemoryMap::DMA.                               *)
THEOREM DevicesStayDefined == Spec => []DevicesDefined
  <1>1. Init => DevicesDefined
    BY ValueAssumption DEF Init, DevicesDefined
  <1>2. ASSUME TypeOK, DevicesDefined, [Next]_vars PROVE DevicesDefined'
    <2>1. CASE UNCHANGED memory
      BY <1>2, <2>1 DEF DevicesDefined
    <2>2. ASSUME NEW addr \in Addr, NEW value \in Value, memory' = [memory EXCEPT ![At(addr)] = value],
                 ~(value = Garbage /\ addr[1] \in Device)
          PROVE  DevicesDefined'
      <3>1. At(addr)[1] \in Device => addr[1] \in Device
        BY DEF At, Home, Device
      <3>2. ASSUME NEW location \in Location, location[1] \in Device PROVE memory'[location] # Garbage
        <4>1. CASE location = At(addr)
          BY <1>2, <2>2, <3>1, <3>2, <4>1, AtType DEF TypeOK
        <4>2. CASE location # At(addr)
          BY <1>2, <2>2, <3>2, <4>2, AtType DEF TypeOK, DevicesDefined
        <4> QED BY <4>1, <4>2
      <3> QED BY <3>2 DEF DevicesDefined
    <2>3. ASSUME NEW source \in Source, NEW n \in 0 .. Length, Copy(source, n) PROVE DevicesDefined'
      <3>1. ASSUME NEW location \in Location, location[1] \in Device PROVE memory'[location] # Garbage
        <4>1. location[2] \in Index
          BY DEF Location
        <4>2. memory'[location] = IF location[1] = "oam" /\ location[2] < n
                                    THEN memory[<<Home(source), location[2]>>] ELSE memory[location]
          BY <2>3 DEF Copy
        <4> QED BY <1>2, <2>3, <3>1, <4>1, <4>2 DEF Copy, IsPrefix, DevicesDefined
      <3> QED BY <3>1 DEF DevicesDefined
    <2> QED
      BY <1>2, <2>1, <2>2, <2>3
      DEF Next, vars, Tick, ReadDMA, SetMode, readU8, writeU8, DMA, Report
  <1> QED BY <1>1, <1>2, TypeCorrect, PTL DEF Spec

-----------------------------------------------------------------------------
(* Mbc1, for every set of bytes the program may write.                        *)

(* The masks of the controller, in arithmetic.                                *)
LEMMA Masks ==
  ASSUME NEW value \in 0 .. 255
  PROVE  /\ Low5(value) \in 0 .. 31
         /\ Low2(value) \in 0 .. 3
         /\ Selected(value) \in 1 .. 31
         /\ Low5(Selected(value)) # 0
BY SMT DEF Low5, Low2, Selected

(* Significant bits put above the low five leave these as they were.          *)
LEMMA UpperBits ==
  ASSUME NEW high \in 0 .. 3, NEW bank \in 0 .. 127
  PROVE  /\ 32 * high + Low5(bank) \in 0 .. 127
         /\ Low5(32 * high + Low5(bank)) = Low5(bank)
BY SMT DEF Low5

(* The type of the registers and the bank that cannot be selected: one is     *)
(* inductive with the other.                                                  *)
MbcInv == MbcTypeOK /\ NeverBankZero

LEMMA MbcInitInvariant == MbcInit => MbcInv
<1> SUFFICES ASSUME MbcInit PROVE MbcInv
  OBVIOUS
<1>1. ram \in [RamBanks -> Contents]
  BY ContentsAssumption DEF MbcInit
<1>2. romBank \in 0 .. 127 /\ Low5(romBank) # 0
  BY DEF MbcInit, Low5
<1>3. ramBank \in RamBanks
  BY DEF MbcInit, RamBanks
<1> QED
  BY <1>1, <1>2, <1>3 DEF MbcInit, MbcInv, MbcTypeOK, NeverBankZero

LEMMA MbcStepInvariant == MbcInv /\ [MbcNext]_mbcVars => MbcInv'
<1> SUFFICES ASSUME MbcInv, [MbcNext]_mbcVars PROVE MbcInv'
  OBVIOUS
<1> USE DEF MbcInv, MbcTypeOK, NeverBankZero
<1>1. ASSUME NEW value \in Bytes, WriteRamEnable(value) PROVE MbcInv'
  BY <1>1 DEF WriteRamEnable, Low5, Bit
<1>2. ASSUME NEW value \in Bytes, WriteRomBank(value) PROVE MbcInv'
  <2>1. value \in 0 .. 255
    BY ByteAssumption
  <2>2. romBank' \in 0 .. 127 /\ Low5(romBank') # 0
    BY <1>2, <2>1, Masks DEF WriteRomBank
  <2> QED
    BY <1>2, <2>2 DEF WriteRomBank, Low5
<1>3. ASSUME NEW value \in Bytes, WriteUpperBank(value) PROVE MbcInv'
  <2>1. value \in 0 .. 255
    BY ByteAssumption
  <2>2. Low2(value) \in 0 .. 3
    BY <2>1, Masks
  <2>3. CASE bankedRamMode
    <3>1. ramBank' \in RamBanks
      BY <1>3, <2>2, <2>3 DEF WriteUpperBank, RamSelected, RamBanks
    <3> QED
      BY <1>3, <2>3, <3>1 DEF WriteUpperBank, Low5
  <2>4. CASE ~bankedRamMode
    <3>1. romBank' = 32 * Low2(value) + Low5(romBank)
      BY <1>3, <2>4 DEF WriteUpperBank
    <3>2. romBank' \in 0 .. 127 /\ Low5(romBank') # 0
      BY <2>2, <3>1, UpperBits
    <3> QED
      BY <1>3, <2>4, <3>2 DEF WriteUpperBank, Low5
  <2> QED
    BY <2>3, <2>4
<1>4. ASSUME NEW value \in Bytes, WriteMode(value) PROVE MbcInv'
  BY <1>4 DEF WriteMode, Bit, Low5
<1>5. ASSUME NEW content \in Contents, WriteRam(content) PROVE MbcInv'
  BY <1>5 DEF WriteRam, registers, Low5
<1>6. CASE UNCHANGED mbcVars
  BY <1>6 DEF mbcVars, registers, Low5
<1> QED
  BY <1>1, <1>2, <1>3, <1>4, <1>5, <1>6 DEF MbcNext

(* Every access to the RAM stays inside its 32 KByte, whatever bytes the      *)
(* program writes to the controller in whatever order.                        *)
THEOREM BankTypes == MbcSpec => []MbcTypeOK
<1>1. MbcInv => MbcTypeOK
  BY DEF MbcInv
<1> QED
  BY MbcInitInvariant, MbcStepInvariant, <1>1, PTL DEF MbcSpec

(* Bank 0 never appears at 0x4000 - 0x7FFF, nor bank 32, 64 or 96.            *)
THEOREM BankZeroHidden == MbcSpec => []NeverBankZero
<1>1. MbcInv => NeverBankZero
  BY DEF MbcInv
<1> QED
  BY MbcInitInvariant, MbcStepInvariant, <1>1, PTL DEF MbcSpec

-----------------------------------------------------------------------------
(* Division and remainder, for every divisor.                                 *)
LEMMA DivMod ==
  ASSUME NEW x \in Int, NEW d \in Nat \ {0}
  PROVE  /\ x \div d \in Int /\ x % d \in 0 .. d - 1
         /\ x = d * (x \div d) + (x % d)
         /\ x \in Nat => x \div d \in Nat
  OBVIOUS

LEMMA Multiples ==
  ASSUME NEW d \in Nat \ {0}, NEW a \in Int, NEW b \in Int, a < b
  PROVE  d * a + d <= d * b
<1>1. b - a >= 1 /\ b - a \in Int
  OBVIOUS
<1>2. d * (b - a) >= d
  BY <1>1
<1> QED BY <1>2

LEMMA Divided ==
  ASSUME NEW d \in Nat \ {0}, NEW q \in Int, NEW r \in 0 .. d - 1, NEW x \in Int, x = d * q + r
  PROVE  x \div d = q /\ x % d = r
<1> DEFINE p == x \div d
<1>1. p \in Int /\ x % d \in 0 .. d - 1 /\ x = d * p + (x % d)
  BY DivMod
<1>2. d * p \in Int /\ d * q \in Int
  BY <1>1
<1>3. ~ (p < q)
  BY <1>1, <1>2, Multiples
<1>4. ~ (q < p)
  BY <1>1, <1>2, Multiples
<1>5. p = q
  BY <1>1, <1>3, <1>4
<1>6. x % d = r
  BY <1>1, <1>2, <1>5
<1> QED BY <1>5, <1>6

LEMMA Stepped ==
  ASSUME NEW x \in Int, NEW d \in Nat \ {0}
  PROVE  IF x % d = d - 1 THEN (x + 1) % d = 0 /\ (x + 1) \div d = x \div d + 1
                          ELSE (x + 1) % d = (x % d) + 1 /\ (x + 1) \div d = x \div d
<1> DEFINE q == x \div d
           r == x % d
           y == x + 1
           s == r + 1
<1>1. q \in Int /\ r \in 0 .. d - 1 /\ x = d * q + r /\ d * q \in Int
  BY DivMod
<1>2. CASE r = d - 1
  <2>1. y = d * (q + 1) + 0
    BY <1>1, <1>2
  <2>2. y % d = 0 /\ y \div d = q + 1
    <3> y \in Int /\ q + 1 \in Int /\ 0 \in 0 .. d - 1
      BY <1>1
    <3> HIDE DEF y
    <3> QED BY <2>1, Divided
  <2> QED BY <1>2, <2>2
<1>3. CASE r # d - 1
  <2>1. y = d * q + s
    BY <1>1
  <2>2. y % d = s /\ y \div d = q
    <3> y \in Int /\ s \in 0 .. d - 1 /\ q \in Int
      BY <1>1, <1>3
    <3> HIDE DEF y, s, q
    <3> QED BY <2>1, Divided
  <2> QED BY <1>3, <2>2
<1> QED BY <1>2, <1>3, Zenon

(* The distance of two counters of C values. *)
LEMMA Distance ==
  ASSUME NEW C \in Nat \ {0}, NEW a \in 0 .. C - 1, NEW b \in 0 .. C - 1
  PROVE  (a - b + C) % C = IF a >= b THEN a - b ELSE a - b + C
<1> DEFINE x == a - b + C
<1>1. CASE a >= b
  <2>1. x = C * 1 + (a - b) /\ a - b \in 0 .. C - 1 /\ x \in Int
    BY <1>1
  <2> HIDE DEF x
  <2>2. x % C = a - b
    BY <2>1, Divided
  <2> QED BY <1>1, <2>2 DEF x
<1>2. CASE ~(a >= b)
  <2>1. x = C * 0 + x /\ x \in 0 .. C - 1
    BY <1>2
  <2> HIDE DEF x
  <2>2. x % C = x
    BY <2>1, Divided
  <2> QED BY <1>2, <2>2 DEF x
<1> QED BY <1>1, <1>2

LEMMA Advanced ==
  ASSUME NEW C \in Nat \ {0}, NEW a \in 0 .. C - 1
  PROVE  (a + 1) % C = IF a = C - 1 THEN 0 ELSE a + 1
<1>1. a % C = a
  BY Divided, a = C * 0 + a
<1>2. a \in Int /\ C - 1 \in Int
  OBVIOUS
<1>3. IF a = C - 1 THEN (a + 1) % C = 0 ELSE (a + 1) % C = (a % C) + 1
  BY <1>1, <1>2, Stepped, Zenon
<1> QED BY <1>1, <1>3, Zenon

LEMMA Elapsed ==
  ASSUME NEW C \in Nat \ {0}, NEW a \in 0 .. C - 1, NEW b \in 0 .. C - 1,
         (a - b + C) % C < C - 1
  PROVE  (((a + 1) % C) - b + C) % C = ((a - b + C) % C) + 1
<1> DEFINE next == (a + 1) % C
<1>1. next = IF a = C - 1 THEN 0 ELSE a + 1
  BY Advanced
<1>2. next \in 0 .. C - 1
  BY <1>1
<1> HIDE DEF next
<1>3. (next - b + C) % C = IF next >= b THEN next - b ELSE next - b + C
  BY <1>2, Distance
<1>4. (a - b + C) % C = IF a >= b THEN a - b ELSE a - b + C
  BY Distance
<1>5. (next - b + C) % C = ((a - b + C) % C) + 1
  BY <1>1, <1>3, <1>4
<1> QED BY <1>5 DEF next

LEMMA NestedDiv ==
  \A x \in Nat : \A a \in Nat \ {0} : \A b \in Nat \ {0} : (x \div a) \div b = x \div (a * b)
<1> SUFFICES ASSUME NEW x \in Nat, NEW a \in Nat \ {0}, NEW b \in Nat \ {0}
             PROVE  (x \div a) \div b = x \div (a * b)
  OBVIOUS
<1> DEFINE q == x \div a
           r == x % a
           p == q \div b
           s == q % b
           ab == a * b
<1>1. q \in Nat /\ q \in Int /\ r \in 0 .. a - 1 /\ x = a * q + r
  BY DivMod, x \in Int
<1>2. p \in Nat /\ s \in 0 .. b - 1 /\ q = b * p + s
  <2> HIDE DEF q
  <2> QED BY <1>1, DivMod
<1>3. ab \in Nat \ {0}
  OBVIOUS
<1>4. a * s + a <= ab /\ a * s \in Nat
  <2> HIDE DEF s
  <2> QED BY <1>2, Multiples
<1>5. a * s + r \in 0 .. ab - 1
  BY <1>1, <1>3, <1>4
<1>6. a * (b * p + s) = (a * b) * p + a * s
  <2> HIDE DEF p, s
  <2> QED BY <1>2
<1>7. x = ab * p + (a * s + r)
  <2>1. (a * b) * p \in Nat
    BY <1>2
  <2> QED BY <1>1, <1>2, <1>4, <1>6, <2>1
<1>8. x \div ab = p
  <2> DEFINE y == a * s + r
  <2>1. y \in 0 .. ab - 1 /\ x = ab * p + y /\ x \in Int /\ p \in Int
    BY <1>2, <1>5, <1>7
  <2> HIDE DEF y, p, ab
  <2> QED BY <1>3, <2>1, Divided
<1> QED BY <1>3, <1>8

(* Multiples of n do not tell in a remainder by n. *)
LEMMA Congruent ==
  ASSUME NEW n \in Nat \ {0}, NEW k \in Int, NEW y \in Int, NEW x \in Int, x = n * k + y
  PROVE  x % n = y % n
<1> DEFINE q == y \div n
           r == y % n
<1>1. q \in Int /\ r \in 0 .. n - 1 /\ y = n * q + r
  BY DivMod
<1>2. x = n * (k + q) + r /\ k + q \in Int
  <2> HIDE DEF q, r
  <2>1. n * (k + q) = n * k + n * q /\ n * k \in Int /\ n * q \in Int
    BY <1>1
  <2> QED BY <1>1, <2>1
<1>3. x % n = r
  <2> DEFINE z == k + q
  <2>1. x = n * z + r /\ z \in Int /\ r \in 0 .. n - 1
    BY <1>1, <1>2
  <2> HIDE DEF z, r
  <2>2. \A u \in Int : u = n * z + r => u % n = r
    BY <2>1, Divided
  <2> QED BY <2>1, <2>2, Zenon
<1> QED BY <1>3

(* A bit of a counter that wraps at a multiple of its period. *)
LEMMA BitOfRemainder ==
  ASSUME NEW x \in Nat, NEW n \in Nat \ {0}, NEW h \in Nat \ {0}, n % (2 * h) = 0
  PROVE  ((x % n) \div h) % 2 = (x \div h) % 2
<1> DEFINE k == n \div (2 * h)
           q == x \div n
           r == x % n
           y == r \div h
<1>1. k \in Int /\ n = (2 * h) * k
  <2>1. 2 * h \in Nat \ {0} /\ n \in Int
    OBVIOUS
  <2> DEFINE d == 2 * h
  <2>2. n % d = 0 /\ d \in Nat \ {0}
    BY <2>1
  <2> HIDE DEF d
  <2>3. n \div d \in Int /\ n = d * (n \div d) + (n % d)
    BY <2>1, <2>2, DivMod
  <2>4. d * (n \div d) \in Int
    BY <2>2, <2>3
  <2>5. n = d * (n \div d)
    BY <2>2, <2>3, <2>4
  <2> QED BY <2>3, <2>5 DEF d
<1>2. q \in Int /\ r \in 0 .. n - 1 /\ x = n * q + r /\ r \in Nat /\ r \in Int
  BY DivMod
<1>3. y \in Int /\ r % h \in 0 .. h - 1 /\ r = h * y + (r % h)
  <2> HIDE DEF r
  <2> QED BY <1>2, DivMod
<1>4. x \div h = 2 * (k * q) + y /\ k * q \in Int
  <2> DEFINE z == 2 * (k * q) + y
             w == r % h
  <2> HIDE DEF k, q, r, y, w
  <2>1. k * q \in Int /\ h * (k * q) \in Int /\ h * y \in Int /\ n * q \in Int
    BY <1>1, <1>2, <1>3
  <2>2. n * q = 2 * (h * (k * q))
    <3>1. n * q = ((2 * h) * k) * q
      BY <1>1
    <3>2. ((2 * h) * k) * q = 2 * (h * (k * q))
      BY <1>1, <1>2
    <3> QED BY <3>1, <3>2
  <2>3. h * z = 2 * (h * (k * q)) + h * y
    BY <1>1, <1>2, <1>3, <2>1
  <2>4. x = h * z + w /\ z \in Int /\ x \in Int /\ w \in 0 .. h - 1
    <3>1. w \in 0 .. h - 1 /\ r = h * y + w
      BY <1>3 DEF w
    <3>2. z \in Int
      BY <1>3, <2>1
    <3> QED BY <1>2, <2>1, <2>2, <2>3, <3>1, <3>2
  <2>5. x \div h = z
    <3> HIDE DEF z
    <3> QED BY <2>4, Divided
  <2> QED BY <2>1, <2>5
<1>5. (x \div h) % 2 = y % 2
  <2> DEFINE z == x \div h
             m == k * q
  <2>1. z = 2 * m + y /\ z \in Int /\ m \in Int /\ y \in Int
    BY <1>3, <1>4
  <2> HIDE DEF z, m, y
  <2>2. z % 2 = y % 2
    BY <2>1, Congruent
  <2> QED BY <2>2 DEF z
<1> QED BY <1>5

-----------------------------------------------------------------------------
devices == <<unit, vars, mbcVars, timerVars, portVars, clockVars>>

(* The safety part of the specification. *)
LEMMA Unfair == DevicesSpec => DevicesInit /\ [][DevicesNext]_devices
  BY PTL DEF DevicesSpec, devices

-----------------------------------------------------------------------------
(* The two branches of Incremented. *)
LEMMA Wrapped ==
  ASSUME NEW tima, NEW tma, NEW n, NEW x, x = tima + n - TimaCount, Timer!Overflows(tima, n)
  PROVE  Timer!Incremented(tima, tma, n) = tma + (x % (TimaCount - tma))
BY Zenon DEF Timer!Incremented

LEMMA Plain ==
  ASSUME NEW tima, NEW tma, NEW n, NEW x, x = tima + n, ~Timer!Overflows(tima, n)
  PROVE  Timer!Incremented(tima, tma, n) = x
BY Zenon DEF Timer!Incremented

LEMMA IncrementedType ==
  ASSUME NEW tima \in 0 .. TimaCount - 1, NEW tma \in 0 .. TimaCount - 1, NEW n \in Nat
  PROVE  Timer!Incremented(tima, tma, n) \in 0 .. TimaCount - 1
<1>1. TimaCount \in Nat
  BY TimerAssumptions DEF Timer!TimaAssumption
<1>2. CASE tima + n >= TimaCount
  <2>1. tima + n - TimaCount \in Int /\ TimaCount - tma \in Nat \ {0}
    BY <1>1
  <2>2. (tima + n - TimaCount) % (TimaCount - tma) \in 0 .. TimaCount - tma - 1
    BY <2>1, DivMod
  <2> QED BY <1>1, <1>2, <2>2 DEF Timer!Incremented, Timer!Overflows
<1>3. CASE ~(tima + n >= TimaCount)
  BY <1>1, <1>3 DEF Timer!Incremented, Timer!Overflows
<1> QED BY <1>2, <1>3

LEMMA IncrementedNone ==
  ASSUME NEW tima \in 0 .. TimaCount - 1, NEW tma
  PROVE  Timer!Incremented(tima, tma, 0) = tima /\ ~Timer!Overflows(tima, 0)
BY TimerAssumptions DEF Timer!TimaAssumption, Timer!Incremented, Timer!Overflows

(* Counting n and one more is counting n + 1. *)
LEMMA IncrementedNext ==
  ASSUME NEW tima \in 0 .. TimaCount - 1, NEW tma \in 0 .. TimaCount - 1, NEW n \in Nat
  PROVE  LET now == Timer!Incremented(tima, tma, n)
         IN  /\ Timer!Incremented(tima, tma, n + 1) = Timer!Incremented(now, tma, 1)
             /\ Timer!Overflows(tima, n + 1)
                  <=> Timer!Overflows(tima, n) \/ Timer!Overflows(now, 1)
<1> DEFINE now == Timer!Incremented(tima, tma, n)
           P == TimaCount - tma
           x == tima + n - TimaCount
<1>1. TimaCount \in Nat /\ P \in Nat \ {0} /\ x \in Int
  BY TimerAssumptions DEF Timer!TimaAssumption
<1>2. 0 % P = 0
  BY <1>1, Divided, 0 = P * 0 + 0, 0 \in 0 .. P - 1
<1>3. CASE x >= 0
  <2>1. now = tma + (x % P)
    BY <1>1, <1>3 DEF Timer!Incremented, Timer!Overflows
  <2>2. Timer!Incremented(tima, tma, n + 1) = tma + ((x + 1) % P)
    <3>1. (tima + (n + 1)) - TimaCount = x + 1 /\ tima + (n + 1) >= TimaCount
      BY <1>1, <1>3
    <3>2. Timer!Overflows(tima, n + 1)
      BY <3>1 DEF Timer!Overflows
    <3> DEFINE y == x + 1
               m == n + 1
    <3>3. y = tima + m - TimaCount /\ Timer!Overflows(tima, m)
      BY <1>1, <3>1, <3>2
    <3> HIDE DEF y, m, P
    <3>4. Timer!Incremented(tima, tma, m) = tma + (y % P)
      BY <3>3, Wrapped, Zenon DEF P
    <3> QED BY <3>4 DEF y, m
  <2>3. x % P \in 0 .. P - 1
    BY <1>1, DivMod
  <2>4. IF x % P = P - 1 THEN (x + 1) % P = 0 ELSE (x + 1) % P = (x % P) + 1
    BY <1>1, Stepped
  <2>5. now + 1 >= TimaCount <=> x % P = P - 1
    BY <1>1, <2>1, <2>3
  <2>6. Timer!Incremented(now, tma, 1) = tma + ((x + 1) % P)
    <3>1. CASE x % P = P - 1
      <4>1. now + 1 - TimaCount = 0
        BY <1>1, <2>1, <3>1
      <4>2. Timer!Incremented(now, tma, 1) = tma + (0 % P)
        BY <4>1, <2>5, <3>1 DEF Timer!Incremented, Timer!Overflows
      <4> QED BY <1>2, <2>4, <3>1, <4>2
    <3>2. CASE x % P # P - 1
      <4>1. Timer!Incremented(now, tma, 1) = now + 1
        BY <2>5, <3>2 DEF Timer!Incremented, Timer!Overflows
      <4> QED BY <1>1, <2>1, <2>3, <2>4, <3>2, <4>1
    <3> QED BY <3>1, <3>2
  <2>7. Timer!Overflows(tima, n + 1) /\ Timer!Overflows(tima, n)
    BY <1>1, <1>3 DEF Timer!Overflows
  <2> QED BY <2>2, <2>6, <2>7
<1>4. CASE ~(x >= 0)
  <2>1. now = tima + n /\ ~Timer!Overflows(tima, n)
    BY <1>1, <1>4 DEF Timer!Incremented, Timer!Overflows
  <2>2. tima + (n + 1) = now + 1
    BY <1>1, <2>1
  <2>3. Timer!Overflows(tima, n + 1) <=> Timer!Overflows(now, 1)
    BY <2>2 DEF Timer!Overflows
  <2>4. Timer!Incremented(tima, tma, n + 1) = Timer!Incremented(now, tma, 1)
    <3> DEFINE m == n + 1
               y == now + 1 - TimaCount
               z == now + 1
    <3>1. y = tima + m - TimaCount /\ z = tima + m
      BY <1>1, <2>1, <2>2
    <3>2. Timer!Overflows(tima, m) <=> Timer!Overflows(now, 1)
      BY <2>3
    <3>3. CASE Timer!Overflows(now, 1)
      <4>1. Timer!Incremented(now, tma, 1) = tma + (y % P)
        BY <3>3, Wrapped, Zenon
      <4> HIDE DEF y, m, P
      <4>2. Timer!Incremented(tima, tma, m) = tma + (y % P)
        BY <3>1, <3>2, <3>3, Wrapped, Zenon DEF P
      <4> QED BY <4>1, <4>2 DEF m
    <3>4. CASE ~Timer!Overflows(now, 1)
      <4>1. Timer!Incremented(now, tma, 1) = z
        BY <3>4, Plain, Zenon
      <4> HIDE DEF z, m
      <4>2. Timer!Incremented(tima, tma, m) = z
        BY <3>1, <3>2, <3>4, Plain, Zenon
      <4> QED BY <4>1, <4>2 DEF m
    <3> QED BY <3>3, <3>4
  <2> QED BY <2>1, <2>3, <2>4
<1> QED BY <1>1, <1>3, <1>4

(* An update finds no more cycles than an instruction has, and after it there  *)
(* are none to count.                                                         *)
TimersInv ==
  /\ Timer!TypeOK
  /\ Timer!dt <= MaxInstruction
  /\ stage = "fetch" => Timer!dt = 0

LEMMA TimerConstants ==
  /\ CycleCount \in Nat \ {0} /\ DivStep \in Nat \ {0} /\ DivCount \in Nat \ {0}
  /\ TimaCount \in Nat \ {0} /\ MaxInstruction \in 1 .. CycleCount - 1
  /\ TacValues \subseteq Nat /\ TmaValues \subseteq 0 .. TimaCount - 1
  /\ \A tac \in DOMAIN Period : Period[tac] \in Nat \ {0}
<1>1. DivStep \in Nat \ {0} /\ DivCount \in Nat \ {0} /\ TimaCount \in Nat \ {0}
  BY TimerAssumptions DEF Timer!TimaAssumption, Timer!CounterAssumption
<1>2. CycleCount \in Nat \ {0}
  <2>1. PICK k \in 1 .. CycleCount : CycleCount = k * DivStep * DivCount
    BY TimerAssumptions DEF Timer!CounterAssumption
  <2>2. k \in Nat \ {0}
    OBVIOUS
  <2>3. k * DivStep \in Nat
    BY <1>1, <2>2
  <2>4. k * DivStep * DivCount \in Nat
    BY <1>1, <2>3
  <2> QED BY <2>1, <2>2, <2>4
<1> QED BY <1>1, <1>2, TimerAssumptions DEF Timer!ProgramAssumption, Timer!PeriodAssumption

LEMMA DtType == Timer!TypeOK => Timer!dt \in 0 .. CycleCount - 1
<1> SUFFICES ASSUME Timer!TypeOK PROVE Timer!dt \in 0 .. CycleCount - 1
  OBVIOUS
<1>1. clock - lastCycle + CycleCount \in Int
  BY TimerConstants DEF Timer!TypeOK
<1> QED BY <1>1, TimerConstants, DivMod DEF Timer!dt

LEMMA DivNowType == Timer!TypeOK => Timer!divNow \in 0 .. DivCount - 1
<1> SUFFICES ASSUME Timer!TypeOK PROVE Timer!divNow \in 0 .. DivCount - 1
  OBVIOUS
<1>1. clock \div DivStep \in Int
  BY TimerConstants, DivMod DEF Timer!TypeOK
<1> QED BY <1>1, TimerConstants, DivMod DEF Timer!divNow

(* What updateTimers leaves of the count is its remainder. *)
Counts ==
  /\ Timer!count \in Nat
  /\ Timer!counted \in Nat
  /\ Timer!Enabled => /\ Timer!counted = Timer!count \div Period[TAC]
                      /\ Timer!updated.tCycleCount = Timer!count % Period[TAC]
                      /\ Timer!updated.tCycleCount \in 0 .. Period[TAC] - 1
  /\ ~Timer!Enabled => /\ Timer!counted = 0
                       /\ Timer!updated.tCycleCount = Timer!count
  /\ Timer!updated.TIMA = Timer!Incremented(TIMA, TMA, Timer!counted)
  /\ Timer!updated.TIMA \in 0 .. TimaCount - 1
  /\ Timer!updated.requested = (requested \/ Timer!Overflows(TIMA, Timer!counted))
  /\ Timer!updated.requested \in BOOLEAN

LEMMA UpdatedCounts == Timer!TypeOK => Counts
<1> SUFFICES ASSUME Timer!TypeOK PROVE Counts
  OBVIOUS
<1>1. Timer!count \in Nat
  BY DtType, TimerConstants DEF Timer!count, Timer!TypeOK
<1>2. /\ Timer!updated.TIMA = Timer!Incremented(TIMA, TMA, Timer!counted)
      /\ Timer!updated.requested = (requested \/ Timer!Overflows(TIMA, Timer!counted))
      /\ Timer!updated.requested \in BOOLEAN
  BY DEF Timer!updated, Timer!TypeOK
<1>3. /\ Timer!counted \in Nat
      /\ Timer!Enabled => /\ Timer!counted = Timer!count \div Period[TAC]
                          /\ Timer!updated.tCycleCount = Timer!count % Period[TAC]
                          /\ Timer!updated.tCycleCount \in 0 .. Period[TAC] - 1
      /\ ~Timer!Enabled => /\ Timer!counted = 0
                           /\ Timer!updated.tCycleCount = Timer!count
  <2>1. CASE Timer!Enabled
    <3> DEFINE P == Period[TAC]
               c == Timer!count
    <3>1. P \in Nat \ {0} /\ c \in Nat /\ c \in Int
      BY <1>1, <2>1, TimerConstants DEF Timer!Enabled
    <3>2. Timer!counted = c \div P
      BY <2>1 DEF Timer!counted, Timer!Periods
    <3>3. Timer!updated.tCycleCount = c - Timer!counted * P
      BY <2>1 DEF Timer!updated
    <3> HIDE DEF P, c
    <3>4. c \div P \in Nat /\ c % P \in 0 .. P - 1 /\ c = P * (c \div P) + (c % P)
      BY <3>1, DivMod
    <3>5. c - Timer!counted * P = c % P
      BY <3>1, <3>2, <3>4
    <3> QED BY <2>1, <3>2, <3>3, <3>4, <3>5 DEF P, c
  <2>2. CASE ~Timer!Enabled
    BY <1>1, <2>2 DEF Timer!updated, Timer!counted
  <2> QED BY <2>1, <2>2
<1>4. Timer!updated.TIMA \in 0 .. TimaCount - 1
  BY <1>2, <1>3, IncrementedType DEF Timer!TypeOK
<1> QED BY <1>1, <1>2, <1>3, <1>4, Zenon DEF Counts

LEMMA CountsNext == Timer!TypeOK' => Counts'
  BY UpdatedCounts, PTL

(* Both timers count with the operators of TimaCounter. *)
LEMMA SameCounter ==
  ASSUME NEW n
  PROVE  Timer!Eager!Count(n) <=>
           /\ Timer!updated.TIMA' = Timer!Incremented(Timer!updated.TIMA, TMA, n)
           /\ Timer!updated.requested' =
                (Timer!updated.requested \/ Timer!Overflows(Timer!updated.TIMA, n))
BY Zenon DEF Timer!Eager!Count, Timer!Eager!Incremented, Timer!Eager!Overflows, Timer!Incremented,
             Timer!Overflows

(* One cycle that is left to count is one cycle that an eager timer counts. *)
LEMMA CycleIsEager ==
  ASSUME TimersInv, Timer!TypeOK', Timer!dt < MaxInstruction,
         clock' = (clock + 1) % CycleCount,
         UNCHANGED <<lastCycle, tCycleCount, DIV, TIMA, TMA, TAC, requested>>
  PROVE  Timer!dt' = Timer!dt + 1 /\ Timer!Eager!Cycle
<1> DEFINE P == Period[TAC]
           c == Timer!count
           n == Timer!counted
<1>1. Timer!dt' = Timer!dt + 1
  BY TimerConstants, Elapsed, DtType DEF TimersInv, Timer!TypeOK, Timer!dt
<1>2. Counts /\ Counts'
  BY UpdatedCounts, CountsNext DEF TimersInv
<1>3. c' = c + 1 /\ c \in Nat /\ (Timer!Enabled <=> Timer!Enabled')
  BY <1>1, <1>2, TimerConstants, DtType DEF TimersInv, Timer!TypeOK, Timer!count, Timer!Enabled, Counts
<1>4. Timer!divNow' = (clock' \div DivStep) % DivCount
  BY DEF Timer!divNow
<1>5. IF Timer!Eager!Enabled /\ Timer!updated.tCycleCount + 1 = P
      THEN Timer!updated.tCycleCount' = 0 /\ n' = n + 1
      ELSE Timer!updated.tCycleCount' = Timer!updated.tCycleCount + 1 /\ n' = n
  <2>1. CASE Timer!Enabled
    <3>1. P \in Nat \ {0} /\ P' = P
      BY <2>1, TimerConstants DEF Timer!Enabled
    <3>2. IF c % P = P - 1 THEN c' % P = 0 /\ c' \div P = c \div P + 1
                           ELSE c' % P = (c % P) + 1 /\ c' \div P = c \div P
      <4> HIDE DEF P, c
      <4> QED BY <1>3, <3>1, Stepped, c \in Int
    <3>3. /\ n = c \div P /\ Timer!updated.tCycleCount = c % P /\ c % P \in 0 .. P - 1
          /\ n' = c' \div P' /\ Timer!updated.tCycleCount' = c' % P'
      BY <1>2, <1>3, <2>1 DEF Counts
    <3>4. c % P = P - 1 <=> Timer!updated.tCycleCount + 1 = P
      BY <3>1, <3>3
    <3> HIDE DEF P, c, n
    <3> QED BY <2>1, <3>1, <3>2, <3>3, <3>4 DEF Timer!Eager!Enabled, Timer!Enabled
  <2>2. CASE ~Timer!Enabled
    BY <1>2, <1>3, <2>2 DEF Counts, Timer!Eager!Enabled, Timer!Enabled
  <2> QED BY <2>1, <2>2
<1>6. /\ n' = n + 1 => Timer!Eager!Count(1)
      /\ n' = n => Timer!Eager!Count(0)
  <2>1. /\ Timer!updated.TIMA' = Timer!Incremented(TIMA, TMA, n')
        /\ Timer!updated.requested' = (requested \/ Timer!Overflows(TIMA, n'))
    BY <1>2 DEF Counts
  <2>2. /\ Timer!updated.TIMA = Timer!Incremented(TIMA, TMA, n)
        /\ Timer!updated.requested = (requested \/ Timer!Overflows(TIMA, n))
        /\ n \in Nat /\ TIMA \in 0 .. TimaCount - 1 /\ TMA \in 0 .. TimaCount - 1
        /\ Timer!updated.TIMA \in 0 .. TimaCount - 1
    BY <1>2 DEF Counts, TimersInv, Timer!TypeOK
  <2>3. ASSUME n' = n + 1 PROVE Timer!Eager!Count(1)
    <3>1. /\ Timer!Incremented(TIMA, TMA, n + 1) = Timer!Incremented(Timer!updated.TIMA, TMA, 1)
          /\ Timer!Overflows(TIMA, n + 1)
               <=> Timer!Overflows(TIMA, n) \/ Timer!Overflows(Timer!updated.TIMA, 1)
      BY <2>2, IncrementedNext
    <3>2. /\ Timer!updated.TIMA' = Timer!Incremented(TIMA, TMA, n + 1)
          /\ Timer!updated.requested' = (requested \/ Timer!Overflows(TIMA, n + 1))
      BY <2>1, <2>3
    <3>3. Timer!updated.requested'
            = (Timer!updated.requested \/ Timer!Overflows(Timer!updated.TIMA, 1))
      BY <2>2, <3>1, <3>2
    <3> QED BY <3>1, <3>2, <3>3, SameCounter
  <2>4. ASSUME n' = n PROVE Timer!Eager!Count(0)
    BY <2>1, <2>2, <2>4, IncrementedNone, SameCounter
  <2> QED BY <2>3, <2>4
<1>7. UNCHANGED <<TMA, TAC>>
  OBVIOUS
<1> QED BY <1>1, <1>4, <1>5, <1>6, <1>7 DEF Timer!Eager!Cycle

(* An update leaves nothing to count. *)
LEMMA Settled ==
  ASSUME TimersInv, Timer!TypeOK', Timer!updateTimers, UNCHANGED <<clock, TMA, TAC>>
  PROVE  /\ Timer!dt' = 0
         /\ Timer!updated.tCycleCount' = Timer!updated.tCycleCount
         /\ Timer!updated.TIMA' = TIMA' /\ Timer!updated.requested' = requested'
         /\ UNCHANGED Timer!Eager!counters
<1> DEFINE P == Period[TAC]
           sub == Timer!updated.tCycleCount
<1>1. Counts /\ Counts'
  BY UpdatedCounts, CountsNext DEF TimersInv
<1>2. Timer!dt' = 0
  <2>1. (clock' - lastCycle' + CycleCount) % CycleCount = 0
    BY TimerConstants, Distance DEF Timer!updateTimers, TimersInv, Timer!TypeOK
  <2> QED BY <2>1 DEF Timer!dt
<1>3. Timer!count' = sub /\ sub \in Nat
  BY <1>1, <1>2 DEF Timer!updateTimers, Timer!count, Timer!TypeOK
<1>4. Timer!Enabled <=> Timer!Enabled'
  BY DEF Timer!Enabled
<1>5. Timer!counted' = 0 /\ Timer!updated.tCycleCount' = sub
  <2>1. CASE Timer!Enabled
    <3>1. P \in Nat \ {0} /\ P' = P /\ sub \in 0 .. P - 1
      BY <1>1, <2>1, TimerConstants DEF Timer!Enabled, Counts
    <3>2. /\ Timer!counted' = Timer!count' \div P'
          /\ Timer!updated.tCycleCount' = Timer!count' % P'
      BY <1>1, <1>4, <2>1 DEF Counts
    <3>3. sub \div P = 0 /\ sub % P = sub
      <4> HIDE DEF P, sub
      <4> QED BY <1>3, <3>1, Divided, sub = P * 0 + sub, sub \in Int, 0 \in Int
    <3> QED BY <1>3, <3>1, <3>2, <3>3
  <2>2. CASE ~Timer!Enabled
    BY <1>1, <1>3, <1>4, <2>2 DEF Counts
  <2> QED BY <2>1, <2>2
<1>6. Timer!updated.TIMA' = TIMA' /\ Timer!updated.requested' = requested'
  <2>1. TIMA' \in 0 .. TimaCount - 1 /\ requested' \in BOOLEAN
    BY DEF Timer!TypeOK
  <2>2. /\ Timer!updated.TIMA' = Timer!Incremented(TIMA', TMA', 0)
        /\ Timer!updated.requested' = (requested' \/ Timer!Overflows(TIMA', 0))
    BY <1>1, <1>5 DEF Counts
  <2>3. Timer!Incremented(TIMA', TMA', 0) = TIMA' /\ ~Timer!Overflows(TIMA', 0)
    BY <2>1, IncrementedNone
  <2> QED BY <2>1, <2>2, <2>3, Zenon
<1>7. UNCHANGED Timer!Eager!counters
  BY DEF Timer!Eager!counters, Timer!divNow
<1> QED BY <1>2, <1>5, <1>6, <1>7

(* A write to a register while the timer is stopped. *)
LEMMA Stopped ==
  ASSUME TimersInv, Timer!TypeOK', ~Timer!Enabled, UNCHANGED <<clock, lastCycle, tCycleCount>>
  PROVE  /\ Timer!updated.tCycleCount = Timer!count
         /\ Timer!updated.TIMA = TIMA /\ Timer!updated.requested = requested
         /\ UNCHANGED <<Timer!Eager!counters, Timer!dt, Timer!count>>
<1>1. Counts
  BY UpdatedCounts DEF TimersInv
<1>2. TIMA \in 0 .. TimaCount - 1 /\ requested \in BOOLEAN
  BY DEF TimersInv, Timer!TypeOK
<1>3. /\ Timer!updated.tCycleCount = Timer!count
      /\ Timer!updated.TIMA = Timer!Incremented(TIMA, TMA, 0)
      /\ Timer!updated.requested = (requested \/ Timer!Overflows(TIMA, 0))
  BY <1>1 DEF Counts
<1>4. UNCHANGED <<Timer!Eager!counters, Timer!dt, Timer!count>>
  BY DEF Timer!Eager!counters, Timer!divNow, Timer!dt, Timer!count
<1> QED BY <1>2, <1>3, <1>4, IncrementedNone, Zenon

LEMMA StoppedNext ==
  ASSUME TimersInv, Timer!TypeOK', ~Timer!Enabled, ~Timer!Enabled',
         UNCHANGED <<clock, lastCycle, tCycleCount>>
  PROVE  /\ UNCHANGED Timer!updated.tCycleCount
         /\ Timer!updated.TIMA' = TIMA' /\ Timer!updated.requested' = requested'
<1>1. Counts /\ Counts'
  BY UpdatedCounts, CountsNext DEF TimersInv
<1>2. TIMA' \in 0 .. TimaCount - 1 /\ requested' \in BOOLEAN
  BY DEF Timer!TypeOK
<1>3. /\ Timer!updated.tCycleCount' = Timer!count'
      /\ Timer!updated.TIMA' = Timer!Incremented(TIMA', TMA', 0)
      /\ Timer!updated.requested' = (requested' \/ Timer!Overflows(TIMA', 0))
  BY <1>1 DEF Counts
<1>4. UNCHANGED Timer!updated.tCycleCount
  BY <1>3, Stopped
<1> QED BY <1>2, <1>3, <1>4, IncrementedNone, Zenon

LEMMA TimersInit == DevicesInit => TimersInv
<1> SUFFICES ASSUME Timer!Init PROVE TimersInv
  BY DEF DevicesInit
<1>1. Timer!TypeOK
  <2>1. 0 \in 0 .. CycleCount - 1 /\ 0 \in 0 .. DivCount - 1 /\ 0 \in 0 .. TimaCount - 1
    BY TimerConstants
  <2> QED BY <2>1 DEF Timer!Init, Timer!TypeOK
<1>2. Timer!dt = 0
  <2>1. (0 - 0 + CycleCount) % CycleCount = 0
    BY TimerConstants, Distance
  <2> QED BY <2>1 DEF Timer!Init, Timer!dt
<1> QED BY <1>1, <1>2, TimerConstants DEF TimersInv

LEMMA TimersTypes == Timer!TypeOK /\ Timer!Next => Timer!TypeOK'
<1> SUFFICES ASSUME Timer!TypeOK, Timer!Next PROVE Timer!TypeOK'
  OBVIOUS
<1> USE DEF Timer!TypeOK
<1>1. Counts /\ Timer!divNow \in 0 .. DivCount - 1 /\ Timer!updated.tCycleCount \in Nat
  <2>1. Counts
    BY UpdatedCounts
  <2>2. Timer!updated.tCycleCount \in Nat
    BY <2>1 DEF Counts
  <2> QED BY <2>1, <2>2, DivNowType
<1>2. (clock + 1) % CycleCount \in 0 .. CycleCount - 1
  BY TimerConstants, DivMod
<1>3. Timer!updateTimers => /\ lastCycle' \in 0 .. CycleCount - 1 /\ tCycleCount' \in Nat
                            /\ DIV' \in 0 .. DivCount - 1
  BY <1>1 DEF Timer!updateTimers
<1>4. ASSUME Timer!Update PROVE Timer!TypeOK'
  BY <1>1, <1>3, <1>4 DEF Timer!Update, Counts
<1>5. ASSUME Timer!HaltedCycle \/ Timer!Fetch \/ Timer!Cycle PROVE Timer!TypeOK'
  BY <1>2, <1>5 DEF Timer!HaltedCycle, Timer!Advance, Timer!Fetch, Timer!Cycle, Timer!registers
<1>6. ASSUME Timer!EndInstruction PROVE Timer!TypeOK'
  <2>1. halt' \in BOOLEAN
    <3>1. Timer!Enabled \in BOOLEAN
      BY DEF Timer!Enabled
    <3>2. halt' \in {FALSE, Timer!Enabled}
      BY <1>6 DEF Timer!EndInstruction
    <3> QED BY <3>1, <3>2
  <2>2. /\ UNCHANGED <<clock, lastCycle, tCycleCount, DIV, TIMA, TMA, TAC, requested>>
        /\ stage' = "update"
    BY <1>6 DEF Timer!EndInstruction, Timer!registers
  <2> QED BY <2>1, <2>2
<1>7. ASSUME Timer!ReadTimer PROVE Timer!TypeOK'
  BY <1>1, <1>3, <1>7 DEF Timer!ReadTimer, Timer!InInstruction, Counts
<1>8. ASSUME NEW value \in TmaValues, Timer!WriteTima(value) PROVE Timer!TypeOK'
  BY <1>1, <1>3, <1>8, TimerConstants DEF Timer!WriteTima, Timer!InInstruction, Counts
<1>9. ASSUME NEW value \in TmaValues, Timer!WriteTma(value) PROVE Timer!TypeOK'
  BY <1>9, TimerConstants DEF Timer!WriteTma, Timer!InInstruction
<1>10. ASSUME NEW value \in TacValues, Timer!WriteTac(value) PROVE Timer!TypeOK'
  BY <1>10, TimerConstants DEF Timer!WriteTac, Timer!InInstruction
<1>11. ASSUME NEW value \in BOOLEAN, Timer!WriteFlag(value) PROVE Timer!TypeOK'
  BY <1>11 DEF Timer!WriteFlag, Timer!InInstruction
<1> QED BY <1>4, <1>5, <1>6, <1>7, <1>8, <1>9, <1>10, <1>11 DEF Timer!Next

LEMMA TimersInvNext == TimersInv /\ [Timer!Next]_Timer!vars => TimersInv'
<1> SUFFICES ASSUME TimersInv, [Timer!Next]_Timer!vars PROVE TimersInv'
  OBVIOUS
<1> USE DEF TimersInv
<1>1. Timer!TypeOK'
  BY TimersTypes DEF Timer!vars, Timer!registers, Timer!TypeOK
<1>2. Timer!dt \in Nat /\ MaxInstruction \in Nat \ {0}
  BY DtType, TimerConstants
<1>3. ASSUME Timer!Update PROVE TimersInv'
  BY <1>1, <1>2, <1>3, Settled DEF Timer!Update
<1>4. ASSUME Timer!HaltedCycle \/ Timer!Fetch PROVE TimersInv'
  BY <1>1, <1>2, <1>4, CycleIsEager
     DEF Timer!HaltedCycle, Timer!Fetch, Timer!Advance, Timer!registers
<1>5. ASSUME Timer!Cycle PROVE TimersInv'
  BY <1>1, <1>2, <1>5, CycleIsEager DEF Timer!Cycle, Timer!registers
<1>6. ASSUME Timer!EndInstruction PROVE TimersInv'
  BY <1>1, <1>6 DEF Timer!EndInstruction, Timer!dt
<1>7. ASSUME Timer!ReadTimer \/ \E value \in TmaValues : Timer!WriteTima(value) PROVE TimersInv'
  BY <1>1, <1>2, <1>7, Settled DEF Timer!ReadTimer, Timer!WriteTima, Timer!InInstruction
<1>8. ASSUME \/ \E value \in TmaValues : Timer!WriteTma(value)
             \/ \E value \in TacValues : Timer!WriteTac(value)
             \/ \E value \in BOOLEAN : Timer!WriteFlag(value)
      PROVE TimersInv'
  BY <1>1, <1>8
     DEF Timer!WriteTma, Timer!WriteTac, Timer!WriteFlag, Timer!InInstruction, Timer!dt
<1>9. ASSUME UNCHANGED Timer!vars PROVE TimersInv'
  BY <1>1, <1>9 DEF Timer!vars, Timer!dt
<1> QED BY <1>3, <1>4, <1>5, <1>6, <1>7, <1>8, <1>9 DEF Timer!Next

(* The step of the eager timers that each step of the lazy ones is.             *)
LEMMA LazyStep ==
  ASSUME TimersInv, TimersInv', [Timer!Next]_Timer!vars, ~reconfigured'
  PROVE  Timer!Eager!Step
<1> DEFINE sub == Timer!updated.tCycleCount
           stutter == UNCHANGED <<Timer!Eager!counters, sub, Timer!updated.TIMA, TMA, TAC,
                                  Timer!updated.requested>>
<1>1. Timer!TypeOK /\ Timer!TypeOK' /\ Timer!dt \in Nat /\ MaxInstruction \in Nat \ {0}
  BY DtType, TimerConstants DEF TimersInv
<1>2. stutter => Timer!Eager!Step
  BY DEF Timer!Eager!Step
<1>3. Timer!Eager!Next => Timer!Eager!Step
  BY DEF Timer!Eager!Step
<1>4. ASSUME Timer!Update PROVE Timer!Eager!Step
  <2>1. /\ UNCHANGED <<sub, Timer!Eager!counters, TMA, TAC>>
        /\ Timer!updated.TIMA' = Timer!updated.TIMA /\ Timer!updated.requested' = requested'
    BY <1>1, <1>4, Settled DEF Timer!Update
  <2>2. CASE requested' = Timer!updated.requested
    <3>1. stutter
      BY <2>1, <2>2
    <3> QED BY <1>2, <3>1
  <2>3. CASE requested' = FALSE
    <3>1. Timer!Eager!Acknowledge
      BY <2>1, <2>3 DEF Timer!Eager!Acknowledge
    <3> QED BY <1>3, <3>1 DEF Timer!Eager!Next
  <2> QED BY <1>4, <2>2, <2>3 DEF Timer!Update
<1>5. ASSUME Timer!HaltedCycle \/ Timer!Fetch \/ Timer!Cycle PROVE Timer!Eager!Step
  <2>1. /\ Timer!dt < MaxInstruction /\ clock' = (clock + 1) % CycleCount
        /\ UNCHANGED <<lastCycle, tCycleCount, DIV, TIMA, TMA, TAC, requested>>
    BY <1>1, <1>5
       DEF TimersInv, Timer!HaltedCycle, Timer!Fetch, Timer!Cycle, Timer!Advance, Timer!registers
  <2>2. Timer!Eager!Cycle
    BY <1>1, <2>1, CycleIsEager
  <2> QED BY <1>3, <2>2 DEF Timer!Eager!Next
<1>6. ASSUME Timer!EndInstruction \/ UNCHANGED Timer!vars PROVE Timer!Eager!Step
  <2>1. UNCHANGED <<clock, lastCycle, tCycleCount, DIV, TIMA, TMA, TAC, requested>>
    BY <1>6 DEF Timer!EndInstruction, Timer!vars, Timer!registers
  <2>2. stutter
    BY <2>1 DEF Timer!Eager!counters, Timer!divNow, Timer!updated, Timer!counted, Timer!count,
                Timer!dt, Timer!Enabled, Timer!Periods, Timer!Incremented, Timer!Overflows
  <2> QED BY <1>2, <2>2
<1>7. ASSUME Timer!ReadTimer PROVE Timer!Eager!Step
  <2>1. stutter
    BY <1>1, <1>7, Settled DEF Timer!ReadTimer, Timer!InInstruction
  <2> QED BY <1>2, <2>1
<1>8. ASSUME NEW value \in TmaValues, Timer!WriteTima(value) PROVE Timer!Eager!Step
  <2>1. Timer!Eager!WriteTima(value)
    BY <1>1, <1>8, Settled DEF Timer!WriteTima, Timer!InInstruction, Timer!Eager!WriteTima
  <2> QED BY <1>3, <2>1, TimerConstants DEF Timer!Eager!Next
<1>9. ASSUME NEW value \in TmaValues, Timer!WriteTma(value) PROVE Timer!Eager!Step
  <2>1. ~Timer!Enabled /\ ~Timer!Enabled' /\ ~Timer!Eager!Enabled
    BY <1>9 DEF Timer!WriteTma, Timer!Configure, Timer!Enabled, Timer!Eager!Enabled
  <2>2. /\ UNCHANGED <<clock, lastCycle, tCycleCount, DIV, TIMA, TAC, requested>>
        /\ TMA' = value
    BY <1>9 DEF Timer!WriteTma, Timer!InInstruction
  <2>3. /\ UNCHANGED <<Timer!Eager!counters, sub>>
        /\ Timer!updated.TIMA = TIMA /\ Timer!updated.requested = requested
        /\ Timer!updated.TIMA' = TIMA' /\ Timer!updated.requested' = requested'
    BY <1>1, <2>1, <2>2, Stopped, StoppedNext
  <2>4. Timer!Eager!WriteTma(value)
    BY <2>1, <2>2, <2>3 DEF Timer!Eager!WriteTma
  <2> QED BY <1>3, <2>4, TimerConstants DEF Timer!Eager!Next
<1>10. ASSUME NEW value \in TacValues, Timer!WriteTac(value) PROVE Timer!Eager!Step
  <2>1. ~Timer!Enabled /\ ~Timer!Eager!Enabled
    BY <1>10 DEF Timer!WriteTac, Timer!Configure, Timer!Enabled, Timer!Eager!Enabled
  <2>2. /\ UNCHANGED <<clock, lastCycle, tCycleCount, DIV, TIMA, TMA, requested>>
        /\ TAC' = value
    BY <1>10 DEF Timer!WriteTac, Timer!InInstruction
  <2>3. /\ UNCHANGED <<Timer!Eager!counters, Timer!count>>
        /\ sub = Timer!count
        /\ Timer!updated.TIMA = TIMA /\ Timer!updated.requested = requested
    BY <1>1, <2>1, <2>2, Stopped
  <2>4. Timer!Eager!WriteTac(value)
    <3>1. CASE value \in DOMAIN Period
      <4>1. Counts'
        BY <1>1, CountsNext
      <4>2. Timer!Enabled' /\ Period[TAC]' = Period[value]
        BY <2>2, <3>1 DEF Timer!Enabled
      <4>3. sub' = sub % Period[value] /\ Timer!counted' = sub \div Period[value]
        BY <2>2, <2>3, <4>1, <4>2 DEF Counts
      <4>4. Timer!Eager!Count(sub \div Period[value])
        BY <2>2, <2>3, <4>1, <4>3, SameCounter DEF Counts
      <4> QED BY <2>1, <2>2, <2>3, <3>1, <4>3, <4>4 DEF Timer!Eager!WriteTac
    <3>2. CASE value \notin DOMAIN Period
      <4>1. ~Timer!Enabled'
        BY <2>2, <3>2 DEF Timer!Enabled
      <4>2. UNCHANGED <<sub, Timer!updated.TIMA, Timer!updated.requested>>
        BY <1>1, <2>1, <2>2, <2>3, <4>1, StoppedNext
      <4> QED BY <2>1, <2>2, <2>3, <3>2, <4>2 DEF Timer!Eager!WriteTac
    <3> QED BY <3>1, <3>2
  <2> QED BY <1>3, <2>4 DEF Timer!Eager!Next
<1>11. ASSUME NEW value \in BOOLEAN, Timer!WriteFlag(value) PROVE Timer!Eager!Step
  <2>1. ~Timer!Enabled /\ ~Timer!Enabled' /\ ~Timer!Eager!Enabled
    BY <1>11 DEF Timer!WriteFlag, Timer!Configure, Timer!Enabled, Timer!Eager!Enabled
  <2>2. /\ UNCHANGED <<clock, lastCycle, tCycleCount, DIV, TIMA, TMA, TAC>>
        /\ requested' = value
    BY <1>11 DEF Timer!WriteFlag, Timer!InInstruction
  <2>3. /\ UNCHANGED <<Timer!Eager!counters, sub>>
        /\ Timer!updated.TIMA = TIMA
        /\ Timer!updated.TIMA' = TIMA' /\ Timer!updated.requested' = requested'
    BY <1>1, <2>1, <2>2, Stopped, StoppedNext
  <2>4. Timer!Eager!WriteFlag(value)
    BY <2>1, <2>2, <2>3 DEF Timer!Eager!WriteFlag
  <2> QED BY <1>3, <2>4 DEF Timer!Eager!Next
<1> QED BY <1>4, <1>5, <1>6, <1>7, <1>8, <1>9, <1>10, <1>11 DEF Timer!Next

LEMMA TimersMap == DevicesInit => Timer!Eager!Init
<1> SUFFICES ASSUME DevicesInit PROVE Timer!Eager!Init
  OBVIOUS
<1>1. TimersInv /\ Timer!Init
  BY TimersInit DEF DevicesInit
<1>2. Counts
  BY <1>1, UpdatedCounts DEF TimersInv
<1>3. TAC \notin DOMAIN Period
  BY <1>1, TimerAssumptions DEF Timer!PeriodAssumption, Timer!Init
<1>4. Timer!dt = 0
  <2>1. (0 - 0 + CycleCount) % CycleCount = 0
    BY TimerConstants, Distance
  <2> QED BY <1>1, <2>1 DEF Timer!Init, Timer!dt
<1>5. Timer!updated.tCycleCount = 0 /\ Timer!counted = 0
  BY <1>1, <1>2, <1>3, <1>4 DEF Counts, Timer!Enabled, Timer!count, Timer!Init
<1>6. Timer!updated.TIMA = 0 /\ Timer!updated.requested = FALSE
  <2>1. TIMA \in 0 .. TimaCount - 1 /\ TIMA = 0 /\ requested = FALSE
    BY <1>1 DEF TimersInv, Timer!TypeOK, Timer!Init
  <2>2. Timer!Incremented(TIMA, TMA, 0) = TIMA /\ ~Timer!Overflows(TIMA, 0)
    BY <2>1, IncrementedNone
  <2> QED BY <1>2, <1>5, <2>1, <2>2 DEF Counts
<1>7. Timer!divNow = 0
  <2>1. 0 \div DivStep = 0 /\ 0 % DivCount = 0
    BY TimerConstants, Divided, 0 = DivStep * 0 + 0, 0 = DivCount * 0 + 0,
       0 \in 0 .. DivStep - 1, 0 \in 0 .. DivCount - 1
  <2> QED BY <1>1, <2>1 DEF Timer!divNow, Timer!Init
<1> QED BY <1>1, <1>3, <1>5, <1>6, <1>7 DEF Timer!Eager!Init, Timer!Init

LEMMA TimersMove == DevicesNext \/ UNCHANGED devices => [Timer!Next]_Timer!vars
  BY DEF DevicesNext, devices, timerVars, Timer!vars, Timer!registers

(* A program that sets the timers up while they are stopped cannot tell them from *)
(* timers that count every cycle: LazyIsEager, for every period, every size of *)
(* the counters and every length of instructions (updateTimers, reduceTimer).   *)
THEOREM TimersAreEager == DevicesSpec => LazyIsEager
<1>1. TimersInv /\ [DevicesNext]_devices => TimersInv'
  BY TimersMove, TimersInvNext
<1>2. TimersInv /\ TimersInv' /\ [DevicesNext]_devices => [~reconfigured' => Timer!Eager!Step]_Timer!vars
  BY TimersMove, LazyStep
<1>3. DevicesInit => TimersInv /\ Timer!Eager!Init
  BY TimersInit, TimersMap
<1> QED BY <1>1, <1>2, <1>3, Unfair, PTL DEF LazyIsEager, Timer!LazyIsEager

-----------------------------------------------------------------------------
HalfPeriod == DivStep * Half
HalfPeriods(c) == c \div HalfPeriod
DivOf(c) == (c \div DivStep) % DivCount
EventsOf(c) == (c \div Clock!Interval) % EventCount

LEMMA ClockConstants ==
  /\ ClockCount \in Nat \ {0} /\ DivStep \in Nat \ {0} /\ DivCount \in Nat \ {0}
  /\ Half \in Nat \ {0} /\ EventCount \in Nat \ {0, 1} /\ DivCount % (2 * Half) = 0
  /\ HalfPeriod \in Nat \ {0} /\ MaxUpdate \in 1 .. HalfPeriod - 1
  /\ Clock!Interval = HalfPeriod * 2
<1>1. /\ ClockCount \in Nat \ {0} /\ DivStep \in Nat \ {0} /\ DivCount \in Nat \ {0}
      /\ Half \in Nat \ {0} /\ EventCount \in Nat \ {0, 1} /\ DivCount % (2 * Half) = 0
  BY ClockAssumptions DEF Clock!DivAssumption
<1>2. Half * DivStep = HalfPeriod /\ HalfPeriod \in Nat \ {0}
  BY <1>1 DEF HalfPeriod
<1>3. MaxUpdate \in 1 .. (Half * DivStep) - 1
  BY ClockAssumptions DEF Clock!InstructionAssumption
<1>4. (2 * Half) * DivStep = HalfPeriod * 2
  BY <1>1 DEF HalfPeriod
<1> QED BY <1>1, <1>2, <1>3, <1>4 DEF Clock!Interval

(* All counts fit into the clocks a whole number of times. *)
LEMMA ClockIsPeriods ==
  \E k \in Nat \ {0} : ClockCount = HalfPeriod * (2 * (EventCount * k))
<1> DEFINE d == Clock!Interval * EventCount
           k == ClockCount \div d
<1>1. ClockCount % d = 0 /\ d \in Nat \ {0}
  <2>1. HalfPeriod * 2 \in Nat \ {0}
    BY ClockConstants
  <2>2. (HalfPeriod * 2) * EventCount \in Nat \ {0}
    BY <2>1, ClockConstants
  <2> QED BY <2>2, ClockConstants, ClockAssumptions DEF Clock!DivAssumption
<1>2. k \in Nat /\ ClockCount = d * k
  <2> HIDE DEF d
  <2>1. ClockCount \in Int /\ ClockCount \in Nat
    BY ClockConstants
  <2>2. k \in Nat /\ ClockCount = d * k + (ClockCount % d)
    BY <1>1, <2>1, DivMod
  <2>3. d * k \in Int
    BY <1>1, <2>2
  <2> QED BY <1>1, <2>2, <2>3
<1>3. k # 0
  <2> HIDE DEF k, d
  <2> QED BY <1>1, <1>2, ClockConstants
<1>4. d * k = HalfPeriod * (2 * (EventCount * k))
  <2> HIDE DEF k
  <2>1. d = (HalfPeriod * 2) * EventCount
    BY ClockConstants
  <2> HIDE DEF d
  <2>2. ((HalfPeriod * 2) * EventCount) * k = HalfPeriod * (2 * (EventCount * k))
    BY <1>2, ClockConstants
  <2> QED BY <2>1, <2>2
<1> HIDE DEF k
<1> QED BY <1>2, <1>3, <1>4

(* The bit of DIV is the parity of the half periods that have passed.           *)
LEMMA BitIs ==
  ASSUME NEW c \in Nat
  PROVE  Clock!Bit(DivOf(c)) = HalfPeriods(c) % 2
<1> DEFINE x == c \div DivStep
<1>1. x \in Nat
  BY ClockConstants, DivMod, c \in Int
<1>2. x \div Half = c \div HalfPeriod
  <2>1. \A h \in Nat \ {0} : (c \div DivStep) \div h = c \div (DivStep * h)
    BY ClockConstants, NestedDiv, Zenon
  <2>2. (c \div DivStep) \div Half = c \div (DivStep * Half)
    BY <2>1, ClockConstants, Zenon
  <2> QED BY <2>2, Zenon DEF HalfPeriod
<1>3. ((x % DivCount) \div Half) % 2 = (x \div Half) % 2
  <2> HIDE DEF x
  <2> QED BY <1>1, ClockConstants, BitOfRemainder
<1> QED BY <1>2, <1>3 DEF Clock!Bit, DivOf, HalfPeriods

LEMMA EventsIs ==
  ASSUME NEW c \in Nat
  PROVE  HalfPeriods(c) \in Nat /\ EventsOf(c) = (HalfPeriods(c) \div 2) % EventCount
<1>1. HalfPeriods(c) \in Nat
  BY ClockConstants, DivMod, c \in Int DEF HalfPeriods
<1> DEFINE h == HalfPeriods(c)
<1>2. h = c \div HalfPeriod
  BY DEF HalfPeriods
<1>3. h \div 2 = c \div Clock!Interval
  <2>1. \A n \in Nat \ {0} : (c \div HalfPeriod) \div n = c \div (HalfPeriod * n)
    BY ClockConstants, NestedDiv, Zenon
  <2>2. (c \div HalfPeriod) \div 2 = c \div (HalfPeriod * 2)
    BY <2>1, 2 \in Nat \ {0}, Zenon
  <2> QED BY <1>2, <2>2, ClockConstants, Zenon
<1> QED BY <1>1, <1>3 DEF EventsOf

LEMMA HalfPeriodsOf ==
  ASSUME NEW c \in Nat, NEW q \in Int, NEW r \in 0 .. HalfPeriod - 1, c = HalfPeriod * q + r
  PROVE  HalfPeriods(c) = q
BY ClockConstants, Divided, c \in Int DEF HalfPeriods

(* Less than a half period leads into the next half period at most. *)
LEMMA NextHalf ==
  ASSUME NEW a \in 0 .. ClockCount - 1, NEW b \in 0 .. ClockCount - 1,
         (b - a + ClockCount) % ClockCount < HalfPeriod
  PROVE  \/ HalfPeriods(b) = HalfPeriods(a)
         \/ HalfPeriods(b) = HalfPeriods(a) + 1
         \/ /\ HalfPeriods(b) = 0
            /\ \E k \in Nat \ {0} : HalfPeriods(a) = 2 * (EventCount * k) - 1
<1> DEFINE H == HalfPeriod
           q == HalfPeriods(a)
           r == a % H
<1>1. ClockCount \in Nat \ {0} /\ H \in Nat \ {0}
  BY ClockConstants
<1>2. q \in Int /\ r \in 0 .. H - 1 /\ a = H * q + r /\ H * q \in Int
  <2>1. a \in Int
    BY <1>1
  <2>2. q \in Int /\ r \in 0 .. H - 1 /\ a = H * q + r
    BY <1>1, <2>1, DivMod DEF HalfPeriods
  <2> HIDE DEF q, r
  <2> QED BY <1>1, <2>2
<1>3. (b - a + ClockCount) % ClockCount = IF b >= a THEN b - a ELSE b - a + ClockCount
  BY <1>1, Distance
<1>4. CASE b >= a
  <2> DEFINE s == r + (b - a)
  <2> HIDE DEF q, r, H
  <2>1. s \in 0 .. 2 * H - 2 /\ b = H * q + s
    BY <1>1, <1>2, <1>3, <1>4 DEF H
  <2>2. CASE s < H
    <3>1. HalfPeriods(b) = q
      <4>1. s \in 0 .. HalfPeriod - 1 /\ b = HalfPeriod * q + s
        BY <2>1, <2>2, <1>1 DEF H
      <4> HIDE DEF s
      <4> QED BY <1>2, <4>1, HalfPeriodsOf, b \in Nat
    <3> QED BY <3>1 DEF q
  <2>3. CASE ~(s < H)
    <3> DEFINE t == s - H
               p == q + 1
    <3>1. HalfPeriods(b) = p
      <4>1. t \in 0 .. H - 1 /\ p \in Int
        BY <1>1, <1>2, <2>1, <2>3
      <4>2. H * p = H * q + H
        BY <1>1, <1>2
      <4>3. b = H * p + t
        BY <1>1, <1>2, <2>1, <4>2
      <4> HIDE DEF t, p, s
      <4> QED BY <4>1, <4>3, HalfPeriodsOf, b \in Nat DEF H
    <3> QED BY <3>1 DEF q
  <2> QED BY <2>2, <2>3
<1>5. CASE ~(b >= a)
  <2>1. PICK k \in Nat \ {0} : ClockCount = H * (2 * (EventCount * k))
    BY ClockIsPeriods
  <2> DEFINE m == 2 * (EventCount * k)
             p == m - 1
             s == a - (ClockCount - H)
  <2>2. m \in Int /\ p \in Int
    BY ClockConstants
  <2> HIDE DEF q, r, H
  <2>3. ClockCount = H * m
    BY <2>1
  <2> HIDE DEF m
  <2>4. H * p = H * m - H /\ H * m \in Int
    BY <1>1, <2>2
  <2>5. s \in 0 .. H - 1 /\ a = H * p + s /\ b \in 0 .. H - 1
    BY <1>1, <1>3, <1>5, <2>3, <2>4 DEF H
  <2>6. HalfPeriods(a) = p
    <3> HIDE DEF s, p
    <3> QED BY <2>2, <2>5, HalfPeriodsOf, a \in Nat DEF H
  <2>7. HalfPeriods(b) = 0
    <3>1. b = HalfPeriod * 0 + b
      BY <1>1 DEF H
    <3> QED BY <2>5, <3>1, HalfPeriodsOf, b \in Nat DEF H
  <2> QED BY <2>6, <2>7 DEF m
<1> QED BY <1>4, <1>5

(* Between two updates the bit falls exactly when a period ends. *)
LEMMA FallIsEvent ==
  ASSUME NEW a \in 0 .. ClockCount - 1, NEW b \in 0 .. ClockCount - 1,
         (b - a + ClockCount) % ClockCount < HalfPeriod
  PROVE  EventsOf(b) =
           IF Clock!Bit(DivOf(a)) = 1 /\ Clock!Bit(DivOf(b)) = 0
           THEN (EventsOf(a) + 1) % EventCount ELSE EventsOf(a)
<1> DEFINE p == HalfPeriods(a)
           q == HalfPeriods(b)
           E == EventCount
           h == p \div 2
<1>1. a \in Nat /\ b \in Nat /\ E \in Nat \ {0, 1}
  BY ClockConstants
<1>2. /\ p \in Nat /\ q \in Nat
      /\ EventsOf(a) = h % E /\ EventsOf(b) = (q \div 2) % E
      /\ Clock!Bit(DivOf(a)) = p % 2 /\ Clock!Bit(DivOf(b)) = q % 2
  BY <1>1, BitIs, EventsIs
<1>3. q = p \/ q = p + 1 \/ (q = 0 /\ \E k \in Nat \ {0} : p = 2 * (E * k) - 1)
  BY NextHalf
<1> HIDE DEF p, q, E
<1>4. h \in Nat /\ (h + 1) % E = ((h % E) + 1) % E
  <2>1. h \in Nat /\ h \in Int
    BY <1>2
  <2>2. h % E \in 0 .. E - 1
    <3> HIDE DEF h
    <3> QED BY <1>1, <2>1, DivMod
  <2>3. IF h % E = E - 1 THEN (h + 1) % E = 0 ELSE (h + 1) % E = (h % E) + 1
    <3> HIDE DEF h
    <3>1. E \in Nat \ {0}
      BY <1>1
    <3> QED BY <2>1, <3>1, Stepped
  <2>4. ((h % E) + 1) % E = IF h % E = E - 1 THEN 0 ELSE (h % E) + 1
    <3> DEFINE r == h % E
    <3> HIDE DEF r, h
    <3>1. r \in 0 .. E - 1 /\ E \in Nat \ {0}
      BY <1>1, <2>2 DEF r
    <3>2. (r + 1) % E = IF r = E - 1 THEN 0 ELSE r + 1
      BY <3>1, Advanced
    <3> QED BY <3>2 DEF r
  <2> QED BY <2>1, <2>3, <2>4, Zenon
<1>5. CASE q = p
  <2>1. ~(p % 2 = 1 /\ q % 2 = 0)
    BY <1>2, <1>5
  <2> QED BY <1>2, <1>5, <2>1
<1>6. CASE q = p + 1 /\ p % 2 = 0
  <2>1. q \div 2 = h /\ q % 2 = 1
    BY <1>2, <1>6
  <2> QED BY <1>2, <1>6, <2>1
<1>7. CASE q = p + 1 /\ p % 2 = 1
  <2>1. q \div 2 = h + 1 /\ q % 2 = 0
    BY <1>2, <1>7
  <2> HIDE DEF h
  <2> QED BY <1>2, <1>4, <1>7, <2>1, Zenon DEF E
<1>8. CASE q = 0 /\ \E k \in Nat \ {0} : p = 2 * (E * k) - 1
  <2>1. PICK k \in Nat \ {0} : p = 2 * (E * k) - 1
    BY <1>8
  <2> DEFINE m == E * k
  <2>2. m \in Nat \ {0} /\ m % E = 0
    <3>1. m \in Nat \ {0}
      BY <1>1
    <3>2. m = E * k + 0 /\ 0 \in 0 .. E - 1 /\ k \in Int /\ E \in Nat \ {0}
      BY <1>1, <3>1
    <3>3. m \in Int
      BY <3>1
    <3> HIDE DEF m
    <3> QED BY <3>1, <3>2, <3>3, Divided
  <2> HIDE DEF m
  <2>3. p % 2 = 1 /\ h + 1 = m /\ q % 2 = 0 /\ q \div 2 = 0
    BY <1>8, <2>1, <2>2 DEF m
  <2>4. 0 % E = 0
    <3>1. 0 = E * 0 + 0 /\ 0 \in 0 .. E - 1 /\ E \in Nat \ {0}
      BY <1>1
    <3> QED BY <3>1, Divided
  <2>5. EventsOf(b) = 0
    BY <1>2, <2>3, <2>4, Zenon
  <2>6. (EventsOf(a) + 1) % E = 0
    <3> HIDE DEF h
    <3> QED BY <1>2, <1>4, <2>2, <2>3, Zenon
  <2> QED BY <1>2, <2>3, <2>5, <2>6 DEF E
<1>9. p % 2 = 0 \/ p % 2 = 1
  BY <1>2
<1> QED BY <1>3, <1>5, <1>6, <1>7, <1>8, <1>9

-----------------------------------------------------------------------------
(* What the unit knows of a moment: the DIV of it, its clock and the events so far. *)
Sampled(c) == m_last_div_value = DivOf(c) /\ m_div_apu_counter = EventsOf(c)
ClockOf(c) == (4 * c) % ClockCount
Since(c) == (machine - c + ClockCount) % ClockCount

(* Between two updates it knows the moment of the last one; in an update first an  *)
(* earlier one, then the present.                                             *)
ClocksInv ==
  /\ Clock!TypeOK
  /\ emu = "instruction" => Sampled(counted) /\ Since(counted) <= MaxUpdate
  /\ emu # "instruction" => counted = machine /\ divider = DivOf(machine)
  /\ emu = "event" =>
       \E c \in 0 .. ClockCount - 1 :
          Sampled(c) /\ m_last_clock = ClockOf(c) /\ Since(c) <= MaxUpdate
  /\ emu = "ticks" => Sampled(machine)

LEMMA ClockOfType == \A c \in 0 .. ClockCount - 1 : ClockOf(c) \in 0 .. ClockCount - 1
  BY ClockConstants, DivMod, 4 * 0 = 0 DEF ClockOf

LEMMA DivOfType == \A c \in 0 .. ClockCount - 1 : DivOf(c) \in 0 .. DivCount - 1
<1> TAKE c \in 0 .. ClockCount - 1
<1>1. c \div DivStep \in Int
  BY ClockConstants, DivMod
<1> QED BY <1>1, ClockConstants, DivMod DEF DivOf

(* A moment of a zero clock distance is the present one: instructions are too     *)
(* short for the clocks to come round.                                        *)
LEMMA SameClock ==
  ASSUME NEW a \in 0 .. ClockCount - 1, NEW b \in 0 .. ClockCount - 1,
         (b - a + ClockCount) % ClockCount <= MaxUpdate, ClockOf(a) = ClockOf(b)
  PROVE  a = b
<1> DEFINE C == ClockCount
           d == (b - a + C) % C
           q == (4 * a) \div C
           p == (4 * b) \div C
           r == (4 * a) % C
<1>1. C \in Nat \ {0}
  BY ClockConstants
<1>2. d = IF b >= a THEN b - a ELSE b - a + C
  BY <1>1, Distance
<1>3. 4 * d < C
  <2>1. PICK k \in Nat \ {0} : C = HalfPeriod * (2 * (EventCount * k))
    BY ClockIsPeriods
  <2> DEFINE m == EventCount * k
  <2>2. m \in Nat /\ m >= 2
    BY ClockConstants
  <2> HIDE DEF m, d
  <2>3. C = 2 * (HalfPeriod * m) /\ HalfPeriod * m >= HalfPeriod * 2
    BY <2>1, <2>2, ClockConstants DEF m
  <2>4. d <= HalfPeriod - 1 /\ d \in Int
    BY <1>1, <1>2, ClockConstants DEF d
  <2>5. HalfPeriod \in Nat /\ HalfPeriod * m \in Nat /\ HalfPeriod * 2 = 2 * HalfPeriod
    BY <2>2, ClockConstants
  <2> QED BY <2>3, <2>4, <2>5
<1>4. q \in Int /\ p \in Int /\ r \in 0 .. C - 1 /\ 4 * a = C * q + r /\ 4 * b = C * p + r
  <2> DEFINE x == 4 * a
             y == 4 * b
  <2>1. x \in Int /\ y \in Int
    BY <1>1
  <2>2. x % C = y % C
    BY DEF ClockOf
  <2> HIDE DEF x, y, C
  <2>3. x \div C \in Int /\ x % C \in 0 .. C - 1 /\ x = C * (x \div C) + (x % C)
    BY <1>1, <2>1, DivMod
  <2>4. y \div C \in Int /\ y = C * (y \div C) + (y % C)
    BY <1>1, <2>1, DivMod
  <2> QED BY <2>2, <2>3, <2>4 DEF x, y
<1>5. 4 * (b - a) = C * (p - q)
  <2> HIDE DEF p, q, r
  <2>1. C * (p - q) = C * p - C * q /\ C * p \in Int /\ C * q \in Int
    BY <1>1, <1>4
  <2> QED BY <1>1, <1>4, <2>1
<1>6. \A n \in Int : C * n < C /\ C * n >= 0 => n = 0
  <2> SUFFICES ASSUME NEW n \in Int, C * n < C, C * n >= 0 PROVE n = 0
    OBVIOUS
  <2>1. ~(n > 0)
    BY <1>1, Multiples, C * 0 = 0, C * n \in Int, 0 \in Int
  <2>2. ~(n < 0)
    BY <1>1, Multiples, C * 0 = 0, C * n \in Int, 0 \in Int
  <2> QED BY <2>1, <2>2
<1>7. d = 0
  <2> DEFINE n == IF b >= a THEN p - q ELSE p - q + 4
  <2>1. n \in Int
    BY <1>4
  <2>2. 4 * d = C * n
    <3> HIDE DEF p, q, r, d
    <3>1. CASE b >= a
      BY <1>1, <1>2, <1>5, <3>1
    <3>2. CASE ~(b >= a)
      <4>1. C * (p - q + 4) = C * (p - q) + 4 * C
        BY <1>1, <1>4
      <4>2. 4 * d = 4 * (b - a) + 4 * C
        BY <1>1, <1>2, <3>2
      <4> QED BY <1>5, <3>2, <4>1, <4>2
    <3> QED BY <3>1, <3>2
  <2>3. d \in Nat
    BY <1>1, <1>2
  <2> HIDE DEF n, d
  <2>4. n = 0
    BY <1>3, <1>6, <2>1, <2>2, <2>3
  <2> QED BY <1>1, <2>2, <2>3, <2>4
<1> HIDE DEF d
<1> QED BY <1>1, <1>2, <1>7

LEMMA ClocksInit == DevicesInit => ClocksInv
<1> SUFFICES ASSUME Clock!Init PROVE ClocksInv
  BY DEF DevicesInit
<1>1. /\ 0 \in 0 .. ClockCount - 1 /\ 0 \in 0 .. DivCount - 1 /\ 0 \in 0 .. EventCount - 1
      /\ MaxUpdate \in Nat
  BY ClockConstants
<1>2. \A n \in Nat \ {0} : 0 \div n = 0 /\ 0 % n = 0
  BY Divided, \A n \in Nat \ {0} : 0 = n * 0 + 0 /\ 0 \in 0 .. n - 1, 0 \in Int
<1>3. DivOf(0) = 0 /\ EventsOf(0) = 0 /\ ClockOf(0) = 0
  <2>1. Clock!Interval \in Nat \ {0} /\ EventCount \in Nat \ {0} /\ 4 * 0 = 0
    BY ClockConstants
  <2> QED BY <1>2, <2>1, ClockConstants DEF DivOf, EventsOf, ClockOf
<1>4. (0 - 0 + ClockCount) % ClockCount = 0
  BY ClockConstants, Distance
<1>5. Clock!TypeOK
  BY <1>1, <1>3 DEF Clock!Init, Clock!TypeOK, ClockOf
<1> QED BY <1>1, <1>3, <1>4, <1>5 DEF Clock!Init, ClocksInv, Sampled, Since

LEMMA ClocksInvNext == ClocksInv /\ [Clock!Next]_Clock!vars => ClocksInv'
<1> SUFFICES ASSUME ClocksInv, [Clock!Next]_Clock!vars PROVE ClocksInv'
  OBVIOUS
<1>1. /\ machine \in 0 .. ClockCount - 1 /\ counted \in 0 .. ClockCount - 1
      /\ ClockCount \in Nat \ {0} /\ MaxUpdate \in 1 .. HalfPeriod - 1 /\ HalfPeriod \in Nat \ {0}
      /\ Clock!TypeOK
  BY ClockConstants DEF ClocksInv, Clock!TypeOK
<1>2. Clock!target_clock = ClockOf(machine)
  BY DEF Clock!target_clock, ClockOf
<1>3. ASSUME Clock!Cycle PROVE ClocksInv'
  <2>1. /\ emu = "instruction" /\ Since(counted) < MaxUpdate
        /\ machine' = (machine + 1) % ClockCount
        /\ UNCHANGED <<divider, m_last_clock, m_last_div_value, m_div_apu_counter, counted, emu>>
    BY <1>3 DEF Clock!Cycle, Since
  <2>2. machine' \in 0 .. ClockCount - 1
    BY <1>1, <2>1, Advanced
  <2>3. Since(counted)' <= MaxUpdate
    <3>1. Since(counted) < ClockCount - 1
      <4>1. PICK k \in Nat \ {0} : ClockCount = HalfPeriod * (2 * (EventCount * k))
        BY ClockIsPeriods
      <4> DEFINE m == 2 * (EventCount * k)
      <4>2. m \in Nat /\ m >= 1
        BY ClockConstants
      <4> HIDE DEF m
      <4>3. ClockCount >= HalfPeriod
        BY <1>1, <4>1, <4>2 DEF m
      <4>4. Since(counted) \in Int
        BY <1>1, DivMod DEF Since
      <4> QED BY <1>1, <2>1, <4>3, <4>4
    <3>2. (((machine + 1) % ClockCount) - counted + ClockCount) % ClockCount = Since(counted) + 1
      BY <1>1, <3>1, Elapsed DEF Since
    <3>3. Since(counted)' = Since(counted) + 1
      BY <2>1, <3>2 DEF Since
    <3>4. Since(counted) \in Int
      BY <1>1, DivMod DEF Since
    <3> QED BY <1>1, <2>1, <3>3, <3>4
  <2>4. Sampled(counted)'
    BY <2>1 DEF ClocksInv, Sampled
  <2>5. Clock!TypeOK'
    BY <1>1, <2>1, <2>2 DEF Clock!TypeOK
  <2> QED BY <2>1, <2>3, <2>4, <2>5 DEF ClocksInv
<1>4. ASSUME Clock!UpdateTimers PROVE ClocksInv'
  <2>1. /\ emu = "instruction" /\ emu' = "event" /\ counted' = machine /\ divider' = DivOf(machine)
        /\ UNCHANGED <<machine, m_last_clock, m_last_div_value, m_div_apu_counter>>
    BY <1>4 DEF Clock!UpdateTimers, DivOf
  <2>2. Sampled(counted) /\ m_last_clock = ClockOf(counted) /\ Since(counted) <= MaxUpdate
    BY <2>1 DEF ClocksInv, Clock!TypeOK, ClockOf
  <2>3. (\E c \in 0 .. ClockCount - 1 :
           Sampled(c) /\ m_last_clock = ClockOf(c) /\ Since(c) <= MaxUpdate)'
    BY <1>1, <2>1, <2>2 DEF Sampled, Since
  <2>4. Clock!TypeOK'
    BY <1>1, <2>1, DivOfType DEF Clock!TypeOK
  <2> QED BY <2>1, <2>3, <2>4 DEF ClocksInv
<1>5. ASSUME Clock!TickDiv PROVE ClocksInv'
  <2>1. /\ emu = "event" /\ emu' = "ticks"
        /\ m_last_div_value' = divider
        /\ m_div_apu_counter' = IF Clock!BitFalls THEN (m_div_apu_counter + 1) % EventCount
                                                  ELSE m_div_apu_counter
        /\ UNCHANGED <<machine, divider, m_last_clock, counted>>
    BY <1>5 DEF Clock!TickDiv, Clock!LastDiv
  <2>2. PICK c \in 0 .. ClockCount - 1 : Sampled(c) /\ Since(c) <= MaxUpdate
    BY <2>1 DEF ClocksInv
  <2>3. divider = DivOf(machine) /\ counted = machine
    BY <2>1 DEF ClocksInv
  <2>4. Clock!BitFalls <=> Clock!Bit(DivOf(c)) = 1 /\ Clock!Bit(DivOf(machine)) = 0
    BY <2>2, <2>3 DEF Clock!BitFalls, Sampled
  <2>5. m_div_apu_counter' = EventsOf(machine)
    <3>1. (machine - c + ClockCount) % ClockCount < HalfPeriod
      <4>1. Since(c) \in Int
        BY <1>1, DivMod DEF Since
      <4> QED BY <1>1, <2>2, <4>1 DEF Since
    <3>2. EventsOf(machine) =
            IF Clock!Bit(DivOf(c)) = 1 /\ Clock!Bit(DivOf(machine)) = 0
            THEN (EventsOf(c) + 1) % EventCount ELSE EventsOf(c)
      BY <1>1, <3>1, FallIsEvent
    <3> QED BY <2>1, <2>2, <2>4, <3>2 DEF Sampled
  <2>6. Sampled(machine)'
    BY <2>1, <2>3, <2>5 DEF Sampled
  <2>7. Clock!TypeOK'
    <3>1. m_div_apu_counter' \in 0 .. EventCount - 1
      <4>1. (m_div_apu_counter + 1) % EventCount \in 0 .. EventCount - 1
        BY <1>1, ClockConstants, DivMod DEF Clock!TypeOK
      <4> QED BY <1>1, <2>1, <4>1 DEF Clock!TypeOK
    <3> QED BY <1>1, <2>1, <3>1 DEF Clock!TypeOK
  <2> QED BY <2>1, <2>3, <2>6, <2>7 DEF ClocksInv
<1>6. ASSUME Clock!NoTime PROVE ClocksInv'
  <2>1. /\ emu = "event" /\ emu' = "instruction" /\ m_last_clock = ClockOf(machine)
        /\ UNCHANGED <<machine, divider, m_last_clock, m_last_div_value, m_div_apu_counter,
                       counted>>
    BY <1>2, <1>6 DEF Clock!NoTime
  <2>2. PICK c \in 0 .. ClockCount - 1 :
          Sampled(c) /\ m_last_clock = ClockOf(c) /\ Since(c) <= MaxUpdate
    BY <2>1 DEF ClocksInv
  <2>3. c = machine /\ counted = machine
    BY <1>1, <2>1, <2>2, SameClock DEF ClocksInv, Since
  <2>4. Clock!TypeOK'
    BY <1>1, <2>1, <2>3 DEF Clock!TypeOK, ClockOf
  <2> QED BY <2>1, <2>2, <2>3, <2>4 DEF ClocksInv, Sampled, Since
<1>7. ASSUME Clock!Tick PROVE ClocksInv'
  <2>1. m_last_clock' \in 0 .. ClockCount - 1
    BY <1>1, <1>7, Advanced DEF Clock!Tick, Clock!TypeOK
  <2>2. /\ emu = "ticks" /\ emu' = "ticks"
        /\ UNCHANGED <<machine, divider, m_last_div_value, m_div_apu_counter, counted>>
    BY <1>7 DEF Clock!Tick
  <2> QED BY <1>1, <2>1, <2>2 DEF ClocksInv, Clock!TypeOK, Sampled
<1>8. ASSUME Clock!TicksOver PROVE ClocksInv'
  <2>1. /\ emu = "ticks" /\ emu' = "instruction" /\ m_last_clock = ClockOf(machine)
        /\ UNCHANGED <<machine, divider, m_last_clock, m_last_div_value, m_div_apu_counter,
                       counted>>
    BY <1>2, <1>8 DEF Clock!TicksOver, Clock!Loops
  <2>2. counted = machine /\ Sampled(machine)
    BY <2>1 DEF ClocksInv
  <2>3. Since(machine) = 0
    BY <1>1, Distance DEF Since
  <2>4. Clock!TypeOK'
    BY <1>1, <2>1, <2>2 DEF Clock!TypeOK, ClockOf
  <2> QED BY <1>1, <2>1, <2>2, <2>3, <2>4 DEF ClocksInv, Sampled, Since
<1>9. ASSUME UNCHANGED Clock!vars PROVE ClocksInv'
  BY <1>9 DEF Clock!vars, ClocksInv, Clock!TypeOK, Sampled, Since
<1> QED BY <1>3, <1>4, <1>5, <1>6, <1>7, <1>8, <1>9 DEF Clock!Next, Clock!Update

LEMMA ClocksMove == DevicesNext \/ UNCHANGED devices => [Clock!Next]_Clock!vars
  BY DEF DevicesNext, devices, clockVars, Clock!vars

(* However the updates fall between the cycles, each fall of the bit of DIV makes *)
(* one event of the sound unit: EventsCounted, for all sizes of the counters     *)
(* (updateTimers, tick_div_apu, clock_to).                                    *)
THEOREM EventsAreFalls == DevicesSpec => []EventsCounted
<1>1. ClocksInv /\ [DevicesNext]_devices => ClocksInv'
  BY ClocksMove, ClocksInvNext
<1>2. ClocksInv => EventsCounted
  BY DEF ClocksInv, EventsCounted, Clock!EventsCounted, Sampled, EventsOf
<1> QED BY <1>1, <1>2, ClocksInit, Unfair, PTL

-----------------------------------------------------------------------------
(* The composition does what its parts do: what is proved of the memory (Spec) and *)
(* of the cartridge (MbcSpec) holds of it (GB::clock, MemoryMap).              *)
THEOREM PartsBehave == DevicesSpec => Spec /\ MbcSpec
<1>1. DevicesInit => Init /\ MbcInit
  BY DEF DevicesInit
<1>2. [DevicesNext]_devices => [Next]_vars
  BY DEF DevicesNext, devices
<1>3. [DevicesNext]_devices => [MbcNext]_mbcVars
  BY DEF DevicesNext, devices
<1> QED BY <1>1, <1>2, <1>3, Unfair, PTL DEF Spec, MbcSpec
=============================================================================
