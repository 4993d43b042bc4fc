--------------------------------- MODULE Dma ---------------------------------
(* OAM DMA and the accesses of the CPU to memory: memory_map.cpp, the checks  *)
(* of CPU::readU8 and writeU8, IO::isInDMA and the access checks of the GPU.  *)
(*                                                                            *)
(* The code copies all bytes in the cycle of the write to FF46 and reports    *)
(* accesses for as long as a transfer would take.  The addresses kept are the *)
(* bytes that a transfer reads or writes and as many of high RAM; the return  *)
(* addresses of the sanitizer are in CallFrames.                              *)
EXTENDS Naturals

CONSTANTS
  Length,    \* bytes of a transfer, 160 in the program
  Value,     \* of a byte
  Zero,      \* what video memory holds at power-up
  Garbage,   \* stands for every undefined byte
  MaxCycle   \* bound: the cycles that are counted

Index == 0 .. Length - 1
Area == {"work", "tiles", "oam", "high"}
Location == Area \X Index
Source == {"work", "tiles", "echo"}
Addr == (Area \cup Source) \X Index
Device == {"tiles", "oam"}
Mode == 0 .. 3

ASSUME LengthAssumption == Length \in Nat \ {0}
ASSUME MaxCycleAssumption == MaxCycle \in Nat
ASSUME ValueAssumption ==
  /\ {Zero, Garbage} \subseteq Value /\ Zero # Garbage
  /\ {"done", "refused", "conflict", "lost"} \cap Value = {}

VARIABLES
  memory,
  cycle,
  dmaStartTime,
  mode,       \* of the LCD; it moves between instructions
  permitted,  \* conflicts and PPU violations are permitted
  answer,     \* to the last access: a value, "done", or a report
  transfer    \* history: the last transfer, its source and the OAM before it

vars == <<memory, cycle, dmaStartTime, mode, permitted, answer, transfer>>

Home(area) == IF area = "echo" THEN "work" ELSE area
At(addr) == <<Home(addr[1]), addr[2]>>

(* An access counts its cycle first.  (Slip: the last cycle is free.)         *)
isInDMAShort(now) == dmaStartTime # 0 /\ dmaStartTime + Length > now + 1
isInDMA(now) == dmaStartTime # 0 /\ dmaStartTime + Length > now

isHighRam(area) == area = "high"

startDMA == dmaStartTime' = cycle'

(* throw_error of DMABusConflict: what follows a permitted one depends on the *)
(* bytes that are copied at once.                                             *)
Conflicts(area) == ~isHighRam(area) /\ isInDMA(cycle + 1)
Report == answer' = (IF permitted THEN "lost" ELSE "conflict") /\ UNCHANGED <<memory, dmaStartTime, transfer>>

(* Video memory is the GPU's in mode 3, the attributes in mode 2 as well.     *)
Violates(area) ==
  ~permitted /\ ((mode = 3 /\ area \in Device) \/ (mode = 2 /\ area = "oam"))

Init ==
  /\ memory = [location \in Location |-> IF location[1] \in Device THEN Zero ELSE Garbage]
  /\ cycle = 0 /\ dmaStartTime = 0 /\ answer = "done"
  /\ mode \in Mode /\ permitted \in BOOLEAN
  /\ transfer = [source |-> "work", until |-> 0, before |-> [k \in Index |-> Zero]]

Count == cycle < MaxCycle /\ cycle' = cycle + 1 /\ UNCHANGED <<mode, permitted>>

(* Cycles without an access. *)
Tick == Count /\ answer' = "done" /\ UNCHANGED <<memory, dmaStartTime, transfer>>

readU8(addr) ==
  /\ Count
  /\ \/ Conflicts(addr[1]) /\ Report
     \/ /\ ~Conflicts(addr[1])
        /\ answer' = IF Violates(addr[1]) \/ memory[At(addr)] = Garbage
                       THEN "refused" ELSE memory[At(addr)]
        /\ UNCHANGED <<memory, dmaStartTime, transfer>>

(* PUSH may write an undefined byte, which devices refuse.                    *)
writeU8(addr, value) ==
  /\ Count
  /\ \/ Conflicts(addr[1]) /\ Report
     \/ /\ ~Conflicts(addr[1])
        /\ IF Violates(addr[1]) \/ (value = Garbage /\ addr[1] \in Device)
             THEN answer' = "refused" /\ UNCHANGED memory
             ELSE answer' = "done" /\ memory' = [memory EXCEPT ![At(addr)] = value]
        /\ UNCHANGED <<dmaStartTime, transfer>>

(* MemoryMap::DMA: reads and writes that no check of the GPU concerns; the    *)
(* first undefined byte ends it, with the ones before it copied.  Sources     *)
(* above F1 are refused.  (Slip: undefined bytes are copied.)                 *)
IsPrefixAll(source, n) == n = Length
IsPrefix(source, n) ==
  /\ \A k \in Index : k < n => memory[<<Home(source), k>>] # Garbage
  /\ n < Length => memory[<<Home(source), n>>] = Garbage
Copy(source, n) ==
  /\ IsPrefix(source, n)
  /\ memory' = [location \in Location |->
                  IF location[1] = "oam" /\ location[2] < n
                    THEN memory[<<Home(source), location[2]>>] ELSE memory[location]]
  /\ answer' = IF n = Length THEN "done" ELSE "refused"
  /\ transfer' = [source |-> source, until |-> n, before |-> [k \in Index |-> memory[<<"oam", k>>]]]
DMA(source) ==
  /\ Count
  /\ \/ Conflicts("register") /\ Report
     \/ /\ ~Conflicts("register") /\ source \notin Source
        /\ answer' = "refused" /\ UNCHANGED <<memory, dmaStartTime, transfer>>
     \/ /\ ~Conflicts("register") /\ source \in Source
        /\ startDMA
        /\ \E n \in 0 .. Length : Copy(source, n)

(* FF46 cannot be read. *)
ReadDMA ==
  /\ Count
  /\ \/ Conflicts("register") /\ Report
     \/ ~Conflicts("register") /\ answer' = "refused" /\ UNCHANGED <<memory, dmaStartTime, transfer>>

SetMode == mode' \in Mode /\ UNCHANGED <<memory, cycle, dmaStartTime, permitted, answer, transfer>>

Next ==
  /\ answer # "lost"
  /\ \/ Tick
     \/ ReadDMA
     \/ SetMode
     \/ \E addr \in Addr : readU8(addr)
     \/ \E addr \in Addr, value \in Value : writeU8(addr, value)
     \/ \E source \in Source \cup {"register"} : DMA(source)

Spec == Init /\ [][Next]_vars

-----------------------------------------------------------------------------
TypeOK ==
  /\ memory \in [Location -> Value]
  /\ cycle \in 0 .. MaxCycle /\ dmaStartTime \in 0 .. cycle
  /\ mode \in Mode /\ permitted \in BOOLEAN
  /\ answer \in Value \cup {"done", "refused", "conflict", "lost"}
  /\ transfer \in [source : Source, until : 0 .. Length, before : [Index -> Value]]

(* A program sees a transfer of one byte per cycle: it is told of a conflict  *)
(* exactly while that transfer would hold the bus, and reads in every cycle   *)
(* what that transfer would have left.  memory_map.cpp 57-72, io.cpp 21-27    *)
(* and cpu.cpp 18-27.                                                         *)
Dealt == IF dmaStartTime = 0 \/ cycle - dmaStartTime > Length THEN Length ELSE cycle - dmaStartTime
SlowMemory ==
  [location \in Location |->
     IF location[1] = "oam" /\ location[2] >= Dealt
       THEN transfer.before[location[2]] ELSE memory[location]]
Slow == INSTANCE Transfer WITH
  memory <- SlowMemory, copied <- Dealt, source <- transfer.source, until <- transfer.until
IsSlowTransfer == Slow!Spec

(* No undefined byte reaches a device, over a transfer that is broken off     *)
(* either.  memory_map.cpp 127-156.                                           *)
DevicesDefined == \A location \in Location : location[1] \in Device => memory[location] # Garbage
=============================================================================
