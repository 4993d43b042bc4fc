------------------------------- MODULE Transfer -------------------------------
(* What a program may rely on of an OAM DMA: one byte is copied per cycle,    *)
(* and until the last one the bus is taken for all but high RAM.              *)
EXTENDS Naturals

CONSTANTS
  Length,   \* bytes of a transfer, 160 in the program
  Value,    \* of a byte
  Garbage   \* a byte that was never written

Index == 0 .. Length - 1
Area == {"work", "tiles", "oam", "high"}
Location == Area \X Index
Source == {"work", "tiles", "echo"}
Addr == (Area \cup Source) \X Index

(* Echo RAM is the work RAM a second time. *)
Home(area) == IF area = "echo" THEN "work" ELSE area
At(addr) == <<Home(addr[1]), addr[2]>>

(* How much of a source a transfer copies: it breaks off at the first byte    *)
(* that was never written.                                                    *)
IsPrefix(memory, source, n) ==
  /\ n \in 0 .. Length
  /\ \A k \in Index : k < n => memory[<<Home(source), k>>] # Garbage
  /\ n < Length => memory[<<Home(source), n>>] = Garbage

VARIABLES
  memory,
  copied,   \* bytes that the transfer has dealt with; Length without one
  source, until,
  answer    \* to the last access: a value, "done", or a report

Init ==
  /\ memory \in [Location -> Value]
  /\ copied = Length /\ until = 0 /\ source = "work"
  /\ answer = "done"

(* A cycle copies a byte, and leaves the bus free after the last one.         *)
Passed == IF copied = Length THEN Length ELSE copied + 1
Copied ==
  IF copied < until
    THEN [memory EXCEPT ![<<"oam", copied>>] = memory[<<Home(source), copied>>]]
    ELSE memory
Busy(area) == Passed < Length /\ area # "high"
Pass == copied' = Passed /\ UNCHANGED <<source, until>>

(* A conflict, or one that is permitted: then nothing is promised any more.   *)
Conflict(area) ==
  /\ Busy(area)
  /\ \/ answer' = "conflict" /\ memory' = Copied /\ Pass
     \/ answer' = "lost"

Tick == answer' = "done" /\ memory' = Copied /\ Pass

Read(addr) ==
  \/ Conflict(addr[1])
  \/ /\ ~Busy(addr[1])
     /\ \/ answer' = Copied[At(addr)] /\ answer' # Garbage
        \/ answer' = "refused"
     /\ memory' = Copied /\ Pass

Write(addr, value) ==
  \/ Conflict(addr[1])
  \/ /\ ~Busy(addr[1])
     /\ \/ answer' = "done" /\ memory' = [Copied EXCEPT ![At(addr)] = value]
        \/ answer' = "refused" /\ memory' = Copied
     /\ Pass

Start(from) ==
  \/ Conflict("register")
  \/ ~Busy("register") /\ answer' = "refused" /\ memory' = Copied /\ Pass
  \/ /\ ~Busy("register") /\ from \in Source
     /\ copied' = 0 /\ source' = from /\ IsPrefix(Copied, from, until')
     /\ answer' = IF until' = Length THEN "done" ELSE "refused"
     /\ memory' = Copied

Next ==
  /\ answer # "lost"
  /\ \/ Tick
     \/ \E addr \in Addr : Read(addr)
     \/ \E addr \in Addr, value \in Value : Write(addr, value)
     \/ \E from \in Source \cup {"register"} : Start(from)

Spec == Init /\ [][Next]_<<memory, copied, source, until, answer>>
=============================================================================
