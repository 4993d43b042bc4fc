------------------------------- MODULE Debugger -------------------------------
(* The debugging server (gdb_server.cpp, gdb/remote_server.cpp) with a client *)
(* and the connection between them.                                           *)
(*                                                                            *)
(* The server reads one packet at a time while the machine is halted, runs    *)
(* the machine one program counter at a time otherwise, and looks at the      *)
(* socket without blocking in between.  A read returns everything that has    *)
(* arrived: what the client sent is a stream that keeps its order, but may be *)
(* delayed, run together and split in the middle of a packet.  The client     *)
(* keeps to the protocol: it asks when it has the floor, sends ^C only while  *)
(* it believes that the machine runs, and may hang up.  Which instructions    *)
(* the program has and which interrupts it takes is a choice; so is the       *)
(* failure of what is outside (objcopy, the ROM file).                        *)
EXTENDS Naturals, Sequences

CONSTANTS
  Addr,         \* program addresses
  Entry,        \* where the program starts, 0x100
  Vectors,      \* where the handlers of interrupts start
  MaxInterrupts \* bound: times the client sends ^C

ASSUME EntryAssumption == Entry \in Addr /\ Vectors \subseteq Addr
ASSUME BoundAssumption == MaxInterrupts \in Nat

VARIABLES
  phase,              \* what the server does, or how it has ended
  loaded,             \* gb # nullptr; the front end has been moved into it
  is_halted,
  m_is_in_step,
  m_breakpoints,
  pc,                 \* of the current registers
  committed_pc,       \* of the registers after the last whole instruction
  age,                \* 0: no cycle has passed, 1: the sound unit is at 0 still
  stuck,              \* the program will not move PC again
  exit_requested,     \* the window has been closed
  executed,           \* address of the last instruction (not a state of the server)
  fresh,              \* PC has not moved since the machine was resumed (the same)
  wire,               \* sent by the client, not arrived or only in part
  buffer,             \* arrived, not read
  cut,                \* a part of the first packet of the wire has arrived after buffer
  replies,            \* sent by the server, not received
  client,             \* what the client believes
  wanted,             \* breakpoints that the client believes to be set
  interrupts          \* ^C sent so far

history == <<executed, fresh>>
machine == <<pc, committed_pc, age, stuck, history>>
control == <<is_halted, m_is_in_step, m_breakpoints>>
server == <<phase, loaded, control, exit_requested>>
channels == <<wire, buffer, cut, replies>>
user == <<client, wanted, interrupts>>
vars == <<machine, server, channels, user>>

(* Ends of the server: the last read is not one packet, or ends inside one; a *)
(* null pointer, an assertion, an exception nobody catches, a connection that *)
(* is gone, the clock of the sound unit that runs through 2^64 values, the    *)
(* window closed.                                                             *)
Ended == {"unparsed", "split", "null", "assert", "uncaught", "dropped", "hung", "finished"}

Simple(kind) == [kind |-> kind]
At(kind, a) == [kind |-> kind, addr |-> a]
Questions == {Simple(k) : k \in {"query", "read", "threads"}}
Request == Questions \cup {Simple(k) : k \in {"no_ack", "next", "c", "s", "k", "vRun"}}
             \cup {At(k, a) : k \in {"Z", "z", "c_at"}, a \in Addr}
Ack == Simple("+")
CtrlC == Simple("^C")

Reply == [kind : {"OK", "m1", "X01"}]
Stop == [kind : {"T"}, reason : {"trace", "breakpoint", "trap"}, pc : Addr]

Init ==
  /\ phase = "accepting"
  /\ loaded \in BOOLEAN  \* a ROM on the command line
  /\ is_halted = TRUE /\ m_is_in_step = FALSE /\ m_breakpoints = {}
  /\ pc = Entry /\ committed_pc = Entry /\ age = 0 /\ stuck = FALSE
  /\ exit_requested = FALSE /\ executed = Entry /\ fresh = FALSE
  /\ wire = <<>> /\ buffer = <<>> /\ cut = FALSE /\ replies = <<>>
  /\ client = "away" /\ wanted = {} /\ interrupts = 0

(* The test at the top of the main loop, before the server reads or runs on.  *)
(* (Once a machine exists; the loop before that one has no test.)             *)
Turn == IF loaded /\ exit_requested THEN "finished" ELSE "serving"

-----------------------------------------------------------------------------
(* The client.                                                                *)

(* wait_for_connection, and the accept4 at the end of process_k_request.      *)
Connect ==
  /\ phase = "accepting" /\ client \in {"away", "gone"}
  /\ phase' = Turn
  /\ wire' = <<Ack, Simple("no_ack")>> /\ buffer' = <<>> /\ cut' = FALSE /\ replies' = <<>>
  /\ client' = "joining" /\ wanted' = {}
  /\ UNCHANGED <<machine, control, loaded, exit_requested, interrupts>>

Running == {"running", "stepping"}

Send(request, belief) ==
  /\ wire' = Append(wire, request)
  /\ client' = belief
  /\ UNCHANGED <<machine, server, buffer, cut, replies>>

Ask ==
  /\ client = "asking"
  /\ \/ \E q \in Questions \cup {Simple("k"), Simple("vRun")} : Send(q, "waiting")
     \/ \E r \in {Simple("c")} \cup {At("c_at", a) : a \in Addr} : Send(r, "running")
     \/ Send(Simple("s"), "stepping")
  /\ UNCHANGED <<wanted, interrupts>>

AskBreakpoint ==
  /\ client = "asking"
  /\ \E a \in Addr :
       \/ Send(At("Z", a), "waiting") /\ wanted' = wanted \cup {a}
       \/ Send(At("z", a), "waiting") /\ wanted' = wanted \ {a}
  /\ UNCHANGED interrupts

AskNextThread ==
  /\ client = "listing"
  /\ Send(Simple("next"), "waiting")
  /\ UNCHANGED <<wanted, interrupts>>

Interrupt ==
  /\ client \in Running /\ interrupts < MaxInterrupts
  /\ Send(CtrlC, client)
  /\ interrupts' = interrupts + 1
  /\ UNCHANGED wanted

HangUp ==
  /\ client \notin {"away", "gone"}
  /\ client' = "gone"
  /\ replies' = <<>>
  /\ UNCHANGED <<machine, server, wire, buffer, cut, wanted, interrupts>>

(* Belief after a message; the first reply is acknowledged and is the last.   *)
Believes(msg) ==
  CASE client = "joining" /\ msg.kind = "OK" -> "asking"
    [] client = "waiting" /\ msg.kind = "OK" -> "asking"
    [] client = "waiting" /\ msg.kind = "m1" -> "listing"
    [] client = "waiting" /\ msg.kind = "X01" -> "away"
    [] client \in Running /\ msg.kind = "T" -> "asking"
    [] OTHER -> "confused"

Receive ==
  /\ replies # <<>> /\ client # "gone"
  /\ client' = Believes(Head(replies))
  /\ replies' = Tail(replies)
  /\ wire' = IF client = "joining" THEN Append(wire, Ack) ELSE wire
  /\ UNCHANGED <<machine, server, buffer, cut, wanted, interrupts>>

(* What has not arrived arrives, or a part of it: + and ^C are a byte each.    *)
Arrive ==
  /\ wire # <<>>
  /\ buffer' = Append(buffer, Head(wire))
  /\ wire' = Tail(wire)
  /\ cut' = FALSE
  /\ UNCHANGED <<machine, server, replies, user>>

ArriveInPart ==
  /\ wire # <<>> /\ Head(wire) \in Request
  /\ ~cut /\ cut' = TRUE
  /\ UNCHANGED <<machine, server, wire, buffer, replies, user>>

CloseWindow ==
  /\ ~exit_requested
  /\ exit_requested' = TRUE
  /\ UNCHANGED <<machine, phase, loaded, control, channels, user>>

-----------------------------------------------------------------------------
(* The server reads: recv returns the whole buffer and the part of a packet    *)
(* after it, or 0 when the client has hung up and everything has been read.   *)

Reading == phase = "serving" /\ (is_halted \/ ~loaded)
Closed == client = "gone" /\ wire = <<>> /\ buffer = <<>>

(* Slip: the acknowledgement stays. *)
PacketUnstripped == buffer
(* One leading acknowledgement is taken off. *)
Packet == IF Len(buffer) > 1 /\ Head(buffer) = Ack THEN Tail(buffer) ELSE buffer

Takes(kinds) ==
  /\ Reading /\ ~cut
  /\ Len(Packet) = 1 /\ Packet[1].kind \in kinds
  /\ buffer' = <<>>
  /\ UNCHANGED <<wire, cut, user>>

Answers(kind) == replies' = Append(replies, [kind |-> kind])

ReadAck ==
  /\ Takes({"+"})
  /\ phase' = Turn
  /\ UNCHANGED <<machine, loaded, control, exit_requested, replies>>

(* No single packet.                                                          *)
Unparsed == Len(Packet) > 1 \/ Packet = <<CtrlC>>
ReadUnparsed ==
  /\ Reading \/ phase = "listing"
  /\ ~cut /\ Unparsed
  /\ buffer' = <<>>
  /\ phase' = "unparsed"
  /\ UNCHANGED <<machine, loaded, control, exit_requested, wire, cut, replies, user>>

(* The part of a packet has no # where the end of a packet has it.             *)
ReadPart ==
  /\ Reading \/ phase = "listing"
  /\ cut
  /\ phase' = "split"
  /\ UNCHANGED <<machine, loaded, control, exit_requested, channels, user>>

ReadNothing ==
  /\ Reading \/ phase = "listing"
  /\ Closed
  /\ phase' = "dropped"
  /\ UNCHANGED <<machine, loaded, control, exit_requested, channels, user>>

(* Requests that only look: q, Q, ?, H and unknown ones. *)
Query ==
  /\ Takes({"query", "no_ack"})
  /\ Answers("OK")
  /\ phase' = Turn
  /\ UNCHANGED <<machine, loaded, control, exit_requested>>

(* m and p.  A read of memory may clock the timers, and of video memory that  *)
(* the LCD uses it is an error that only the main loop would catch.           *)
ReadData ==
  /\ Takes({"read"})
  /\ \/ ~loaded /\ phase' = "null" /\ UNCHANGED <<age, replies>>
     \/ loaded /\ phase' = Turn /\ Answers("OK") /\ age' \in {age, IF age = 0 THEN 0 ELSE 2}
     \/ loaded /\ phase' = "uncaught" /\ UNCHANGED <<age, replies>>
  /\ UNCHANGED <<pc, committed_pc, stuck, history, loaded, control, exit_requested>>

(* qfThreadInfo sends the thread and reads the next packet itself. *)
ListThreads ==
  /\ Takes({"threads"})
  /\ IF loaded THEN Answers("m1") /\ phase' = "listing" ELSE Answers("OK") /\ phase' = Turn
  /\ UNCHANGED <<machine, loaded, control, exit_requested>>

EndList ==
  /\ phase = "listing" /\ buffer # <<>> /\ ~cut /\ ~Unparsed
  /\ buffer' = <<>>
  /\ IF Packet = <<Simple("next")>>
       THEN Answers("OK") /\ phase' = Turn
       ELSE phase' = "assert" /\ UNCHANGED replies
  /\ UNCHANGED <<machine, loaded, control, exit_requested, wire, cut, user>>

Breakpoint ==
  /\ Takes({"Z", "z"})
  /\ m_breakpoints' = IF Packet[1].kind = "Z" THEN m_breakpoints \cup {Packet[1].addr}
                                             ELSE m_breakpoints \ {Packet[1].addr}
  /\ Answers("OK")
  /\ phase' = Turn
  /\ UNCHANGED <<machine, loaded, is_halted, m_is_in_step, exit_requested>>

(* c and s are answered by the stop that follows. *)
Continue ==
  /\ Takes({"c", "s"})
  /\ m_is_in_step' = (m_is_in_step \/ Packet[1].kind = "s")
  /\ is_halted' = FALSE
  /\ fresh' = TRUE
  /\ phase' = Turn
  /\ UNCHANGED <<pc, committed_pc, age, stuck, executed, loaded, m_breakpoints, exit_requested,
                 replies>>

ContinueAt ==
  /\ Takes({"c_at"})
  /\ IF loaded THEN pc' = Packet[1].addr /\ is_halted' = FALSE /\ phase' = Turn
               ELSE phase' = "null" /\ UNCHANGED <<pc, is_halted>>
  /\ fresh' = TRUE
  /\ UNCHANGED <<committed_pc, age, stuck, executed, loaded, m_is_in_step, m_breakpoints,
                 exit_requested, replies>>

(* k: the machine is reset, which never ends once the sound unit has been     *)
(* clocked, the connection closed and another one awaited.                    *)
Kill ==
  /\ Takes({"k"}) /\ loaded /\ age < 2
  /\ m_breakpoints' = {} /\ m_is_in_step' = FALSE
  /\ pc' = Entry /\ age' = 0 /\ is_halted' = TRUE
  /\ Answers("X01")
  /\ phase' = "accepting"
  /\ UNCHANGED <<committed_pc, stuck, history, loaded, exit_requested>>

KillFails ==
  /\ Takes({"k"}) /\ (loaded => age = 2)
  /\ m_breakpoints' = {} /\ m_is_in_step' = FALSE
  /\ phase' = IF loaded THEN "hung" ELSE "null"
  /\ UNCHANGED <<machine, loaded, is_halted, exit_requested, replies>>

(* vRun builds a machine from the front end, which a second one finds moved   *)
(* away: the next test of the main loop asks a null pointer.                  *)
RunElf ==
  /\ Takes({"vRun"})
  /\ loaded' = TRUE
  /\ pc' = Entry /\ committed_pc' = Entry /\ age' = 0
  /\ Answers("OK")
  /\ phase' = IF loaded THEN "null" ELSE IF exit_requested THEN "finished" ELSE "serving"
  /\ UNCHANGED <<stuck, history, control, exit_requested>>

RunFails ==
  /\ Takes({"vRun"})
  /\ phase' = "uncaught"
  /\ UNCHANGED <<machine, loaded, control, exit_requested, replies>>

Serve ==
  \/ ReadAck \/ ReadUnparsed \/ ReadPart \/ ReadNothing \/ Query \/ ReadData \/ ListThreads \/ EndList
  \/ Breakpoint \/ Continue \/ ContinueAt \/ Kill \/ KillFails \/ RunElf \/ RunFails

-----------------------------------------------------------------------------
(* The server runs the machine until PC changes or an error is thrown.  It     *)
(* looks at PC after whole instructions: one clock enters the handler of an   *)
(* interrupt and executes the instruction at its vector.                      *)

Runs == phase = "serving" /\ loaded /\ ~is_halted /\ ~stuck

(* Slip: only a stop that the step caused ends it. *)
NotifyKeepsStep(reason) ==
  /\ is_halted' = TRUE
  /\ m_is_in_step' = (m_is_in_step /\ reason # "trace")
  /\ replies' = Append(replies, [kind |-> "T", reason |-> reason, pc |-> committed_pc'])

(* notify_break: the stop reports the committed registers and ends the step.  *)
NotifyBreak(reason) ==
  /\ is_halted' = TRUE
  /\ m_is_in_step' = FALSE
  /\ replies' = Append(replies, [kind |-> "T", reason |-> reason, pc |-> committed_pc'])

(* Slip: only the end of the connection. *)
OnlyHangUp == Closed
(* has_remote_interrupt_request: whatever is there counts, the end of the     *)
(* connection too.  (No packet is on its way to a machine that runs.)         *)
InterruptRequested == buffer # <<>> \/ Closed

(* Slip: the address where the machine started. *)
IsStartBreakpoint(a) == m_is_in_step \/ pc \in m_breakpoints
(* is_active_breakpoint *)
IsActiveBreakpoint(a) == m_is_in_step \/ a \in m_breakpoints

(* The instructions until PC is looked at again are the one at PC, once or      *)
(* again and again, and those of handlers that return to it at once.          *)
Executes == executed' \in {pc} \cup Vectors /\ fresh' = FALSE

Clocked == age' \in IF age = 0 THEN {1, 2} ELSE {2}

Advance ==
  /\ Runs
  /\ pc' \in Addr \ {pc} /\ committed_pc' = pc' /\ Executes /\ Clocked
  /\ \/ /\ InterruptRequested
        /\ NotifyBreak("trap")
        /\ buffer' = <<>>
     \/ /\ ~InterruptRequested /\ IsActiveBreakpoint(pc')
        /\ NotifyBreak(IF m_is_in_step THEN "trace" ELSE "breakpoint")
        /\ UNCHANGED buffer
     \/ /\ ~InterruptRequested /\ ~IsActiveBreakpoint(pc')
        /\ UNCHANGED <<is_halted, m_is_in_step, replies, buffer>>
  /\ phase' = Turn
  /\ UNCHANGED <<stuck, loaded, m_breakpoints, exit_requested, wire, cut, user>>

(* Slip: the machine is not halted. *)
FaultRunsOn ==
  /\ Runs
  /\ pc' \in Addr /\ committed_pc' \in {committed_pc, pc} /\ Executes /\ Clocked
  /\ m_is_in_step' = FALSE
  /\ replies' = Append(replies, [kind |-> "T", reason |-> "trap", pc |-> committed_pc'])
  /\ phase' = Turn
  /\ UNCHANGED <<is_halted, stuck, loaded, m_breakpoints, exit_requested, wire, buffer, cut, user>>

(* An opcode that does not exist, a trap or a report of the checks: PC may    *)
(* have moved, and the instructions before that left it where it was.         *)
Fault ==
  /\ Runs
  /\ pc' \in Addr /\ committed_pc' \in {committed_pc, pc} /\ Executes /\ Clocked
  /\ NotifyBreak("trap")
  /\ phase' = Turn
  /\ UNCHANGED <<stuck, loaded, m_breakpoints, exit_requested, wire, buffer, cut, user>>

(* A bad address is an error that the main loop does not catch. *)
Crash ==
  /\ Runs
  /\ phase' = "uncaught" /\ Executes
  /\ UNCHANGED <<pc, committed_pc, age, stuck, loaded, control, exit_requested, channels, user>>

(* The program halts for good, or jumps to itself. *)
Stick ==
  /\ Runs
  /\ stuck' = TRUE
  /\ UNCHANGED <<pc, committed_pc, age, history, server, channels, user>>

Execute == Advance \/ Fault \/ Crash

Next ==
  \/ Connect \/ Ask \/ AskBreakpoint \/ AskNextThread \/ Interrupt \/ HangUp \/ Receive
  \/ Arrive \/ ArriveInPart \/ CloseWindow \/ Serve \/ Execute \/ Stick

Spec == Init /\ [][Next]_vars

(* The network delivers, the server is a loop, and the client reads what it   *)
(* is sent; nothing makes it ask.                                             *)
Fairness == WF_vars(Arrive) /\ WF_vars(Serve) /\ WF_vars(Execute) /\ WF_vars(Receive)

FairSpec == Spec /\ Fairness

-----------------------------------------------------------------------------
TypeOK ==
  /\ phase \in {"accepting", "serving", "listing"} \cup Ended
  /\ loaded \in BOOLEAN /\ is_halted \in BOOLEAN /\ m_is_in_step \in BOOLEAN
  /\ m_breakpoints \subseteq Addr /\ wanted \subseteq Addr
  /\ pc \in Addr /\ committed_pc \in Addr /\ age \in 0..2 /\ stuck \in BOOLEAN
  /\ exit_requested \in BOOLEAN /\ executed \in Addr /\ fresh \in BOOLEAN /\ cut \in BOOLEAN
  /\ wire \in Seq(Request \cup {Ack, CtrlC}) /\ buffer \in Seq(Request \cup {Ack, CtrlC})
  /\ replies \in Seq(Reply \cup Stop) /\ Len(replies) <= 1
  /\ client \in {"away", "joining", "asking", "listing", "waiting", "gone"} \cup Running
  /\ interrupts \in 0..MaxInterrupts

(* The session is a dialogue: however requests, ^C and stops cross, the       *)
(* server speaks only when it was asked or was told to run, and then once.    *)
(* remote_server.cpp 360-391 and the two places of the main loop that answer. *)
InFlight == \E i \in 1..Len(buffer \o wire) : (buffer \o wire)[i] \in Request
Floor ==
  IF phase \in Ended \cup {"accepting"} \/ client = "gone" THEN "nobody"
  ELSE IF client = "confused" \/ Len(replies) > 1 THEN "everybody"
  ELSE IF InFlight THEN "server"
  ELSE IF replies # <<>> \/ client \notin Running THEN "client"
  ELSE "machine"
D == INSTANCE Dialogue WITH floor <- Floor
IsDialogue == D!Spec

(* A stop says the truth: "trace" answers a step of this resume, "breakpoint" *)
(* names an address that the client asked for, and the machine goes on from   *)
(* the address reported by either.  A step left over from a resume that ended *)
(* otherwise would break it: remote_server.cpp 469-496.  When the client has   *)
(* the floor its breakpoints are those of the server, through kills and new    *)
(* sessions: remote_server.cpp 172-176 and 338.                               *)
StopsAreTrue ==
  /\ client = "asking" /\ phase = "serving" => m_breakpoints = wanted
  /\ replies # <<>> /\ Head(replies) \in Stop =>
    LET stop == Head(replies)
    IN  /\ stop.reason = "trace" => client \in {"stepping", "gone"}
        /\ stop.reason = "breakpoint" => client = "gone" \/ (client = "running" /\ stop.pc \in wanted)
        /\ stop.reason \in {"trace", "breakpoint"} => stop.pc = pc

(* The machine never executes the instruction at a breakpoint, unless it was  *)
(* resumed there or the address is a vector, where an interrupt enters and     *)
(* executes in one clock; and a step ends after one turn of the loop, whatever  *)
(* arrives meanwhile: gdb_server.cpp 141-172, cpu.cpp 157-166.                *)
StopsInTime ==
  [][Execute =>
       /\ client = "running" /\ executed' \in wanted => fresh \/ executed' \in Vectors
       /\ client = "stepping" => is_halted' \/ phase' # "serving"]_vars

(* A client that never sends ^C and never hangs up is not cut off by the      *)
(* parser, the assertion or the socket, however its packets run together, as  *)
(* long as no read ends inside a packet, which is an end of its own ("split"):  *)
(* remote_server.cpp 94-132 and 275.                                          *)
PoliteSessionParses ==
  phase \in {"unparsed", "assert", "dropped"} => interrupts > 0 \/ client = "gone"

(* Every request but c and s is answered, or the server has ended:            *)
(* remote_server.cpp 434-440.                                                 *)
Answered == client \in {"joining", "waiting"} ~> client \notin {"joining", "waiting"} \/ phase \in Ended

(* A ^C stops the machine, unless its program no longer moves PC:             *)
(* gdb_server.cpp 144 and 161.                                                *)
CtrlCSent == client \in Running /\ \E i \in 1..Len(buffer \o wire) : (buffer \o wire)[i] = CtrlC
InterruptStops ==
  CtrlCSent /\ loaded ~> client \notin Running \/ phase \in Ended \/ stuck

(* A client that waits is served: for the answer to a request, and for a stop  *)
(* after ^C, or the server has ended.                                         *)
ClientServed == Answered /\ InterruptStops
=============================================================================
