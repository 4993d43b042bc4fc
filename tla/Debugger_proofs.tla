--------------------------- MODULE Debugger_proofs ---------------------------
(* Theorems about Debugger, for every set of addresses and any number of ^C.  *)
(*                                                                            *)
(* What makes the session a dialogue is that one of three things at most is    *)
(* under way: a request that the server has not read, an answer or a stop that *)
(* the client has not received, or the machine, which runs (Turns).  What each *)
(* party believes of the other follows it step by step (Beliefs, Phases).      *)
EXTENDS Debugger, SequenceTheorems, TLAPS

Message == Request \cup {Ack, CtrlC}

(* What the client has sent and the server has not read, in order. *)
stream == buffer \o wire
Places == 1 .. Len(stream)
Asked(kinds) == \A i \in Places : stream[i] \in Request => stream[i].kind \in kinds

(* An acknowledgement comes first, one request at most is under way, and       *)
(* nothing but ^C behind it, which only a running machine is sent.            *)
Stream ==
  /\ \A i, j \in Places : stream[i] \in Request /\ stream[j] \in Request => i = j
  /\ \A i \in Places : stream[i] = Ack => i = 1
  /\ client \notin Running \cup {"gone"} =>
       \A i \in Places : stream[i] \in Request => i = Len(stream)
  /\ interrupts = 0 => \A i \in Places : stream[i] # CtrlC

Turns ==
  /\ InFlight => is_halted /\ replies = <<>>
  /\ replies # <<>> => is_halted
  /\ m_is_in_step => ~is_halted

Beliefs ==
  /\ client \in {"away", "asking", "listing"} => is_halted /\ ~InFlight /\ replies = <<>>
  /\ client \in {"joining", "waiting"} => is_halted /\ (replies # <<>> => stream = <<>>)
  /\ client = "listing" => stream = <<>>
  /\ client = "joining" => Asked({"no_ack"}) /\ (replies # <<>> => Head(replies).kind = "OK")
  /\ client = "waiting" => /\ Asked({"query", "read", "threads", "next", "k", "vRun", "Z", "z"})
                           /\ replies # <<>> => Head(replies) \in Reply
  /\ client = "running" => Asked({"c", "c_at"}) /\ ~m_is_in_step
  /\ client = "stepping" => Asked({"s"}) /\ (m_is_in_step \/ is_halted)
  /\ client \in Running /\ replies # <<>> => Head(replies) \in Stop

Phases ==
  /\ phase = "accepting" =>
       /\ is_halted /\ ~m_is_in_step /\ m_breakpoints = {}
       /\ client \in {"away", "waiting", "gone"}
       /\ client = "waiting" => replies # <<>> /\ Head(replies).kind = "X01"
  /\ client = "listing" => phase \in {"listing"} \cup Ended
  /\ phase = "listing" =>
       /\ client \in {"waiting", "listing", "gone"} /\ is_halted
       /\ client = "waiting" =>
            /\ stream = <<>> \/ stream = <<Simple("next")>>
            /\ replies # <<>> => Head(replies).kind = "m1"
  /\ phase = "serving" /\ client = "waiting" /\ replies # <<>> => Head(replies).kind # "m1"

(* The server's breakpoints when it has read what is under way. *)
Then(r) ==
  CASE r.kind = "Z" -> m_breakpoints \cup {r.addr}
    [] r.kind = "z" -> m_breakpoints \ {r.addr}
    [] OTHER -> m_breakpoints

Breakpoints ==
  phase \in {"serving", "listing"} =>
    /\ client \in {"joining", "asking", "listing"} \cup Running => m_breakpoints = wanted
    /\ client = "waiting" =>
         /\ ~InFlight /\ (replies # <<>> => Head(replies).kind # "X01") => m_breakpoints = wanted
         /\ \A i \in Places : stream[i] \in Request => wanted = Then(stream[i])

(* A machine that has moved since it was resumed is not at a breakpoint.        *)
Passed == phase = "serving" /\ ~is_halted /\ client = "running" /\ pc \in wanted => fresh

IInv == TypeOK /\ Stream /\ Turns /\ Beliefs /\ Phases /\ Breakpoints /\ Passed
        /\ StopsAreTrue /\ PoliteSessionParses

USE EntryAssumption, BoundAssumption

-----------------------------------------------------------------------------
(* Messages. *)

OnlyKind == {"query", "read", "threads", "no_ack", "next", "c", "s", "k", "vRun"}
WithAddress == {"Z", "z", "c_at"}
Asking == OnlyKind \cup WithAddress

(* The kind of a message tells what it is. *)
LEMMA MessageKinds ==
  /\ Ack \in Message /\ CtrlC \in Message /\ Request \subseteq Message
  /\ Ack.kind = "+" /\ CtrlC.kind = "^C"
  /\ \A m \in Message :
       /\ m \in Request <=> m.kind \in Asking
       /\ m = Ack <=> m.kind = "+"
       /\ m = CtrlC <=> m.kind = "^C"
       /\ m.kind \in Asking \cup {"+", "^C"}
       /\ m.kind \in OnlyKind => m = Simple(m.kind)
       /\ m.kind \in WithAddress => m.addr \in Addr
  <1>1. \A k \in OnlyKind : Simple(k) \in Request /\ Simple(k).kind = k
    BY DEF OnlyKind, Request, Questions, Simple
  <1>2. \A k \in WithAddress, a \in Addr :
          At(k, a) \in Request /\ At(k, a).kind = k /\ At(k, a).addr = a
    BY DEF WithAddress, Request, At
  <1>3. Ack = Simple("+") /\ Ack.kind = "+" /\ CtrlC = Simple("^C") /\ CtrlC.kind = "^C"
    BY DEF Ack, CtrlC, Simple
  <1>4. \A m \in Request : \/ \E k \in OnlyKind : m = Simple(k)
                           \/ \E k \in WithAddress, a \in Addr : m = At(k, a)
    BY DEF OnlyKind, WithAddress, Request, Questions
  <1>5. \A m \in Request :
          /\ m.kind \in Asking
          /\ m.kind \in OnlyKind => m = Simple(m.kind)
          /\ m.kind \in WithAddress => m.addr \in Addr
    BY <1>1, <1>2, <1>4 DEF Asking, OnlyKind, WithAddress
  <1> QED
    BY <1>3, <1>5 DEF Message, Asking, OnlyKind, WithAddress

(* So does the kind of a reply. *)
LEMMA ReplyKinds ==
  /\ \A k \in {"OK", "m1", "X01"} : [kind |-> k] \in Reply /\ [kind |-> k].kind = k
  /\ \A r \in Reply \cup Stop :
       /\ r \in Reply <=> r.kind # "T"
       /\ r \in Stop <=> r.kind = "T"
       /\ r.kind \in {"OK", "m1", "X01", "T"}
  BY DEF Reply, Stop

LEMMA StopKinds ==
  ASSUME NEW reason \in {"trace", "breakpoint", "trap"}, NEW a \in Addr
  PROVE  LET stop == [kind |-> "T", reason |-> reason, pc |-> a]
         IN  stop \in Stop /\ stop.kind = "T" /\ stop.reason = reason /\ stop.pc = a
  BY DEF Stop

(* One reply at most is on its way. *)
LEMMA OneReply ==
  ASSUME NEW S, NEW s \in Seq(S), Len(s) <= 1, s # <<>>
  PROVE  Head(s) \in S /\ Tail(s) = <<>>
  BY HeadTailProperties, EmptySeq

LEMMA FirstReply ==
  ASSUME NEW S, NEW r \in S
  PROVE  /\ Append(<<>>, r) \in Seq(S) /\ Append(<<>>, r) # <<>>
         /\ Head(Append(<<>>, r)) = r /\ Len(Append(<<>>, r)) <= 1
  OBVIOUS

-----------------------------------------------------------------------------
(* What is under way. *)

LEMMA Arrived ==
  ASSUME NEW S, NEW s \in Seq(S), NEW t \in Seq(S), t # <<>>
  PROVE  Append(s, Head(t)) \o Tail(t) = s \o t
  <1> DEFINE left == Append(s, Head(t)) \o Tail(t)
             right == s \o t
  <1>1. /\ Head(t) \in S /\ Tail(t) \in Seq(S) /\ Len(t) \in Nat /\ Len(t) >= 1
        /\ Len(Tail(t)) = Len(t) - 1 /\ Head(t) = t[1]
        /\ \A i \in 1 .. Len(Tail(t)) : Tail(t)[i] = t[i + 1]
    BY HeadTailProperties, EmptySeq
  <1>2. /\ Append(s, Head(t)) \in Seq(S) /\ Len(Append(s, Head(t))) = Len(s) + 1
        /\ \A i \in 1 .. Len(s) : Append(s, Head(t))[i] = s[i]
        /\ Append(s, Head(t))[Len(s) + 1] = t[1]
    BY <1>1, AppendProperties
  <1>3. /\ left \in Seq(S) /\ right \in Seq(S)
        /\ Len(left) = Len(s) + Len(t) /\ Len(right) = Len(s) + Len(t)
    BY <1>1, <1>2, ConcatProperties
  <1>4. ASSUME NEW i \in 1 .. Len(left) PROVE left[i] = right[i]
    BY <1>1, <1>2, <1>3, ConcatProperties
  <1> QED  BY <1>3, <1>4, SeqEqual

LEMMA SentLast ==
  ASSUME NEW S, NEW s \in Seq(S), NEW t \in Seq(S), NEW m \in S
  PROVE  s \o Append(t, m) = Append(s \o t, m)
  <1> DEFINE left == s \o Append(t, m)
             right == Append(s \o t, m)
  <1>1. /\ Append(t, m) \in Seq(S) /\ Len(Append(t, m)) = Len(t) + 1
        /\ \A i \in 1 .. Len(t) : Append(t, m)[i] = t[i]
        /\ Append(t, m)[Len(t) + 1] = m
        /\ Len(s) \in Nat /\ Len(t) \in Nat
    BY AppendProperties
  <1>2. /\ s \o t \in Seq(S) /\ Len(s \o t) = Len(s) + Len(t)
        /\ \A i \in 1 .. Len(s) + Len(t) :
             (s \o t)[i] = IF i <= Len(s) THEN s[i] ELSE t[i - Len(s)]
    BY ConcatProperties
  <1>3. /\ right \in Seq(S) /\ Len(right) = Len(s) + Len(t) + 1
        /\ \A i \in 1 .. Len(s) + Len(t) : right[i] = (s \o t)[i]
        /\ right[Len(s) + Len(t) + 1] = m
    BY <1>2, AppendProperties
  <1>4. /\ left \in Seq(S) /\ Len(left) = Len(s) + Len(t) + 1
        /\ \A i \in 1 .. Len(s) + Len(t) + 1 :
             left[i] = IF i <= Len(s) THEN s[i] ELSE Append(t, m)[i - Len(s)]
    BY <1>1, ConcatProperties
  <1>5. ASSUME NEW i \in 1 .. Len(left) PROVE left[i] = right[i]
    BY <1>1, <1>2, <1>3, <1>4
  <1> QED  BY <1>3, <1>4, <1>5, SeqEqual

LEMMA StreamType ==
  ASSUME TypeOK
  PROVE  /\ buffer \in Seq(Message) /\ wire \in Seq(Message) /\ stream \in Seq(Message)
         /\ Len(buffer) \in Nat /\ Len(wire) \in Nat /\ Len(stream) \in Nat
         /\ Len(stream) = Len(buffer) + Len(wire)
         /\ \A i \in Places : stream[i] \in Message
         /\ \A i \in 1 .. Len(buffer) : i \in Places /\ stream[i] = buffer[i]
         /\ \A i \in 1 .. Len(wire) : Len(buffer) + i \in Places /\ stream[Len(buffer) + i] = wire[i]
         /\ stream = <<>> <=> Len(stream) = 0
         /\ buffer = <<>> <=> Len(buffer) = 0
         /\ wire = <<>> <=> Len(wire) = 0
  <1>1. /\ buffer \in Seq(Message) /\ wire \in Seq(Message)
        /\ Len(buffer) \in Nat /\ Len(wire) \in Nat
    BY DEF TypeOK, Message
  <1>2. stream \in Seq(Message) /\ Len(stream) = Len(buffer) + Len(wire)
    BY <1>1, ConcatProperties DEF stream
  <1>3. \A i \in Places :
          stream[i] = IF i <= Len(buffer) THEN buffer[i] ELSE wire[i - Len(buffer)]
    BY <1>1, <1>2, ConcatProperties DEF stream, Places
  <1>4. \A i \in Places : stream[i] \in Message
    BY <1>2 DEF Places
  <1>5. \A i \in 1 .. Len(buffer) : i \in Places /\ stream[i] = buffer[i]
    BY <1>1, <1>2, <1>3 DEF Places
  <1>6. ASSUME NEW i \in 1 .. Len(wire)
        PROVE  Len(buffer) + i \in Places /\ stream[Len(buffer) + i] = wire[i]
    <2>1. Len(buffer) + i \in Places /\ ~(Len(buffer) + i <= Len(buffer))
      BY <1>1, <1>2 DEF Places
    <2> QED  BY <2>1, <1>1, <1>3
  <1> QED  BY <1>1, <1>2, <1>4, <1>5, <1>6, EmptySeq

LEMMA InFlightStream == InFlight <=> \E i \in Places : stream[i] \in Request
  BY DEF InFlight, Places, stream

LEMMA StreamKept ==
  ASSUME UNCHANGED <<buffer, wire>>
  PROVE  stream' = stream /\ Places' = Places /\ InFlight' = InFlight
  BY DEF stream, Places, InFlight

LEMMA StreamArrives ==
  ASSUME TypeOK, Arrive
  PROVE  stream' = stream /\ Places' = Places /\ InFlight' = InFlight
  <1>1. buffer \in Seq(Message) /\ wire \in Seq(Message) /\ wire # <<>>
    BY StreamType DEF Arrive
  <1>2. Append(buffer, Head(wire)) \o Tail(wire) = buffer \o wire
    BY <1>1, Arrived
  <1>3. buffer' = Append(buffer, Head(wire)) /\ wire' = Tail(wire)
    BY DEF Arrive
  <1>4. buffer' \o wire' = buffer \o wire
    BY <1>2, <1>3
  <1> QED  BY <1>4 DEF stream, Places, InFlight

LEMMA StreamSent ==
  ASSUME TypeOK, NEW m \in Message, wire' = Append(wire, m), buffer' = buffer
  PROVE  /\ wire' \in Seq(Message) /\ stream' = Append(stream, m)
         /\ Len(stream') = Len(stream) + 1
         /\ \A i \in Places : i \in Places' /\ stream'[i] = stream[i]
         /\ Len(stream) + 1 \in Places' /\ stream'[Len(stream) + 1] = m
         /\ \A i \in Places' : i \in Places \/ i = Len(stream) + 1
         /\ InFlight' <=> InFlight \/ m \in Request
         /\ stream' # <<>>
  <1>1. /\ buffer \in Seq(Message) /\ wire \in Seq(Message) /\ stream \in Seq(Message)
        /\ Len(stream) \in Nat
    BY StreamType
  <1>2. stream' = Append(stream, m)
    BY <1>1, SentLast DEF stream
  <1>3. /\ Append(stream, m) \in Seq(Message) /\ Len(Append(stream, m)) = Len(stream) + 1
        /\ \A i \in 1 .. Len(stream) : Append(stream, m)[i] = stream[i]
        /\ Append(stream, m)[Len(stream) + 1] = m
        /\ Append(stream, m) # <<>>
    BY <1>1, AppendProperties
  <1>4. Places' = 1 .. Len(stream) + 1 /\ Places = 1 .. Len(stream)
    BY <1>2, <1>3 DEF Places
  <1>5. /\ \A i \in Places : i \in Places' /\ stream'[i] = stream[i]
        /\ Len(stream) + 1 \in Places' /\ stream'[Len(stream) + 1] = m
        /\ \A i \in Places' : i \in Places \/ i = Len(stream) + 1
    BY <1>1, <1>2, <1>3, <1>4
  <1>6. InFlight' <=> \E i \in Places' : stream'[i] \in Request
    BY DEF InFlight, Places, stream
  <1>7. InFlight' <=> InFlight \/ m \in Request
    BY <1>5, <1>6, InFlightStream
  <1>8. Append(wire, m) \in Seq(Message)
    BY <1>1, AppendProperties
  <1> QED  BY <1>2, <1>3, <1>5, <1>7, <1>8

(* A read empties the buffer. *)
LEMMA StreamRead ==
  ASSUME TypeOK, buffer' = <<>>, wire' = wire
  PROVE  /\ Len(stream') = Len(wire)
         /\ \A i \in Places' : Len(buffer) + i \in Places /\ stream'[i] = stream[Len(buffer) + i]
         /\ \A i \in Places : i \in 1 .. Len(buffer) \/ (i - Len(buffer) \in Places')
         /\ InFlight' => InFlight
         /\ Places' \subseteq Nat
         /\ stream' = <<>> <=> wire = <<>>
  <1>1. wire \in Seq(Message) /\ Len(wire) \in Nat /\ Len(buffer) \in Nat
    BY StreamType
  <1>2. <<>> \o wire = wire
    BY <1>1, ConcatEmptySeq
  <1>3. stream' = wire
    BY <1>2 DEF stream
  <1>4. Places' = 1 .. Len(wire)
    BY <1>3 DEF Places
  <1>5. \A i \in Places' : Len(buffer) + i \in Places /\ stream'[i] = stream[Len(buffer) + i]
    BY <1>3, <1>4, StreamType
  <1>6. InFlight' <=> \E i \in Places' : stream'[i] \in Request
    BY DEF InFlight, Places, stream
  <1>7. InFlight' => InFlight
    BY <1>5, <1>6, InFlightStream
  <1>8. \A i \in Places : i \in 1 .. Len(buffer) \/ (i - Len(buffer) \in Places')
    BY <1>1, <1>4, StreamType DEF Places
  <1> QED  BY <1>1, <1>3, <1>4, <1>5, <1>7, <1>8

-----------------------------------------------------------------------------
(* A packet is the last message of the buffer, and only an acknowledgement may *)
(* be before it.                                                              *)
LEMMA PacketIsLast ==
  ASSUME TypeOK, NEW kinds, Takes(kinds)
  PROVE  /\ Len(buffer) \in Places /\ stream[Len(buffer)] = Packet[1]
         /\ Packet[1] \in Message /\ Packet[1].kind \in kinds
         /\ \A i \in 1 .. Len(buffer) : i # Len(buffer) => stream[i] = Ack
         /\ buffer' = <<>> /\ wire' = wire
  <1>1. /\ buffer \in Seq(Message) /\ Len(buffer) \in Nat
        /\ \A i \in 1 .. Len(buffer) : i \in Places /\ stream[i] = buffer[i]
        /\ \A i \in Places : stream[i] \in Message
    BY StreamType
  <1>2. Len(Packet) = 1 /\ Packet[1].kind \in kinds /\ buffer' = <<>> /\ wire' = wire
    BY DEF Takes
  <1>3. CASE Len(buffer) > 1 /\ Head(buffer) = Ack
    <2>1. Packet = Tail(buffer) /\ buffer # <<>>
      BY <1>3, <1>1, EmptySeq DEF Packet
    <2>2. /\ Len(Tail(buffer)) = Len(buffer) - 1
          /\ \A i \in 1 .. Len(Tail(buffer)) : Tail(buffer)[i] = buffer[i + 1]
      BY <1>1, <2>1, HeadTailProperties
    <2>3. Len(buffer) = 2
      BY <1>1, <1>2, <2>1, <2>2
    <2>4. 1 \in 1 .. 1 /\ 1 \in 1 .. 2 /\ 2 \in 1 .. 2 /\ 1 + 1 = 2
      OBVIOUS
    <2>5. Packet[1] = buffer[2]
      BY <2>1, <2>2, <2>3, <2>4
    <2>6. buffer[1] = Ack
      BY <1>3
    <2> QED  BY <1>1, <1>2, <2>3, <2>4, <2>5, <2>6
  <1>4. CASE ~(Len(buffer) > 1 /\ Head(buffer) = Ack)
    <2>1. Packet = buffer
      BY <1>4 DEF Packet
    <2>2. Len(buffer) = 1
      BY <1>2, <2>1
    <2>3. 1 \in 1 .. 1
      OBVIOUS
    <2>4. 1 \in Places /\ stream[1] = buffer[1] /\ Packet[1] = buffer[1]
      BY <1>1, <2>1, <2>2, <2>3
    <2>5. \A i \in 1 .. Len(buffer) : i = Len(buffer)
      BY <2>2
    <2> QED  BY <1>1, <1>2, <2>2, <2>4, <2>5
  <1> QED  BY <1>3, <1>4

(* Unread messages stay in order when what is before them is read. *)
LEMMA StreamAfterRead ==
  ASSUME TypeOK, Stream, buffer' = <<>>, wire' = wire, UNCHANGED user
  PROVE  Stream'
  <1>1. /\ Len(buffer) \in Nat /\ Len(wire) \in Nat /\ Len(stream) = Len(buffer) + Len(wire)
        /\ Len(stream') = Len(wire) /\ Places' \subseteq Nat
        /\ \A i \in Places' : Len(buffer) + i \in Places /\ stream'[i] = stream[Len(buffer) + i]
    BY StreamType, StreamRead
  <1>2. Places' = 1 .. Len(wire)
    BY <1>1 DEF Places
  <1>3. client' = client /\ interrupts' = interrupts
    BY DEF user
  <1>4. ASSUME NEW i \in Places', NEW j \in Places', stream'[i] \in Request, stream'[j] \in Request
        PROVE  i = j
    <2>1. Len(buffer) + i = Len(buffer) + j
      BY <1>1, <1>4 DEF Stream
    <2> QED  BY <1>1, <1>2, <2>1
  <1>5. ASSUME NEW i \in Places', stream'[i] = Ack
        PROVE  i = 1
    <2>1. Len(buffer) + i = 1
      BY <1>1, <1>5 DEF Stream
    <2> QED  BY <1>1, <1>2, <2>1
  <1>6. ASSUME client' \notin Running \cup {"gone"}, NEW i \in Places', stream'[i] \in Request
        PROVE  i = Len(stream')
    <2>1. Len(buffer) + i = Len(stream)
      BY <1>1, <1>3, <1>6 DEF Stream
    <2> QED  BY <1>1, <1>2, <2>1
  <1>7. interrupts' = 0 => \A i \in Places' : stream'[i] # CtrlC
    BY <1>1, <1>3 DEF Stream
  <1> QED  BY <1>4, <1>5, <1>6, <1>7 DEF Stream

(* No second request is under way when one has been read. *)
LEMMA RequestRead ==
  ASSUME TypeOK, Stream, buffer' = <<>>, wire' = wire,
         NEW n \in 1 .. Len(buffer), stream[n] \in Request
  PROVE  InFlight /\ ~InFlight' /\ (\A i \in Places' : stream'[i] \notin Request)
  <1>1. /\ Len(buffer) \in Nat /\ Len(wire) \in Nat /\ n \in Places
        /\ Len(stream') = Len(wire)
        /\ \A i \in Places' : Len(buffer) + i \in Places /\ stream'[i] = stream[Len(buffer) + i]
    BY StreamType, StreamRead
  <1>2. ASSUME NEW i \in Places', stream'[i] \in Request
        PROVE  FALSE
    <2>1. Len(buffer) + i = n
      BY <1>1, <1>2 DEF Stream
    <2>2. i \in 1 .. Len(wire)
      BY <1>1 DEF Places
    <2> QED  BY <1>1, <2>1, <2>2
  <1>3. InFlight' <=> \E i \in Places' : stream'[i] \in Request
    BY DEF InFlight, Places, stream
  <1> QED  BY <1>1, <1>2, <1>3, InFlightStream

(* What the server knows when it reads a request. *)
LEMMA Taking ==
  ASSUME IInv, NEW kinds \in SUBSET Asking, Takes(kinds)
  PROVE  /\ Packet[1] \in Request /\ Packet[1].kind \in kinds
         /\ Packet[1].kind \in WithAddress => Packet[1].addr \in Addr
         /\ is_halted /\ ~m_is_in_step /\ replies = <<>> /\ phase = "serving"
         /\ client \in {"joining", "waiting", "gone"} \cup Running
         /\ client = "joining" => Packet[1].kind = "no_ack"
         /\ client = "waiting" =>
              Packet[1].kind \in {"query", "read", "threads", "next", "k", "vRun", "Z", "z"}
         /\ client = "running" => Packet[1].kind \in {"c", "c_at"}
         /\ client = "stepping" => Packet[1].kind = "s"
         /\ client \in {"joining"} \cup Running => m_breakpoints = wanted
         /\ client = "waiting" => wanted = Then(Packet[1])
         /\ client \in {"joining", "waiting"} => stream' = <<>>
         /\ InFlight /\ ~InFlight' /\ (\A i \in Places' : stream'[i] \notin Request)
         /\ Stream'
         /\ UNCHANGED user /\ buffer' = <<>> /\ wire' = wire /\ cut' = cut /\ cut \in BOOLEAN
         /\ buffer' \in Seq(Message) /\ wire' \in Seq(Message)
  <1> DEFINE n == Len(buffer)
             r == Packet[1]
  <1>1. TypeOK /\ Stream /\ Turns /\ Beliefs /\ Breakpoints
    BY DEF IInv
  <1>2. /\ n \in Places /\ stream[n] = r /\ r \in Message /\ r.kind \in kinds
        /\ buffer' = <<>> /\ wire' = wire
    BY <1>1, PacketIsLast
  <1>3. r \in Request /\ (r.kind \in WithAddress => r.addr \in Addr)
    BY <1>2, MessageKinds
  <1>4. UNCHANGED user /\ cut' = cut /\ cut \in BOOLEAN /\ is_halted \in BOOLEAN /\ Reading
    BY <1>1 DEF Takes, TypeOK
  <1>5. InFlight
    BY <1>2, <1>3, InFlightStream
  <1>6. is_halted /\ replies = <<>> /\ ~m_is_in_step /\ phase = "serving"
    BY <1>1, <1>4, <1>5 DEF Turns, Reading
  <1>7. client \in {"joining", "waiting", "gone"} \cup Running
    BY <1>1, <1>5 DEF Beliefs, TypeOK
  <1>8. /\ client = "joining" => r.kind = "no_ack"
        /\ client = "waiting" =>
             r.kind \in {"query", "read", "threads", "next", "k", "vRun", "Z", "z"}
        /\ client = "running" => r.kind \in {"c", "c_at"}
        /\ client = "stepping" => r.kind = "s"
    BY <1>1, <1>2, <1>3 DEF Beliefs, Asked
  <1>9. /\ client \in {"joining"} \cup Running => m_breakpoints = wanted
        /\ client = "waiting" => wanted = Then(r)
    BY <1>1, <1>2, <1>3, <1>6 DEF Breakpoints
  <1>10. /\ Len(buffer) \in Nat /\ Len(wire) \in Nat /\ Len(stream) = n + Len(wire)
         /\ Len(stream') = Len(wire) /\ Places' \subseteq Nat
         /\ \A i \in Places' : n + i \in Places /\ stream'[i] = stream[n + i]
         /\ stream' = <<>> <=> wire = <<>>
         /\ wire = <<>> <=> Len(wire) = 0
         /\ wire \in Seq(Message) /\ buffer' \in Seq(Message)
    BY <1>1, <1>2, StreamType, StreamRead, EmptySeq
  <1>11. n \in 1 .. Len(buffer)
    BY <1>2, <1>10 DEF Places
  <1>12. ~InFlight' /\ (\A i \in Places' : stream'[i] \notin Request)
    BY <1>1, <1>2, <1>3, <1>11, RequestRead
  <1>13. client \in {"joining", "waiting"} => stream' = <<>>
    <2>1. client \in {"joining", "waiting"} => n = Len(stream)
      BY <1>1, <1>2, <1>3 DEF Stream, Running
    <2> QED  BY <1>10, <2>1
  <1>14. Stream'
    BY <1>1, <1>2, <1>4, StreamAfterRead
  <1> QED  BY <1>2, <1>3, <1>4, <1>5, <1>6, <1>7, <1>8, <1>9, <1>10, <1>11, <1>12, <1>13, <1>14

(* An answer or a stop when there is none on its way. *)
LEMMA Replied ==
  ASSUME replies = <<>>, NEW r \in Reply \cup Stop, replies' = Append(replies, r)
  PROVE  /\ replies' \in Seq(Reply \cup Stop) /\ Len(replies') <= 1
         /\ replies' # <<>> /\ Head(replies') = r
  <1>1. replies' = Append(<<>>, r)
    OBVIOUS
  <1> QED  BY ONLY <1>1, FirstReply

LEMMA AnswersOnce ==
  ASSUME replies = <<>>, NEW k \in {"OK", "m1", "X01"}, Answers(k)
  PROVE  /\ replies' \in Seq(Reply \cup Stop) /\ Len(replies') <= 1 /\ replies' # <<>>
         /\ Head(replies') \in Reply /\ Head(replies').kind = k /\ Head(replies') \notin Stop
  BY Replied, ReplyKinds DEF Answers

LEMMA TurnPhase == Turn \in {"serving"} \cup Ended /\ Turn \notin {"unparsed", "assert", "dropped"}
  BY DEF Turn, Ended

(* Every request that is answered "OK" at once. *)
LEMMA AnswerStep ==
  ASSUME IInv,
         NEW kinds \in SUBSET {"query", "no_ack", "read", "threads", "Z", "z", "vRun"},
         Takes(kinds), Answers("OK"),
         pc' \in Addr, committed_pc' \in Addr, age' \in 0 .. 2, loaded' \in BOOLEAN,
         UNCHANGED <<stuck, history, is_halted, m_is_in_step, exit_requested>>,
         m_breakpoints' = Then(Packet[1]),
         phase' \in ({"serving"} \cup Ended) \ {"unparsed", "assert", "dropped"}
  PROVE  IInv'
  <1>1. kinds \in SUBSET Asking
    BY DEF Asking, OnlyKind, WithAddress
  <1>2. /\ Packet[1].kind \in {"query", "no_ack", "read", "threads", "Z", "z", "vRun"}
        /\ UNCHANGED <<client, wanted, interrupts>>
    BY <1>1, Taking DEF user
  <1>3. m_breakpoints' \subseteq Addr
    BY <1>1, Taking DEF IInv, TypeOK, Then, WithAddress
  <1>4. TypeOK'
    BY <1>1, <1>2, <1>3, Taking, AnswersOnce DEF IInv, TypeOK, Message, history
  <1>5. Turns'
    BY <1>1, <1>2, Taking DEF Turns
  <1>6. Beliefs'
    BY <1>1, <1>2, Taking, AnswersOnce DEF IInv, Beliefs, Asked, Running
  <1>7. Phases'
    BY <1>1, <1>2, Taking, AnswersOnce DEF IInv, Phases, Ended
  <1>8. Then(Packet[1]) = m_breakpoints \/ Packet[1].kind \in {"Z", "z"}
    BY DEF Then
  <1>9. Breakpoints'
    BY <1>1, <1>2, <1>8, Taking, AnswersOnce DEF Breakpoints, Running
  <1>10. StopsAreTrue'
    BY <1>1, <1>2, Taking, AnswersOnce DEF StopsAreTrue, Running
  <1>11. PoliteSessionParses' /\ Passed'
    BY <1>1, Taking DEF PoliteSessionParses, Passed
  <1> QED  BY <1>1, <1>4, <1>5, <1>6, <1>7, <1>9, <1>10, <1>11, Taking DEF IInv

(* Every request that is the last one. *)
LEMMA LastStep ==
  ASSUME IInv, NEW kinds \in SUBSET Asking, Takes(kinds), replies' = replies,
         UNCHANGED <<pc, committed_pc, age, stuck, executed, loaded, is_halted, exit_requested>>,
         fresh' \in BOOLEAN,
         m_breakpoints' \subseteq Addr, ~m_is_in_step' /\ m_is_in_step' \in BOOLEAN,
         phase' \in Ended \ {"unparsed", "assert", "dropped"}
  PROVE  IInv'
  <1>1. UNCHANGED <<client, wanted, interrupts>>
    BY Taking DEF user
  <1>2. TypeOK'
    BY <1>1, Taking DEF IInv, TypeOK, Message
  <1>3. Turns'
    BY <1>1, Taking DEF Turns
  <1>4. Beliefs'
    BY <1>1, Taking DEF IInv, Beliefs, Asked, Running
  <1>5. Phases' /\ Breakpoints'
    BY <1>1, Taking DEF Phases, Breakpoints, Ended
  <1>6. StopsAreTrue' /\ PoliteSessionParses' /\ Passed'
    BY <1>1, Taking DEF StopsAreTrue, PoliteSessionParses, Passed, Ended
  <1> QED  BY <1>2, <1>3, <1>4, <1>5, <1>6, Taking DEF IInv

LEMMA QueryStep ==
  ASSUME IInv, Query PROVE IInv'
  <1> DEFINE kinds == {"query", "no_ack"}
  <1>1. kinds \in SUBSET {"query", "no_ack", "read", "threads", "Z", "z", "vRun"}
    OBVIOUS
  <1>2. kinds \in SUBSET Asking
    BY DEF Asking, OnlyKind
  <1>3. Takes(kinds) /\ Answers("OK") /\ phase' = Turn
        /\ UNCHANGED <<pc, committed_pc, age, stuck, history, loaded, is_halted, m_is_in_step,
                       m_breakpoints, exit_requested>>
    BY DEF Query, machine, control
  <1>4. Then(Packet[1]) = m_breakpoints
    BY <1>2, <1>3, Taking DEF Then
  <1>5. pc' \in Addr /\ committed_pc' \in Addr /\ age' \in 0 .. 2 /\ loaded' \in BOOLEAN
    BY <1>3 DEF IInv, TypeOK
  <1> HIDE DEF kinds
  <1> QED  BY <1>1, <1>3, <1>4, <1>5, AnswerStep, TurnPhase

LEMMA ReadDataStep ==
  ASSUME IInv, ReadData PROVE IInv'
  <1> DEFINE kinds == {"read"}
  <1>1. kinds \in SUBSET {"query", "no_ack", "read", "threads", "Z", "z", "vRun"}
    OBVIOUS
  <1>2. kinds \in SUBSET Asking
    BY DEF Asking, OnlyKind
  <1>3. Takes(kinds)
        /\ UNCHANGED <<pc, committed_pc, stuck, history, loaded, is_halted, m_is_in_step,
                       m_breakpoints, exit_requested>>
    BY DEF ReadData, control
  <1>4. ~m_is_in_step /\ Then(Packet[1]) = m_breakpoints
    BY <1>2, <1>3, Taking DEF Then
  <1>5. pc' \in Addr /\ committed_pc' \in Addr /\ loaded' \in BOOLEAN /\ age \in 0 .. 2
        /\ m_breakpoints' \subseteq Addr /\ m_is_in_step' \in BOOLEAN
    BY <1>3 DEF IInv, TypeOK
  <1>6. CASE phase' = Turn /\ Answers("OK") /\ age' \in {age, IF age = 0 THEN 0 ELSE 2}
    <2>1. age' \in 0 .. 2
      BY <1>5, <1>6
    <2> HIDE DEF kinds
    <2> QED  BY <1>1, <1>3, <1>4, <1>5, <1>6, <2>1, AnswerStep, TurnPhase
  <1>7. CASE phase' \in {"null", "uncaught"} /\ UNCHANGED <<age, replies>>
    <2>1. phase' \in Ended \ {"unparsed", "assert", "dropped"}
      BY <1>7 DEF Ended
    <2>2. UNCHANGED <<age, executed, fresh>> /\ fresh' \in BOOLEAN
      BY <1>3, <1>7 DEF history, IInv, TypeOK
    <2> HIDE DEF kinds
    <2> QED  BY <1>2, <1>3, <1>4, <1>5, <1>7, <2>1, <2>2, LastStep
  <1> QED  BY <1>6, <1>7 DEF ReadData

LEMMA BreakpointStep ==
  ASSUME IInv, Breakpoint PROVE IInv'
  <1> DEFINE kinds == {"Z", "z"}
  <1>1. kinds \in SUBSET {"query", "no_ack", "read", "threads", "Z", "z", "vRun"}
    OBVIOUS
  <1>2. kinds \in SUBSET Asking
    BY DEF Asking, WithAddress
  <1>3. Takes(kinds) /\ Answers("OK") /\ phase' = Turn
        /\ UNCHANGED <<pc, committed_pc, age, stuck, history, loaded, is_halted, m_is_in_step,
                       exit_requested>>
    BY DEF Breakpoint, machine
  <1>4. m_breakpoints' = Then(Packet[1])
    BY <1>2, <1>3, Taking DEF Breakpoint, Then
  <1>5. pc' \in Addr /\ committed_pc' \in Addr /\ age' \in 0 .. 2 /\ loaded' \in BOOLEAN
    BY <1>3 DEF IInv, TypeOK
  <1> HIDE DEF kinds
  <1> QED  BY <1>1, <1>3, <1>4, <1>5, AnswerStep, TurnPhase

LEMMA RunElfStep ==
  ASSUME IInv, RunElf PROVE IInv'
  <1> DEFINE kinds == {"vRun"}
  <1>1. kinds \in SUBSET {"query", "no_ack", "read", "threads", "Z", "z", "vRun"}
    OBVIOUS
  <1>2. kinds \in SUBSET Asking
    BY DEF Asking, OnlyKind
  <1>3. Takes(kinds) /\ Answers("OK") /\ loaded' = TRUE
        /\ pc' = Entry /\ committed_pc' = Entry /\ age' = 0
        /\ UNCHANGED <<stuck, history, is_halted, m_is_in_step, m_breakpoints, exit_requested>>
    BY DEF RunElf, control
  <1>4. Then(Packet[1]) = m_breakpoints
    BY <1>2, <1>3, Taking DEF Then
  <1>5. phase' \in ({"serving"} \cup Ended) \ {"unparsed", "assert", "dropped"}
    BY DEF RunElf, Ended
  <1>6. pc' \in Addr /\ committed_pc' \in Addr /\ age' \in 0 .. 2 /\ loaded' \in BOOLEAN
    BY <1>3
  <1> HIDE DEF kinds
  <1> QED  BY <1>1, <1>3, <1>4, <1>5, <1>6, AnswerStep

LEMMA LastSteps ==
  ASSUME IInv, KillFails \/ RunFails \/ (ContinueAt /\ ~loaded) PROVE IInv'
  <1>1. \E kinds \in SUBSET Asking : Takes(kinds)
    BY DEF KillFails, RunFails, ContinueAt, Asking, OnlyKind, WithAddress
  <1>2. PICK kinds \in SUBSET Asking : Takes(kinds)
    BY <1>1
  <1>3. ~m_is_in_step
    BY <1>2, Taking
  <1>4. /\ replies' = replies
        /\ UNCHANGED <<pc, committed_pc, age, stuck, executed, loaded, is_halted, exit_requested>>
        /\ fresh' \in {fresh, TRUE}
        /\ m_breakpoints' \in {m_breakpoints, {}}
        /\ m_is_in_step' = m_is_in_step \/ m_is_in_step' = FALSE
        /\ phase' \in {"hung", "null", "uncaught"}
    BY DEF KillFails, RunFails, ContinueAt, machine, history, control
  <1>5. m_breakpoints' \subseteq Addr /\ fresh' \in BOOLEAN
    BY <1>4 DEF IInv, TypeOK
  <1>5a. m_is_in_step = FALSE
    BY <1>3 DEF IInv, TypeOK
  <1>5b. m_is_in_step' = FALSE
    BY <1>4, <1>5a
  <1>6. phase' \in Ended \ {"unparsed", "assert", "dropped"}
    BY <1>4 DEF Ended
  <1> QED  BY <1>2, <1>4, <1>5, <1>5b, <1>6, LastStep

LEMMA ListThreadsStep ==
  ASSUME IInv, ListThreads PROVE IInv'
  <1> DEFINE kinds == {"threads"}
  <1>1. kinds \in SUBSET {"query", "no_ack", "read", "threads", "Z", "z", "vRun"}
    OBVIOUS
  <1>2. kinds \in SUBSET Asking
    BY DEF Asking, OnlyKind
  <1>3. Takes(kinds)
        /\ UNCHANGED <<pc, committed_pc, age, stuck, history, loaded, is_halted, m_is_in_step,
                       m_breakpoints, exit_requested>>
    BY DEF ListThreads, machine, control
  <1>4. Packet[1].kind = "threads" /\ Then(Packet[1]) = m_breakpoints
    BY <1>2, <1>3, Taking DEF Then
  <1>5. pc' \in Addr /\ committed_pc' \in Addr /\ age' \in 0 .. 2 /\ loaded' \in BOOLEAN
    BY <1>3 DEF IInv, TypeOK
  <1> HIDE DEF kinds
  <1>6. CASE ~loaded
    <2>1. Answers("OK") /\ phase' = Turn
      BY <1>6 DEF ListThreads
    <2> QED  BY <1>1, <1>3, <1>4, <1>5, <2>1, AnswerStep, TurnPhase
  <1>7. CASE loaded
    <2>1. Answers("m1") /\ phase' = "listing"
      BY <1>7 DEF ListThreads
    <2>2. client' = client /\ wanted' = wanted /\ interrupts' = interrupts
          /\ client \in {"waiting", "gone"}
      BY <1>2, <1>3, <1>4, Taking DEF user, Running
    <2>3. TypeOK'
      BY <1>2, <1>3, <2>1, <2>2, Taking, AnswersOnce DEF IInv, TypeOK, Message, history
    <2>4. Turns' /\ PoliteSessionParses' /\ Passed'
      BY <1>2, <1>3, <2>1, Taking DEF Turns, PoliteSessionParses, Passed
    <2>5. Beliefs'
      BY <1>2, <1>3, <2>1, <2>2, Taking, AnswersOnce DEF Beliefs, Asked, Running
    <2>6. Phases'
      BY <1>2, <1>3, <2>1, <2>2, Taking, AnswersOnce DEF Phases, Ended
    <2>7. Breakpoints'
      BY <1>2, <1>3, <1>4, <2>1, <2>2, Taking, AnswersOnce DEF Breakpoints, Running
    <2>8. StopsAreTrue'
      BY <1>2, <1>3, <2>1, <2>2, Taking, AnswersOnce DEF StopsAreTrue
    <2> QED  BY <1>2, <1>3, <2>3, <2>4, <2>5, <2>6, <2>7, <2>8, Taking DEF IInv
  <1> QED  BY <1>6, <1>7

LEMMA KillStep ==
  ASSUME IInv, Kill PROVE IInv'
  <1> DEFINE kinds == {"k"}
  <1>1. kinds \in SUBSET Asking
    BY DEF Asking, OnlyKind
  <1>2. /\ Takes(kinds) /\ Answers("X01") /\ phase' = "accepting"
        /\ m_breakpoints' = {} /\ m_is_in_step' = FALSE /\ is_halted' = TRUE
        /\ pc' = Entry /\ age' = 0
        /\ UNCHANGED <<committed_pc, stuck, history, loaded, exit_requested>>
    BY DEF Kill
  <1>3. Packet[1].kind = "k"
    BY <1>1, <1>2, Taking
  <1>4. client' = client /\ wanted' = wanted /\ interrupts' = interrupts
        /\ client \in {"waiting", "gone"}
    BY <1>1, <1>2, <1>3, Taking DEF user, Running
  <1> HIDE DEF kinds
  <1>5. TypeOK'
    <2>1. /\ replies' \in Seq(Reply \cup Stop) /\ Len(replies') <= 1
          /\ buffer' \in Seq(Message) /\ wire' \in Seq(Message)
      BY <1>1, <1>2, Taking, AnswersOnce
    <2>2. is_halted' \in BOOLEAN /\ m_is_in_step' \in BOOLEAN
      BY <1>2, Zenon
    <2>3. m_breakpoints' \subseteq Addr /\ pc' \in Addr
      BY <1>2, Zenon
    <2>4. age' \in 0 .. 2
      BY <1>2
    <2>5. cut' \in BOOLEAN /\ executed' \in Addr /\ fresh' \in BOOLEAN
      BY <1>1, <1>2, Taking DEF IInv, TypeOK, history
    <2> QED  BY <1>2, <1>4, <2>1, <2>2, <2>3, <2>4, <2>5 DEF IInv, TypeOK, Message
  <1>6. Turns' /\ PoliteSessionParses' /\ Passed'
    BY <1>1, <1>2, Taking DEF Turns, PoliteSessionParses, Passed
  <1>7. Beliefs'
    BY <1>1, <1>2, <1>4, Taking, AnswersOnce DEF Beliefs, Asked, Running
  <1>8. Phases' /\ Breakpoints'
    BY <1>1, <1>2, <1>4, Taking, AnswersOnce DEF Phases, Breakpoints
  <1>9. StopsAreTrue'
    BY <1>1, <1>2, <1>4, Taking, AnswersOnce DEF StopsAreTrue
  <1> QED  BY <1>1, <1>2, <1>5, <1>6, <1>7, <1>8, <1>9, Taking DEF IInv

(* The machine runs on, for one step or until a stop. *)
LEMMA ResumeStep ==
  ASSUME IInv, Continue \/ (ContinueAt /\ loaded) PROVE IInv'
  <1> DEFINE kinds == {"c", "s", "c_at"}
  <1>1. kinds \in SUBSET Asking
    BY DEF Asking, OnlyKind, WithAddress
  <1>2. /\ Takes(kinds) /\ replies' = replies /\ phase' = Turn /\ is_halted' = FALSE
        /\ fresh' = TRUE
        /\ UNCHANGED <<committed_pc, age, stuck, executed, loaded, m_breakpoints, exit_requested>>
    BY DEF Continue, ContinueAt, Takes
  <1>3. /\ client' = client /\ wanted' = wanted /\ interrupts' = interrupts
        /\ client \in Running \cup {"gone"} /\ ~m_is_in_step
    BY <1>1, <1>2, Taking DEF user
  <1>4. m_is_in_step \in BOOLEAN
    BY DEF IInv, TypeOK
  <1>5. pc' \in Addr /\ m_is_in_step' \in BOOLEAN
        /\ (m_is_in_step' <=> Packet[1].kind = "s")
    <2>1. CASE Continue
      <3>1. m_is_in_step' = (m_is_in_step \/ Packet[1].kind = "s") /\ pc' = pc
        BY <2>1 DEF Continue
      <3>2. pc \in Addr
        BY DEF IInv, TypeOK
      <3> QED  BY <1>3, <1>4, <3>1, <3>2
    <2>2. CASE ContinueAt /\ loaded
      <3>1. m_is_in_step' = m_is_in_step /\ pc' = Packet[1].addr /\ Packet[1].kind = "c_at"
        BY <2>2 DEF ContinueAt, Takes
      <3> QED  BY <1>1, <1>2, <1>3, <1>4, <3>1, Taking DEF WithAddress
    <2> QED  BY <2>1, <2>2
  <1> HIDE DEF kinds
  <1>6. /\ client = "running" => ~m_is_in_step'
        /\ client = "stepping" => m_is_in_step'
    BY <1>1, <1>2, <1>5, Taking
  <1>7. TypeOK'
    BY <1>1, <1>2, <1>3, <1>5, Taking, TurnPhase DEF IInv, TypeOK, Message
  <1>8. Turns' /\ PoliteSessionParses' /\ Passed'
    BY <1>1, <1>2, Taking, TurnPhase DEF Turns, PoliteSessionParses, Passed
  <1>9. Beliefs'
    BY <1>1, <1>2, <1>3, <1>6, Taking DEF Beliefs, Asked, Running
  <1>10. Phases' /\ Breakpoints'
    BY <1>1, <1>2, <1>3, Taking, TurnPhase DEF Phases, Breakpoints, Running, Ended
  <1>11. StopsAreTrue'
    BY <1>1, <1>2, <1>3, Taking DEF StopsAreTrue, Running
  <1> QED  BY <1>1, <1>2, <1>7, <1>8, <1>9, <1>10, <1>11, Taking DEF IInv

(* What stays under way was under way before. *)
LEMMA Rest ==
  ASSUME TypeOK, buffer' = <<>>, wire' = wire
  PROVE  /\ \A i \in Places' : \E j \in Places : stream'[i] = stream[j]
         /\ stream = <<>> => stream' = <<>>
         /\ buffer' \in Seq(Message) /\ wire' \in Seq(Message)
  <1>1. \A i \in Places' : \E j \in Places : stream'[i] = stream[j]
    BY StreamRead
  <1>2. stream = <<>> => stream' = <<>>
    BY StreamRead, StreamType
  <1> QED  BY <1>1, <1>2, StreamType, EmptySeq

LEMMA ReadAckStep ==
  ASSUME IInv, ReadAck PROVE IInv' /\ InFlight' = InFlight
  <1>1. TypeOK /\ Stream /\ Turns /\ Beliefs /\ Phases /\ Breakpoints
    BY DEF IInv
  <1>2. /\ Takes({"+"}) /\ phase' = Turn /\ buffer' = <<>> /\ wire' = wire /\ phase = "serving"
        /\ UNCHANGED <<pc, committed_pc, age, stuck, executed, fresh, cut, loaded, is_halted,
                       m_is_in_step, m_breakpoints, exit_requested, replies, client, wanted,
                       interrupts>>
    BY DEF ReadAck, Takes, Reading, machine, history, control, user
  <1>3. /\ Len(buffer) \in Places /\ Packet[1] = Ack
        /\ \A i \in 1 .. Len(buffer) : stream[i] = Ack
    BY <1>1, <1>2, PacketIsLast, MessageKinds
  <1>4. stream # <<>>
    BY <1>3, <1>1, StreamType DEF Places
  <1>5. Ack \notin Request
    BY MessageKinds DEF Asking, OnlyKind, WithAddress
  <1>6. InFlight' <=> InFlight
    <2>1. InFlight' <=> \E i \in Places' : stream'[i] \in Request
      BY DEF InFlight, Places, stream
    <2>2. ASSUME NEW i \in Places, stream[i] \in Request
          PROVE  i - Len(buffer) \in Places' /\ stream'[i - Len(buffer)] = stream[i]
      <3>1. i - Len(buffer) \in Places'
        BY <1>1, <1>2, <1>3, <1>5, <2>2, StreamRead
      <3>2. Len(buffer) + (i - Len(buffer)) = i
        BY <1>1, <2>2, StreamType DEF Places
      <3> QED  BY <1>1, <1>2, <3>1, <3>2, StreamRead
    <2>3. InFlight => InFlight'
      BY <2>1, <2>2, InFlightStream
    <2> QED  BY <1>1, <1>2, <2>3, StreamRead
  <1>7. Stream'
    BY <1>1, <1>2, StreamAfterRead DEF user
  <1>8. TypeOK'
    BY <1>1, <1>2, Rest, TurnPhase DEF TypeOK, Message
  <1>9. Turns' /\ PoliteSessionParses' /\ Passed'
    BY <1>1, <1>2, <1>6, TurnPhase DEF IInv, Turns, PoliteSessionParses, Passed
  <1>10. Beliefs'
    BY <1>1, <1>2, <1>4, <1>6, Rest DEF Beliefs, Asked
  <1>11. Phases'
    BY <1>1, <1>2, TurnPhase DEF Phases, Ended
  <1>12. Breakpoints'
    <2>1. \A r : Then(r)' = Then(r)
      BY <1>2 DEF Then
    <2>2. ASSUME client = "waiting", NEW i \in Places', stream'[i] \in Request
          PROVE  wanted = Then(stream'[i])
      <3>1. PICK j \in Places : stream'[i] = stream[j]
        BY <1>1, <1>2, Rest
      <3> QED  BY <1>1, <1>2, <2>2, <3>1 DEF Breakpoints
    <2>3. client = "waiting" =>
            \A i \in Places' : stream'[i] \in Request => wanted' = Then(stream[i])'
      BY <1>2, <2>1, <2>2
    <2> QED  BY <1>1, <1>2, <1>6, <2>3, TurnPhase DEF Breakpoints
  <1>13. StopsAreTrue'
    BY <1>1, <1>2 DEF IInv, StopsAreTrue
  <1> QED  BY <1>6, <1>7, <1>8, <1>9, <1>10, <1>11, <1>12, <1>13 DEF IInv

(* The end of a session in the middle of it. *)
LEMMA CutOff ==
  ASSUME IInv, wire' = wire, buffer' \in {buffer, <<>>}, cut' = cut,
         UNCHANGED <<pc, committed_pc, age, stuck, loaded, control, exit_requested, replies, user>>,
         executed' \in Addr, fresh' \in BOOLEAN,
         phase' \in Ended,
         phase' \in {"unparsed", "assert", "dropped"} => interrupts > 0 \/ client = "gone"
  PROVE  IInv'
  <1>1. TypeOK /\ Stream /\ Turns /\ Beliefs
    BY DEF IInv
  <1>2. UNCHANGED <<pc, committed_pc, age, stuck, loaded, is_halted, m_is_in_step, m_breakpoints,
                    exit_requested, replies, client, wanted, interrupts>>
    BY DEF control, user
  <1>3. /\ \A i \in Places' : \E j \in Places : stream'[i] = stream[j]
        /\ stream = <<>> => stream' = <<>>
        /\ buffer' \in Seq(Message) /\ wire' \in Seq(Message)
        /\ InFlight' => InFlight
        /\ Stream'
    <2>1. CASE buffer' = buffer
      <3>1. stream' = stream /\ Places' = Places /\ InFlight' = InFlight
        BY <2>1, StreamKept
      <3>2. Stream'
        BY <1>1, <1>2, <3>1 DEF Stream
      <3> QED  BY <1>1, <2>1, <3>1, <3>2, StreamType
    <2>2. CASE buffer' = <<>>
      BY <1>1, <2>2, Rest, StreamRead, StreamAfterRead
    <2> QED  BY <2>1, <2>2
  <1>4. TypeOK'
    BY <1>1, <1>2, <1>3 DEF TypeOK, Message
  <1>5. Turns'
    BY <1>1, <1>2, <1>3 DEF Turns
  <1>6. Beliefs'
    BY <1>1, <1>2, <1>3 DEF Beliefs, Asked
  <1>7. Phases' /\ Breakpoints'
    BY <1>2 DEF Phases, Breakpoints, Ended
  <1>8. StopsAreTrue' /\ PoliteSessionParses' /\ Passed'
    BY <1>2 DEF IInv, StopsAreTrue, PoliteSessionParses, Passed, Ended
  <1> QED  BY <1>3, <1>4, <1>5, <1>6, <1>7, <1>8 DEF IInv

LEMMA ReadNothingStep ==
  ASSUME IInv, ReadNothing \/ ReadPart PROVE IInv'
  <1>1. /\ wire' = wire /\ buffer' = buffer /\ cut' = cut
        /\ phase' = "split" \/ (phase' = "dropped" /\ client = "gone")
        /\ UNCHANGED <<machine, loaded, control, exit_requested, replies, user>>
    BY DEF ReadNothing, ReadPart, Closed, channels
  <1>2. /\ UNCHANGED <<pc, committed_pc, age, stuck>>
        /\ executed' \in Addr /\ fresh' \in BOOLEAN
    BY <1>1 DEF machine, history, IInv, TypeOK
  <1> QED  BY <1>1, <1>2, CutOff DEF Ended

(* Two messages that are not acknowledgements are a request and ^C. *)
LEMMA ReadUnparsedStep ==
  ASSUME IInv, ReadUnparsed PROVE IInv'
  <1>1. TypeOK /\ Stream
    BY DEF IInv
  <1>2. /\ wire' = wire /\ buffer' = <<>> /\ cut' = cut /\ phase' = "unparsed"
        /\ UNCHANGED <<machine, loaded, control, exit_requested, replies, user>>
        /\ UNCHANGED <<pc, committed_pc, age, stuck>>
        /\ executed' \in Addr /\ fresh' \in BOOLEAN
        /\ Len(Packet) > 1 \/ Packet = <<CtrlC>>
    BY <1>1 DEF ReadUnparsed, Unparsed, machine, history, TypeOK
  <1>3. /\ buffer \in Seq(Message) /\ Len(buffer) \in Nat
        /\ \A i \in 1 .. Len(buffer) : i \in Places /\ stream[i] = buffer[i]
        /\ \A i \in Places : stream[i] \in Message
    BY <1>1, StreamType
  <1>4. \E i \in 1 .. Len(buffer) : buffer[i] = CtrlC
    <2>1. CASE Len(buffer) > 1 /\ Head(buffer) = Ack
      <3>1. Packet = Tail(buffer) /\ buffer # <<>>
        BY <2>1, <1>3, EmptySeq DEF Packet
      <3>2. /\ Len(Packet) = Len(buffer) - 1
            /\ \A i \in 1 .. Len(buffer) - 1 : Packet[i] = buffer[i + 1]
        BY <1>3, <3>1, HeadTailProperties
      <3>3. CASE Packet = <<CtrlC>>
        <4>1. Len(Packet) = 1 /\ Packet[1] = CtrlC /\ 1 \in 1 .. 1
          BY <3>3
        <4>2. Len(buffer) - 1 = 1
          BY <3>2, <4>1
        <4>3. Len(buffer) = 2
          BY <1>3, <4>2
        <4>4. 2 \in 1 .. 2 /\ 1 + 1 = 2
          OBVIOUS
        <4>5. buffer[1 + 1] = CtrlC
          BY <3>2, <4>1, <4>2
        <4> QED  BY <4>3, <4>4, <4>5
      <3>4. CASE Len(Packet) > 1
        <4>1. 2 \in 1 .. Len(buffer) /\ 3 \in 1 .. Len(buffer)
          BY <1>3, <3>2, <3>4
        <4>2. stream[2] \in Message \ {Ack} /\ stream[3] \in Message \ {Ack}
              /\ ~(stream[2] \in Request /\ stream[3] \in Request)
          BY <1>1, <1>3, <4>1 DEF Stream
        <4> QED  BY <1>3, <4>1, <4>2 DEF Message
      <3> QED  BY <1>2, <3>3, <3>4
    <2>2. CASE ~(Len(buffer) > 1 /\ Head(buffer) = Ack)
      <3>1. Packet = buffer
        BY <2>2 DEF Packet
      <3>2. CASE buffer = <<CtrlC>>
        <4>1. Len(buffer) = 1 /\ buffer[1] = CtrlC /\ 1 \in 1 .. 1
          BY <3>2
        <4> QED  BY <4>1
      <3>3. CASE Len(buffer) > 1
        <4>1. 1 \in 1 .. Len(buffer) /\ 2 \in 1 .. Len(buffer) /\ buffer[1] # Ack
          BY <1>3, <2>2, <3>3
        <4>2. stream[1] \in Message \ {Ack} /\ stream[2] \in Message \ {Ack}
              /\ ~(stream[1] \in Request /\ stream[2] \in Request)
          BY <1>1, <1>3, <4>1 DEF Stream
        <4> QED  BY <1>3, <4>1, <4>2 DEF Message
      <3> QED  BY <1>2, <3>1, <3>2, <3>3
    <2> QED  BY <2>1, <2>2
  <1>5. interrupts > 0
    <2>1. interrupts # 0
      BY <1>1, <1>3, <1>4 DEF Stream
    <2> QED  BY <1>1, <2>1 DEF TypeOK
  <1> QED  BY <1>2, <1>5, CutOff DEF Ended

LEMMA EndListStep ==
  ASSUME IInv, EndList PROVE IInv' /\ (InFlight \/ phase' \in Ended)
  <1>1. TypeOK /\ Stream /\ Turns /\ Beliefs /\ Phases /\ Breakpoints
    BY DEF IInv
  <1>2. /\ wire' = wire /\ buffer' = <<>> /\ cut' = cut /\ phase = "listing" /\ buffer # <<>>
        /\ UNCHANGED <<machine, loaded, control, exit_requested, user>>
        /\ UNCHANGED <<pc, committed_pc, age, stuck, executed, fresh>>
        /\ executed' \in Addr /\ fresh' \in BOOLEAN
    BY <1>1 DEF EndList, machine, history, TypeOK
  <1>3. /\ buffer \in Seq(Message) /\ Len(buffer) \in Nat /\ Len(buffer) >= 1
        /\ wire \in Seq(Message) /\ Len(wire) \in Nat /\ Len(stream) = Len(buffer) + Len(wire)
        /\ \A i \in 1 .. Len(buffer) : i \in Places /\ stream[i] = buffer[i]
        /\ stream # <<>>
    BY <1>1, <1>2, StreamType
  <1>4. client \in {"waiting", "gone"}
    BY <1>1, <1>2, <1>3 DEF Beliefs, Phases
  <1>5. client = "waiting" => Packet = <<Simple("next")>> /\ stream' = <<>>
    <2>1. SUFFICES ASSUME client = "waiting" PROVE Packet = <<Simple("next")>> /\ stream' = <<>>
      OBVIOUS
    <2>2. stream = <<Simple("next")>>
      BY <1>1, <1>2, <1>3, <2>1 DEF Phases
    <2>3. Len(stream) = 1 /\ stream[1] = Simple("next")
      BY <2>2
    <2>4. Len(buffer) = 1 /\ Len(wire) = 0 /\ wire = <<>>
      BY <1>1, <1>3, <2>3, StreamType
    <2>5. buffer[1] = Simple("next")
      BY <1>3, <2>3, <2>4
    <2>6. Packet = buffer
      BY <2>4 DEF Packet
    <2>7. buffer = <<Simple("next")>>
      BY <1>3, <2>4, <2>5
    <2>8. stream' = <<>>
      BY <1>1, <1>2, <2>4, StreamRead
    <2> QED  BY <2>6, <2>7, <2>8
  <1>6. CASE Packet # <<Simple("next")>>
    <2>1. phase' = "assert" /\ replies' = replies
      BY <1>6 DEF EndList
    <2> QED  BY <1>2, <1>4, <1>5, <1>6, <2>1, CutOff DEF Ended
  <1>7. CASE Packet = <<Simple("next")>>
    <2>1. phase' = Turn /\ Answers("OK")
      BY <1>7 DEF EndList
    <2>2. UNCHANGED <<pc, committed_pc, age, stuck, loaded, is_halted, m_is_in_step,
                      m_breakpoints, exit_requested, client, wanted, interrupts>>
      BY <1>2 DEF machine, control, user
    <2>3. PICK n \in 1 .. Len(buffer) : stream[n] \in Request
      <3>1. Simple("next") \in Request
        BY DEF Request
      <3>2. Packet[1] = Simple("next") /\ Len(Packet) = 1
        BY <1>7
      <3>3. CASE Len(buffer) > 1 /\ Head(buffer) = Ack
        <4>1. Packet = Tail(buffer) /\ buffer # <<>> /\ 1 \in 1 .. 1
          BY <3>3, <1>3, EmptySeq DEF Packet
        <4>2. /\ Len(Packet) = Len(buffer) - 1
              /\ \A i \in 1 .. Len(Packet) : Packet[i] = buffer[i + 1]
          BY <1>3, <4>1, HeadTailProperties
        <4>3. Packet[1] = buffer[1 + 1]
          BY <3>2, <4>1, <4>2
        <4>4. Len(buffer) - 1 = 1
          BY <3>2, <4>2
        <4>5. Len(buffer) = 2
          BY <1>3, <4>4
        <4>6. 1 + 1 \in 1 .. 2
          OBVIOUS
        <4> QED  BY <1>3, <3>1, <3>2, <4>3, <4>5, <4>6
      <3>4. CASE ~(Len(buffer) > 1 /\ Head(buffer) = Ack)
        <4>1. Packet = buffer
          BY <3>4 DEF Packet
        <4>2. 1 \in 1 .. Len(buffer)
          BY <1>3
        <4> QED  BY <1>3, <3>1, <3>2, <4>1, <4>2
      <3> QED  BY <3>3, <3>4
    <2>4. /\ InFlight /\ ~InFlight' /\ (\A i \in Places' : stream'[i] \notin Request)
          /\ is_halted /\ replies = <<>> /\ ~m_is_in_step
      BY <1>1, <1>2, <2>3, RequestRead DEF Turns
    <2>5. buffer' \in Seq(Message) /\ wire' \in Seq(Message) /\ Stream'
      BY <1>1, <1>2, Rest, StreamAfterRead
    <2>6. TypeOK'
      BY <1>1, <1>2, <2>1, <2>2, <2>4, <2>5, AnswersOnce, TurnPhase DEF TypeOK, Message
    <2>7. Turns' /\ PoliteSessionParses' /\ Passed'
      BY <2>1, <2>2, <2>4, TurnPhase DEF Turns, PoliteSessionParses, Passed
    <2>8. Beliefs'
      BY <1>4, <1>5, <2>1, <2>2, <2>4, AnswersOnce DEF Beliefs, Asked, Running
    <2>9. Phases'
      BY <1>4, <2>1, <2>2, AnswersOnce, <2>4, TurnPhase DEF Phases, Ended
    <2>10. Breakpoints'
      <3>1. client = "waiting" => m_breakpoints = wanted
        <4>1. ASSUME client = "waiting" PROVE wanted = Then(Simple("next"))
          <5>1. stream = <<Simple("next")>>
            BY <1>1, <1>2, <1>3, <4>1 DEF Phases
          <5>2. 1 \in Places /\ stream[1] = Simple("next")
            BY <5>1 DEF Places
          <5>3. Simple("next") \in Request
            BY DEF Request
          <5> QED  BY <1>1, <1>2, <4>1, <5>2, <5>3 DEF Breakpoints
        <4>2. Then(Simple("next")) = m_breakpoints
          BY DEF Then, Simple
        <4> QED  BY <4>1, <4>2
      <3> QED  BY <1>4, <2>1, <2>2, <2>4, <3>1, AnswersOnce DEF Breakpoints, Running
    <2>11. StopsAreTrue'
      BY <1>4, <2>1, <2>2, <2>4, AnswersOnce DEF StopsAreTrue
    <2> QED  BY <2>4, <2>5, <2>6, <2>7, <2>8, <2>9, <2>10, <2>11 DEF IInv
  <1> QED  BY <1>6, <1>7

LEMMA ServeStep ==
  ASSUME IInv, Serve PROVE IInv'
  <1>1. ContinueAt => (ContinueAt /\ loaded) \/ (ContinueAt /\ ~loaded)
    OBVIOUS
  <1> QED
    BY <1>1, ReadAckStep, ReadUnparsedStep, ReadNothingStep, QueryStep, ReadDataStep,
       ListThreadsStep, EndListStep, BreakpointStep, ResumeStep, KillStep, LastSteps, RunElfStep
    DEF Serve

-----------------------------------------------------------------------------
(* The machine. *)

LEMMA MachineRuns ==
  ASSUME IInv, Runs
  PROVE  /\ ~is_halted /\ ~InFlight /\ replies = <<>> /\ phase = "serving"
         /\ client \in {"running", "stepping", "gone"}
         /\ client = "running" => m_breakpoints = wanted /\ ~m_is_in_step
         /\ client = "stepping" => m_breakpoints = wanted /\ m_is_in_step
  BY DEF IInv, Runs, Turns, Beliefs, Breakpoints, TypeOK, Running

LEMMA ExecutesType ==
  ASSUME TypeOK, Executes PROVE executed' \in Addr /\ fresh' \in BOOLEAN
  BY DEF TypeOK, Executes

LEMMA StopStep ==
  ASSUME IInv, Runs, NEW reason \in {"trace", "breakpoint", "trap"}, NotifyBreak(reason),
         pc' \in Addr, committed_pc' \in Addr, age' \in 0 .. 2, phase' = Turn, Executes,
         UNCHANGED <<stuck, loaded, m_breakpoints, exit_requested, wire, cut, user>>,
         buffer' \in {buffer, <<>>},
         reason = "trace" => client \in {"stepping", "gone"},
         reason = "breakpoint" => client = "gone" \/ (client = "running" /\ committed_pc' \in wanted),
         reason \in {"trace", "breakpoint"} => committed_pc' = pc'
  PROVE  IInv'
  <1>1. TypeOK /\ Stream
    BY DEF IInv
  <1>2. UNCHANGED <<client, wanted, interrupts>>
    BY DEF user
  <1> DEFINE stop == [kind |-> "T", reason |-> reason, pc |-> committed_pc']
  <1>3. /\ stop \in Stop /\ stop.kind = "T" /\ stop.reason = reason /\ stop.pc = committed_pc'
    BY StopKinds
  <1>4. replies' = Append(replies, stop) /\ is_halted' = TRUE /\ m_is_in_step' = FALSE
    BY DEF NotifyBreak
  <1> HIDE DEF stop
  <1>5. replies' \in Seq(Reply \cup Stop) /\ Len(replies') <= 1 /\ replies' # <<>>
        /\ Head(replies') = stop
    BY <1>3, <1>4, MachineRuns, Replied
  <1>6. /\ \A i \in Places' : \E j \in Places : stream'[i] = stream[j]
        /\ buffer' \in Seq(Message) /\ wire' \in Seq(Message)
        /\ ~InFlight'
        /\ Stream'
    <2>1. CASE buffer' = buffer
      <3>1. stream' = stream /\ Places' = Places /\ InFlight' = InFlight
        BY <2>1, StreamKept
      <3>2. Stream'
        BY <1>1, <1>2, <3>1 DEF Stream
      <3> QED  BY <1>1, <2>1, <3>1, <3>2, StreamType, MachineRuns
    <2>2. CASE buffer' = <<>>
      BY <1>1, <2>2, Rest, StreamRead, StreamAfterRead, MachineRuns
    <2> QED  BY <2>1, <2>2
  <1>7. \A i \in Places' : stream'[i] \notin Request
    BY <1>6, MachineRuns, InFlightStream
  <1>8. TypeOK'
    BY <1>1, <1>2, <1>4, <1>5, <1>6, TurnPhase, ExecutesType DEF TypeOK, Message
  <1>9. Turns' /\ PoliteSessionParses' /\ Passed'
    BY <1>4, <1>6, TurnPhase DEF Turns, PoliteSessionParses, Passed
  <1>10. Beliefs'
    BY <1>2, <1>3, <1>4, <1>5, <1>6, <1>7, MachineRuns DEF Beliefs, Asked, Running
  <1>11. Phases' /\ Breakpoints'
    BY <1>2, <1>4, MachineRuns, TurnPhase DEF Phases, Breakpoints, Running, Ended
  <1>12. StopsAreTrue'
    BY <1>2, <1>3, <1>5, MachineRuns DEF StopsAreTrue
  <1> QED  BY <1>6, <1>8, <1>9, <1>10, <1>11, <1>12 DEF IInv

LEMMA ClockedType ==
  ASSUME TypeOK, Clocked PROVE age' \in 0 .. 2
  BY DEF TypeOK, Clocked

LEMMA AdvanceStep ==
  ASSUME IInv, Advance PROVE IInv'
  <1>1. TypeOK
    BY DEF IInv
  <1>2. /\ Runs /\ pc' \in Addr /\ committed_pc' = pc' /\ age' \in 0 .. 2 /\ phase' = Turn
        /\ Executes
        /\ UNCHANGED <<stuck, loaded, m_breakpoints, exit_requested, wire, cut, user>>
    BY <1>1, ClockedType DEF Advance
  <1>3. CASE NotifyBreak("trap") /\ buffer' = <<>>
    BY <1>2, <1>3, StopStep
  <1>4. CASE IsActiveBreakpoint(pc') /\ buffer' = buffer
             /\ NotifyBreak(IF m_is_in_step THEN "trace" ELSE "breakpoint")
    <2>1. CASE m_is_in_step
      BY <1>2, <1>4, <2>1, StopStep, MachineRuns
    <2>2. CASE ~m_is_in_step
      BY <1>2, <1>4, <2>2, StopStep, MachineRuns DEF IsActiveBreakpoint
    <2> QED  BY <2>1, <2>2
  <1>5. CASE ~IsActiveBreakpoint(pc') /\ UNCHANGED <<is_halted, m_is_in_step, replies, buffer>>
    <2>1. UNCHANGED <<client, wanted, interrupts>>
      BY <1>2 DEF user
    <2>2. stream' = stream /\ Places' = Places /\ InFlight' = InFlight
      BY <1>2, <1>5, StreamKept
    <2>3. TypeOK'
      BY <1>1, <1>2, <1>5, <2>1, TurnPhase, ExecutesType DEF TypeOK
    <2>3a. Passed'
      BY <1>2, <1>5, <2>1, MachineRuns DEF Passed, IsActiveBreakpoint
    <2>4. Stream' /\ Turns' /\ PoliteSessionParses'
      BY <1>2, <1>5, <2>1, <2>2, TurnPhase DEF IInv, Stream, Turns, PoliteSessionParses
    <2>5. Beliefs'
      BY <1>2, <1>5, <2>1, <2>2 DEF IInv, Beliefs, Asked
    <2>6. Phases' /\ Breakpoints'
      BY <1>2, <1>5, <2>1, MachineRuns, TurnPhase DEF Phases, Breakpoints, Running, Ended
    <2>7. StopsAreTrue'
      BY <1>2, <1>5, <2>1, MachineRuns DEF StopsAreTrue
    <2> QED  BY <2>3, <2>3a, <2>4, <2>5, <2>6, <2>7 DEF IInv
  <1> QED  BY <1>3, <1>4, <1>5 DEF Advance

LEMMA FaultStep ==
  ASSUME IInv, Fault PROVE IInv'
  <1>1. TypeOK
    BY DEF IInv
  <1>2. /\ Runs /\ pc' \in Addr /\ committed_pc' \in {committed_pc, pc} /\ age' \in 0 .. 2
        /\ NotifyBreak("trap") /\ phase' = Turn /\ Executes
        /\ UNCHANGED <<stuck, loaded, m_breakpoints, exit_requested, wire, buffer, cut, user>>
    BY <1>1, ClockedType DEF Fault
  <1>3. committed_pc' \in Addr
    BY <1>1, <1>2 DEF TypeOK
  <1> QED  BY <1>2, <1>3, StopStep

LEMMA CrashStep ==
  ASSUME IInv, Crash PROVE IInv'
  <1>1. /\ wire' = wire /\ buffer' = buffer /\ cut' = cut /\ phase' = "uncaught" /\ Executes
        /\ UNCHANGED <<pc, committed_pc, age, stuck, loaded, control, exit_requested, replies, user>>
    BY DEF Crash, channels
  <1>2. executed' \in Addr /\ fresh' \in BOOLEAN
    BY <1>1, ExecutesType DEF IInv
  <1> QED  BY <1>1, <1>2, CutOff DEF Ended

(* What changes nothing that the invariant is about. *)
LEMMA QuietStep ==
  ASSUME IInv, stream' = stream, Places' = Places, InFlight' = InFlight,
         buffer' \in Seq(Message), wire' \in Seq(Message),
         UNCHANGED <<phase, loaded, control, replies, user, pc, committed_pc, age, executed, fresh>>,
         stuck' \in BOOLEAN, exit_requested' \in BOOLEAN, cut' \in BOOLEAN
  PROVE  IInv'
  <1>1. UNCHANGED <<is_halted, m_is_in_step, m_breakpoints, client, wanted, interrupts>>
    BY DEF control, user
  <1>2. TypeOK'
    BY <1>1 DEF IInv, TypeOK, Message
  <1>3. Stream' /\ Turns' /\ PoliteSessionParses' /\ Phases' /\ StopsAreTrue' /\ Passed'
    BY <1>1 DEF IInv, Stream, Turns, PoliteSessionParses, Phases, StopsAreTrue, Passed
  <1>4. Beliefs'
    BY <1>1 DEF IInv, Beliefs, Asked
  <1>5. Breakpoints'
    BY <1>1 DEF IInv, Breakpoints, Then
  <1> QED  BY <1>2, <1>3, <1>4, <1>5 DEF IInv

LEMMA QuietSteps ==
  ASSUME IInv, Arrive \/ ArriveInPart \/ CloseWindow \/ Stick \/ UNCHANGED vars PROVE IInv'
  <1>1. TypeOK
    BY DEF IInv
  <1>2. CASE Arrive
    <2>1. UNCHANGED <<phase, loaded, control, replies, user, pc, committed_pc, age, executed, fresh,
                      stuck, exit_requested>>
      BY <1>2 DEF Arrive, machine, history, server
    <2>2. buffer' \in Seq(Message) /\ wire' \in Seq(Message)
      BY <1>1, <1>2, StreamType, HeadTailProperties, AppendProperties DEF Arrive
    <2>3. stuck' \in BOOLEAN /\ exit_requested' \in BOOLEAN /\ cut' \in BOOLEAN
      BY <1>1, <1>2, <2>1 DEF TypeOK, Arrive
    <2> QED  BY <1>1, <1>2, <2>1, <2>2, <2>3, StreamArrives, QuietStep
  <1>3. CASE ArriveInPart \/ CloseWindow \/ Stick \/ UNCHANGED vars
    <2>1. UNCHANGED <<phase, loaded, control, replies, buffer, wire, user, pc, committed_pc, age,
                      executed, fresh>>
      BY <1>3 DEF ArriveInPart, CloseWindow, Stick, vars, machine, history, server, channels
    <2>2. stuck' \in BOOLEAN /\ exit_requested' \in BOOLEAN /\ cut' \in BOOLEAN
      BY <1>1, <1>3 DEF ArriveInPart, CloseWindow, Stick, vars, machine, server, channels, TypeOK
    <2>3. buffer' \in Seq(Message) /\ wire' \in Seq(Message)
      BY <1>1, <2>1, StreamType
    <2> QED  BY <2>1, <2>2, <2>3, StreamKept, QuietStep
  <1> QED  BY <1>2, <1>3

-----------------------------------------------------------------------------
(* The client. *)

LEMMA AsksStep ==
  ASSUME IInv, client \in {"asking", "listing"}, NEW m \in Request, NEW belief, Send(m, belief),
         interrupts' = interrupts, wanted' \subseteq Addr,
         \/ /\ belief = "waiting"
            /\ m.kind \in {"query", "read", "threads", "next", "k", "vRun", "Z", "z"}
         \/ belief = "running" /\ m.kind \in {"c", "c_at"}
         \/ belief = "stepping" /\ m.kind = "s",
         client = "listing" => m = Simple("next") /\ belief = "waiting",
         m_breakpoints = wanted => wanted' = Then(m)
  PROVE  IInv' /\ InFlight'
  <1>1. TypeOK /\ Stream /\ Turns /\ Beliefs /\ Phases /\ Breakpoints
    BY DEF IInv
  <1>2. m \in Message /\ m # Ack /\ m # CtrlC
    BY MessageKinds DEF Asking, OnlyKind, WithAddress
  <1>3. /\ wire' = Append(wire, m) /\ buffer' = buffer /\ client' = belief
        /\ UNCHANGED <<pc, committed_pc, age, stuck, executed, fresh, cut, phase, loaded,
                       is_halted, m_is_in_step, m_breakpoints, exit_requested, replies>>
    BY DEF Send, machine, history, server, control
  <1>4. /\ is_halted /\ ~m_is_in_step /\ ~InFlight /\ replies = <<>>
        /\ \A i \in Places : stream[i] \notin Request
    BY <1>1, InFlightStream DEF Beliefs, Turns
  <1>5. /\ wire' \in Seq(Message) /\ buffer' \in Seq(Message) /\ stream' = Append(stream, m)
        /\ Len(stream') = Len(stream) + 1 /\ Len(stream) \in Nat
        /\ \A i \in Places : i \in Places' /\ stream'[i] = stream[i]
        /\ Len(stream) + 1 \in Places' /\ stream'[Len(stream) + 1] = m
        /\ \A i \in Places' : i \in Places \/ i = Len(stream) + 1
    BY <1>1, <1>2, <1>3, StreamSent, StreamType
  <1>6. \A i \in Places' : stream'[i] \in Request => i = Len(stream) + 1 /\ stream'[i] = m
    BY <1>4, <1>5
  <1>6a. InFlight'
    BY <1>1, <1>2, <1>3, StreamSent
  <1>7. TypeOK'
    BY <1>1, <1>3, <1>5 DEF TypeOK, Message, Running
  <1>8. Stream'
    <2>1. \A i \in Places' : stream'[i] = Ack => i = 1
      BY <1>1, <1>2, <1>5 DEF Stream
    <2>2. interrupts' = 0 => \A i \in Places' : stream'[i] # CtrlC
      BY <1>1, <1>2, <1>5 DEF Stream
    <2> QED  BY <1>5, <1>6, <2>1, <2>2 DEF Stream
  <1>9. Turns' /\ PoliteSessionParses' /\ Passed'
    BY <1>3, <1>4 DEF IInv, Turns, PoliteSessionParses, Passed
  <1>10. Beliefs'
    BY <1>3, <1>4, <1>6 DEF Beliefs, Asked, Running
  <1>11. Phases'
    <2>1. client = "listing" => stream' = <<Simple("next")>>
      <3>1. client = "listing" => stream = <<>>
        BY <1>1 DEF Beliefs
      <3> QED  BY <1>5, <3>1
    <2> QED  BY <1>1, <1>3, <1>4, <2>1 DEF Phases, Ended
  <1>12. Breakpoints'
    <2>1. \A r : Then(r)' = Then(r)
      BY <1>3 DEF Then
    <2>3. phase \in {"serving", "listing"} => wanted' = Then(m)
      BY <1>1, <1>4 DEF Breakpoints
    <2>4. phase' \in {"serving", "listing"} =>
            \A i \in Places' : stream'[i] \in Request => wanted' = Then(stream[i])'
      BY <1>3, <1>6, <2>1, <2>3
    <2>5. belief \in Running => Then(m) = m_breakpoints
      BY DEF Then, Running
    <2> QED  BY <1>3, <1>6a, <2>3, <2>4, <2>5 DEF Breakpoints, Running
  <1>13. StopsAreTrue'
    BY <1>3, <1>4 DEF StopsAreTrue, Running
  <1> QED  BY <1>6a, <1>7, <1>8, <1>9, <1>10, <1>11, <1>12, <1>13 DEF IInv

LEMMA AskStep ==
  ASSUME IInv, Ask \/ AskBreakpoint \/ AskNextThread PROVE IInv' /\ InFlight'
  <1>1. wanted \subseteq Addr
    BY DEF IInv, TypeOK
  <1>2. CASE Ask
    <2>1. client = "asking" /\ wanted' = wanted /\ interrupts' = interrupts
      BY <1>2 DEF Ask
    <2>2. ASSUME NEW q \in {"query", "read", "threads", "k", "vRun"}, Send(Simple(q), "waiting")
          PROVE  IInv' /\ InFlight'
      <3>1. Simple(q) \in Request /\ Simple(q).kind = q /\ Then(Simple(q)) = m_breakpoints
        BY DEF Request, Questions, Simple, Then
      <3> QED  BY <1>1, <2>1, <2>2, <3>1, AsksStep
    <2>3. ASSUME Send(Simple("c"), "running") \/ Send(Simple("s"), "stepping")
          PROVE  IInv' /\ InFlight'
      <3>1. \A k \in {"c", "s"} :
              Simple(k) \in Request /\ Simple(k).kind = k /\ Then(Simple(k)) = m_breakpoints
        BY DEF Request, Simple, Then
      <3> QED  BY <1>1, <2>1, <2>3, <3>1, AsksStep
    <2>4. ASSUME NEW a \in Addr, Send(At("c_at", a), "running")
          PROVE  IInv' /\ InFlight'
      <3>1. At("c_at", a) \in Request /\ At("c_at", a).kind = "c_at"
            /\ Then(At("c_at", a)) = m_breakpoints
        BY DEF Request, At, Then
      <3> QED  BY <1>1, <2>1, <2>4, <3>1, AsksStep
    <2>5. \/ \E q \in {"query", "read", "threads", "k", "vRun"} : Send(Simple(q), "waiting")
          \/ Send(Simple("c"), "running") \/ Send(Simple("s"), "stepping")
          \/ \E a \in Addr : Send(At("c_at", a), "running")
      BY <1>2 DEF Ask, Questions
    <2> QED  BY <2>2, <2>3, <2>4, <2>5
  <1>3. CASE AskBreakpoint
    <2>1. client = "asking" /\ interrupts' = interrupts
      BY <1>3 DEF AskBreakpoint
    <2>2. PICK a \in Addr :
            \/ Send(At("Z", a), "waiting") /\ wanted' = wanted \cup {a}
            \/ Send(At("z", a), "waiting") /\ wanted' = wanted \ {a}
      BY <1>3 DEF AskBreakpoint
    <2>3. /\ At("Z", a) \in Request /\ At("Z", a).kind = "Z" /\ Then(At("Z", a)) = m_breakpoints \cup {a}
          /\ At("z", a) \in Request /\ At("z", a).kind = "z" /\ Then(At("z", a)) = m_breakpoints \ {a}
      BY DEF Request, At, Then
    <2>4. wanted' \subseteq Addr
      BY <1>1, <2>2
    <2>5. CASE Send(At("Z", a), "waiting") /\ wanted' = wanted \cup {a}
      BY <2>1, <2>3, <2>4, <2>5, AsksStep
    <2>6. CASE Send(At("z", a), "waiting") /\ wanted' = wanted \ {a}
      BY <2>1, <2>3, <2>4, <2>6, AsksStep
    <2> QED  BY <2>2, <2>5, <2>6
  <1>4. CASE AskNextThread
    <2>1. client = "listing" /\ Send(Simple("next"), "waiting") /\ wanted' = wanted
          /\ interrupts' = interrupts
      BY <1>4 DEF AskNextThread
    <2>2. Simple("next") \in Request /\ Simple("next").kind = "next"
          /\ Then(Simple("next")) = m_breakpoints
      BY DEF Request, Simple, Then
    <2> QED  BY <1>1, <2>1, <2>2, AsksStep
  <1> QED  BY <1>2, <1>3, <1>4

LEMMA InterruptStep ==
  ASSUME IInv, Interrupt PROVE IInv' /\ InFlight' = InFlight
  <1>1. TypeOK /\ Stream /\ Turns /\ Beliefs /\ Phases /\ Breakpoints
    BY DEF IInv
  <1>2. CtrlC \in Message /\ CtrlC # Ack /\ CtrlC \notin Request
    BY MessageKinds DEF Asking, OnlyKind, WithAddress
  <1>3. /\ client \in Running /\ wire' = Append(wire, CtrlC) /\ buffer' = buffer
        /\ interrupts' = interrupts + 1 /\ interrupts' \in 0 .. MaxInterrupts
        /\ UNCHANGED <<pc, committed_pc, age, stuck, executed, fresh, cut, phase, loaded,
                       is_halted, m_is_in_step, m_breakpoints, exit_requested, replies, client,
                       wanted>>
    BY <1>1 DEF Interrupt, Send, machine, history, server, control, TypeOK
  <1>4. /\ wire' \in Seq(Message) /\ buffer' \in Seq(Message)
        /\ \A i \in Places : i \in Places' /\ stream'[i] = stream[i]
        /\ stream'[Len(stream) + 1] = CtrlC
        /\ \A i \in Places' : i \in Places \/ i = Len(stream) + 1
        /\ InFlight' <=> InFlight
    BY <1>1, <1>2, <1>3, StreamSent, StreamType
  <1>4a. InFlight' = InFlight
    BY <1>4 DEF InFlight
  <1>5. \A i \in Places' : stream'[i] \in Request \cup {Ack} => i \in Places /\ stream[i] = stream'[i]
    BY <1>2, <1>4
  <1>6. TypeOK'
    BY <1>1, <1>3, <1>4 DEF TypeOK, Message
  <1>7. interrupts' # 0 /\ interrupts' > 0
    BY <1>1, <1>3 DEF TypeOK
  <1>8. Stream'
    BY <1>1, <1>3, <1>5, <1>7 DEF Stream
  <1>9. Turns' /\ PoliteSessionParses' /\ Passed'
    BY <1>1, <1>3, <1>4, <1>7 DEF IInv, Turns, PoliteSessionParses, Passed
  <1>10. Beliefs'
    BY <1>1, <1>3, <1>5 DEF Beliefs, Asked, Running
  <1>11. Phases' /\ Breakpoints' /\ StopsAreTrue'
    BY <1>1, <1>3 DEF IInv, Phases, Breakpoints, StopsAreTrue, Running
  <1> QED  BY <1>4a, <1>6, <1>8, <1>9, <1>10, <1>11 DEF IInv

LEMMA HangUpStep ==
  ASSUME IInv, HangUp PROVE IInv'
  <1>1. TypeOK /\ Stream /\ Turns /\ Beliefs /\ Phases /\ Breakpoints
    BY DEF IInv
  <1>2. /\ client' = "gone" /\ replies' = <<>>
        /\ UNCHANGED <<pc, committed_pc, age, stuck, executed, fresh, cut, phase, loaded,
                       is_halted, m_is_in_step, m_breakpoints, exit_requested, buffer, wire,
                       wanted, interrupts>>
    BY DEF HangUp, machine, history, server, control
  <1>3. stream' = stream /\ Places' = Places /\ InFlight' = InFlight
    BY <1>2, StreamKept
  <1>4. TypeOK'
    BY <1>1, <1>2 DEF TypeOK
  <1>5. Stream' /\ Turns' /\ PoliteSessionParses' /\ Passed'
    BY <1>1, <1>2, <1>3 DEF Stream, Turns, PoliteSessionParses, Passed
  <1>6. Beliefs' /\ Phases' /\ Breakpoints' /\ StopsAreTrue'
    BY <1>1, <1>2, <1>3 DEF Beliefs, Phases, Breakpoints, StopsAreTrue, Running
  <1> QED  BY <1>4, <1>5, <1>6 DEF IInv

LEMMA ConnectStep ==
  ASSUME IInv, Connect PROVE IInv' /\ InFlight'
  <1> DEFINE first == Simple("no_ack")
  <1>1. TypeOK /\ Phases
    BY DEF IInv
  <1>2. /\ first \in Request /\ first.kind = "no_ack" /\ first \in Message
        /\ Ack \in Message /\ Ack \notin Request /\ first # Ack /\ first # CtrlC /\ Ack # CtrlC
    <2>1. first \in Request /\ first.kind = "no_ack"
      BY DEF Request, Simple
    <2> QED  BY <2>1, MessageKinds DEF Asking, OnlyKind, WithAddress
  <1> HIDE DEF first
  <1>3. /\ phase = "accepting" /\ phase' = Turn
        /\ wire' = <<Ack, first>> /\ buffer' = <<>> /\ cut' = FALSE /\ replies' = <<>>
        /\ client' = "joining" /\ wanted' = {}
        /\ UNCHANGED <<pc, committed_pc, age, stuck, executed, fresh, loaded, is_halted,
                       m_is_in_step, m_breakpoints, exit_requested, interrupts>>
    BY DEF Connect, machine, history, control, first
  <1>4. is_halted /\ ~m_is_in_step /\ m_breakpoints = {}
    BY <1>1, <1>3 DEF Phases
  <1>5. <<Ack, first>> \in Seq(Message) /\ <<>> \o <<Ack, first>> = <<Ack, first>>
    BY <1>2, ConcatEmptySeq
  <1>6. stream' = <<Ack, first>>
    BY <1>3, <1>5 DEF stream
  <1>7. Places' = {1, 2} /\ Len(stream') = 2 /\ stream'[1] = Ack /\ stream'[2] = first
    BY <1>6 DEF Places
  <1>8. \A i \in Places' : stream'[i] \in Request => i = 2
    BY <1>2, <1>7
  <1>9. TypeOK'
    <2>1. /\ wire' \in Seq(Message) /\ buffer' \in Seq(Message)
          /\ replies' \in Seq(Reply \cup Stop) /\ Len(replies') <= 1
      BY <1>3, <1>5, EmptySeq
    <2>2. phase' \in {"serving"} \cup Ended /\ cut' \in BOOLEAN /\ wanted' \subseteq Addr
      BY <1>3, TurnPhase
    <2> QED  BY <1>1, <1>3, <2>1, <2>2 DEF TypeOK, Message
  <1>10. Stream'
    BY <1>2, <1>7, <1>8 DEF Stream
  <1>11. Turns' /\ PoliteSessionParses' /\ Passed'
    BY <1>3, <1>4, TurnPhase DEF Turns, PoliteSessionParses, Passed
  <1>12. Beliefs'
    BY <1>2, <1>3, <1>4, <1>7, <1>8 DEF Beliefs, Asked, Running
  <1>13. Phases' /\ Breakpoints' /\ StopsAreTrue'
    BY <1>3, <1>4, TurnPhase DEF Phases, Breakpoints, StopsAreTrue, Running, Ended
  <1>14. InFlight'
    <2>1. InFlight' <=> \E i \in Places' : stream'[i] \in Request
      BY DEF InFlight, Places, stream
    <2> QED  BY <1>2, <1>7, <2>1
  <1> QED  BY <1>9, <1>10, <1>11, <1>12, <1>13, <1>14 DEF IInv

(* The client understands what it is told. *)
LEMMA Receiving ==
  ASSUME IInv, Receive
  PROVE  /\ is_halted /\ ~InFlight /\ Tail(replies) = <<>>
         /\ client \in {"joining", "waiting"} \cup Running
         /\ client \in {"joining"} \cup Running => client' = "asking"
         /\ client = "waiting" => /\ Head(replies).kind = "OK" => client' = "asking"
                                  /\ Head(replies).kind = "m1" => client' = "listing"
                                  /\ Head(replies).kind = "X01" => client' = "away"
                                  /\ Head(replies).kind \in {"OK", "m1", "X01"}
         /\ client \in {"joining", "waiting"} => stream = <<>>
  <1>1. TypeOK /\ Turns /\ Beliefs
    BY DEF IInv
  <1>2. replies # <<>> /\ client # "gone" /\ client' = Believes(Head(replies))
    BY DEF Receive
  <1>3. /\ replies \in Seq(Reply \cup Stop) /\ Len(replies) <= 1
        /\ Head(replies) \in Reply \cup Stop /\ Tail(replies) = <<>>
    <2>1. replies \in Seq(Reply \cup Stop) /\ Len(replies) <= 1
      BY <1>1 DEF TypeOK
    <2> QED  BY <1>2, <2>1, OneReply
  <1>4. is_halted /\ ~InFlight /\ client \in {"joining", "waiting"} \cup Running
    BY <1>1, <1>2 DEF Turns, Beliefs, TypeOK
  <1>5. /\ client = "joining" => Head(replies).kind = "OK"
        /\ client = "waiting" => Head(replies) \in Reply
        /\ client \in Running => Head(replies) \in Stop
        /\ client \in {"joining", "waiting"} => stream = <<>>
    BY <1>1, <1>2 DEF Beliefs
  <1>6. /\ client \in Running => Head(replies).kind = "T"
        /\ client = "waiting" => Head(replies).kind \in {"OK", "m1", "X01"}
    BY <1>3, <1>5, ReplyKinds
  <1> QED  BY <1>2, <1>3, <1>4, <1>5, <1>6 DEF Believes, Running

LEMMA ReceiveStep ==
  ASSUME IInv, Receive PROVE IInv'
  <1>1. TypeOK /\ Stream /\ Turns /\ Beliefs /\ Phases /\ Breakpoints
    BY DEF IInv
  <1>2. Ack \in Message /\ Ack \notin Request /\ Ack # CtrlC
    BY MessageKinds DEF Asking, OnlyKind, WithAddress
  <1>3. /\ replies # <<>> /\ replies' = <<>> /\ buffer' = buffer
        /\ wire' = IF client = "joining" THEN Append(wire, Ack) ELSE wire
        /\ UNCHANGED <<pc, committed_pc, age, stuck, executed, fresh, cut, phase, loaded,
                       is_halted, m_is_in_step, m_breakpoints, exit_requested, wanted, interrupts>>
    BY Receiving DEF Receive, machine, history, server, control
  <1>4. client' \in {"asking", "listing", "away"}
        /\ (client' # "asking" => client = "waiting")
    BY Receiving
  <1>5. /\ wire' \in Seq(Message) /\ buffer' \in Seq(Message)
        /\ InFlight' <=> InFlight
        /\ \A i \in Places' : \/ i \in Places /\ stream'[i] = stream[i]
                              \/ i = 1 /\ stream'[i] = Ack
        /\ client # "joining" => stream' = stream /\ Places' = Places
    <2>1. CASE client = "joining"
      <3>1. stream = <<>> /\ wire' = Append(wire, Ack)
        BY <1>3, <2>1, Receiving
      <3>2. Len(stream) = 0
        BY <3>1
      <3> QED  BY <1>1, <1>2, <1>3, <2>1, <3>1, <3>2, StreamSent, StreamType
    <2>2. CASE client # "joining"
      <3>1. wire' = wire
        BY <1>3, <2>2
      <3> QED  BY <1>1, <1>3, <2>2, <3>1, StreamKept, StreamType
    <2> QED  BY <2>1, <2>2
  <1>6. \A i \in Places' : stream'[i] \notin Request
    BY <1>2, <1>5, Receiving, InFlightStream
  <1>7. TypeOK'
    <2>1. replies' \in Seq(Reply \cup Stop) /\ Len(replies') <= 1
      BY <1>3, EmptySeq
    <2> QED  BY <1>1, <1>3, <1>4, <1>5, <2>1 DEF TypeOK, Message
  <1>8. Stream'
    BY <1>1, <1>2, <1>3, <1>5, <1>6 DEF Stream
  <1>9. Turns' /\ PoliteSessionParses' /\ Passed'
    BY <1>1, <1>3, <1>4, <1>5, Receiving DEF IInv, Turns, PoliteSessionParses, Passed, Running
  <1>10. Beliefs'
    BY <1>3, <1>4, <1>5, Receiving DEF Beliefs, Running
  <1>11. Phases'
    BY <1>1, <1>3, <1>4, Receiving DEF Phases, Running, Ended, TypeOK
  <1>12. client' \in {"asking", "listing"} /\ phase \in {"serving", "listing"} => m_breakpoints = wanted
    BY <1>1, <1>3, Receiving DEF Breakpoints, Running
  <1>13. Breakpoints' /\ StopsAreTrue'
    BY <1>3, <1>4, <1>12 DEF Breakpoints, StopsAreTrue, Running
  <1> QED  BY <1>7, <1>8, <1>9, <1>10, <1>11, <1>13 DEF IInv

LEMMA InvInit == Init => IInv
  <1> SUFFICES ASSUME Init PROVE IInv
    OBVIOUS
  <1>1. stream = <<>> /\ Places = {} /\ ~InFlight
    <2>1. stream = <<>>
      BY ConcatEmptySeq, EmptySeq DEF Init, stream
    <2>2. Places = {}
      BY <2>1 DEF Places
    <2> QED  BY <2>1, <2>2, InFlightStream
  <1>2. TypeOK
    <2>1. /\ wire \in Seq(Message) /\ buffer \in Seq(Message)
          /\ replies \in Seq(Reply \cup Stop) /\ Len(replies) <= 1
      BY EmptySeq DEF Init
    <2>2. is_halted \in BOOLEAN /\ m_is_in_step \in BOOLEAN /\ stuck \in BOOLEAN
          /\ exit_requested \in BOOLEAN /\ loaded \in BOOLEAN
          /\ cut \in BOOLEAN /\ fresh \in BOOLEAN
      BY DEF Init
    <2>3. age \in 0 .. 2 /\ interrupts \in 0 .. MaxInterrupts
      BY DEF Init
    <2> QED  BY <2>1, <2>2, <2>3 DEF Init, TypeOK, Message
  <1> QED
    BY <1>1, <1>2 DEF Init, IInv, Stream, Turns, Beliefs, Phases, Breakpoints, StopsAreTrue,
       PoliteSessionParses, Passed, Running

LEMMA InvNext == IInv /\ [Next]_vars => IInv'
  BY ServeStep, AdvanceStep, FaultStep, CrashStep, QuietSteps, AskStep, InterruptStep, HangUpStep,
     ConnectStep, ReceiveStep
  DEF Next, Execute

(* Whatever crosses on the connection, the inductive invariant holds. *)
THEOREM Invariance == Spec => []IInv
  BY InvInit, InvNext, PTL DEF Spec

(* Every variable keeps its type, and no second reply is ever on its way: the  *)
(* server answers once (remote_server.cpp 360-391).                            *)
THEOREM TypeCorrect == Spec => []TypeOK
  <1>1. IInv => TypeOK
    BY DEF IInv
  <1> QED  BY Invariance, <1>1, PTL

(* A stop says the truth, and the client's breakpoints are the server's        *)
(* whenever it has the floor (remote_server.cpp 469-496).                      *)
THEOREM TrueStops == Spec => []StopsAreTrue
  <1>1. IInv => StopsAreTrue
    BY DEF IInv
  <1> QED  BY Invariance, <1>1, PTL

(* Only a client that sends ^C or hangs up is ever cut off by the parser, the  *)
(* assertion or the socket, unless a read ended inside one of its packets      *)
(* (remote_server.cpp 94-132 and 275).                                         *)
THEOREM PoliteIsParsed == Spec => []PoliteSessionParses
  <1>1. IInv => PoliteSessionParses
    BY DEF IInv
  <1> QED  BY Invariance, <1>1, PTL

-----------------------------------------------------------------------------
(* What a step may not do. *)

LEMMA StopsStep ==
  ASSUME IInv, Execute
  PROVE  /\ client = "running" /\ executed' \in wanted => fresh \/ executed' \in Vectors
         /\ client = "stepping" => is_halted' \/ phase' # "serving"
  <1>1. Runs /\ Executes
    BY DEF Execute, Advance, Fault, Crash
  <1>2. client = "running" /\ executed' \in wanted => fresh \/ executed' \in Vectors
    BY <1>1 DEF IInv, Passed, Runs, Executes
  <1>3. ASSUME client = "stepping" PROVE is_halted' \/ phase' # "serving"
    <2>1. CASE Fault
      BY <2>1 DEF Fault, NotifyBreak
    <2>2. CASE Crash
      BY <2>2 DEF Crash
    <2>3. CASE Advance
      <3>1. IsActiveBreakpoint(pc')
        BY <1>1, <1>3, MachineRuns DEF IsActiveBreakpoint
      <3> QED  BY <2>3, <3>1 DEF Advance, NotifyBreak
    <2> QED  BY <2>1, <2>2, <2>3 DEF Execute
  <1> QED  BY <1>2, <1>3

(* The machine executes no instruction at a breakpoint of the client, but where  *)
(* it was resumed and at the vectors of interrupts, and a step is one turn       *)
(* (gdb_server.cpp 141-172).                                                  *)
THEOREM NeverRunsPast == Spec => StopsInTime
  <1>1. IInv /\ [Next]_vars =>
          [Execute =>
             /\ client = "running" /\ executed' \in wanted => fresh \/ executed' \in Vectors
             /\ client = "stepping" => is_halted' \/ phase' # "serving"]_vars
    BY StopsStep
  <1> QED  BY Invariance, <1>1, PTL DEF Spec, StopsInTime

-----------------------------------------------------------------------------
(* The dialogue. *)

Nobody == phase \in Ended \cup {"accepting"} \/ client = "gone"

(* Who has the floor when somebody has it. *)
FloorIs ==
  /\ Floor = "nobody" <=> Nobody
  /\ ~Nobody => Floor = IF InFlight THEN "server"
                        ELSE IF replies # <<>> \/ client \notin Running THEN "client" ELSE "machine"

LEMMA FloorValue == TypeOK => FloorIs
  <1> SUFFICES ASSUME TypeOK PROVE FloorIs
    OBVIOUS
  <1>1. client # "confused" /\ ~(Len(replies) > 1)
    BY DEF TypeOK, Running
  <1>2. CASE Nobody
    <2>1. Floor = "nobody"
      BY <1>2 DEF Floor, Nobody
    <2> QED  BY <1>2, <2>1 DEF FloorIs
  <1>3. CASE ~Nobody /\ InFlight
    <2>1. Floor = "server"
      BY <1>1, <1>3 DEF Floor, Nobody
    <2> QED  BY <1>3, <2>1 DEF FloorIs
  <1>4. CASE ~Nobody /\ ~InFlight /\ (replies # <<>> \/ client \notin Running)
    <2>1. Floor = "client"
      BY <1>1, <1>4 DEF Floor, Nobody
    <2> QED  BY <1>4, <2>1 DEF FloorIs
  <1>5. CASE ~Nobody /\ ~InFlight /\ ~(replies # <<>> \/ client \notin Running)
    <2>1. Floor = "machine"
      BY <1>1, <1>5 DEF Floor, Nobody
    <2> QED  BY <1>5, <2>1 DEF FloorIs
  <1> QED  BY <1>2, <1>3, <1>4, <1>5

LEMMA FloorNow == IInv => FloorIs
  BY FloorValue DEF IInv

LEMMA FloorNext == IInv' => FloorIs'
  BY FloorNow, PTL

LEMMA ServerActs ==
  /\ Serve => UNCHANGED user /\ phase \in {"serving", "listing"}
  /\ Execute => UNCHANGED user /\ phase = "serving"
  <1>1. \A kinds : Takes(kinds) => UNCHANGED user /\ phase = "serving"
    BY DEF Takes, Reading
  <1>2. ReadAck \/ Query \/ ReadData \/ ListThreads \/ Breakpoint \/ Continue \/ ContinueAt \/ Kill
        \/ KillFails \/ RunElf \/ RunFails => UNCHANGED user /\ phase = "serving"
    BY <1>1 DEF ReadAck, Query, ReadData, ListThreads, Breakpoint, Continue, ContinueAt, Kill,
       KillFails, RunElf, RunFails
  <1>3. ReadUnparsed \/ ReadPart \/ ReadNothing \/ EndList => UNCHANGED user /\ phase \in {"serving", "listing"}
    BY DEF ReadUnparsed, ReadPart, ReadNothing, EndList, Reading
  <1>4. Execute => UNCHANGED user /\ phase = "serving"
    BY DEF Execute, Advance, Fault, Crash, Runs
  <1> QED  BY <1>2, <1>3, <1>4 DEF Serve

LEMMA NobodyStays ==
  ASSUME Nobody, [Next]_vars, ~Connect PROVE Nobody'
  <1>1. CASE Ask \/ AskBreakpoint \/ AskNextThread \/ Interrupt \/ HangUp \/ Receive
    BY <1>1 DEF Nobody, Ask, AskBreakpoint, AskNextThread, Interrupt, HangUp, Receive, Send, server,
       Running
  <1>2. CASE Arrive \/ ArriveInPart \/ CloseWindow \/ Stick \/ UNCHANGED vars
    BY <1>2 DEF Nobody, Arrive, ArriveInPart, CloseWindow, Stick, vars, server, user
  <1>3. CASE Serve \/ Execute
    BY <1>3, ServerActs DEF Nobody, user, Ended
  <1> QED  BY <1>1, <1>2, <1>3 DEF Next

(* The floor goes from the server to the client with every answer. *)
LEMMA AnswerFloor ==
  ASSUME IInv, IInv', ~Nobody, ~Nobody', InFlight, NEW k \in {"OK", "m1", "X01"}, Answers(k)
  PROVE  Floor = "server" /\ Floor' = "client"
  <1>1. FloorIs /\ FloorIs' /\ Turns /\ Turns'
    BY FloorNow, FloorNext DEF IInv
  <1>2. replies' # <<>> /\ ~InFlight'
    BY <1>1, AnswersOnce DEF Turns
  <1> QED  BY <1>1, <1>2 DEF FloorIs

LEMMA ServeFloor ==
  ASSUME IInv, IInv', ~Nobody, ~Nobody', Serve
  PROVE  Floor' = Floor \/ (Floor = "server" /\ Floor' \in {"client", "machine"})
  <1>1. FloorIs /\ FloorIs'
    BY FloorNow, FloorNext
  <1>2. UNCHANGED user /\ phase' \notin Ended \cup {"accepting"}
    BY ServerActs DEF Nobody
  <1>3. CASE ReadAck
    <2>1. InFlight' = InFlight /\ replies' = replies
      BY <1>3, ReadAckStep DEF ReadAck
    <2> QED  BY <1>1, <1>2, <2>1 DEF FloorIs, user
  <1>4. CASE ReadUnparsed \/ ReadPart \/ ReadNothing \/ Kill \/ KillFails \/ RunFails
    BY <1>2, <1>4 DEF ReadUnparsed, ReadPart, ReadNothing, Kill, KillFails, RunFails, Ended
  <1>5. CASE EndList
    <2>1. InFlight /\ Answers("OK")
      BY <1>2, <1>5, EndListStep DEF EndList, Ended
    <2> QED  BY <2>1, AnswerFloor
  <1>6. ASSUME NEW kinds \in SUBSET Asking, Takes(kinds) PROVE InFlight /\ ~InFlight' /\ replies = <<>>
    BY <1>6, Taking
  <1>7. CASE Query \/ ReadData \/ ListThreads \/ Breakpoint \/ RunElf
    <2>1. InFlight
      BY <1>6, <1>7 DEF Query, ReadData, ListThreads, Breakpoint, RunElf, Asking, OnlyKind, WithAddress
    <2>2. Answers("OK") \/ Answers("m1")
      BY <1>2, <1>7 DEF Query, ReadData, ListThreads, Breakpoint, RunElf, Ended
    <2> QED  BY <2>1, <2>2, AnswerFloor
  <1>8. CASE Continue \/ ContinueAt
    <2>1. replies' = replies /\ is_halted' = FALSE
      BY <1>2, <1>8 DEF Continue, ContinueAt, Ended
    <2>2. InFlight /\ ~InFlight' /\ replies = <<>>
      BY <1>6, <1>8 DEF Continue, ContinueAt, Asking, OnlyKind, WithAddress
    <2> QED  BY <1>1, <2>1, <2>2 DEF FloorIs
  <1> QED  BY <1>3, <1>4, <1>5, <1>7, <1>8 DEF Serve

LEMMA ExecuteFloor ==
  ASSUME IInv, IInv', ~Nobody, ~Nobody', Execute
  PROVE  Floor = "machine" /\ Floor' \in {"machine", "client"}
  <1>1. FloorIs /\ FloorIs' /\ Turns'
    BY FloorNow, FloorNext DEF IInv
  <1>2. UNCHANGED user /\ phase' \notin Ended
    BY ServerActs DEF Nobody
  <1>3. Runs
    BY <1>2 DEF Execute, Advance, Fault, Crash
  <1>4. Floor = "machine" /\ ~InFlight
    BY <1>1, <1>3, MachineRuns DEF FloorIs, Nobody, Running
  <1>5. wire' = wire /\ buffer' \in {buffer, <<>>}
    BY <1>2 DEF Execute, Advance, Fault, Crash, channels
  <1>6. ~InFlight'
    <2>1. TypeOK
      BY DEF IInv
    <2> QED  BY <1>4, <1>5, <2>1, StreamKept, StreamRead
  <1> QED  BY <1>1, <1>4, <1>6 DEF FloorIs

LEMMA ClientFloor ==
  ASSUME IInv, IInv', ~Nobody, ~Nobody',
         Ask \/ AskBreakpoint \/ AskNextThread \/ Interrupt \/ Receive
  PROVE  Floor' = Floor \/ (Floor = "client" /\ Floor' = "server")
  <1>1. FloorIs /\ FloorIs' /\ Beliefs /\ Beliefs'
    BY FloorNow, FloorNext DEF IInv
  <1>2. CASE Ask \/ AskBreakpoint \/ AskNextThread
    <2>1. InFlight' /\ client \in {"asking", "listing"}
      BY <1>2, AskStep DEF Ask, AskBreakpoint, AskNextThread
    <2> QED  BY <1>1, <2>1 DEF FloorIs, Beliefs, Running
  <1>3. CASE Interrupt
    <2>1. InFlight' = InFlight /\ replies' = replies /\ client' = client
      BY <1>3, InterruptStep DEF Interrupt, Send
    <2> QED  BY <1>1, <2>1 DEF FloorIs
  <1>4. CASE Receive
    <2>1. ~InFlight /\ replies # <<>> /\ client' \in {"asking", "listing", "away"}
      BY <1>4, Receiving DEF Receive
    <2> QED  BY <1>1, <2>1 DEF FloorIs, Beliefs, Running
  <1> QED  BY <1>2, <1>3, <1>4

(* Every step is one of the dialogue, or leaves the floor to who has it. *)
LEMMA DialogueStep ==
  ASSUME IInv, IInv', [Next]_vars
  PROVE  [D!Next]_Floor
  <1>1. FloorIs /\ FloorIs' /\ TypeOK
    BY FloorNow, FloorNext DEF IInv
  <1>2. CASE Nobody'
    BY <1>1, <1>2 DEF FloorIs, D!Next, D!End
  <1>3. CASE Connect
    <2>1. phase = "accepting" /\ InFlight'
      BY <1>3, ConnectStep DEF Connect
    <2> QED  BY <1>1, <1>2, <2>1 DEF FloorIs, Nobody, D!Next, D!Begin
  <1>4. CASE Nobody /\ ~Connect
    BY <1>2, <1>4, NobodyStays
  <1>5. CASE ~Nobody /\ ~Nobody' /\ Serve
    BY <1>5, ServeFloor DEF D!Next, D!Reply, D!Resume
  <1>6. CASE ~Nobody /\ ~Nobody' /\ Execute
    BY <1>6, ExecuteFloor DEF D!Next, D!Stop
  <1>7. CASE ~Nobody /\ ~Nobody' /\ (Ask \/ AskBreakpoint \/ AskNextThread \/ Interrupt \/ Receive)
    BY <1>7, ClientFloor DEF D!Next, D!Ask
  <1>8. CASE ~Nobody /\ ~Nobody' /\ HangUp
    BY <1>8 DEF HangUp, Nobody
  <1>9. CASE ~Nobody /\ ~Nobody' /\ (Arrive \/ ArriveInPart \/ CloseWindow \/ Stick \/ UNCHANGED vars)
    <2>1. InFlight' = InFlight
      <3>1. CASE Arrive
        BY <1>1, <3>1, StreamArrives
      <3>2. CASE ArriveInPart \/ CloseWindow \/ Stick \/ UNCHANGED vars
        BY <3>2, StreamKept DEF ArriveInPart, CloseWindow, Stick, vars, channels
      <3> QED  BY <1>9, <3>1, <3>2
    <2>2. replies' = replies /\ client' = client
      BY <1>9 DEF Arrive, ArriveInPart, CloseWindow, Stick, vars, channels, user
    <2> QED  BY <1>1, <1>9, <2>1, <2>2 DEF FloorIs
  <1> QED  BY <1>2, <1>3, <1>4, <1>5, <1>6, <1>7, <1>8, <1>9 DEF Next

(* However requests, ^C and stops cross, the session is a dialogue: the server *)
(* speaks when it was asked or was told to run, and then once                 *)
(* (remote_server.cpp 360-391).                                               *)
THEOREM IsADialogue == Spec => IsDialogue
  <1>1. Init => D!Init
    <2>1. Init => Floor = "nobody"
      BY DEF Init, Floor
    <2> QED  BY <2>1 DEF D!Init
  <1>2. IInv /\ IInv' /\ [Next]_vars => [D!Next]_Floor
    BY DialogueStep
  <1> QED  BY Invariance, <1>1, <1>2, PTL DEF Spec, IsDialogue, D!Spec
=============================================================================
