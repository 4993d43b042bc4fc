-------------------------------- MODULE Ports --------------------------------
(* The two ports a user meets: the keys and the serial cable.                 *)
(*                                                                            *)
(* Keys go from the window to the program through a queue of key states under *)
(* a mutex (process_events and getKeyPressState of sdl-frontend/sdl_io.cpp)    *)
(* and the poll at the end of a frame in IO::update (libgb/io/io.cpp).        *)
(* m_last_keypress_was_down is never assigned, so that a key that goes down    *)
(* adds a state to the queue and a key that goes up edits the newest one.      *)
(* Key repeats arrive as further events of a key that is down.                *)
(*                                                                            *)
(* A serial transfer that is started with the internal clock ends at once     *)
(* (ioWrite); there is no other end of the cable.  The tests read what a ROM  *)
(* prints this way.  Both ports request interrupts in 0xFF0F.                 *)
(*                                                                            *)
(* The variables held and events are no state of the program: the keys that   *)
(* are down by the events so far, and how many those are.                     *)
EXTENDS Integers, SequencesExt

CONSTANTS
  Keys,      \* keys the frontend maps
  Unmapped,  \* other keys
  Bytes,     \* bytes the program loads into SB
  Controls,  \* bytes it writes to SC
  MaxEvents  \* bound: key events

KeyAssumption == Keys \cap Unmapped = {} /\ MaxEvents \in Nat
SerialAssumption == Bytes \subseteq 0 .. 255 /\ Controls \subseteq 0 .. 255

VARIABLES
  m_key_events,
  inputs,     \* IO: keys pressed as the program reads them
  SERIAL_DATA, SERIAL_CTL,
  output,     \* the byte frontend->sendSerial got last
  IFreg,      \* lines of 0xFF0F: "serial", "input"
  held, events

keys == <<m_key_events, inputs, held, events>>
serial == <<SERIAL_DATA, SERIAL_CTL, output>>
vars == <<keys, serial, IFreg>>

Nothing == -1

Init ==
  /\ m_key_events = <<{}>> /\ inputs = {}
  /\ held = {} /\ events = 0
  /\ SERIAL_DATA = 0 /\ SERIAL_CTL = 0 /\ output = Nothing
  /\ IFreg = {}

(* memory[INTERRUPTS] |= ... *)
Requested(line) == IFreg \cup {line}

-----------------------------------------------------------------------------
(* map_to_GB_key: an unmapped key is no bit at all. *)
Bits(key) == {key} \cap Keys
Newest == Last(m_key_events)

(* process_events.  (Slip: the new state holds the new key only.) *)
KeyAlone(key) == Bits(key)
WithKey(key) == Newest \cup Bits(key)

KeyDown(key) ==
  /\ events < MaxEvents
  /\ m_key_events' = Append(m_key_events, WithKey(key))
  /\ held' = held \cup Bits(key) /\ events' = events + 1
  /\ UNCHANGED <<inputs, serial, IFreg>>

KeyUp(key) ==
  /\ events < MaxEvents
  /\ m_key_events' = Append(Front(m_key_events), Newest \ Bits(key))
  /\ held' = held \ Bits(key) /\ events' = events + 1
  /\ UNCHANGED <<inputs, serial, IFreg>>

(* getKeyPressState: the queue keeps its newest state.                        *)
Popped == IF Len(m_key_events) > 1 THEN Tail(m_key_events) ELSE m_key_events

Poll ==
  LET keyState == Head(m_key_events) IN
  /\ m_key_events' = Popped
  /\ inputs' = keyState
  /\ IFreg' = IF keyState \subseteq inputs THEN IFreg ELSE Requested("input")
  /\ UNCHANGED <<held, events, serial>>

-----------------------------------------------------------------------------
WriteSB(value) ==
  /\ SERIAL_DATA' = value
  /\ UNCHANGED <<keys, SERIAL_CTL, output, IFreg>>

(* (value & 0x80) != 0 && (value & 1) != 0 *)
Starts(value) == value \div 128 = 1 /\ value % 2 = 1

(* What is to be kept of SC when nothing starts, value | 0b01111110; the      *)
(* code writes it to SB.                                                      *)
ReadWriteFields(value) == 126 + 128 * (value \div 128) + (value % 2)

StartTransfer(value) ==
  /\ Starts(value)
  /\ output' = SERIAL_DATA
  /\ SERIAL_CTL' = value % 128
  /\ SERIAL_DATA' = 255
  /\ IFreg' = Requested("serial")
  /\ UNCHANGED keys

WriteSC(value) ==
  /\ ~Starts(value)
  /\ SERIAL_DATA' = ReadWriteFields(value)
  /\ UNCHANGED <<keys, SERIAL_CTL, output, IFreg>>

(* The program writes the whole of 0xFF0F, which sets requests as well as it     *)
(* clears them.                                                               *)
WriteIF(lines) ==
  /\ IFreg' = lines
  /\ UNCHANGED <<keys, serial>>

(* A handler is entered: the CPU takes back the request that it serves. *)
Serve(line) ==
  /\ line \in IFreg /\ IFreg' = IFreg \ {line}
  /\ UNCHANGED <<keys, serial>>

Next ==
  \/ \E key \in Keys \cup Unmapped : KeyDown(key) \/ KeyUp(key)
  \/ Poll
  \/ \E value \in Bytes : WriteSB(value)
  \/ \E value \in Controls : StartTransfer(value) \/ WriteSC(value)
  \/ \E lines \in SUBSET {"serial", "input"} : WriteIF(lines)
  \/ \E line \in {"serial", "input"} : Serve(line)

Spec == Init /\ [][Next]_vars

(* Frames end again and again, and each is followed by a poll. *)
FairSpec == Spec /\ WF_vars(Poll)

-----------------------------------------------------------------------------
(* The queue holds at least one state: front and back are defined.            *)
TypeOK ==
  /\ m_key_events \in Seq(SUBSET Keys) /\ m_key_events # <<>>
  /\ inputs \subseteq Keys /\ held \subseteq Keys
  /\ events \in 0 .. MaxEvents
  /\ SERIAL_DATA \in 0 .. 255 /\ SERIAL_CTL \in 0 .. 127
  /\ output \in {Nothing} \cup 0 .. 255
  /\ IFreg \subseteq {"serial", "input"}

(* When the user's hands rest, the program comes to read the keys that are    *)
(* down, whatever was queued: no key stays stuck (KeyUp edits the newest      *)
(* state, Poll takes the oldest).                                             *)
InputsSettle == <>[](inputs = held)

(* A key that stays down is seen by the program.                              *)
PressSeen == \A key \in Keys : key \in held ~> (key \in inputs \/ key \notin held)
=============================================================================
