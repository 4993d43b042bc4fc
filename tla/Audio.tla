-------------------------------- MODULE Audio --------------------------------
(* The way of the sound from the mixer to the audio device: the sampling of    *)
(* libgb/io/apu.cpp, the update of libgb/io/io.cpp after each instruction and  *)
(* try_flush_audio of sdl-frontend/sdl_io.cpp.  The device plays its queue in   *)
(* a thread of its own, also between the moment when the emulator asks for the  *)
(* length of the queue and the moment when it appends to it.  Levels, panning   *)
(* and the filters are left out: a sample is a number that tells it from the    *)
(* others at hand.                                                            *)
EXTENDS Sequences, Integers

CONSTANTS
  Batch,            \* samples of m_sample_buffer.size() / 8, 1024 in the program
  PerFrame,         \* samples_per_frame, 400
  ExtraDiscard,     \* samples that are skipped to catch up, 5
  ClocksPerSample,  \* m_gameboy_clocks_per_host_sample, 175
  Instructions,     \* clocks that an instruction takes, 4 .. 24
  Names             \* numbers that tell samples apart

BatchAssumption == Batch \in Nat \ {0} /\ ExtraDiscard \in 0 .. Batch
FrameAssumption == PerFrame \in Nat \ {0} /\ Names \in Nat \ {0}
ClockAssumption ==
  ClocksPerSample \in Nat /\ Instructions \subseteq 1 .. ClocksPerSample + 1

VARIABLES
  emu,                  \* "run", or "flush" between the look at the queue and its use
  m_clocks_till_sample,
  next,                 \* name of the next sample
  samples,              \* m_samples_since_last_flush
  queued_samples,       \* what SDL_GetQueuedAudioSize has told
  queue                 \* samples in the queue of the device

vars == <<emu, m_clocks_till_sample, next, samples, queued_samples, queue>>

Init ==
  /\ emu = "run" /\ m_clocks_till_sample = 0 /\ next = 0
  /\ samples = <<>> /\ queued_samples = 0 /\ queue = 0

(* clock_to: each clock counts down, or samples and starts the count again.     *)
(* An instruction is shorter than the time of a sample.                        *)
Instruction(clocks) ==
  /\ emu = "run" /\ emu' = "update"
  /\ IF m_clocks_till_sample >= clocks
     THEN /\ m_clocks_till_sample' = m_clocks_till_sample - clocks
          /\ UNCHANGED <<next, samples>>
     ELSE /\ m_clocks_till_sample' =
               ClocksPerSample - (clocks - m_clocks_till_sample - 1)
          /\ samples' = Append(samples, next)
          /\ next' = (next + 1) % Names
  /\ UNCHANGED <<queued_samples, queue>>

(* try_flush_audio looks at the queue once two batches are there. (Slip: one    *)
(* batch is enough.)                                                            *)
EnoughForOne == Len(samples) >= Batch
Enough == Len(samples) >= 2 * Batch

Update ==
  /\ emu = "update"
  /\ IF Enough
     THEN emu' = "flush" /\ queued_samples' = queue
     ELSE emu' = "run" /\ UNCHANGED queued_samples
  /\ UNCHANGED <<m_clocks_till_sample, next, samples, queue>>

Behind == queued_samples > 2 * PerFrame
GivesUp == queued_samples > 5 * PerFrame

(* flush_samples: the rest is copied to the front.                              *)
Flushed(count) ==
  IF count = Len(samples) THEN <<>>
  ELSE [i \in 1 .. Len(samples) - count |-> samples[count + i]]

Discarded == IF Behind THEN ExtraDiscard ELSE 0

(* The index of the filter loop hides the one that skips samples: a batch is the  *)
(* first samples in order.                                                     *)
QueueBatch ==
  /\ emu = "flush" /\ ~GivesUp
  /\ queue' = queue + Batch
  /\ samples' = Flushed(Batch + Discarded)
  /\ emu' = "run"
  /\ UNCHANGED <<m_clocks_till_sample, next, queued_samples>>

GiveUp ==
  /\ emu = "flush" /\ GivesUp
  /\ samples' = Flushed(Len(samples))
  /\ emu' = "run"
  /\ UNCHANGED <<m_clocks_till_sample, next, queued_samples, queue>>

(* The device takes up to a buffer of its queue, and plays silence if it is     *)
(* empty.                                                                     *)
Play ==
  /\ queue > 0
  /\ queue' = (IF queue > Batch THEN queue - Batch ELSE 0)
  /\ UNCHANGED <<emu, m_clocks_till_sample, next, samples, queued_samples>>

Emulate ==
  \/ \E clocks \in Instructions : Instruction(clocks)
  \/ Update \/ QueueBatch \/ GiveUp

Next == Emulate \/ Play

Spec == Init /\ [][Next]_vars

(* The emulator and the device both run.                                       *)
FairSpec == Spec /\ WF_vars(Emulate) /\ WF_vars(Play)

-----------------------------------------------------------------------------
(* Among the types: the buffer of samples stays within two batches and the      *)
(* queue of the device within five frames and a batch, however slowly the       *)
(* device plays and however old the length is that the emulator goes by.        *)
TypeOK ==
  /\ emu \in {"run", "update", "flush"}
  /\ m_clocks_till_sample \in 0 .. ClocksPerSample
  /\ next \in 0 .. Names - 1
  /\ samples \in Seq(0 .. Names - 1) /\ Len(samples) <= 2 * Batch
  /\ queued_samples \in Nat
  /\ queue \in 0 .. 5 * PerFrame + Batch

(* The assertion of flush_samples: no more is flushed than is there.           *)
FlushFits ==
  emu = "flush" /\ ~GivesUp => Batch + Discarded <= Len(samples)

(* What waits is gapless and ends with the newest sample, whatever has been     *)
(* flushed in front of it: nothing that is queued is queued again               *)
(* (flush_samples, try_flush_audio).                                          *)
WaitingInOrder ==
  \A i \in DOMAIN samples : samples[i] = (next - 1 - Len(samples) + i) % Names

(* The device is given sound again and again, also after the emulator has       *)
(* given up (try_flush_audio).                                                *)
SoundGoesOn == []<><<QueueBatch>>_vars
=============================================================================
