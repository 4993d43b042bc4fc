------------------------ MODULE RenderHandshake_proofs ------------------------
(* Proofs about the hand-over of frames: its safety holds for frames of any      *)
(* number of lines, for every interleaving of the two threads and however the    *)
(* speed-up key is used.                                                       *)
EXTENDS RenderHandshake, TLAPS

Flags ==
  /\ m_speed_up_mode \in BOOLEAN /\ released \in BOOLEAN
  /\ m_current_frame_is_visible \in BOOLEAN /\ scheduled \in BOOLEAN

(* Where the emulator waits for a buffer, and where it works through a frame.     *)
Waits == emu \in {"construct", "lock", "test", "block", "waiting", "woken"}
Works == emu \in {"run", "line", "pixels", "commit"}

(* Which textures are locked, and into which of them the pointer goes, at each    *)
(* point of the render thread.                                                 *)
Between == ren \in {"announce", "loop", "events", "draw_frame", "lock", "present", "teardown"}
Ownership ==
  /\ ren = "setup" => Waits /\ m_data_to_render = NULL /\ locked = {}
  /\ Between => /\ locked = {Other(m_live_texture)}
                /\ m_data_to_render \in {NULL, Other(m_live_texture)}
  /\ ren \in {"notify", "swap"} => /\ locked = Texture
                                   /\ m_data_to_render \in {NULL, m_live_texture}
  /\ ren = "lock" => m_data_to_render = NULL

(* What the emulator knows of the frame that it works on.  A visible one has a    *)
(* buffer, filled as far as the LCD has come; a buffer that it does not draw is   *)
(* empty.                                                                      *)
Progress ==
  /\ emu \in {"line", "pixels"} => line < Lines
  /\ emu = "commit" => line = Lines
  /\ emu = "pixels" => scheduled = m_current_frame_is_visible
  /\ Works /\ m_current_frame_is_visible =>
       m_data_to_render # NULL /\ content[m_data_to_render] = line
  /\ Works /\ ~m_current_frame_is_visible /\ m_data_to_render # NULL =>
       content[m_data_to_render] = 0
  /\ Waits /\ m_data_to_render # NULL => content[m_data_to_render] = 0

(* As long as the speed-up key has not been released, frames are skipped only     *)
(* while it is down, and a buffer that has been taken back is full.              *)
Filled ==
  ~released =>
    /\ ~m_current_frame_is_visible => m_speed_up_mode
    /\ emu = "clear" => m_data_to_render # NULL /\ content[m_data_to_render] = Lines
    /\ Between /\ m_data_to_render = NULL => content[Other(m_live_texture)] = Lines
    /\ ren \in {"notify", "swap"} =>
         /\ content[Other(m_live_texture)] = Lines
         /\ m_data_to_render = NULL => content[m_live_texture] = Lines

IInv == TypeOK /\ Flags /\ Ownership /\ Progress /\ Filled

(* The two textures are each other's other one.                                *)
LEMMA TextureFacts ==
  /\ NULL \notin Texture
  /\ \A t \in Texture : Other(t) \in Texture /\ Other(t) # t /\ Other(Other(t)) = t
  /\ \A t \in Texture : Texture \ {Other(t)} = {t} /\ {Other(t)} \cup {t} = Texture
  /\ \A t \in Texture : {} \cup {Other(t)} = {Other(t)}
BY DEF NULL, Texture, Other

LEMMA InitInvariant == Init => IInv
<1> SUFFICES ASSUME Init PROVE IInv
  OBVIOUS
<1> USE DEF Init
<1>1. TypeOK
  BY LinesAssumption DEF Texture, TypeOK
<1>2. Flags
  BY DEF Flags
<1>3. Ownership /\ Progress
  BY DEF Ownership, Between, Progress, Waits, Works
<1>4. Filled
  BY DEF Filled, Between
<1>5. QED BY <1>1, <1>2, <1>3, <1>4 DEF IInv

(* The steps of the render thread.                                             *)
LEMMA RenderStep ==
  ASSUME IInv, Render
  PROVE  IInv'
<1> USE DEF IInv, TypeOK, Flags, Waits, Works, Between, Ownership, Progress, Filled
<1>1. CASE Setup
  BY <1>1, TextureFacts, LinesAssumption DEF Setup, RenderAt, LockTexture, user, frame
<1>2. CASE Announce
  BY <1>2, TextureFacts, LinesAssumption DEF Announce, RenderAt, NotifyAll, user, textures, frame
<1>3. CASE Loop
  BY <1>3, TextureFacts, LinesAssumption DEF Loop, user, textures, frame
<1>4. CASE ProcessEvents
  BY <1>4, TextureFacts, LinesAssumption DEF ProcessEvents, RenderAt, textures, frame
<1>5. CASE EmulatorLags
  BY <1>5, TextureFacts, LinesAssumption DEF EmulatorLags, RenderAt, user, textures, frame
<1>6. CASE FrameComplete
  BY <1>6, TextureFacts, LinesAssumption DEF FrameComplete, RenderAt, user, textures, frame
<1>7. CASE LockLive
  BY <1>7, TextureFacts, LinesAssumption DEF LockLive, RenderAt, LockTexture, user, frame
<1>8. CASE Notify
  BY <1>8, TextureFacts, LinesAssumption DEF Notify, RenderAt, NotifyAll, user, textures, frame
<1>9. CASE Swap
  BY <1>9, TextureFacts, LinesAssumption DEF Swap, RenderAt, user, frame
<1>10. CASE Present
  BY <1>10, TextureFacts, LinesAssumption DEF Present, RenderAt, user, textures, frame
<1>11. CASE Teardown
  BY <1>11, TextureFacts, LinesAssumption DEF Teardown, RenderAt, user, frame
<1>12. QED
  BY <1>1, <1>2, <1>3, <1>4, <1>5, <1>6, <1>7, <1>8, <1>9, <1>10, <1>11 DEF Render

(* commitRender in the speed-up mode hands a visible frame over, and looks for    *)
(* a buffer after a skipped one.                                               *)
LEMMA SpeedUpStep ==
  ASSUME IInv, CommitSpeedUp
  PROVE  IInv'
<1> USE DEF IInv, TypeOK, Flags, Waits, Works, Between, Ownership, Progress, Filled
<1>1. /\ emu = "commit" /\ emu' = "run" /\ m_speed_up_mode /\ line' = 0
      /\ UNCHANGED <<ren, m_render_mutex, user, textures, scheduled, content>>
  BY DEF CommitSpeedUp, EmulatorAt
<1>2. CASE m_current_frame_is_visible
  <2>1. m_data_to_render' = NULL /\ m_current_frame_is_visible' = FALSE
    BY <1>2 DEF CommitSpeedUp
  <2>2. content[m_data_to_render] = Lines
    BY <1>1, <1>2
  <2>3. TypeOK'
    BY <1>1, <2>1, LinesAssumption DEF user, textures
  <2>4. Flags'
    BY <1>1, <2>1 DEF user
  <2>5. Ownership' /\ Progress'
    BY <1>1, <2>1 DEF user, textures
  <2>6. Filled'
    BY <1>1, <2>1, <2>2, TextureFacts DEF user, textures
  <2>7. QED BY <2>3, <2>4, <2>5, <2>6
<1>3. CASE ~m_current_frame_is_visible
  <2>1. /\ m_data_to_render' = m_data_to_render
        /\ m_current_frame_is_visible' = (m_data_to_render # NULL)
    BY <1>3 DEF CommitSpeedUp, HasBuffer
  <2>2. m_data_to_render # NULL => content[m_data_to_render] = 0
    BY <1>1, <1>3
  <2>3. QED BY <1>1, <2>1, <2>2, TextureFacts, LinesAssumption DEF user, textures
<1>4. QED BY <1>2, <1>3

(* The steps of the emulator thread.                                           *)
LEMMA EmulatorStep ==
  ASSUME IInv, Emulator \/ WakeSpuriously
  PROVE  IInv'
<1>1. CASE CommitSpeedUp
  BY <1>1, SpeedUpStep
<1> USE DEF IInv, TypeOK, Flags, Waits, Works, Between, Ownership, Progress, Filled
<1>2. CASE TakeMutex
  BY <1>2, TextureFacts, LinesAssumption DEF TakeMutex, EmulatorAt, user, textures, frame
<1>3. CASE BufferReady
  BY <1>3, TextureFacts, LinesAssumption DEF BufferReady, EmulatorAt, user, textures
<1>4. CASE BufferMissing
  BY <1>4, TextureFacts, LinesAssumption DEF BufferMissing, EmulatorAt, user, textures, frame
<1>5. CASE Block
  BY <1>5, TextureFacts, LinesAssumption DEF Block, EmulatorAt, user, textures, frame
<1>6. CASE WakeSpuriously
  BY <1>6, TextureFacts, LinesAssumption DEF WakeSpuriously, EmulatorAt, user, textures, frame
<1>7. CASE Run
  BY <1>7, TextureFacts, LinesAssumption DEF Run, user, textures, frame
<1>8. CASE EnterLine
  BY <1>8, TextureFacts, LinesAssumption DEF EnterLine, EmulatorAt, user, textures
<1>9. CASE DrawLine
  BY <1>9, TextureFacts, LinesAssumption DEF DrawLine, EmulatorAt, user, textures
<1>10. CASE CommitVisible
  BY <1>10, TextureFacts, LinesAssumption DEF CommitVisible, EmulatorAt, user, textures
<1>11. CASE ClearData
  BY <1>11, TextureFacts, LinesAssumption DEF ClearData, EmulatorAt, user, textures, frame
<1>12. QED
  BY <1>1, <1>2, <1>3, <1>4, <1>5, <1>6, <1>7, <1>8, <1>9, <1>10, <1>11 DEF Emulator

LEMMA StepInvariant == IInv /\ [Next]_vars => IInv'
<1> SUFFICES ASSUME IInv, [Next]_vars PROVE IInv'
  OBVIOUS
<1>1. CASE Render
  BY <1>1, RenderStep
<1>2. CASE Emulator \/ WakeSpuriously
  BY <1>2, EmulatorStep
<1>3. CASE UNCHANGED vars
  BY <1>3 DEF vars, user, textures, frame, IInv, TypeOK, Flags, Waits, Works, Between, Ownership, Progress, Filled
<1>4. QED BY <1>1, <1>2, <1>3 DEF Next

LEMMA AlwaysInvariant == Spec => []IInv
BY InitInvariant, StepInvariant, PTL DEF Spec

(* Pointers, textures and counters keep their ranges (sdl_io.cpp).               *)
THEOREM TypeCorrect == Spec => []TypeOK
<1>1. IInv => TypeOK
  BY DEF IInv
<1>2. QED BY <1>1, AlwaysInvariant, PTL

(* The emulator never draws through a null pointer (addPixel, commitRender).     *)
THEOREM PixelsHaveBuffer == Spec => []NoNullPixel
<1>1. IInv => NoNullPixel
  BY DEF IInv, Progress, Works, NoNullPixel
<1>2. QED BY <1>1, AlwaysInvariant, PTL

(* No texture is on the screen while it is drawn (draw_frame).                   *)
THEOREM ShownApart == Spec => []ShownFrameNotDrawn
<1>1. IInv => ShownFrameNotDrawn
  BY TextureFacts DEF IInv, TypeOK, Ownership, Between, ShownFrameNotDrawn
<1>2. QED BY <1>1, AlwaysInvariant, PTL

(* Every pixel goes into a locked texture (addPixel, draw_frame).                *)
THEOREM PixelsLocked == Spec => []PixelsInLockedTexture
<1>1. IInv => PixelsInLockedTexture
  <2> SUFFICES ASSUME IInv, emu = "pixels", scheduled, ren # "ended"
               PROVE  m_data_to_render \in locked
    BY DEF PixelsInLockedTexture
  <2>1. m_data_to_render # NULL /\ m_live_texture \in Texture /\ ~Waits
    BY DEF IInv, TypeOK, Progress, Waits, Works
  <2>2. CASE Between
    BY <2>1, <2>2 DEF IInv, Ownership
  <2>3. CASE ren \in {"notify", "swap"}
    BY <2>1, <2>3 DEF IInv, Ownership
  <2>4. ren = "setup" \/ Between \/ ren \in {"notify", "swap"}
    BY DEF IInv, TypeOK, Between
  <2> QED BY <2>1, <2>2, <2>3, <2>4 DEF IInv, Ownership
<1>2. QED BY <1>1, AlwaysInvariant, PTL

(* The render thread shows full frames only (draw_frame, commitRender).          *)
THEOREM FullFrames == Spec => []SwapsFullFrame
<1>1. IInv => SwapsFullFrame
  BY DEF IInv, Filled, SwapsFullFrame
<1>2. QED BY <1>1, AlwaysInvariant, PTL
=============================================================================
