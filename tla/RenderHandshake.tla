--------------------------- MODULE RenderHandshake ---------------------------
(* The hand-over of frames between the two threads of the SDL frontend:       *)
(* the emulator thread draws lines and calls commitRender, the render thread  *)
(* runs async_render_loop (sdl-frontend/sdl_io.cpp; libgb/io/gpu.cpp calls    *)
(* isFrameScheduled, addPixel and commitRender).                              *)
(*                                                                            *)
(* Two textures: the live one is on the screen, the other one is locked and   *)
(* drawn through m_data_to_render.  A null m_data_to_render tells the render  *)
(* thread that the frame is complete.  Steps are the single accesses to the   *)
(* shared members, interleaved (the members are plain: their accesses are     *)
(* taken to be atomic and in program order).  draw_frame declares a local     *)
(* mutex with the name of the member, so that it locks nothing; its unlock of *)
(* that local mutex has no effect in the library the program is built with.   *)
EXTENDS Integers, TLC

CONSTANT Lines  \* lines of a frame, 144 in the program

ASSUME LinesAssumption == Lines \in Nat \ {0}

Texture == {0, 1}
NULL == -1
(* (m_live_texture + 1) % 2.                              *)
Other(t) == 1 - t

VARIABLES
  emu,          \* where the emulator thread is
  ren,          \* where the render thread is
  m_data_to_render,
  m_live_texture,
  m_current_frame_is_visible,
  m_speed_up_mode,
  m_exit_requested,
  m_render_mutex,  \* thread that holds the member mutex
  locked,       \* textures locked for writing
  line,         \* lines of the current frame the LCD has passed
  scheduled,    \* isFrameScheduled() for the line being drawn
  content,      \* lines drawn into each texture since it was locked
  released      \* no state of the program: the speed-up key has been released

user == <<m_speed_up_mode, m_exit_requested, released>>
textures == <<m_live_texture, locked>>
frame == <<m_current_frame_is_visible, line, scheduled>>
vars == <<emu, ren, m_data_to_render, m_render_mutex, user, textures, frame, content>>

Init ==
  /\ emu = "construct" /\ ren = "setup"
  /\ m_data_to_render = NULL /\ m_live_texture = 0
  /\ m_current_frame_is_visible = TRUE
  /\ m_speed_up_mode = FALSE /\ m_exit_requested = FALSE /\ released = FALSE
  /\ m_render_mutex = "free"
  /\ locked = {}
  /\ line = 0 /\ scheduled = FALSE
  /\ content = [t \in Texture |-> 0]

-----------------------------------------------------------------------------
(* The render thread.                                                         *)
RenderAt(here, there) == ren = here /\ ren' = there

(* SDL_LockTexture(t, ..., &m_data_to_render, ...) *)
LockTexture(t) ==
  /\ m_data_to_render' = t
  /\ locked' = locked \cup {t}
  /\ content' = [content EXCEPT ![t] = 0]

(* m_render_buffer_ready.notify_all(): wakes the emulator if it waits now. *)
NotifyAll == emu' = IF emu = "waiting" THEN "woken" ELSE emu

(* The constructor's thread: textures are made and the first one is locked    *)
(* with the member mutex held.                                                *)
Setup ==
  /\ RenderAt("setup", "announce")
  /\ m_render_mutex = "free"
  /\ LockTexture(Other(m_live_texture))
  /\ UNCHANGED <<emu, m_live_texture, m_render_mutex, user, frame>>

Announce ==
  /\ RenderAt("announce", "loop")
  /\ NotifyAll
  /\ UNCHANGED <<m_data_to_render, m_render_mutex, user, textures, frame, content>>

Loop ==
  /\ ren = "loop"
  /\ ren' = IF m_exit_requested THEN "teardown" ELSE "events"
  /\ UNCHANGED <<emu, m_data_to_render, m_render_mutex, user, textures, frame, content>>

(* process_events, the events that matter here. *)
ProcessEvents ==
  /\ RenderAt("events", "draw_frame")
  /\ m_speed_up_mode' \in BOOLEAN
  /\ released' = (released \/ (m_speed_up_mode /\ ~m_speed_up_mode'))
  /\ m_exit_requested' \in {m_exit_requested, TRUE}
  /\ UNCHANGED <<emu, m_data_to_render, m_render_mutex, textures, frame, content>>

(* draw_frame: the test of m_data_to_render, then one step for each effect. *)
EmulatorLags ==
  /\ RenderAt("draw_frame", "present")
  /\ m_data_to_render # NULL
  /\ UNCHANGED <<emu, m_data_to_render, m_render_mutex, user, textures, frame, content>>

FrameComplete ==
  /\ RenderAt("draw_frame", "lock")
  /\ m_data_to_render = NULL
  /\ UNCHANGED <<emu, m_data_to_render, m_render_mutex, user, textures, frame, content>>

LockLive ==
  /\ RenderAt("lock", "notify")
  /\ LockTexture(m_live_texture)
  /\ UNCHANGED <<emu, m_live_texture, m_render_mutex, user, frame>>

Notify ==
  /\ RenderAt("notify", "swap")
  /\ NotifyAll
  /\ UNCHANGED <<m_data_to_render, m_render_mutex, user, textures, frame, content>>

(* Slip: the texture unlocked is the one that was live. *)
SwapUnlocksLive ==
  /\ RenderAt("swap", "present")
  /\ m_live_texture' = Other(m_live_texture)
  /\ locked' = locked \ {m_live_texture}
  /\ UNCHANGED <<emu, m_data_to_render, m_render_mutex, user, frame, content>>

Swap ==
  /\ RenderAt("swap", "present")
  /\ m_live_texture' = Other(m_live_texture)
  /\ locked' = locked \ {Other(m_live_texture)}
  /\ UNCHANGED <<emu, m_data_to_render, m_render_mutex, user, frame, content>>

(* SDL_RenderCopy and SDL_RenderPresent of the live texture. *)
Present ==
  /\ RenderAt("present", "loop")
  /\ UNCHANGED <<emu, m_data_to_render, m_render_mutex, user, textures, frame, content>>

Teardown ==
  /\ RenderAt("teardown", "ended")
  /\ m_render_mutex = "free"
  /\ locked' = {}
  /\ UNCHANGED <<emu, m_data_to_render, m_live_texture, m_render_mutex, user, frame, content>>

Render ==
  \/ Setup \/ Announce \/ Loop \/ ProcessEvents
  \/ EmulatorLags \/ FrameComplete \/ LockLive \/ Notify \/ Swap \/ Present
  \/ Teardown

-----------------------------------------------------------------------------
(* The emulator thread.                                                       *)
EmulatorAt(here, there) == emu = here /\ emu' = there

(* wait(lock, [&] { return m_data_to_render != nullptr; }): take the mutex,   *)
(* test, and either leave or block, giving the mutex up.  The constructor     *)
(* waits by the same steps as commitRender.                                   *)
TakeMutex ==
  /\ \/ EmulatorAt("construct", "test")
     \/ EmulatorAt("lock", "test")
     \/ EmulatorAt("woken", "test")
  /\ m_render_mutex = "free" /\ m_render_mutex' = "emulator"
  /\ UNCHANGED <<ren, m_data_to_render, user, textures, frame, content>>

BufferReady ==
  /\ EmulatorAt("test", "run")
  /\ m_data_to_render # NULL
  /\ m_render_mutex' = "free" /\ line' = 0
  /\ UNCHANGED <<ren, m_data_to_render, user, textures, m_current_frame_is_visible,
                 scheduled, content>>

BufferMissing ==
  /\ EmulatorAt("test", "block")
  /\ m_data_to_render = NULL
  /\ UNCHANGED <<ren, m_data_to_render, m_render_mutex, user, textures, frame, content>>

Block ==
  /\ EmulatorAt("block", "waiting")
  /\ m_render_mutex' = "free"
  /\ UNCHANGED <<ren, m_data_to_render, user, textures, frame, content>>

(* The standard lets a wait return by itself; nothing says that it will. *)
WakeSpuriously ==
  /\ EmulatorAt("waiting", "woken")
  /\ UNCHANGED <<ren, m_data_to_render, m_render_mutex, user, textures, frame, content>>

(* run_standalone: the exit flag is tested before each clock.  (Slip: the frame *)
(* is committed before its last line.)                                        *)
RunCommitsEarly ==
  /\ emu = "run"
  /\ emu' = IF m_exit_requested THEN "finished"
            ELSE IF line + 1 < Lines THEN "line" ELSE "commit"
  /\ UNCHANGED <<ren, m_data_to_render, m_render_mutex, user, textures, frame, content>>

Run ==
  /\ emu = "run"
  /\ emu' = IF m_exit_requested THEN "finished"
            ELSE IF line < Lines THEN "line" ELSE "commit"
  /\ UNCHANGED <<ren, m_data_to_render, m_render_mutex, user, textures, frame, content>>

(* updateLCD enters mode 0: the line is drawn if the frame is scheduled. *)
EnterLine ==
  /\ EmulatorAt("line", "pixels")
  /\ scheduled' = m_current_frame_is_visible
  /\ UNCHANGED <<ren, m_data_to_render, m_render_mutex, user, textures,
                 m_current_frame_is_visible, line, content>>

(* renderLine: addPixel through m_data_to_render. *)
DrawLine ==
  /\ EmulatorAt("pixels", "run")
  /\ content' = IF scheduled /\ m_data_to_render # NULL
                THEN [content EXCEPT ![m_data_to_render] = @ + 1] ELSE content
  /\ line' = line + 1
  /\ UNCHANGED <<ren, m_data_to_render, m_render_mutex, user, textures,
                 m_current_frame_is_visible, scheduled>>

(* commitRender without the speed-up mode: the pointer is cleared before the  *)
(* mutex is taken.                                                            *)
CommitVisible ==
  /\ EmulatorAt("commit", "clear")
  /\ ~m_speed_up_mode
  /\ m_current_frame_is_visible' = TRUE
  /\ UNCHANGED <<ren, m_data_to_render, m_render_mutex, user, textures, line, scheduled, content>>

ClearData ==
  /\ EmulatorAt("clear", "lock")
  /\ m_data_to_render' = NULL
  /\ UNCHANGED <<ren, m_render_mutex, user, textures, frame, content>>

(* commitRender in the speed-up mode: one frame is shown, then frames are     *)
(* skipped until there is a buffer again. The mutex it holds meanwhile is     *)
(* taken by nobody but Setup and Teardown. (Slip: after a skipped frame the   *)
(* next one is never drawn.)                                                  *)
NeverBuffer == FALSE
HasBuffer == m_data_to_render # NULL

CommitSpeedUp ==
  /\ EmulatorAt("commit", "run")
  /\ m_speed_up_mode /\ m_render_mutex = "free"
  /\ line' = 0
  /\ IF m_current_frame_is_visible
     THEN m_data_to_render' = NULL /\ m_current_frame_is_visible' = FALSE
     ELSE /\ m_current_frame_is_visible' = HasBuffer
          /\ UNCHANGED m_data_to_render
  /\ UNCHANGED <<ren, m_render_mutex, user, textures, scheduled, content>>

Emulator ==
  \/ TakeMutex \/ BufferReady \/ BufferMissing \/ Block
  \/ Run \/ EnterLine \/ DrawLine
  \/ CommitVisible \/ ClearData \/ CommitSpeedUp

Next == Render \/ Emulator \/ WakeSpuriously

Spec == Init /\ [][Next]_vars

(* Both threads are scheduled by the operating system. *)
FairSpec == Spec /\ WF_vars(Render) /\ WF_vars(Emulator)

-----------------------------------------------------------------------------
TypeOK ==
  /\ m_data_to_render \in Texture \cup {NULL}
  /\ m_live_texture \in Texture
  /\ locked \subseteq Texture
  /\ line \in 0 .. Lines
  /\ content \in [Texture -> 0 .. Lines]
  /\ m_render_mutex \in {"free", "emulator"}
  /\ emu \in {"construct", "lock", "test", "block", "waiting", "woken", "run", "line",
              "pixels", "commit", "clear", "finished"}
  /\ ren \in {"setup", "announce", "loop", "events", "draw_frame", "lock", "notify",
              "swap", "present", "teardown", "ended"}

(* addPixel never goes through a null pointer, in either mode and across      *)
(* changes of mode (addPixel, isFrameScheduled, commitRender).                *)
NoNullPixel == emu = "pixels" /\ scheduled => m_data_to_render # NULL

(* While the render thread copies the live texture to the screen, that        *)
(* texture is not locked, and the emulator's pointer is not into it: a frame  *)
(* is never shown while it is being drawn (draw_frame).                       *)
ShownFrameNotDrawn ==
  ren = "present" => /\ m_live_texture \notin locked
                     /\ m_data_to_render # m_live_texture

(* Pixels go to a texture that is locked, until the window is closed          *)
(* (addPixel, draw_frame).                                                    *)
PixelsInLockedTexture ==
  emu = "pixels" /\ scheduled /\ ren # "ended" => m_data_to_render \in locked

(* When the render thread swaps, the emulator has filled the texture it is    *)
(* about to show, as long as the speed-up key has not been released           *)
(* (draw_frame, commitRender).                                                *)
SwapsFullFrame ==
  ren = "swap" /\ ~released => content[Other(m_live_texture)] = Lines

(* The emulator waits for a buffer and gets one: while the window is open it  *)
(* does not wait for ever, with the render thread saying that it lags         *)
(* (draw_frame, commitRender).                                                *)
EmulatorResumes == emu = "waiting" ~> (emu # "waiting" \/ m_exit_requested)

(* The speed-up mode still shows frames: while the key is held and the        *)
(* emulator runs, the render thread swaps again and again.                    *)
SpeedUpShowsFrames ==
  <>[](m_speed_up_mode /\ emu \in {"run", "line", "pixels", "commit"})
    => []<>(ren = "swap")
=============================================================================
