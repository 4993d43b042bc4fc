--------------------------------- MODULE Lcd ---------------------------------
(* The LCD controller: GPU::updateTimers, updateLCD, setLCDStage and the part  *)
(* of renderLine that changes state (libgb/io/gpu.cpp), with the writes to     *)
(* LCDC, STAT and LYC (ioWrite of libgb/io/io.cpp).                           *)
(*                                                                            *)
(* The controller is updated between instructions only, with all the dots     *)
(* that have passed since the update before.  What a line looks like is left  *)
(* out.  The variables drawn, left and written are no state of the program:    *)
(* lines drawn in the current frame, lines the window had counted when the    *)
(* LCD was last switched off, and whether LYC was written on this line.       *)
EXTENDS Integers

CONSTANTS
  LineDots, ScanEnd, TransferEnd, \* 456, 78, 247: dots of a line, ends of modes 2 and 3
  VisibleLines, TotalLines,       \* 144, 154
  Steps,       \* dots between two updates: four for each cycle of an instruction, none
               \* before the first one
  LycValues,   \* values the program writes to LYC
  StatValues,  \* sets of interrupts the program enables in STAT
  MaxWindow,   \* bound: window lines counted when the LCD is switched off
  Schedules    \* what commitRender may make of isFrameScheduled: {TRUE}, or both

Interrupts == {"mode0", "mode1", "mode2", "lyc"}

ASSUME DotAssumption ==
  /\ ScanEnd \in Nat /\ TransferEnd \in Nat /\ LineDots \in Nat
  /\ 0 < ScanEnd /\ ScanEnd < TransferEnd /\ TransferEnd < LineDots
  /\ VisibleLines \in Nat \ {0} /\ TotalLines \in Nat /\ VisibleLines < TotalLines
(* No instruction, with the entry into a handler before it, outlasts a mode. *)
ASSUME StepAssumption ==
  \A dots \in Steps : /\ dots \in 0 .. ScanEnd - 1
                      /\ dots <= TransferEnd - ScanEnd
                      /\ dots <= LineDots - TransferEnd
ASSUME ProgramAssumption ==
  /\ LycValues \subseteq Nat /\ 0 \in LycValues
  /\ StatValues \subseteq SUBSET Interrupts /\ {} \in StatValues
  /\ MaxWindow \in Nat
  /\ Schedules \subseteq BOOLEAN /\ TRUE \in Schedules

VARIABLES
  enabled,       \* bit 7 of LCDC
  mode,          \* the low two bits of STAT
  coincidence,   \* bit 2 of STAT
  stat,          \* bits 3 to 6 of STAT
  LY, LYC,
  IFreg,         \* the two lines of the LCD in 0xFF0F: "vsync", "stat"
  vCycleCount,
  windowOffsetY,
  scheduled,     \* frontend.isFrameScheduled()
  drawn, left, written

program == <<enabled, stat, LYC>>
vars == <<program, mode, coincidence, LY, IFreg, vCycleCount, windowOffsetY, scheduled,
          drawn, left, written>>

Init ==
  /\ enabled = TRUE /\ mode = 0 /\ coincidence = FALSE /\ stat = {}
  /\ LY = 0 /\ LYC = 0 /\ IFreg = {}
  /\ vCycleCount = 0 /\ windowOffsetY = 0
  /\ scheduled = TRUE /\ drawn = 0 /\ left = 0 /\ written = FALSE

-----------------------------------------------------------------------------
(* setLCDStage: an interrupt only when the stage is new. *)
Enters(stage) == mode # stage
Requests(stage, name) == IF Enters(stage) /\ name \in stat THEN {"stat"} ELSE {}

(* (Slip: the comparison uses the line before.) *)
CoincidesBefore(ly) == LY = LYC
Coincides(ly) == ly = LYC

(* Mode 2: the line is compared with LYC once, when the mode is entered. *)
ScanLine(ly) ==
  /\ mode' = 2
  /\ IF Enters(2)
     THEN /\ coincidence' = Coincides(ly)
          /\ IFreg' = IFreg \cup Requests(2, "mode2")
                \cup IF "lyc" \in stat /\ Coincides(ly) THEN {"stat"} ELSE {}
          /\ written' = FALSE
     ELSE UNCHANGED <<coincidence, IFreg, written>>
  /\ UNCHANGED <<windowOffsetY, scheduled, drawn, left>>

TransferLine ==
  /\ mode' = 3
  /\ UNCHANGED <<coincidence, IFreg, written, windowOffsetY, scheduled, drawn, left>>

(* Mode 0: the line is drawn once, if the frame is scheduled.  Whether the    *)
(* window is on the line depends on WX and LCDC.  (Slip: at every update.)    *)
DrawsAlways == scheduled
Draws == Enters(0) /\ scheduled

FinishLine ==
  /\ mode' = 0
  /\ IFreg' = IFreg \cup Requests(0, "mode0")
  /\ IF Draws
     THEN drawn' = drawn + 1 /\ windowOffsetY' \in {windowOffsetY, windowOffsetY + 1}
     ELSE UNCHANGED <<drawn, windowOffsetY>>
  /\ UNCHANGED <<coincidence, written, scheduled, left>>

VBlank ==
  /\ mode' = 1
  /\ IFreg' = IFreg \cup Requests(1, "mode1") \cup (IF Enters(1) THEN {"vsync"} ELSE {})
  /\ UNCHANGED <<coincidence, written, windowOffsetY, scheduled, drawn, left>>

(* The frame is over: commitRender.                                     *)
WindowReset == 0
CommitFrame ==
  /\ windowOffsetY' = WindowReset /\ drawn' = 0 /\ left' = 0
  /\ scheduled' \in Schedules
  /\ UNCHANGED <<mode, coincidence, written, IFreg>>

(* (Slip: the time is assigned and not added.)                                *)
Assigned(dots) == dots
Advanced(dots) == vCycleCount + dots
IsOver(v) == v >= TotalLines * LineDots

(* io.update(): updateTimers and updateLCD. *)
Update(dots) ==
  LET v == Advanced(dots)
      ly == v \div LineDots
      dot == v % LineDots
      visible == v < VisibleLines * LineDots
  IN
  /\ enabled
  /\ \/ IsOver(v) /\ vCycleCount' = 0 /\ LY' = 0 /\ CommitFrame
     \/ /\ ~IsOver(v) /\ vCycleCount' = v /\ LY' = ly
        /\ \/ visible /\ dot < ScanEnd /\ ScanLine(ly)
           \/ visible /\ ScanEnd <= dot /\ dot < TransferEnd /\ TransferLine
           \/ visible /\ TransferEnd <= dot /\ FinishLine
           \/ ~visible /\ VBlank
  /\ UNCHANGED program

(* While the LCD is off there is no frame; windowOffsetY stays.  *)
UpdateDisabled ==
  /\ ~enabled
  /\ vCycleCount' = 0 /\ LY' = 0 /\ mode' = 0 /\ drawn' = 0
  /\ UNCHANGED <<program, coincidence, IFreg, windowOffsetY, scheduled, left, written>>

(* ioWrite of LCDC.  Switching the LCD off in another mode than 1 is an error *)
(* that no front end permits: it is thrown and changes nothing.               *)
Disable ==
  /\ enabled /\ windowOffsetY <= MaxWindow
  /\ mode = 1
  /\ enabled' = FALSE /\ left' = windowOffsetY
  /\ UNCHANGED <<stat, LYC, mode, coincidence, LY, IFreg, vCycleCount, windowOffsetY,
                 scheduled, drawn, written>>

(* An update has come between. *)
Enable ==
  /\ ~enabled /\ mode = 0 /\ vCycleCount = 0
  /\ enabled' = TRUE
  /\ UNCHANGED <<stat, LYC, mode, coincidence, LY, IFreg, vCycleCount, windowOffsetY,
                 scheduled, drawn, left, written>>

WriteStat(interrupts) ==
  /\ stat' = interrupts
  /\ UNCHANGED <<enabled, LYC, mode, coincidence, LY, IFreg, vCycleCount, windowOffsetY,
                 scheduled, drawn, left, written>>

WriteLYC(line) ==
  /\ LYC' = line /\ written' = TRUE
  /\ UNCHANGED <<enabled, stat, mode, coincidence, LY, IFreg, vCycleCount, windowOffsetY,
                 scheduled, drawn, left>>

(* A handler is entered, or the program writes 0xFF0F. *)
ClearInterrupt(line) ==
  /\ line \in IFreg /\ IFreg' = IFreg \ {line}
  /\ UNCHANGED <<program, mode, coincidence, LY, vCycleCount, windowOffsetY, scheduled,
                 drawn, left, written>>

Next ==
  \/ \E dots \in Steps : Update(dots)
  \/ UpdateDisabled \/ Disable \/ Enable
  \/ \E interrupts \in StatValues : WriteStat(interrupts)
  \/ \E line \in LycValues : WriteLYC(line)
  \/ \E line \in {"vsync", "stat"} : ClearInterrupt(line)

Spec == Init /\ [][Next]_vars

(* The emulator loop updates the LCD before every instruction, and every      *)
(* instruction takes time.                                                    *)
FairSpec == Spec /\ WF_vars(\E dots \in Steps \ {0} : Update(dots))

-----------------------------------------------------------------------------
TypeOK ==
  /\ enabled \in BOOLEAN /\ scheduled \in BOOLEAN
  /\ mode \in 0 .. 3 /\ coincidence \in BOOLEAN /\ stat \subseteq Interrupts
  /\ LY \in 0 .. TotalLines - 1 /\ LYC \in LycValues
  /\ IFreg \subseteq {"vsync", "stat"}
  /\ vCycleCount \in 0 .. TotalLines * LineDots - 1
  /\ windowOffsetY \in Nat /\ left \in Nat
  /\ drawn \in 0 .. VisibleLines /\ written \in BOOLEAN

(* The controller has entered the line that LY names. *)
OnLine == enabled /\ mode \in {0, 2, 3} /\ vCycleCount > 0

(* However the instructions' lengths fall, every line of a scheduled frame is *)
(* drawn once, in order, before its mode 0 ends, and the whole frame is drawn *)
(* when the vertical blank begins (updateLCD, setLCDStage, renderLine).       *)
LinesDrawnOnce ==
  /\ OnLine => drawn = IF ~scheduled THEN 0 ELSE IF mode = 0 THEN LY + 1 ELSE LY
  /\ enabled /\ mode = 1 /\ vCycleCount > 0 => drawn = IF scheduled THEN VisibleLines ELSE 0

(* On a line where LYC is not written, bit 2 of STAT says whether this is the *)
(* line asked for: the comparison of each line happens (updateLCD, mode 2).   *)
CoincidenceCurrent == OnLine /\ ~written => coincidence = (LY = LYC)

(* The window has counted no more lines than the frame has drawn and than     *)
(* were left over when the LCD was switched off: each frame that gets to its  *)
(* end starts the window afresh (updateLCD, renderLine).                      *)
WindowWithinFrame == windowOffsetY <= drawn + left

(* While the LCD stays on, frames come: each gets to the vertical blank, where *)
(* the program is interrupted, and is followed by another.                    *)
FramesKeepComing == <>[]enabled => []<>(mode = 1) /\ []<>(mode = 2)
=============================================================================
