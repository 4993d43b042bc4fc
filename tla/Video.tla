-------------------------------- MODULE Video --------------------------------
(* When lines are drawn (Lcd) and what is on them (Pixels) share LY and the      *)
(* window's line count only in one direction, and no property relates the two:   *)
(* a behaviour is one of the controller or one of the lines.                    *)
EXTENDS Lcd

CONSTANTS
  TileSize, Width, SpriteCount, PerLine, MapSize, WindowLimit, HalfTable,
  patternTables, backgroundMaps, palettes,
  Attributes, Controls, Scrolls, Windows                    \* of Pixels

VARIABLES
  unit,
  sprites, lcdc, scroll, window, lineY, windowLines, lineDrawn, windowAhead
                                                            \* of Pixels

lineVars == <<sprites, lcdc, scroll, window, lineY, windowLines, lineDrawn, windowAhead>>

Line == INSTANCE Pixels WITH
  Lines <- VisibleLines, LY <- lineY, windowOffsetY <- windowLines, drawn <- lineDrawn,
  ahead <- windowAhead

ASSUME LineAssumptions ==
  Line!GeometryAssumption /\ Line!MemoryAssumption /\ Line!ProgramAssumption

-----------------------------------------------------------------------------
(* In a behaviour of the controller the settings of the lines rest, at any.      *)
SomeSettings ==
  /\ lcdc = CHOOSE control \in Controls : TRUE
  /\ scroll = CHOOSE at \in Scrolls : TRUE
  /\ window = CHOOSE at \in Windows : TRUE

VideoInit ==
  /\ unit \in {"controller", "lines"}
  /\ Init /\ Line!Init
  /\ unit = "controller" => SomeSettings

VideoNext ==
  /\ UNCHANGED unit
  /\ \/ unit = "controller" /\ Next /\ UNCHANGED lineVars
     \/ unit = "lines" /\ Line!Next /\ UNCHANGED vars

VideoSpec == VideoInit /\ [][VideoNext]_<<unit, vars, lineVars>>

(* The fairness of Lcd.                                                        *)
FairVideoSpec ==
  VideoSpec /\ WF_vars(unit = "controller" /\ \E dots \in Steps \ {0} : Update(dots))

-----------------------------------------------------------------------------
(* A line shows at each point the one color that the rules of sprites, window and   *)
(* background give it, whatever was cut off before, and every tile that is looked   *)
(* up exists (renderLine, updateLCD).                                           *)
LinesPainted == Line!TypeOK /\ Line!LineAsPromised

(* Frames keep coming while the LCD stays on (updateTimers, setLCDStage).          *)
FramesGoOn == unit = "controller" => FramesKeepComing
=============================================================================
