-------------------------------- MODULE Pixels -------------------------------
(* How a line of the screen is put together from sprites, window and           *)
(* background: renderLine, spriteOverridesPixel, pixelFromMap, backgroundPixel  *)
(* and windowOverridesPixel of libgb/io/gpu.cpp, while the program writes the   *)
(* sprites and the registers between two lines.  Tiles, maps and palettes are   *)
(* constants: a tile is the color index of each of its points.                 *)
(*                                                                            *)
(* The variable ahead is no state of the program: how far the rows of the        *)
(* window are ahead of the lines of the screen.  A line that has the window out   *)
(* of reach sets them back by one; a frame that is cut off before its end, by      *)
(* switching the LCD off, puts the next one ahead by all of its lines.            *)
EXTENDS Integers, FiniteSets, Sequences

CONSTANTS
  TileSize,       \* 8: points of a side of a tile, which is half of a tall sprite
  Width, Lines,   \* 160, 144
  SpriteCount,    \* 40
  PerLine,        \* 10: sprites that are looked at for a line
  MapSize,        \* 32: tiles of a side of a map
  WindowLimit,    \* 166: a WX beyond it hides the window
  HalfTable,      \* 128: half of the tiles that a byte can name
  patternTables,  \* color index of [tile][row][column], 3 * HalfTable tiles
  backgroundMaps, \* tile number at [map][row][column], maps 0 and 1
  palettes,       \* color of [register][color index], "bg", "o0" and "o1"
  Attributes,     \* sprites that the program writes
  Controls,       \* settings of LCDC
  Scrolls,        \* settings of SCX and SCY
  Windows,        \* settings of WX and WY
  MaxWindow       \* bound: lines the window has counted when the LCD is switched off

TileCount == 3 * HalfTable
ColorIndex == 0 .. 3

GeometryAssumption ==
  /\ TileSize \in Nat \ {0} /\ Width \in Nat \ {0} /\ Lines \in Nat \ {0}
  /\ SpriteCount \in Nat \ {0} /\ PerLine \in Nat /\ MapSize \in Nat \ {0}
  /\ WindowLimit = Width + TileSize - 2 /\ HalfTable \in Nat \ {0}
MemoryAssumption ==
  LET points == 0 .. TileSize - 1
      places == 0 .. MapSize - 1
  IN /\ patternTables \in [0 .. TileCount - 1 -> [points -> [points -> ColorIndex]]]
     /\ backgroundMaps \in [{0, 1} -> [places -> [places -> 0 .. 2 * HalfTable - 1]]]
     /\ palettes \in [{"bg", "o0", "o1"} -> [ColorIndex -> 0 .. 3]]
ProgramAssumption ==
  /\ Attributes \subseteq
       [x : Nat, y : Nat, tile : 0 .. 2 * HalfTable - 1, mirrorX : BOOLEAN,
        mirrorY : BOOLEAN, palette : {"o0", "o1"}, behind : BOOLEAN]
  /\ Controls \subseteq
       [tall : BOOLEAN, sprites : BOOLEAN, window : BOOLEAN, background : BOOLEAN,
        unsigned : BOOLEAN, map : {0, 1}, windowMap : {0, 1}]
  /\ Scrolls \subseteq [x : Nat, y : Nat] /\ Windows \subseteq [x : Nat, y : Nat]
  /\ MaxWindow \in Nat

VARIABLES
  sprites,        \* the attributes, in their order in memory
  lcdc, scroll, window,
  LY,
  windowOffsetY,
  drawn,          \* the line LY has been drawn
  ahead

registers == <<lcdc, scroll, window>>
vars == <<sprites, registers, LY, windowOffsetY, drawn, ahead>>

Unset == [x |-> 0, y |-> 0, tile |-> 0, mirrorX |-> FALSE, mirrorY |-> FALSE,
          palette |-> "o0", behind |-> FALSE]

Init ==
  /\ sprites = [i \in 1 .. SpriteCount |-> Unset]
  /\ lcdc \in Controls /\ scroll \in Scrolls /\ window \in Windows
  /\ LY = 0 /\ windowOffsetY = 0 /\ drawn = FALSE /\ ahead = 0

-----------------------------------------------------------------------------
(* The point of a sprite that lies at x on the line.                           *)
Height == IF lcdc.tall THEN 2 * TileSize ELSE TileSize
OnLine(s) == s.y <= LY + 2 * TileSize /\ s.y + Height > LY + 2 * TileSize
Covers(s, x) == s.x <= x + TileSize /\ s.x > x

Column(s, x) ==
  LET tileX == TileSize + x - s.x
  IN IF s.mirrorX THEN TileSize - 1 - tileX ELSE tileX
TileY(s) ==
  LET tileY == 2 * TileSize + LY - s.y
  IN IF s.mirrorY THEN Height - tileY ELSE tileY

TileIndex(s) ==
  IF lcdc.tall
  THEN s.tile - (s.tile % 2) + (IF TileY(s) > TileSize - 1 THEN 1 ELSE 0)
  ELSE s.tile
PointOf(s, x) == patternTables[TileIndex(s)][TileY(s) % TileSize][Column(s, x)]

(* The loop of spriteOverridesPixel after its first n sprites: how many were    *)
(* on the line, and the color and priority of the first one that is not        *)
(* transparent, where the loop ends.  (Slip: only the sprites at x are counted.) *)
CountedAtPoint(s, x) == OnLine(s) /\ Covers(s, x)
Counted(s, x) == OnLine(s)
Shows(s, x) == Covers(s, x) /\ PointOf(s, x) # 0

Nothing == [count |-> 0, ended |-> FALSE, color |-> 0, front |-> FALSE]
Looked(before, s, x) ==
  LET count == before.count + 1
  IN IF before.ended \/ ~OnLine(s) THEN before
     ELSE IF ~Counted(s, x) THEN before
     ELSE IF count > PerLine \/ ~Shows(s, x) THEN [before EXCEPT !.count = count]
     ELSE [count |-> count, ended |-> TRUE, front |-> ~s.behind,
           color |-> palettes[s.palette][PointOf(s, x)]]

SpriteLoop(x) ==
  LET after[n \in 0 .. SpriteCount] ==
        IF n = 0 THEN Nothing ELSE Looked(after[n - 1], sprites[n], x)
  IN after[SpriteCount]

(* pixelFromMap.                                                                *)
Pattern(number) ==
  IF lcdc.unsigned THEN number
  ELSE 2 * HalfTable + (IF number < HalfTable THEN number ELSE number - 2 * HalfTable)

PixelFromMap(map, x, y) ==
  LET number == backgroundMaps[map][(y \div TileSize) % MapSize][(x \div TileSize) % MapSize]
  IN palettes["bg"][patternTables[Pattern(number)][y % TileSize][x % TileSize]]

WindowX(x) == x - window.x + TileSize - 1
WindowY == windowOffsetY - window.y
InWindow(x) ==
  /\ window.x <= WindowLimit
  /\ WindowX(x) >= 0 /\ WindowX(x) < Width /\ WindowY >= 0 /\ WindowY < Lines

(* One point of renderLine.  A background of color 0 leaves the color of a      *)
(* sprite behind it.                                                          *)
BackgroundOver(behind, color) == IF color # 0 THEN color ELSE behind

Pixel(x) ==
  LET sprite == IF lcdc.sprites THEN SpriteLoop(x) ELSE Nothing
  IN IF sprite.front THEN sprite.color
     ELSE IF lcdc.window /\ InWindow(x)
          THEN PixelFromMap(lcdc.windowMap, WindowX(x), WindowY)
     ELSE IF lcdc.background
          THEN BackgroundOver(sprite.color, PixelFromMap(lcdc.map, x + scroll.x, LY + scroll.y))
     ELSE sprite.color

-----------------------------------------------------------------------------
(* renderLine: the window counts the lines on which it might be.               *)
InReach == window.x <= WindowLimit \/ lcdc.window

RenderLine ==
  /\ ~drawn /\ drawn' = TRUE
  /\ windowOffsetY' = IF InReach THEN windowOffsetY + 1 ELSE windowOffsetY
  /\ ahead' = IF InReach THEN ahead ELSE ahead - 1
  /\ UNCHANGED <<sprites, registers, LY>>

(* updateLCD: the next line; the end of the frame; and the next frame after the  *)
(* LCD was switched off, which it may be in the vertical blank only.  Then the   *)
(* count of the window is not reset.                                          *)
NextLine ==
  /\ drawn /\ LY + 1 < Lines
  /\ drawn' = FALSE /\ LY' = LY + 1
  /\ UNCHANGED <<sprites, registers, windowOffsetY, ahead>>

EndFrame ==
  /\ drawn /\ LY + 1 = Lines
  /\ drawn' = FALSE /\ LY' = 0 /\ windowOffsetY' = 0 /\ ahead' = 0
  /\ UNCHANGED <<sprites, registers>>

SwitchOff ==
  /\ drawn /\ LY + 1 = Lines /\ windowOffsetY <= MaxWindow
  /\ drawn' = FALSE /\ LY' = 0 /\ ahead' = ahead + Lines
  /\ UNCHANGED <<sprites, registers, windowOffsetY>>

WriteSprite(i, s) ==
  /\ ~drawn
  /\ sprites' = [sprites EXCEPT ![i] = s]
  /\ UNCHANGED <<registers, LY, windowOffsetY, drawn, ahead>>

WriteRegisters(control, at, windowAt) ==
  /\ ~drawn
  /\ lcdc' = control /\ scroll' = at /\ window' = windowAt
  /\ UNCHANGED <<sprites, LY, windowOffsetY, drawn, ahead>>

Next ==
  \/ RenderLine \/ NextLine \/ EndFrame \/ SwitchOff
  \/ \E i \in 1 .. SpriteCount, s \in Attributes : WriteSprite(i, s)
  \/ \E control \in Controls, at \in Scrolls, windowAt \in Windows :
       WriteRegisters(control, at, windowAt)

Spec == Init /\ [][Next]_vars

-----------------------------------------------------------------------------
(* Among the types: every tile, row and column that is looked up exists.       *)
TypeOK ==
  /\ sprites \in [1 .. SpriteCount -> Attributes \cup {Unset}]
  /\ lcdc \in Controls /\ scroll \in Scrolls /\ window \in Windows
  /\ LY \in 0 .. Lines - 1 /\ drawn \in BOOLEAN
  /\ windowOffsetY \in Nat /\ ahead \in Int
  /\ \A number \in 0 .. 2 * HalfTable - 1 : Pattern(number) \in 0 .. TileCount - 1
  /\ \A i \in 1 .. SpriteCount, x \in 0 .. Width - 1 :
       OnLine(sprites[i]) /\ Covers(sprites[i], x) =>
         /\ TileIndex(sprites[i]) \in 0 .. TileCount - 1
         /\ Column(sprites[i], x) \in 0 .. TileSize - 1

-----------------------------------------------------------------------------
(* The rules, by the points of sprites, window and maps.  A sprite at <<s.x, s.y>> *)
(* has its first point a tile's width and two tiles' heights before it.  These    *)
(* are the rows and the columns of a sprite that fall on a point.               *)
Rows(s) == {row \in 0 .. Height - 1 : s.y + row = LY + 2 * TileSize}
Columns(s, x) == {column \in 0 .. TileSize - 1 : s.x + column = x + TileSize}

(* What a sprite has there.  Mirrored vertically it is not exact: each row shows   *)
(* the one below its mirror image, and the first row, which has none, the first     *)
(* row of its last tile (gpu.cpp:309).                                          *)
SpritePoint(s, row, column) ==
  LET mirrored == IF row = 0 THEN Height - TileSize ELSE Height - row
      shown    == IF s.mirrorY THEN mirrored ELSE row
      tile     == IF lcdc.tall THEN 2 * (s.tile \div 2) + (shown \div TileSize) ELSE s.tile
  IN patternTables[tile][shown % TileSize][IF s.mirrorX THEN TileSize - 1 - column ELSE column]

(* The colors of a sprite at x: one, or none where it is transparent.             *)
Colors(s, x) ==
  {palettes[s.palette][index] :
     index \in {SpritePoint(s, row, column) : row \in Rows(s), column \in Columns(s, x)} \ {0}}

(* The sprites that the line takes up, and the first of them in memory that is   *)
(* not transparent at x.                                                       *)
UpTo(i) == Cardinality({j \in 1 .. i : Rows(sprites[j]) # {}})
Taken == {i \in 1 .. SpriteCount : Rows(sprites[i]) # {} /\ UpTo(i) <= PerLine}
Seen(x) == {i \in Taken : Colors(sprites[i], x) # {}}
FirstSeen(x) == sprites[CHOOSE i \in Seen(x) : \A j \in Seen(x) : i <= j]

(* A map is as large as its tiles and repeats.                                  *)
MapPoint(map, x, y) ==
  LET side   == MapSize * TileSize
      number == backgroundMaps[map][(y % side) \div TileSize][(x % side) \div TileSize]
      signed == IF number < HalfTable THEN number ELSE number - 2 * HalfTable
      tile   == IF lcdc.unsigned THEN number ELSE 2 * HalfTable + signed
  IN palettes["bg"][patternTables[tile][(y % side) % TileSize][(x % side) % TileSize]]

(* The window is as large as the screen.  Its first column is at WX less seven,     *)
(* its first row on the line before WY when it is not ahead.                     *)
WindowColors(x) ==
  {MapPoint(lcdc.windowMap, column, row) :
     column \in {k \in 0 .. Width - 1 : window.x + k = x + TileSize - 1},
     row \in {k \in 0 .. Lines - 1 : window.y + k = LY + 1 + ahead}}

(* The color of a point of the line: of a sprite in front, of the window, of a      *)
(* background that has one, of a sprite behind it.                               *)
Promised(x) ==
  LET seen   == lcdc.sprites /\ Seen(x) # {}
      sprite == IF seen THEN Colors(FirstSeen(x), x) ELSE {0}
      back   == MapPoint(lcdc.map, x + scroll.x, LY + scroll.y)
  IN IF seen /\ ~FirstSeen(x).behind THEN sprite
     ELSE IF lcdc.window /\ WindowColors(x) # {} THEN WindowColors(x)
     ELSE IF lcdc.background /\ back # 0 THEN {back}
     ELSE sprite

LineAsPromised == drawn => \A x \in 0 .. Width - 1 : Promised(x) = {Pixel(x)}
=============================================================================
