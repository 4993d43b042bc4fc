------------------------------- MODULE MCVideo -------------------------------
(* controller: three lines of ten dots (three in modes 2 and 3, four in mode 0)   *)
(* and one of vertical blank; at most two dots between two updates.  lines:      *)
(* tiles of two by two points on a screen of four by three; four sprites that     *)
(* overlap, in front and behind, mirrored, above and beside the screen, two of    *)
(* them on a line; the window at a column within and at one beyond the screen.   *)
EXTENDS Video

ChosenStats == {{}, {"lyc", "mode1"}, {"mode0", "mode2"}}

(* Each tile has a transparent point and points of its own color, in an order     *)
(* of its own; the last one is the empty tile.                                  *)
Tile(n) == [row \in 0 .. 1 |-> [column \in 0 .. 1 |->
              IF n = 5 \/ (row = n % 2 /\ column = (n \div 2) % 2)
              THEN 0 ELSE 1 + (n % 3)]]
ChosenTiles == [n \in 0 .. 5 |-> Tile(n)]
ChosenMaps == [map \in {0, 1} |-> [row \in 0 .. 1 |-> [column \in 0 .. 1 |->
                 (map + 2 * row + 3 * column) % 4]]]

(* The background maps one of its colors to 0, the palettes of sprites differ.    *)
ChosenPalettes == [bg |-> [c \in 0 .. 3 |-> IF c = 1 THEN 0 ELSE c],
                   o0 |-> [c \in 0 .. 3 |-> c], o1 |-> [c \in 0 .. 3 |-> 3 - c]]

Sprite(x, y, tile) == [x |-> x, y |-> y, tile |-> tile, mirrorX |-> FALSE,
                       mirrorY |-> FALSE, palette |-> "o0", behind |-> FALSE]
ChosenSprites ==
  {Sprite(2, 4, 0), [Sprite(3, 4, 1) EXCEPT !.behind = TRUE, !.palette = "o1"],
   [Sprite(3, 3, 2) EXCEPT !.mirrorX = TRUE, !.mirrorY = TRUE], Sprite(6, 4, 3)}

Control == [tall |-> FALSE, sprites |-> TRUE, window |-> FALSE, background |-> TRUE,
            unsigned |-> TRUE, map |-> 0, windowMap |-> 1]
ChosenControls ==
  {Control,
   [Control EXCEPT !.tall = TRUE, !.unsigned = FALSE, !.map = 1],
   [Control EXCEPT !.window = TRUE, !.unsigned = FALSE],
   [Control EXCEPT !.window = TRUE, !.background = FALSE, !.tall = TRUE],
   [Control EXCEPT !.sprites = FALSE, !.window = TRUE]}
ChosenScrolls == {[x |-> 0, y |-> 0], [x |-> 3, y |-> 2]}
ChosenWindows == {[x |-> 2, y |-> 1], [x |-> 6, y |-> 0]}
=============================================================================
