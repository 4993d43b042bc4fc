----------------------------- MODULE Video_proofs -----------------------------
(* Proofs about the LCD.  Of the controller (Lcd): for lines and frames of any    *)
(* length and all lengths of instructions that do not outlast a mode.  Of the     *)
(* picture (Pixels): for screens, tiles and maps of any size and any number of    *)
(* sprites.                                                                    *)
EXTENDS Video, FiniteSetTheorems, WellFoundedInduction, TLAPS

(* Division by any number.                                                     *)
LEMMA Divide ==
  ASSUME NEW n \in Nat \ {0}, NEW v \in Nat
  PROVE  v \div n \in Nat /\ v % n \in 0 .. n - 1 /\ v = n * (v \div n) + (v % n)
OBVIOUS

LEMMA DivideUnique ==
  ASSUME NEW n \in Nat \ {0}, NEW q \in Int, NEW r \in 0 .. n - 1,
         NEW p \in Int, NEW s \in 0 .. n - 1, n * q + r = n * p + s
  PROVE  q = p /\ r = s
<1>1. CASE q <= p - 1
  <2>1. n * q <= n * (p - 1)
    BY <1>1
  <2>2. n * (p - 1) = n * p - n
    OBVIOUS
  <2>3. QED BY <2>1, <2>2
<1>2. CASE q >= p + 1
  <2>1. n * q >= n * (p + 1)
    BY <1>2
  <2>2. n * (p + 1) = n * p + n
    OBVIOUS
  <2>3. QED BY <2>1, <2>2
<1>3. CASE q = p
  BY <1>3
<1>4. QED BY <1>1, <1>2, <1>3

-----------------------------------------------------------------------------
(* The controller.                                                             *)
dot == vCycleCount % LineDots

(* The mode that belongs to a point of the frame.                               *)
ModeAt(ly, at) ==
  IF ly >= VisibleLines THEN 1
  ELSE IF at < ScanEnd THEN 2 ELSE IF at < TransferEnd THEN 3 ELSE 0

(* Once the first dot has passed the mode is the one of the point; before, it is   *)
(* what the frame before or the switch has left, or the first scan.              *)
Phase ==
  /\ LY = vCycleCount \div LineDots
  /\ enabled /\ vCycleCount > 0 => mode = ModeAt(LY, dot)
  /\ enabled /\ vCycleCount = 0 => mode # 3 /\ drawn = 0
  /\ ~enabled /\ mode = 0 => vCycleCount = 0 /\ drawn = 0

(* The comparison with LYC is as old as the line, from its first scan on.         *)
Compared ==
  enabled /\ ~written /\ (mode = 2 \/ (vCycleCount > 0 /\ mode \in {0, 3})) =>
    coincidence = (LY = LYC)

(* While the LCD is off, what the window has counted is what was left.            *)
WindowLeft == windowOffsetY <= drawn + left /\ (~enabled => windowOffsetY <= left)

IInv == TypeOK /\ Phase /\ LinesDrawnOnce /\ Compared /\ WindowLeft

-----------------------------------------------------------------------------
(* Division of dots into lines.                                               *)
LEMMA Geometry ==
  /\ LineDots \in Nat /\ ScanEnd \in Nat /\ TransferEnd \in Nat
  /\ 0 < ScanEnd /\ ScanEnd < TransferEnd /\ TransferEnd < LineDots
  /\ VisibleLines \in Nat /\ VisibleLines > 0 /\ TotalLines \in Nat
  /\ VisibleLines < TotalLines
BY DotAssumption

LEMMA Division ==
  ASSUME NEW v \in Nat
  PROVE  /\ v \div LineDots \in Nat /\ v % LineDots \in 0 .. LineDots - 1
         /\ v = LineDots * (v \div LineDots) + (v % LineDots)
BY Geometry

LEMMA DivisionUnique ==
  ASSUME NEW q \in Int, NEW r \in 0 .. LineDots - 1,
         NEW p \in Int, NEW s \in 0 .. LineDots - 1,
         LineDots * q + r = LineDots * p + s
  PROVE  q = p /\ r = s
<1>1. LineDots \in Nat \ {0}
  BY Geometry
<1>2. QED BY <1>1, DivideUnique

(* A point is before line n if its line is.                                     *)
LEMMA LinesBefore ==
  ASSUME NEW v \in Nat, NEW n \in Nat
  PROVE  v < n * LineDots <=> v \div LineDots < n
<1> DEFINE q == v \div LineDots
<1>1. /\ q \in Nat /\ v % LineDots \in 0 .. LineDots - 1
      /\ v = LineDots * q + (v % LineDots)
  BY Division
<1> HIDE DEF q
<1>2. CASE q <= n - 1
  <2>1. LineDots * q <= LineDots * (n - 1)
    BY <1>1, <1>2, Geometry
  <2>2. LineDots * (n - 1) = n * LineDots - LineDots
    BY Geometry
  <2>3. QED BY <1>1, <1>2, <2>1, <2>2, Geometry DEF q
<1>3. CASE q >= n
  <2>1. LineDots * q >= LineDots * n
    BY <1>1, <1>3, Geometry
  <2>2. QED BY <1>1, <1>3, <2>1, Geometry DEF q
<1>4. QED BY <1>1, <1>2, <1>3

(* Less than a line later it is the same line or the next one.                   *)
LEMMA Advance ==
  ASSUME NEW v \in Nat, NEW d \in 0 .. LineDots - 1
  PROVE  IF (v % LineDots) + d < LineDots
         THEN /\ (v + d) \div LineDots = v \div LineDots
              /\ (v + d) % LineDots = (v % LineDots) + d
         ELSE /\ (v + d) \div LineDots = (v \div LineDots) + 1
              /\ (v + d) % LineDots = (v % LineDots) + d - LineDots
<1> DEFINE q == v \div LineDots
           r == v % LineDots
           p == (v + d) \div LineDots
           s == (v + d) % LineDots
<1>1. q \in Nat /\ r \in 0 .. LineDots - 1 /\ v = LineDots * q + r
  BY Division
<1>2. p \in Nat /\ s \in 0 .. LineDots - 1 /\ v + d = LineDots * p + s
  BY Division, Geometry
<1> HIDE DEF q, r, p, s
<1>3. CASE r + d < LineDots
  <2>1. LineDots * q + (r + d) = LineDots * p + s
    BY <1>1, <1>2, Geometry
  <2>2. p = q /\ s = r + d
    BY <1>1, <1>2, <1>3, <2>1, DivisionUnique, Geometry
  <2>3. QED BY <1>3, <2>2 DEF q, r, p, s
<1>4. CASE ~(r + d < LineDots)
  <2>1. LineDots * (q + 1) = LineDots * q + LineDots
    BY <1>1, Geometry
  <2>2. /\ LineDots * (q + 1) + (r + d - LineDots) = LineDots * p + s
        /\ q + 1 \in Int /\ p \in Int /\ r + d - LineDots \in 0 .. LineDots - 1
    BY <1>1, <1>2, <1>4, <2>1, Geometry
  <2>3. q + 1 = p /\ r + d - LineDots = s
    BY <1>2, <2>2, DivisionUnique
  <2>4. QED BY <1>4, <2>3 DEF q, r, p, s
<1>5. QED BY <1>3, <1>4

LEMMA FrameStart == 0 \div LineDots = 0 /\ 0 % LineDots = 0
<1>1. /\ 0 \div LineDots \in Nat /\ 0 % LineDots \in 0 .. LineDots - 1
      /\ 0 = LineDots * (0 \div LineDots) + (0 % LineDots)
  BY Division
<1>2. LineDots * 0 + 0 = LineDots * (0 \div LineDots) + (0 % LineDots)
  BY <1>1, Geometry
<1>3. QED BY <1>1, <1>2, DivisionUnique, Geometry

-----------------------------------------------------------------------------
(* Where an update finds the controller: at the start of a frame, on the same     *)
(* line, or in mode 0 or vertical blank at the end of the line before.           *)
LEMMA Moves ==
  ASSUME IInv, enabled, NEW dots \in Steps
  PROVE  LET v  == vCycleCount + dots
             ly == v \div LineDots
             at == v % LineDots
         IN /\ v \in Nat /\ ly \in Nat /\ at \in 0 .. LineDots - 1
            /\ IsOver(v) <=> ly >= TotalLines
            /\ v < VisibleLines * LineDots <=> ly < VisibleLines
            /\ vCycleCount = 0 => v = dots /\ LY = 0 /\ ly = 0 /\ at = dots /\ at < ScanEnd
            /\ vCycleCount > 0 =>
                 \/ ly = LY /\ at = dot + dots
                 \/ ly = LY + 1 /\ at < ScanEnd /\ dot >= TransferEnd
<1> DEFINE v  == vCycleCount + dots
           ly == v \div LineDots
           at == v % LineDots
<1>1. /\ dots \in Nat /\ dots < ScanEnd /\ dots <= LineDots - TransferEnd
      /\ dots \in 0 .. LineDots - 1
  BY StepAssumption, Geometry
<1>2. /\ vCycleCount \in Nat /\ v \in Nat
      /\ LY = vCycleCount \div LineDots /\ dot = vCycleCount % LineDots
  BY <1>1, Geometry DEF IInv, TypeOK, Phase, dot
<1>3. LY \in Nat /\ dot \in 0 .. LineDots - 1
  BY <1>2, Division
<1>4. ly \in Nat /\ at \in 0 .. LineDots - 1
  BY <1>2, Division
<1>5. v < VisibleLines * LineDots <=> ly < VisibleLines
  BY <1>2, LinesBefore, Geometry
<1>6. IsOver(v) <=> ly >= TotalLines
  <2>1. v < TotalLines * LineDots <=> ly < TotalLines
    BY <1>2, LinesBefore, Geometry
  <2>2. TotalLines * LineDots \in Nat
    BY Geometry
  <2>3. QED BY <1>2, <1>4, <2>1, <2>2, Geometry DEF IsOver
<1>7. IF dot + dots < LineDots THEN ly = LY /\ at = dot + dots
      ELSE ly = LY + 1 /\ at = dot + dots - LineDots
  BY <1>1, <1>2, Advance
<1> HIDE DEF v, ly, at
<1>8. vCycleCount = 0 => v = dots /\ LY = 0 /\ ly = 0 /\ at = dots /\ at < ScanEnd
  BY <1>1, <1>2, <1>7, FrameStart, Geometry DEF v
<1>9. vCycleCount > 0 => \/ ly = LY /\ at = dot + dots
                         \/ ly = LY + 1 /\ at < ScanEnd /\ dot >= TransferEnd
  BY <1>1, <1>3, <1>7, Geometry
<1>10. QED BY <1>2, <1>4, <1>5, <1>6, <1>8, <1>9 DEF v, ly, at

LEMMA UpdateStep ==
  ASSUME IInv, NEW dots \in Steps, Update(dots)
  PROVE  IInv'
<1> DEFINE v  == vCycleCount + dots
           ly == v \div LineDots
           at == v % LineDots
<1>1. enabled /\ enabled' /\ stat' = stat /\ LYC' = LYC
  BY DEF Update, program
<1>2. /\ v \in Nat /\ ly \in Nat /\ at \in 0 .. LineDots - 1
      /\ IsOver(v) <=> ly >= TotalLines
      /\ v < VisibleLines * LineDots <=> ly < VisibleLines
      /\ vCycleCount = 0 => v = dots /\ LY = 0 /\ ly = 0 /\ at = dots /\ at < ScanEnd
      /\ vCycleCount > 0 => \/ ly = LY /\ at = dot + dots
                            \/ ly = LY + 1 /\ at < ScanEnd /\ dot >= TransferEnd
  BY <1>1, Moves
<1>3. /\ \/ IsOver(v) /\ vCycleCount' = 0 /\ LY' = 0 /\ CommitFrame
         \/ /\ ~IsOver(v) /\ vCycleCount' = v /\ LY' = ly
            /\ \/ ly < VisibleLines /\ at < ScanEnd /\ ScanLine(ly)
               \/ ly < VisibleLines /\ ScanEnd <= at /\ at < TransferEnd /\ TransferLine
               \/ ly < VisibleLines /\ TransferEnd <= at /\ FinishLine
               \/ ly >= VisibleLines /\ VBlank
  BY <1>2, Geometry DEF Update, Advanced
<1>4. dots \in Nat /\ dot \in 0 .. LineDots - 1 /\ vCycleCount \in Nat /\ LY \in Nat
  BY StepAssumption, Division, Geometry DEF IInv, TypeOK, dot
<1>5. ~IsOver(v) => v \in 0 .. TotalLines * LineDots - 1 /\ ly \in 0 .. TotalLines - 1
  BY <1>2, Geometry DEF IsOver
<1>6. vCycleCount' = v => dot' = at
  BY DEF dot
<1> HIDE DEF v, ly, at
<1>7. CASE IsOver(v)
  <2>1. vCycleCount' = 0 /\ LY' = 0 /\ CommitFrame
    BY <1>3, <1>7
  <2>2. vCycleCount > 0 /\ LY >= VisibleLines
    BY <1>2, <1>4, <1>7, Geometry
  <2>3. mode = 1
    BY <1>1, <2>2, <1>4, Geometry DEF IInv, Phase, ModeAt
  <2>4. /\ mode' = 1 /\ drawn' = 0 /\ left' = 0 /\ windowOffsetY' = 0
        /\ scheduled' \in BOOLEAN /\ UNCHANGED <<coincidence, written, IFreg>>
    BY <2>1, <2>3, ProgramAssumption DEF CommitFrame, WindowReset
  <2>5. TypeOK'
    BY <1>1, <2>1, <2>4, Geometry DEF IInv, TypeOK
  <2>6. QED
    BY <1>1, <2>1, <2>4, <2>5, FrameStart
       DEF IInv, Phase, LinesDrawnOnce, OnLine, Compared, WindowLeft
<1>8. CASE ~IsOver(v)
  <2>1. /\ vCycleCount' = v /\ LY' = ly /\ dot' = at
        /\ v \in 0 .. TotalLines * LineDots - 1 /\ ly \in 0 .. TotalLines - 1
    BY <1>3, <1>5, <1>6, <1>8
  <2>2. LY' = vCycleCount' \div LineDots
    BY <2>1 DEF ly
  <2>3. CASE ly < VisibleLines /\ at < ScanEnd /\ ScanLine(ly)
    <3>1. /\ mode' = 2 /\ UNCHANGED <<windowOffsetY, scheduled, drawn, left>>
          /\ IF mode # 2 THEN coincidence' = (ly = LYC) /\ written' = FALSE
                         ELSE UNCHANGED <<coincidence, written>>
          /\ IFreg' \subseteq {"vsync", "stat"} /\ coincidence' \in BOOLEAN
          /\ written' \in BOOLEAN
      BY <2>3 DEF ScanLine, Enters, Requests, Coincides, IInv, TypeOK
    <3>2. mode = 2 => ly = LY
      BY <1>1, <1>2, <1>4, <2>3, Geometry DEF IInv, Phase, ModeAt
    <3>3. drawn = IF scheduled THEN ly ELSE 0
      BY <1>1, <1>2, <1>4, <2>3, Geometry DEF IInv, Phase, ModeAt, LinesDrawnOnce, OnLine
    <3>4. v = 0 => drawn = 0
      BY <1>2, <1>4, <1>1 DEF IInv, Phase, v
    <3>5. TypeOK'
      BY <1>1, <2>1, <3>1 DEF IInv, TypeOK
    <3>6. LinesDrawnOnce'
      BY <1>1, <2>1, <3>1, <3>3 DEF LinesDrawnOnce, OnLine
    <3>7. ModeAt(ly, at) = 2
      BY <1>2, <2>3, Geometry DEF ModeAt
    <3>8. ModeAt(LY', dot') = 2
      BY <2>1, <3>7
    <3>9. Phase'
      BY <1>1, <2>1, <2>2, <3>1, <3>4, <3>8 DEF Phase
    <3>10. Compared'
      BY <1>1, <2>1, <3>1, <3>2 DEF IInv, Compared
    <3>11. QED BY <1>1, <3>1, <3>5, <3>6, <3>9, <3>10 DEF IInv, WindowLeft
  <2>4. CASE ly < VisibleLines /\ ScanEnd <= at /\ at < TransferEnd /\ TransferLine
    <3>1. /\ mode' = 3
          /\ UNCHANGED <<coincidence, IFreg, written, windowOffsetY, scheduled, drawn, left>>
      BY <2>4 DEF TransferLine
    <3>2. vCycleCount > 0 /\ ly = LY /\ mode \in {2, 3} /\ v > 0
      BY <1>1, <1>2, <1>4, <2>4, Geometry DEF IInv, Phase, ModeAt, v
    <3>3. drawn = IF scheduled THEN ly ELSE 0
      BY <1>1, <3>2 DEF IInv, LinesDrawnOnce, OnLine
    <3>4. TypeOK'
      BY <1>1, <2>1, <3>1 DEF IInv, TypeOK
    <3>5. LinesDrawnOnce'
      BY <1>1, <2>1, <3>1, <3>2, <3>3 DEF LinesDrawnOnce, OnLine
    <3>6. ModeAt(ly, at) = 3
      BY <1>2, <2>4, Geometry DEF ModeAt
    <3>7. ModeAt(LY', dot') = 3
      BY <2>1, <3>6
    <3>8. Phase'
      BY <1>1, <2>1, <2>2, <3>1, <3>2, <3>7 DEF Phase
    <3>9. Compared'
      BY <1>1, <2>1, <3>1, <3>2 DEF IInv, Compared
    <3>10. QED BY <1>1, <3>1, <3>4, <3>5, <3>8, <3>9 DEF IInv, WindowLeft
  <2>5. CASE ly < VisibleLines /\ TransferEnd <= at /\ FinishLine
    <3>1. /\ mode' = 0 /\ UNCHANGED <<coincidence, written, scheduled, left>>
          /\ IFreg' \subseteq {"vsync", "stat"}
          /\ drawn' = IF mode # 0 /\ scheduled THEN drawn + 1 ELSE drawn
          /\ \/ windowOffsetY' = windowOffsetY
             \/ windowOffsetY' = windowOffsetY + 1 /\ drawn' = drawn + 1
      BY <2>5 DEF FinishLine, Draws, Enters, Requests, IInv, TypeOK
    <3>2. vCycleCount > 0 /\ ly = LY /\ mode \in {0, 2, 3} /\ v > 0
      BY <1>1, <1>2, <1>4, <2>5, Geometry DEF IInv, Phase, ModeAt, v
    <3>3. drawn' = IF scheduled THEN ly + 1 ELSE 0
      BY <1>1, <1>4, <3>1, <3>2 DEF IInv, LinesDrawnOnce, OnLine
    <3>4. TypeOK'
      BY <1>1, <1>2, <2>1, <2>5, <3>1, <3>3, Geometry DEF IInv, TypeOK
    <3>5. Phase' /\ LinesDrawnOnce'
      BY <1>1, <1>2, <2>1, <2>2, <2>5, <3>1, <3>2, <3>3, Geometry
         DEF Phase, ModeAt, LinesDrawnOnce, OnLine
    <3>6. Compared'
      BY <1>1, <2>1, <3>1, <3>2 DEF IInv, Compared
    <3>7. WindowLeft'
      BY <1>1, <3>1 DEF IInv, TypeOK, WindowLeft
    <3>8. QED BY <3>4, <3>5, <3>6, <3>7 DEF IInv
  <2>6. CASE ly >= VisibleLines /\ VBlank
    <3>1. /\ mode' = 1 /\ IFreg' \subseteq {"vsync", "stat"}
          /\ UNCHANGED <<coincidence, written, windowOffsetY, scheduled, drawn, left>>
      BY <2>6 DEF VBlank, Enters, Requests, IInv, TypeOK
    <3>2. vCycleCount > 0 /\ v > 0
      BY <1>2, <1>4, <2>6, Geometry DEF v
    <3>3. drawn = IF scheduled THEN VisibleLines ELSE 0
      <4>1. CASE LY >= VisibleLines
        BY <1>1, <3>2, <4>1 DEF IInv, Phase, ModeAt, LinesDrawnOnce
      <4>2. CASE LY < VisibleLines
        <5>1. LY + 1 = VisibleLines /\ mode = 0
          BY <1>1, <1>2, <1>4, <2>6, <3>2, <4>2, Geometry DEF IInv, Phase, ModeAt
        <5>2. QED BY <1>1, <3>2, <5>1 DEF IInv, LinesDrawnOnce, OnLine
      <4>3. QED BY <1>4, <4>1, <4>2, Geometry
    <3>4. TypeOK'
      BY <1>1, <2>1, <3>1 DEF IInv, TypeOK
    <3>5. Phase' /\ LinesDrawnOnce'
      BY <1>1, <1>2, <2>1, <2>2, <2>6, <3>1, <3>2, <3>3, Geometry
         DEF Phase, ModeAt, LinesDrawnOnce, OnLine
    <3>6. Compared'
      BY <3>1 DEF Compared
    <3>7. QED BY <1>1, <3>1, <3>4, <3>5, <3>6 DEF IInv, WindowLeft
  <2>7. QED BY <1>3, <1>8, <2>3, <2>4, <2>5, <2>6
<1>9. QED BY <1>7, <1>8

LEMMA InitInvariant == Init => IInv
<1> SUFFICES ASSUME Init PROVE IInv
  OBVIOUS
<1> USE DEF Init
<1>1. TypeOK
  <2>1. TotalLines * LineDots \in Nat /\ TotalLines * LineDots > 0
    BY Geometry
  <2>2. vCycleCount \in 0 .. TotalLines * LineDots - 1 /\ LY \in 0 .. TotalLines - 1
    BY <2>1, Geometry
  <2>3. /\ enabled \in BOOLEAN /\ scheduled \in BOOLEAN /\ coincidence \in BOOLEAN
        /\ written \in BOOLEAN /\ stat \subseteq Interrupts /\ IFreg \subseteq {"vsync", "stat"}
    OBVIOUS
  <2>4. /\ mode \in 0 .. 3 /\ LYC \in LycValues /\ windowOffsetY \in Nat /\ left \in Nat
        /\ drawn \in 0 .. VisibleLines
    BY Geometry, ProgramAssumption
  <2>5. QED BY <2>2, <2>3, <2>4 DEF TypeOK
<1>2. Phase /\ LinesDrawnOnce /\ Compared /\ WindowLeft
  BY FrameStart DEF Phase, LinesDrawnOnce, OnLine, Compared, WindowLeft
<1>3. QED BY <1>1, <1>2 DEF IInv

LEMMA StepInvariant == IInv /\ [Next]_vars => IInv'
<1> SUFFICES ASSUME IInv, [Next]_vars PROVE IInv'
  OBVIOUS
<1>1. ASSUME NEW dots \in Steps, Update(dots) PROVE IInv'
  BY <1>1, UpdateStep
<1> USE DEF IInv, TypeOK, Phase, dot, LinesDrawnOnce, OnLine, Compared, WindowLeft
<1>2. CASE UpdateDisabled
  <2>1. TotalLines * LineDots \in Nat /\ TotalLines * LineDots > 0
    BY Geometry
  <2>2. QED BY <1>2, <2>1, FrameStart, Geometry DEF UpdateDisabled, program
<1>3. CASE Disable
  <2>1. /\ enabled /\ mode = 1 /\ enabled' = FALSE /\ left' = windowOffsetY
        /\ UNCHANGED <<mode, coincidence, LY, vCycleCount, windowOffsetY, scheduled,
                       drawn, written, stat, LYC, IFreg>>
    BY <1>3 DEF Disable
  <2>2. TypeOK'
    BY <2>1
  <2>3. Phase'
    BY <2>1
  <2>4. LinesDrawnOnce' /\ Compared'
    BY <2>1
  <2>5. WindowLeft'
    BY <2>1
  <2>6. QED BY <2>2, <2>3, <2>4, <2>5
<1>4. CASE Enable
  BY <1>4 DEF Enable
<1>5. ASSUME NEW interrupts \in StatValues, WriteStat(interrupts) PROVE IInv'
  BY <1>5, ProgramAssumption DEF WriteStat
<1>6. ASSUME NEW line \in LycValues, WriteLYC(line) PROVE IInv'
  BY <1>6 DEF WriteLYC
<1>7. ASSUME NEW line \in {"vsync", "stat"}, ClearInterrupt(line) PROVE IInv'
  BY <1>7 DEF ClearInterrupt, program
<1>8. CASE UNCHANGED vars
  BY <1>8 DEF vars, program
<1>9. QED BY <1>1, <1>2, <1>3, <1>4, <1>5, <1>6, <1>7, <1>8 DEF Next

LEMMA AlwaysInvariant == Spec => []IInv
BY InitInvariant, StepInvariant, PTL DEF Spec

(* Lines, dots and the counters of a frame keep their ranges (gpu.cpp).           *)
THEOREM TypeCorrect == Spec => []TypeOK
<1>1. IInv => TypeOK
  BY DEF IInv
<1>2. QED BY <1>1, AlwaysInvariant, PTL

(* However the lengths of the instructions fall, no line is missed and none is    *)
(* drawn twice (updateLCD, setLCDStage, renderLine).                            *)
THEOREM EachLineOnce == Spec => []LinesDrawnOnce
<1>1. IInv => LinesDrawnOnce
  BY DEF IInv
<1>2. QED BY <1>1, AlwaysInvariant, PTL

(* No line goes by without its comparison with LYC (updateLCD).                  *)
THEOREM ComparisonCurrent == Spec => []CoincidenceCurrent
<1>1. IInv => CoincidenceCurrent
  BY DEF IInv, TypeOK, Compared, CoincidenceCurrent, OnLine
<1>2. QED BY <1>1, AlwaysInvariant, PTL

(* The window has counted no more than the frame has drawn and a frame that was   *)
(* switched off has left over (renderLine, updateLCD).                          *)
THEOREM WindowBounded == Spec => []WindowWithinFrame
<1>1. IInv => WindowWithinFrame
  BY DEF IInv, WindowLeft, WindowWithinFrame
<1>2. QED BY <1>1, AlwaysInvariant, PTL

-----------------------------------------------------------------------------
(* The picture.                                                                *)
(* A map of m tiles of t points repeats after m * t points.                      *)
LEMMA Repeats ==
  \A t, m \in Nat \ {0} : \A v \in Nat :
     /\ (v % (m * t)) \div t = (v \div t) % m
     /\ (v % (m * t)) % t = v % t
<1> TAKE t, m \in Nat \ {0}
<1> TAKE v \in Nat
<1> DEFINE side == m * t
           q == v \div t
           r == v % t
           a == q \div m
           b == q % m
           w == v % side
           e == v \div side
<1>1. side \in Nat \ {0}
  <2>1. m >= 1 /\ t >= 1
    OBVIOUS
  <2>2. m * t >= 1
    BY <2>1
  <2>3. QED BY <2>2
<1>2. q \in Nat /\ r \in 0 .. t - 1 /\ v = t * q + r
  BY Divide
<1>3. a \in Nat /\ b \in 0 .. m - 1 /\ q = m * a + b
  BY <1>2, Divide
<1>4. side = m * t
  OBVIOUS
<1> HIDE DEF side
<1>5. e \in Nat /\ w \in 0 .. side - 1 /\ v = side * e + w
  BY <1>1, Divide
<1> HIDE DEF w, e
<1>6. w \in Nat
  BY <1>1, <1>5
<1>7. w \div t \in Nat /\ w % t \in 0 .. t - 1 /\ w = t * (w \div t) + (w % t)
  BY <1>6, Divide
<1> HIDE DEF q, r, a, b
<1>8. v = side * a + (t * b + r)
  <2>1. t * (m * a + b) = (m * t) * a + t * b
    BY <1>3
  <2>2. QED BY <1>2, <1>3, <1>4, <2>1
<1>9. t * b + r \in 0 .. side - 1
  <2>1. t * b <= t * (m - 1) /\ t * b >= 0
    BY <1>3
  <2>2. t * (m - 1) = m * t - t
    OBVIOUS
  <2>3. t * b \in Nat
    BY <1>3
  <2>4. QED BY <1>2, <1>4, <2>1, <2>2, <2>3
<1>10. w = t * b + r
  <2>1. side * e + w = side * a + (t * b + r)
    BY <1>5, <1>8
  <2>2. e \in Int /\ a \in Int
    BY <1>3, <1>5
  <2>3. \A p, o \in Int, x, y \in 0 .. side - 1 :
          side * p + x = side * o + y => p = o /\ x = y
    BY <1>1, DivideUnique
  <2>4. QED BY <1>5, <1>9, <2>1, <2>2, <2>3
<1>11. w \div t = b /\ w % t = r
  <2>1. t * (w \div t) + (w % t) = t * b + r
    BY <1>7, <1>10
  <2>2. w \div t \in Int /\ b \in Int
    BY <1>3, <1>7
  <2>3. \A p, o \in Int, x, y \in 0 .. t - 1 :
          t * p + x = t * o + y => p = o /\ x = y
    BY DivideUnique
  <2>4. QED BY <1>2, <1>7, <2>1, <2>2, <2>3
<1>12. QED BY <1>1, <1>4, <1>11 DEF w, b, q, r

-----------------------------------------------------------------------------
(* The attributes of a sprite; the settings, the line and what the window has     *)
(* counted: the lines of the frame that are drawn, and how far it is ahead.       *)
Attribute ==
  [x : Nat, y : Nat, tile : 0 .. 2 * HalfTable - 1, mirrorX : BOOLEAN,
   mirrorY : BOOLEAN, palette : {"o0", "o1"}, behind : BOOLEAN]
Setting ==
  [tall : BOOLEAN, sprites : BOOLEAN, window : BOOLEAN, background : BOOLEAN,
   unsigned : BOOLEAN, map : {0, 1}, windowMap : {0, 1}]

LineInv ==
  /\ sprites \in [1 .. SpriteCount -> Attributes \cup {Line!Unset}]
  /\ lcdc \in Controls /\ scroll \in Scrolls /\ window \in Windows
  /\ lineY \in 0 .. VisibleLines - 1 /\ lineDrawn \in BOOLEAN
  /\ windowLines \in Nat /\ windowAhead \in Int
  /\ windowLines = lineY + (IF lineDrawn THEN 1 ELSE 0) + windowAhead

LEMMA Screen ==
  /\ TileSize \in Nat \ {0} /\ Width \in Nat \ {0} /\ VisibleLines \in Nat \ {0}
  /\ SpriteCount \in Nat \ {0} /\ PerLine \in Nat /\ MapSize \in Nat \ {0}
  /\ HalfTable \in Nat \ {0}
BY LineAssumptions DEF Line!GeometryAssumption

LEMMA Settings ==
  ASSUME LineInv
  PROVE  /\ lcdc \in Setting
         /\ scroll.x \in Nat /\ scroll.y \in Nat /\ window.x \in Nat /\ window.y \in Nat
         /\ lineY \in Nat
         /\ \A i \in 1 .. SpriteCount : sprites[i] \in Attribute
<1>1. Line!Unset \in Attribute
  BY Screen DEF Line!Unset, Attribute
<1>2. /\ Attributes \subseteq Attribute /\ Controls \subseteq Setting
      /\ Scrolls \subseteq [x : Nat, y : Nat] /\ Windows \subseteq [x : Nat, y : Nat]
  BY LineAssumptions DEF Line!ProgramAssumption, Attribute, Setting
<1>3. QED BY <1>1, <1>2, Screen DEF LineInv

LEMMA LineInit == Line!Init => LineInv
<1> SUFFICES ASSUME Line!Init PROVE LineInv
  OBVIOUS
<1>1. /\ sprites = [i \in 1 .. SpriteCount |-> Line!Unset]
      /\ lcdc \in Controls /\ scroll \in Scrolls /\ window \in Windows
      /\ lineDrawn = FALSE
  BY DEF Line!Init
<1>2. lineY = 0 /\ windowLines = 0 /\ windowAhead = 0
  BY DEF Line!Init
<1>3. /\ lineY \in 0 .. VisibleLines - 1 /\ windowLines \in Nat /\ windowAhead \in Int
      /\ windowLines = lineY + (IF lineDrawn THEN 1 ELSE 0) + windowAhead
  BY <1>1, <1>2, Screen
<1>4. sprites \in [1 .. SpriteCount -> Attributes \cup {Line!Unset}]
  BY <1>1
<1>5. QED BY <1>1, <1>3, <1>4 DEF LineInv

LEMMA LineStep == LineInv /\ [Line!Next]_(Line!vars) => LineInv'
<1> SUFFICES ASSUME LineInv, [Line!Next]_(Line!vars) PROVE LineInv'
  OBVIOUS
<1> USE DEF LineInv, Line!registers
<1>1. CASE Line!RenderLine
  <2>1. CASE Line!InReach
    BY <1>1, <2>1, Screen DEF Line!RenderLine
  <2>2. CASE ~Line!InReach
    <3>1. /\ windowLines' = windowLines /\ windowAhead' = windowAhead - 1
          /\ lineY' = lineY /\ ~lineDrawn /\ lineDrawn' = TRUE
      BY <1>1, <2>2 DEF Line!RenderLine
    <3>2. windowAhead' \in Int /\ windowLines' = lineY' + 1 + windowAhead'
      BY <3>1, Screen
    <3>3. QED BY <1>1, <3>1, <3>2 DEF Line!RenderLine
  <2>3. QED BY <2>1, <2>2
<1>2. CASE Line!NextLine \/ Line!EndFrame \/ Line!SwitchOff
  <2>1. /\ lineDrawn /\ lineDrawn' = FALSE
        /\ sprites' = sprites /\ lcdc' = lcdc /\ scroll' = scroll /\ window' = window
        /\ \/ /\ lineY + 1 < VisibleLines /\ lineY' = lineY + 1
              /\ windowLines' = windowLines /\ windowAhead' = windowAhead
           \/ lineY' = 0 /\ windowLines' = 0 /\ windowAhead' = 0
           \/ /\ lineY + 1 = VisibleLines /\ lineY' = 0
              /\ windowLines' = windowLines /\ windowAhead' = windowAhead + VisibleLines
    BY <1>2 DEF Line!NextLine, Line!EndFrame, Line!SwitchOff
  <2>2. lineY \in Nat /\ windowLines = lineY + 1 + windowAhead
    BY <2>1, Screen
  <2>3. /\ lineY' \in 0 .. VisibleLines - 1 /\ windowLines' \in Nat /\ windowAhead' \in Int
        /\ windowLines' = lineY' + 0 + windowAhead'
    BY <2>1, <2>2, Screen
  <2>4. QED BY <2>1, <2>3
<1>3. ASSUME NEW i \in 1 .. SpriteCount, NEW s \in Attributes, Line!WriteSprite(i, s)
      PROVE  LineInv'
  BY <1>3 DEF Line!WriteSprite
<1>4. ASSUME NEW control \in Controls, NEW at \in Scrolls, NEW windowAt \in Windows,
             Line!WriteRegisters(control, at, windowAt)
      PROVE  LineInv'
  BY <1>4 DEF Line!WriteRegisters
<1>5. CASE UNCHANGED Line!vars
  BY <1>5 DEF Line!vars
<1>6. QED BY <1>1, <1>2, <1>3, <1>4, <1>5 DEF Line!Next

-----------------------------------------------------------------------------
(* Every tile, row and column that is looked up exists.                          *)
LEMMA TilesExist ==
  ASSUME LineInv, NEW s \in Attribute
  PROVE  Line!TileIndex(s) \in 0 .. Line!TileCount - 1
<1>1. s.tile \in 0 .. 2 * HalfTable - 1
  BY DEF Attribute
<1>2. s.tile - (s.tile % 2) \in 0 .. 2 * HalfTable - 2
  <2>1. s.tile = 2 * (s.tile \div 2) + (s.tile % 2) /\ s.tile \div 2 \in Nat
    BY <1>1, Screen
  <2>2. s.tile \div 2 <= HalfTable - 1
    BY <1>1, <2>1, Screen
  <2>3. QED BY <2>1, <2>2, <1>1, Screen
<1>3. QED BY <1>1, <1>2, Screen DEF Line!TileIndex, Line!TileCount

LEMMA ColumnsExist ==
  ASSUME LineInv, NEW s \in Attribute, NEW x \in 0 .. Width - 1, Line!Covers(s, x)
  PROVE  Line!Column(s, x) \in 0 .. TileSize - 1
BY Screen DEF Line!Covers, Line!Column, Attribute

LEMMA PatternsExist ==
  ASSUME LineInv, NEW number \in 0 .. 2 * HalfTable - 1
  PROVE  Line!Pattern(number) \in 0 .. Line!TileCount - 1
BY Screen DEF Line!Pattern, Line!TileCount

LEMMA LookedUpExists == LineInv => Line!TypeOK
<1> SUFFICES ASSUME LineInv PROVE Line!TypeOK
  OBVIOUS
<1>1. ASSUME NEW i \in 1 .. SpriteCount, NEW x \in 0 .. Width - 1,
             Line!Covers(sprites[i], x)
      PROVE  /\ Line!TileIndex(sprites[i]) \in 0 .. Line!TileCount - 1
             /\ Line!Column(sprites[i], x) \in 0 .. TileSize - 1
  BY <1>1, Settings, TilesExist, ColumnsExist
<1>2. QED BY <1>1, PatternsExist DEF LineInv, Line!TypeOK

-----------------------------------------------------------------------------
(* A map is looked up where it repeats.                                         *)
LEMMA MapRepeats ==
  ASSUME LineInv, NEW map, NEW x \in Nat, NEW y \in Nat
  PROVE  Line!PixelFromMap(map, x, y) = Line!MapPoint(map, x, y)
<1>1. /\ (x % (MapSize * TileSize)) \div TileSize = (x \div TileSize) % MapSize
      /\ (x % (MapSize * TileSize)) % TileSize = x % TileSize
      /\ (y % (MapSize * TileSize)) \div TileSize = (y \div TileSize) % MapSize
      /\ (y % (MapSize * TileSize)) % TileSize = y % TileSize
  <2>1. TileSize \in Nat \ {0} /\ MapSize \in Nat \ {0}
    BY Screen
  <2>2. ASSUME NEW v \in Nat
        PROVE  /\ (v % (MapSize * TileSize)) \div TileSize = (v \div TileSize) % MapSize
               /\ (v % (MapSize * TileSize)) % TileSize = v % TileSize
    BY <2>1, Repeats
  <2>3. QED BY <2>2
<1> DEFINE side == MapSize * TileSize
           At(row, column, v, u) ==
             palettes["bg"][patternTables[Line!Pattern(backgroundMaps[map][row][column])][v][u]]
<1>2. Line!MapPoint(map, x, y) =
        At((y % side) \div TileSize, (x % side) \div TileSize,
           (y % side) % TileSize, (x % side) % TileSize)
  BY DEF Line!MapPoint, Line!Pattern
<1>3. Line!PixelFromMap(map, x, y) =
        At((y \div TileSize) % MapSize, (x \div TileSize) % MapSize, y % TileSize, x % TileSize)
  BY DEF Line!PixelFromMap
<1> HIDE DEF At
<1>4. QED BY <1>1, <1>2, <1>3

(* The least number of a set.                                                   *)
LEMMA Least ==
  ASSUME NEW S, S \subseteq Nat, S # {}
  PROVE  \E l \in S : \A other \in S : l <= other
<1> DEFINE Less == {ss \in Nat \X Nat : ss[1] < ss[2]}
<1>1. IsWellFoundedOn(Less, Nat)
  BY NatLessThanWellFounded DEF OpToRel
<1> HIDE DEF Less
<1>2. \E l \in S : \A other \in S : <<other, l>> \notin Less
  BY <1>1, WFMin
<1>3. \A x, y \in Nat : <<x, y>> \in Less <=> x < y
  BY DEF Less
<1>4. PICK l \in S : \A other \in S : <<other, l>> \notin Less
  BY <1>2
<1>5. \A other \in S : l \in Nat /\ other \in Nat /\ ~(other < l)
  BY <1>3, <1>4
<1>6. QED BY <1>5

(* The results of the loop after the first n sprites, for each n up to k.        *)
IsLoop(after, k, x) ==
  after = [n \in 0 .. k |-> IF n = 0 THEN Line!Nothing
                            ELSE Line!Looked(after[n - 1], sprites[n], x)]

LEMMA LoopExtends ==
  ASSUME NEW k \in Nat, NEW x, NEW before, IsLoop(before, k, x)
  PROVE  \E after : IsLoop(after, k + 1, x)
<1> DEFINE after == [n \in 0 .. k + 1 |-> IF n = k + 1
                                           THEN Line!Looked(before[k], sprites[k + 1], x)
                                           ELSE before[n]]
<1> SUFFICES after = [n \in 0 .. k + 1 |-> IF n = 0 THEN Line!Nothing
                        ELSE Line!Looked(after[n - 1], sprites[n], x)]
  BY Zenon DEF IsLoop
<1>1. ASSUME NEW n \in 0 .. k + 1
      PROVE  after[n] = IF n = 0 THEN Line!Nothing
                        ELSE Line!Looked(after[n - 1], sprites[n], x)
  <2>1. CASE n = k + 1
    <3>1. n # 0 /\ n - 1 = k /\ k \in 0 .. k + 1 /\ k # k + 1
      BY <2>1
    <3>2. after[k] = before[k]
      BY <3>1
    <3>3. after[n] = Line!Looked(before[k], sprites[n], x)
      BY <2>1
    <3>4. QED BY <3>1, <3>2, <3>3
  <2>2. CASE n = 0
    <3>1. after[n] = before[n] /\ n \in 0 .. k
      BY <2>2
    <3>2. before[n] = Line!Nothing
      BY <2>2, <3>1 DEF IsLoop
    <3>3. QED BY <2>2, <3>1, <3>2
  <2>3. CASE n # 0 /\ n # k + 1
    <3>1. n \in 0 .. k /\ n - 1 \in 0 .. k + 1 /\ n - 1 # k + 1
      BY <2>3
    <3>2. after[n] = before[n] /\ after[n - 1] = before[n - 1]
      BY <2>3, <3>1
    <3>3. before[n] = Line!Looked(before[n - 1], sprites[n], x)
      BY <2>3, <3>1 DEF IsLoop
    <3>4. QED BY <2>3, <3>2, <3>3
  <2>4. QED BY <2>1, <2>2, <2>3
<1> HIDE DEF after
<1>2. after = [n \in 0 .. k + 1 |-> after[n]]
  BY Zenon DEF after
<1>3. QED BY <1>1, <1>2

LEMMA LoopExists ==
  ASSUME NEW k \in Nat, NEW x
  PROVE  \E after : IsLoop(after, k, x)
<1> DEFINE Without == {n \in Nat : ~ \E after : IsLoop(after, n, x)}
<1>1. CASE Without = {}
  BY <1>1
<1>2. CASE Without # {}
  <2>1. PICK n \in Without : \A other \in Without : n <= other
    BY <1>2, Least
  <2>2. n \in Nat /\ ~ \E after : IsLoop(after, n, x)
    BY <2>1
  <2>3. CASE n = 0
    <3>1. IsLoop([m \in 0 .. 0 |-> Line!Nothing], 0, x)
      BY DEF IsLoop
    <3>2. QED BY <2>2, <2>3, <3>1
  <2>4. CASE n # 0
    <3>1. n - 1 \in Nat /\ (n - 1) + 1 = n /\ ~(n <= n - 1)
      BY <2>2, <2>4
    <3>2. \E before : IsLoop(before, n - 1, x)
      BY <2>1, <3>1
    <3>3. \E after : IsLoop(after, (n - 1) + 1, x)
      BY <3>1, <3>2, LoopExtends
    <3>4. QED BY <2>2, <3>1, <3>3
  <2>5. QED BY <2>3, <2>4
<1>3. QED BY <1>1, <1>2

LEMMA LoopUnfolds ==
  ASSUME NEW x
  PROVE  \E after : /\ IsLoop(after, SpriteCount, x)
                    /\ Line!SpriteLoop(x) = after[SpriteCount]
<1> DEFINE loop == CHOOSE after : IsLoop(after, SpriteCount, x)
<1>1. \E after : IsLoop(after, SpriteCount, x)
  BY LoopExists, Screen
<1>2. IsLoop(loop, SpriteCount, x)
  BY <1>1
<1>3. Line!SpriteLoop(x) = loop[SpriteCount]
  BY DEF Line!SpriteLoop, IsLoop
<1>4. QED BY <1>2, <1>3

-----------------------------------------------------------------------------
(* The points of a sprite by the rules are those of the code.                     *)
LEMMA RowsAre ==
  ASSUME LineInv, NEW s \in Attribute
  PROVE  /\ Line!Rows(s) # {} <=> Line!OnLine(s)
         /\ Line!OnLine(s) => Line!Rows(s) = {2 * TileSize + lineY - s.y}
<1>1. /\ s.y \in Nat /\ lineY \in Nat /\ TileSize \in Nat
      /\ Line!Height \in Nat
  BY Settings, Screen DEF Attribute, Line!Height
<1>2. \A row \in 0 .. Line!Height - 1 :
        s.y + row = lineY + 2 * TileSize => row = 2 * TileSize + lineY - s.y
  BY <1>1
<1>3. Line!OnLine(s) => /\ 2 * TileSize + lineY - s.y \in 0 .. Line!Height - 1
                        /\ s.y + (2 * TileSize + lineY - s.y) = lineY + 2 * TileSize
  BY <1>1 DEF Line!OnLine
<1>4. \A row \in 0 .. Line!Height - 1 :
        s.y + row = lineY + 2 * TileSize => Line!OnLine(s)
  BY <1>1 DEF Line!OnLine
<1>5. QED BY <1>2, <1>3, <1>4 DEF Line!Rows

LEMMA ColumnsAre ==
  ASSUME LineInv, NEW s \in Attribute, NEW x \in 0 .. Width - 1
  PROVE  Line!Columns(s, x) = IF Line!Covers(s, x) THEN {TileSize + x - s.x} ELSE {}
<1>1. s.x \in Nat /\ TileSize \in Nat /\ x \in Nat
  BY Screen DEF Attribute
<1>2. \A column \in 0 .. TileSize - 1 :
        s.x + column = x + TileSize => column = TileSize + x - s.x /\ Line!Covers(s, x)
  BY <1>1 DEF Line!Covers
<1>3. Line!Covers(s, x) => /\ TileSize + x - s.x \in 0 .. TileSize - 1
                           /\ s.x + (TileSize + x - s.x) = x + TileSize
  BY <1>1 DEF Line!Covers
<1>4. QED BY <1>2, <1>3 DEF Line!Columns

LEMMA PointIs ==
  ASSUME LineInv, NEW s \in Attribute, NEW x \in 0 .. Width - 1,
         Line!OnLine(s), Line!Covers(s, x)
  PROVE  Line!SpritePoint(s, 2 * TileSize + lineY - s.y, TileSize + x - s.x) = Line!PointOf(s, x)
<1> DEFINE row == 2 * TileSize + lineY - s.y
           mirrored == IF row = 0 THEN Line!Height - TileSize ELSE Line!Height - row
           shown == IF s.mirrorY THEN mirrored ELSE row
<1>1. /\ s.y \in Nat /\ lineY \in Nat /\ TileSize \in Nat \ {0}
      /\ s.tile \in Nat /\ lcdc.tall \in BOOLEAN /\ s.mirrorY \in BOOLEAN
  BY Settings, Screen DEF Attribute, Setting
<1>2. /\ row \in 0 .. Line!Height - 1
      /\ Line!TileY(s) = IF s.mirrorY THEN Line!Height - row ELSE row
  BY <1>1 DEF Line!OnLine, Line!TileY, Line!Height
<1>3. Line!Height = IF lcdc.tall THEN 2 * TileSize ELSE TileSize
  BY DEF Line!Height
<1> HIDE DEF row
<1>4. /\ shown % TileSize = Line!TileY(s) % TileSize
      /\ lcdc.tall => shown \div TileSize = IF Line!TileY(s) > TileSize - 1 THEN 1 ELSE 0
  <2>1. ASSUME NEW v \in 0 .. TileSize - 1
        PROVE  v % TileSize = v /\ v \div TileSize = 0
    <3>1. v \div TileSize \in Int /\ v % TileSize \in 0 .. TileSize - 1
          /\ TileSize * (v \div TileSize) + (v % TileSize) = TileSize * 0 + v
      BY <1>1, Divide
    <3>2. QED BY <1>1, <3>1, DivideUnique
  <2>2. ASSUME NEW v \in TileSize .. 2 * TileSize - 1
        PROVE  v % TileSize = v - TileSize /\ v \div TileSize = 1
    <3>1. v \in Nat /\ v - TileSize \in 0 .. TileSize - 1
      BY <1>1
    <3>2. v \div TileSize \in Int /\ v % TileSize \in 0 .. TileSize - 1
          /\ v = TileSize * (v \div TileSize) + (v % TileSize)
      BY <1>1, <3>1, Divide
    <3>4. TileSize * 1 + (v - TileSize) = v
      BY <1>1, <3>1
    <3>3. QED BY <1>1, <3>1, <3>2, <3>4, DivideUnique
  <2>3. (2 * TileSize) % TileSize = 0 /\ TileSize % TileSize = 0
    <3>1. 2 * TileSize \in Nat /\ 0 \in 0 .. TileSize - 1
      BY <1>1
    <3>2. ASSUME NEW n \in {1, 2} PROVE (n * TileSize) % TileSize = 0
      <4> DEFINE v == n * TileSize
      <4>1. v \in Nat /\ n \in Int /\ TileSize * n + 0 = v
        BY <1>1
      <4> HIDE DEF v
      <4>2. /\ v \div TileSize \in Int /\ v % TileSize \in 0 .. TileSize - 1
            /\ v = TileSize * (v \div TileSize) + (v % TileSize)
        BY <1>1, <4>1, Divide
      <4>3. v % TileSize = 0
        BY <1>1, <3>1, <4>1, <4>2, DivideUnique
      <4>4. QED BY <4>3 DEF v
    <3>3. QED BY <1>1, <3>2
  <2>4. CASE s.mirrorY /\ row = 0
    <3>1. shown = Line!Height - TileSize /\ Line!TileY(s) = Line!Height
      BY <1>1, <1>2, <1>3, <2>4
    <3>2. CASE lcdc.tall
      <4>1. shown = TileSize /\ Line!TileY(s) = 2 * TileSize
        BY <1>1, <1>3, <3>1, <3>2
      <4>2. shown \div TileSize = 1
        BY <1>1, <2>2, <4>1
      <4>3. QED BY <1>1, <2>3, <4>1, <4>2
    <3>3. CASE ~lcdc.tall
      <4>1. shown = 0 /\ Line!TileY(s) = TileSize
        BY <1>1, <1>3, <3>1, <3>3
      <4>2. 0 % TileSize = 0
        BY <1>1, <2>1
      <4>3. QED BY <2>3, <3>3, <4>1, <4>2
    <3>4. QED BY <3>2, <3>3
  <2>5. CASE ~(s.mirrorY /\ row = 0)
    <3>1. shown = Line!TileY(s) /\ shown \in 0 .. Line!Height - 1
      BY <1>1, <1>2, <1>3, <2>5
    <3>2. CASE shown <= TileSize - 1
      BY <1>1, <1>3, <2>1, <3>1, <3>2
    <3>3. CASE shown > TileSize - 1
      <4>1. lcdc.tall /\ shown \in TileSize .. 2 * TileSize - 1
        BY <1>1, <1>3, <3>1, <3>3
      <4>2. QED BY <1>1, <2>2, <3>1, <4>1
    <3>4. QED BY <1>1, <1>3, <3>1, <3>2, <3>3
  <2>6. QED BY <2>4, <2>5
<1>5. s.tile - (s.tile % 2) = 2 * (s.tile \div 2)
  BY <1>1
<1> HIDE DEF shown
<1>6. (IF lcdc.tall THEN 2 * (s.tile \div 2) + (shown \div TileSize) ELSE s.tile)
        = Line!TileIndex(s)
  BY <1>4, <1>5 DEF Line!TileIndex
<1>7. (IF s.mirrorX THEN TileSize - 1 - (TileSize + x - s.x) ELSE TileSize + x - s.x)
        = Line!Column(s, x)
  BY DEF Line!Column
<1>8. Line!SpritePoint(s, row, TileSize + x - s.x)
        = patternTables[IF lcdc.tall THEN 2 * (s.tile \div 2) + (shown \div TileSize)
                        ELSE s.tile][shown % TileSize]
                       [IF s.mirrorX THEN TileSize - 1 - (TileSize + x - s.x)
                        ELSE TileSize + x - s.x]
  BY DEF Line!SpritePoint, shown
<1>9. Line!SpritePoint(s, row, TileSize + x - s.x) = Line!PointOf(s, x)
  BY <1>4, <1>6, <1>7, <1>8 DEF Line!PointOf
<1>10. QED BY <1>9 DEF row

LEMMA ColorsAre ==
  ASSUME LineInv, NEW s \in Attribute, NEW x \in 0 .. Width - 1, Line!OnLine(s)
  PROVE  Line!Colors(s, x) =
           IF Line!Shows(s, x) THEN {palettes[s.palette][Line!PointOf(s, x)]} ELSE {}
<1> DEFINE row == 2 * TileSize + lineY - s.y
           column == TileSize + x - s.x
           points == {Line!SpritePoint(s, r, c) : r \in Line!Rows(s), c \in Line!Columns(s, x)}
<1>1. Line!Rows(s) = {row}
  BY RowsAre
<1>2. Line!Columns(s, x) = IF Line!Covers(s, x) THEN {column} ELSE {}
  BY ColumnsAre
<1>3. Line!Covers(s, x) => Line!SpritePoint(s, row, column) = Line!PointOf(s, x)
  BY PointIs
<1> HIDE DEF row, column
<1>4. points = IF Line!Covers(s, x) THEN {Line!PointOf(s, x)} ELSE {}
  BY <1>1, <1>2, <1>3
<1>5. Line!Colors(s, x) = {palettes[s.palette][index] : index \in points \ {0}}
  BY DEF Line!Colors
<1> HIDE DEF points
<1>6. points \ {0} = IF Line!Shows(s, x) THEN {Line!PointOf(s, x)} ELSE {}
  BY <1>4 DEF Line!Shows
<1>7. QED BY <1>5, <1>6

(* The sprites on the line are counted one by one.                               *)
LEMMA OneMore ==
  ASSUME NEW n \in Nat
  PROVE  /\ Line!UpTo(0) = 0
         /\ Line!UpTo(n) \in Nat
         /\ Line!UpTo(n + 1) = Line!UpTo(n)
              + (IF Line!Rows(sprites[n + 1]) # {} THEN 1 ELSE 0)
<1> DEFINE Up(m) == {j \in 1 .. m : Line!Rows(sprites[j]) # {}}
<1>1. /\ Line!UpTo(0) = Cardinality(Up(0))
      /\ Line!UpTo(n) = Cardinality(Up(n))
      /\ Line!UpTo(n + 1) = Cardinality(Up(n + 1))
  BY DEF Line!UpTo, Line!Cardinality, Cardinality
<1>2. Up(0) = {} /\ Cardinality({}) = 0
  BY FS_EmptySet
<1>3. IsFiniteSet(Up(n)) /\ Cardinality(Up(n)) \in Nat
  <2>1. IsFiniteSet(1 .. n)
    BY FS_Interval
  <2>2. Up(n) \subseteq 1 .. n
    OBVIOUS
  <2>3. QED BY <2>1, <2>2, FS_Subset, FS_CardinalityType
<1>4. CASE Line!Rows(sprites[n + 1]) # {}
  <2>1. Up(n + 1) = Up(n) \cup {n + 1} /\ n + 1 \notin Up(n)
    BY <1>4
  <2>2. Cardinality(Up(n + 1)) = Cardinality(Up(n)) + 1
    BY <1>3, <2>1, FS_AddElement
  <2> HIDE DEF Up
  <2>3. QED BY <1>1, <1>2, <1>3, <1>4, <2>2
<1>5. CASE Line!Rows(sprites[n + 1]) = {}
  <2>1. Up(n + 1) = Up(n)
    BY <1>5
  <2> HIDE DEF Up
  <2>2. QED BY <1>1, <1>2, <1>3, <1>5, <2>1
<1>6. QED BY <1>4, <1>5

(* What the loop has found after n sprites: nothing if none of them is seen, and   *)
(* otherwise the color of the first one that is.                                *)
Found(x, n, result) ==
  LET first == Line!FirstSeen(x)
  IN IF \E i \in Line!Seen(x) : i <= n
     THEN /\ result.ended /\ result.front = ~first.behind
          /\ Line!Colors(first, x) = {result.color}
     ELSE result = [count |-> Line!UpTo(n), ended |-> FALSE, color |-> 0, front |-> FALSE]

LEMMA SeenIs ==
  ASSUME LineInv, NEW x \in 0 .. Width - 1, NEW i \in 1 .. SpriteCount
  PROVE  i \in Line!Seen(x) <=> /\ Line!OnLine(sprites[i]) /\ Line!Shows(sprites[i], x)
                                /\ Line!UpTo(i) <= PerLine
<1>1. sprites[i] \in Attribute
  BY Settings
<1>2. Line!Rows(sprites[i]) # {} <=> Line!OnLine(sprites[i])
  BY <1>1, RowsAre
<1>3. Line!OnLine(sprites[i]) =>
        (Line!Colors(sprites[i], x) # {} <=> Line!Shows(sprites[i], x))
  BY <1>1, ColorsAre
<1>4. i \in Line!Taken <=> Line!OnLine(sprites[i]) /\ Line!UpTo(i) <= PerLine
  BY <1>2 DEF Line!Taken
<1>5. QED BY <1>3, <1>4 DEF Line!Seen

LEMMA FirstIs ==
  ASSUME NEW x, NEW n \in Line!Seen(x), \A i \in Line!Seen(x) : ~(i < n)
  PROVE  Line!FirstSeen(x) = sprites[n]
<1>1. Line!Seen(x) \subseteq Nat
  BY DEF Line!Seen, Line!Taken
<1>2. \A j \in Line!Seen(x) : n <= j
  BY <1>1
<1>3. \A i \in Line!Seen(x) : (\A j \in Line!Seen(x) : i <= j) => i = n
  BY <1>1, <1>2
<1>4. (CHOOSE i \in Line!Seen(x) : \A j \in Line!Seen(x) : i <= j) = n
  BY <1>2, <1>3
<1>5. QED BY <1>4 DEF Line!FirstSeen

LEMMA LookFinds ==
  ASSUME LineInv, NEW x \in 0 .. Width - 1, NEW n \in 1 .. SpriteCount, NEW before,
         Found(x, n - 1, before)
  PROVE  Found(x, n, Line!Looked(before, sprites[n], x))
<1> DEFINE s == sprites[n]
           result == Line!Looked(before, s, x)
           first == Line!FirstSeen(x)
<1>1. /\ n - 1 \in Nat /\ (n - 1) + 1 = n /\ Line!Seen(x) \subseteq Nat
      /\ s \in Attribute /\ s.behind \in BOOLEAN
  BY Settings, Screen DEF Line!Seen, Line!Taken, Attribute
<1>2. /\ Line!UpTo(n - 1) \in Nat
      /\ Line!UpTo(n) = Line!UpTo(n - 1) + (IF Line!OnLine(s) THEN 1 ELSE 0)
  <2>1. Line!Rows(s) # {} <=> Line!OnLine(s)
    BY <1>1, RowsAre
  <2>2. QED BY <1>1, <2>1, OneMore
<1>3. n \in Line!Seen(x) <=> /\ Line!OnLine(s) /\ Line!Shows(s, x)
                             /\ Line!UpTo(n) <= PerLine
  BY SeenIs
<1>4. CASE \E i \in Line!Seen(x) : i <= n - 1
  <2>1. \E i \in Line!Seen(x) : i <= n
    BY <1>1, <1>4
  <2>2. before.ended
    BY <1>4 DEF Found
  <2>3. result = before
    BY <2>2 DEF Line!Looked
  <2>4. QED BY <1>4, <2>1, <2>3 DEF Found
<1>5. CASE ~ \E i \in Line!Seen(x) : i <= n - 1
  <2>1. before = [count |-> Line!UpTo(n - 1), ended |-> FALSE, color |-> 0, front |-> FALSE]
    BY <1>5 DEF Found
  <2>2. (\E i \in Line!Seen(x) : i <= n) <=> n \in Line!Seen(x)
    BY <1>1, <1>5
  <2>3. CASE ~Line!OnLine(s)
    <3>1. result = before /\ Line!UpTo(n) = Line!UpTo(n - 1)
      BY <1>2, <2>3 DEF Line!Looked
    <3>2. QED BY <1>3, <2>1, <2>2, <2>3, <3>1 DEF Found
  <2>4. CASE Line!OnLine(s)
    <3>1. before.count + 1 = Line!UpTo(n) /\ ~before.ended
      BY <1>2, <2>1, <2>4
    <3>2. CASE n \notin Line!Seen(x)
      <4>1. Line!UpTo(n) > PerLine \/ ~Line!Shows(s, x)
        BY <1>1, <1>2, <1>3, <2>4, <3>2, Screen
      <4>2. result = [before EXCEPT !.count = Line!UpTo(n)]
        BY <2>4, <3>1, <4>1 DEF Line!Looked, Line!Counted
      <4>3. QED BY <2>1, <2>2, <3>2, <4>2 DEF Found
    <3>3. CASE n \in Line!Seen(x)
      <4>1. ~(Line!UpTo(n) > PerLine) /\ Line!Shows(s, x)
        BY <1>1, <1>2, <1>3, <2>4, <3>3, Screen
      <4>2. result = [count |-> Line!UpTo(n), ended |-> TRUE, front |-> ~s.behind,
                      color |-> palettes[s.palette][Line!PointOf(s, x)]]
        BY <2>4, <3>1, <4>1 DEF Line!Looked, Line!Counted
      <4>3. first = s
        <5>1. \A i \in Line!Seen(x) : ~(i < n)
          BY <1>1, <1>5
        <5>2. QED BY <3>3, <5>1, FirstIs
      <4>4. Line!Colors(s, x) = {palettes[s.palette][Line!PointOf(s, x)]}
        BY <1>1, <2>4, <4>1, ColorsAre
      <4>5. QED BY <2>2, <3>3, <4>2, <4>3, <4>4 DEF Found
    <3>4. QED BY <3>2, <3>3
  <2>5. QED BY <2>3, <2>4
<1>6. QED BY <1>4, <1>5

LEMMA LoopFinds ==
  ASSUME LineInv, NEW x \in 0 .. Width - 1
  PROVE  Found(x, SpriteCount, Line!SpriteLoop(x))
<1>1. PICK after : /\ IsLoop(after, SpriteCount, x)
                   /\ Line!SpriteLoop(x) = after[SpriteCount]
  BY LoopUnfolds
<1> DEFINE Wrong == {n \in 0 .. SpriteCount : ~Found(x, n, after[n])}
<1>2. CASE Wrong = {}
  BY <1>1, <1>2, Screen
<1>3. CASE Wrong # {}
  <2>1. PICK n \in Wrong : \A other \in Wrong : n <= other
    <3>1. Wrong \subseteq Nat
      OBVIOUS
    <3>2. QED BY <1>3, <3>1, Least
  <2>2. n \in 0 .. SpriteCount /\ ~Found(x, n, after[n])
    BY <2>1
  <2>3. CASE n = 0
    <3>1. after[0] = Line!Nothing
      BY <1>1, Screen DEF IsLoop
    <3>2. ~ \E i \in Line!Seen(x) : i <= 0
      <4>1. Line!Seen(x) \subseteq 1 .. SpriteCount
        BY DEF Line!Seen, Line!Taken
      <4>2. QED BY <4>1
    <3>3. Line!UpTo(0) = 0
      BY OneMore
    <3>4. Found(x, 0, after[0])
      BY <3>1, <3>2, <3>3 DEF Found, Line!Nothing
    <3>5. QED BY <2>2, <2>3, <3>4
  <2>4. CASE n # 0
    <3>1. n \in 1 .. SpriteCount /\ n - 1 \in 0 .. SpriteCount /\ ~(n <= n - 1)
      BY <2>2, <2>4, Screen
    <3>2. Found(x, n - 1, after[n - 1])
      BY <2>1, <3>1
    <3>3. after[n] = Line!Looked(after[n - 1], sprites[n], x)
      BY <1>1, <2>2, <2>4 DEF IsLoop
    <3>4. Found(x, n, after[n])
      BY <3>1, <3>2, <3>3, LookFinds
    <3>5. QED BY <2>2, <3>4
  <2>5. QED BY <2>3, <2>4
<1>4. QED BY <1>2, <1>3

(* On a line that is drawn the window is where WX and WY put it.                   *)
LEMMA WindowIs ==
  ASSUME LineInv, lineDrawn, NEW x \in 0 .. Width - 1
  PROVE  Line!WindowColors(x) =
           IF Line!InWindow(x)
           THEN {Line!PixelFromMap(lcdc.windowMap, Line!WindowX(x), Line!WindowY)} ELSE {}
<1> DEFINE columns == {k \in 0 .. Width - 1 : window.x + k = x + TileSize - 1}
           rows == {k \in 0 .. VisibleLines - 1 : window.y + k = lineY + 1 + windowAhead}
<1>1. /\ x \in 0 .. Width - 1 /\ Width \in Nat /\ TileSize \in Nat \ {0}
      /\ VisibleLines \in Nat /\ window.x \in Nat /\ window.y \in Nat
      /\ lineY \in Nat /\ windowAhead \in Int /\ windowLines = lineY + 1 + windowAhead
      /\ WindowLimit = Width + TileSize - 2
  BY Settings, Screen, LineAssumptions DEF LineInv, Line!GeometryAssumption
<1>2. Line!WindowX(x) = x - window.x + TileSize - 1 /\ Line!WindowY = windowLines - window.y
  BY DEF Line!WindowX, Line!WindowY
<1>3. CASE Line!InWindow(x)
  <2>1. Line!WindowX(x) \in 0 .. Width - 1 /\ Line!WindowY \in 0 .. VisibleLines - 1
    BY <1>1, <1>2, <1>3 DEF Line!InWindow
  <2>2. columns = {Line!WindowX(x)} /\ rows = {Line!WindowY}
    BY <1>1, <1>2, <2>1
  <2>3. Line!WindowColors(x) =
          {Line!MapPoint(lcdc.windowMap, Line!WindowX(x), Line!WindowY)}
    BY <2>2 DEF Line!WindowColors
  <2>4. Line!WindowX(x) \in Nat /\ Line!WindowY \in Nat
    BY <2>1
  <2>5. QED BY <1>3, <2>3, <2>4, MapRepeats
<1>4. CASE ~Line!InWindow(x)
  <2>1. columns = {} \/ rows = {}
    <3>1. CASE Line!WindowX(x) >= 0 /\ Line!WindowX(x) < Width
      <4>1. window.x <= WindowLimit
        BY <1>1, <1>2, <3>1
      <4>2. ~(Line!WindowY >= 0 /\ Line!WindowY < VisibleLines)
        BY <1>4, <3>1, <4>1 DEF Line!InWindow
      <4>3. QED BY <1>1, <1>2, <4>2
    <3>2. CASE ~(Line!WindowX(x) >= 0 /\ Line!WindowX(x) < Width)
      BY <1>1, <1>2, <3>2
    <3>3. QED BY <3>1, <3>2
  <2>2. Line!WindowColors(x) = {}
    BY <2>1 DEF Line!WindowColors
  <2>3. QED BY <1>4, <2>2
<1>5. QED BY <1>3, <1>4

(* Each point of a line.                                                        *)
LEMMA PointPromised ==
  ASSUME LineInv, lineDrawn, NEW x \in 0 .. Width - 1
  PROVE  Line!Promised(x) = {Line!Pixel(x)}
<1> DEFINE loop   == IF lcdc.sprites THEN Line!SpriteLoop(x) ELSE Line!Nothing
           first  == Line!FirstSeen(x)
           seen   == lcdc.sprites /\ Line!Seen(x) # {}
           sprite == IF seen THEN Line!Colors(first, x) ELSE {0}
           inside == lcdc.window /\ Line!InWindow(x)
           inner  == Line!PixelFromMap(lcdc.windowMap, Line!WindowX(x), Line!WindowY)
           back   == Line!MapPoint(lcdc.map, x + scroll.x, lineY + scroll.y)
           color  == Line!Pixel(x)
<1>1. /\ x \in Nat /\ scroll.x \in Nat /\ scroll.y \in Nat /\ lineY \in Nat
      /\ lcdc.sprites \in BOOLEAN
  BY Settings, Screen DEF Setting
<1>2. sprite = {loop.color} /\ (loop.front <=> seen /\ ~first.behind)
  <2>1. CASE seen
    <3>1. \E i \in Line!Seen(x) : i <= SpriteCount
      BY <2>1, Screen DEF Line!Seen, Line!Taken
    <3>2. QED BY <2>1, <3>1, LoopFinds DEF Found
  <2>2. CASE ~lcdc.sprites
    BY <2>2 DEF Line!Nothing
  <2>3. CASE lcdc.sprites /\ ~seen
    <3>1. ~ \E i \in Line!Seen(x) : i <= SpriteCount
      BY <2>3
    <3>2. loop.color = 0 /\ loop.front = FALSE
      BY <2>3, <3>1, LoopFinds DEF Found
    <3>3. QED BY <2>3, <3>2
  <2>4. QED BY <1>1, <2>1, <2>2, <2>3
<1>3. Line!WindowColors(x) = IF Line!InWindow(x) THEN {inner} ELSE {}
  BY WindowIs
<1>4. Line!PixelFromMap(lcdc.map, x + scroll.x, lineY + scroll.y) = back
  BY <1>1, MapRepeats
<1>5. color = IF loop.front THEN loop.color
              ELSE IF inside THEN inner
              ELSE IF lcdc.background THEN Line!BackgroundOver(loop.color, back)
              ELSE loop.color
  BY <1>4 DEF Line!Pixel
<1>6. Line!Promised(x) = IF seen /\ ~first.behind THEN sprite
                         ELSE IF lcdc.window /\ Line!WindowColors(x) # {}
                              THEN Line!WindowColors(x)
                         ELSE IF lcdc.background /\ back # 0 THEN {back}
                         ELSE sprite
  BY DEF Line!Promised
<1> HIDE DEF loop, sprite, color, back, inner, first, seen
<1>7. Line!Promised(x) = {color}
  BY <1>2, <1>3, <1>5, <1>6 DEF Line!BackgroundOver
<1>8. QED BY <1>7 DEF color

LEMMA LinePainted == LineInv => Line!LineAsPromised
BY PointPromised DEF Line!LineAsPromised

(* A line shows at each point the one color that the rules of sprites, window and   *)
(* background give it, whatever was cut off before, and every tile that is looked   *)
(* up exists (renderLine, updateLCD).                                           *)
THEOREM LinesCorrect == VideoSpec => []LinesPainted
<1>1. VideoInit => LineInv
  BY LineInit DEF VideoInit
<1>2. LineInv /\ [VideoNext]_<<unit, vars, lineVars>> => LineInv'
  <2> SUFFICES ASSUME LineInv, [VideoNext]_<<unit, vars, lineVars>> PROVE LineInv'
    OBVIOUS
  <2>1. [Line!Next]_(Line!vars)
    BY DEF VideoNext, lineVars, Line!vars, Line!registers
  <2>2. QED BY <2>1, LineStep
<1>3. LineInv => LinesPainted
  BY LookedUpExists, LinePainted DEF LinesPainted
<1>4. QED BY <1>1, <1>2, <1>3, PTL DEF VideoSpec
=============================================================================
