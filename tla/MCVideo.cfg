SPECIFICATION FairVideoSpec
CONSTANTS
  LineDots = 10
  ScanEnd = 3
  TransferEnd = 6
  VisibleLines = 3
  TotalLines = 4
  Steps = {0, 1, 2}
  LycValues = {0, 2}
  StatValues <- ChosenStats
  MaxWindow = 4
  Schedules = {TRUE, FALSE}
  TileSize = 2
  Width = 4
  SpriteCount = 4
  PerLine = 2
  MapSize = 2
  WindowLimit = 4
  HalfTable = 2
  patternTables <- ChosenTiles
  backgroundMaps <- ChosenMaps
  palettes <- ChosenPalettes
  Attributes <- ChosenSprites
  Controls <- ChosenControls
  Scrolls <- ChosenScrolls
  Windows <- ChosenWindows
INVARIANTS LinesDrawnOnce CoincidenceCurrent LinesPainted
PROPERTY FramesGoOn
