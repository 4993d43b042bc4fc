\* Two lines a frame: a frame can be half drawn.
SPECIFICATION FairSpec
CONSTANT Lines = 2
INVARIANTS ShownFrameNotDrawn PixelsInLockedTexture SwapsFullFrame
PROPERTY SpeedUpShowsFrames
CHECK_DEADLOCK FALSE
