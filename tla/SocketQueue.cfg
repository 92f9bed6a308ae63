\* One writer, and a queue of two: full when both wait as somebody pushes or tells.
CONSTANTS
  K = 2
  Capacity = 2
  Writers = {w1}
  Pushers = {p1}
  MaxPuts <- MCPuts
  MaxFrames = 2
  NoFrame = NoFrame
SPECIFICATION Spec
CHECK_DEADLOCK FALSE
INVARIANTS QTypeOK NothingForgotten FlushedFirst
PROPERTIES LatestWins FramesArrive
