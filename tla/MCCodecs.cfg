\* Jobs for every coder, and an allocator with room for all blocks in use.
CONSTANTS
  Values = 10
  MinBlock = 2
  SectorData = 8
  SubcodeData = 4
  FlacClamp = 4
  Slots = 4
  Unit = 4
  Requests = {3, 4, 7}
  MaxLive = 2
  MaxBlocks = 5
  ConvBuf = 16
  CounterBits = 8
  Jobs <- MCJobs
SPECIFICATION Spec
INVARIANTS CodersLossless BestWins BlocksSound TextTrue ChecksTrue
CHECK_DEADLOCK FALSE
