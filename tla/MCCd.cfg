CONSTANTS
  MAX_TRACKS = 4
  MAX_INDEX = 2
  HighDensity = 12
  ImgNames = {"a.img"}
  FramesPerHunk = 2
  Images <- MCImages
  ReadSizes = {1000, 2048}
  MaxFaults = 1
SPECIFICATION Spec
INVARIANTS NothingLost TocSurvives ExtractionTrue ReadsTrue
CHECK_DEADLOCK FALSE
