\* Allocation when reads and writes of the file fail.
CONSTANTS
  NoParent = NoParent
  NoReply = NoReply
  HunkCount = 2
  UnitsPerHunk = 2
  Scanned = 2
  Vals = {0, 1}
  Zero = 0
  Parent = NoParent
  HeaderUnits = 3
  MetaSizes = {1}
  MaxBlocks = 4
  HunkCalls = TRUE
  ReadMayFail = TRUE
  WriteMayFail = TRUE
SPECIFICATION Spec
VIEW WithoutReply
INVARIANTS NoAliasing MapsAgree
