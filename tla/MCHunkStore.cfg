\* Byte calls only, no parent.
CONSTANTS
  NoParent = NoParent
  NoReply = NoReply
  HunkCount = 2
  UnitsPerHunk = 2
  Scanned = 2
  Vals = {0, 1}
  Zero = 0
  Parent = NoParent
  HeaderUnits = 3
  MetaSizes = {1}
  MaxBlocks = 4
  HunkCalls = FALSE
  ReadMayFail = FALSE
  WriteMayFail = FALSE
SPECIFICATION Spec
INVARIANTS TypeOK
PROPERTIES Implements
