\* Two objects, two files to be made and six that are there already.
CONSTANTS
  Objs = {"p", "c"}
  Files = {"a", "b", "v3", "v4", "v4b", "bad", "v2", "zip"}
  HunkCount = 2
  HunkBytes = 2
  Grain = 2048
  Beyond = {1}
  Contents <- MCContents
  Uses <- MCUses
  Best <- MCBest
  Compressions <- MCCompressions
  Units = {1, 3}
  Tags <- MCTags
  OldFiles <- MCOldFiles
  Fragile = {"a"}
  Roots = {"p"}
  UncompressedParents = FALSE
SPECIFICATION Spec
INVARIANTS HunksReadBack FileDescribesItself WaysAgree
CHECK_DEADLOCK FALSE
