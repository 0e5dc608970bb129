SPECIFICATION Spec
CONSTANTS
  Kinds = {"ram", "ramfill", "ramcopyfill", "vec", "vecfill", "stdio", "filler", "osd", "rust", "core", "proxy", "memory"}
  Initial <- MCInitial
  OpenFlags <- MCOpenFlags
  Offsets = {0, 5}
  Targets <- MCTargets
  Lengths = {1, 3}
  Payloads <- MCPayloads
  PastEnd = {"ram", "ramfill", "ramcopyfill", "vec", "vecfill", "stdio", "filler", "osd", "rust"}
  OutOfRange = {"ram", "ramfill", "ramcopyfill", "vec", "vecfill", "stdio", "filler", "osd", "core", "proxy", "memory"}
  CutBuffered = FALSE
  ZeroFiller = 9
  MaxCalls = 3
  Faults = {"io", "interrupted"}
  Top = 8
  Width = 2
  OsdSeekFails = FALSE
  BufferSize = 4
  Garbage = 99
INVARIANTS NoUndefinedStdio ShortOnlyAtEnd
PROPERTIES CallsReturn IsByteStream
