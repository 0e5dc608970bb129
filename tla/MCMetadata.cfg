\* Two tags, records of two lengths, three appends, failing reads and writes.
CONSTANTS
  Tags = {t1, t2}
  Wildcard = any
  Indices = {0, 1}
  Vals = {a}
  Sizes = {1, 2}
  Torn = torn
  Flags = {0}
  MaxRecords = 3
  IoMayFail = TRUE
  Null = Null
SPECIFICATION Spec
INVARIANTS TypeOK LinksForward NoResurrection
PROPERTIES CallEffects CallsReturn
