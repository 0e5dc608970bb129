\* A record that is followed by others outgrows its place.
CONSTANTS
  Tags = {t1, t2}
  Wildcard = any
  Indices = {0, 1}
  Vals = {a}
  Sizes = {1, 2}
  Torn = torn
  Flags = {0}
  MaxRecords = 3
  IoMayFail = FALSE
  Null = Null
SPECIFICATION SafeSpec
PROPERTIES OthersKept
