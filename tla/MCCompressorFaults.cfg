\* Failing writes, short and throwing reads.
CONSTANTS
  z = z  a = a  b = b
  Null = Null
  WORK_BUFFER_HUNKS = 4
  Workers = {w1, w2}
  Values = {z, a, b}
  Zero = z
  Sources <- MCTwoLaps
  Modes = {TRUE}
  WriteMayFail = TRUE
  ReadMayThrow = TRUE
  ReadMayBeShort = TRUE
  WaitMayTimeOut = TRUE
SPECIFICATION SafeSpec
SYMMETRY Symmetry
INVARIANTS NoLapOverrun NoDanglingOsd ReadsInOrder OkIsWhole
