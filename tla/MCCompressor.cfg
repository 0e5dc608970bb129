\* Refinement and termination, compressed and uncompressed output, no faults.
CONSTANTS
  z = z  a = a  b = b
  Null = Null
  WORK_BUFFER_HUNKS = 4
  Workers = {w1, w2}
  Values = {z, a, b}
  Zero = z
  Sources <- MCOneSource
  Modes = {TRUE, FALSE}
  WriteMayFail = FALSE
  ReadMayThrow = FALSE
  ReadMayBeShort = FALSE
  WaitMayTimeOut = FALSE
SPECIFICATION Spec
INVARIANTS NoCallAfterDestroy
PROPERTIES Implements
