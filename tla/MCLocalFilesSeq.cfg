SPECIFICATION Spec
CONSTANTS
  Proc = {p1}
  NoProc = none
  Nlfl = 1
  Names = {a}
  Bytes = {b0, b1}
  MaxSize = 4
  MaxCount = 2
  Calls = {"open", "close", "read", "write", "putc", "seek", "trunc", "remove"}
  PerFile = TRUE
  Careless = {}
  LF_NUM_DIR_ENT = 2
  NIBLK = 2
  NDBLK = 3
  IBPERSECT = 2
  LF_IBLEN = 2
  LF_BLKSIZ = 1
SYMMETRY Interchange
VIEW InUse
CHECK_DEADLOCK FALSE
INVARIANTS BlocksOwned CleanMeansWritten
PROPERTY FilesRefined
