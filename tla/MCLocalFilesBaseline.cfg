SPECIFICATION Spec
CONSTANTS
  Proc = {p1, p2}
  NoProc = none
  Nlfl = 1
  Names = {a}
  Bytes = {b0, b1}
  MaxSize = 2
  MaxCount = 2
  Calls = {"open", "close", "read", "write", "putc", "getc", "seek", "trunc", "rename"}
  PerFile = FALSE
  Careless = {"share_fds"}
  LF_NUM_DIR_ENT = 1
  NIBLK = 2
  NDBLK = 2
  IBPERSECT = 2
  LF_IBLEN = 1
  LF_BLKSIZ = 1
SYMMETRY Interchange
VIEW InUse
INVARIANT NoUndefined
PROPERTY FilesRefined
CHECK_DEADLOCK FALSE
