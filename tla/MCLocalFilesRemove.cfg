SPECIFICATION Spec
CONSTANTS
  Proc = {p1, p2}
  NoProc = none
  Nlfl = 2
  Names = {a, b}
  Bytes = {b0}
  MaxSize = 1
  MaxCount = 1
  Calls = {"open", "close", "getc", "putc", "trunc", "remove", "rename"}
  PerFile = TRUE
  Careless = {}
  LF_NUM_DIR_ENT = 2
  NIBLK = 2
  NDBLK = 2
  IBPERSECT = 2
  LF_IBLEN = 1
  LF_BLKSIZ = 1
SYMMETRY Interchange
VIEW InUse
INVARIANT OpenFilesApart
PROPERTY FilesRefined
