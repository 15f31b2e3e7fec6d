SPECIFICATION Spec
CONSTANTS
  Proc = {p1}
  NoProc = none
  Nlfl = 2
  Names = {a}
  Bytes = {b0}
  MaxSize = 2
  MaxCount = 1
  Calls = {"open", "putc", "close"}
  PerFile = TRUE
  Careless = {"open_twice"}
  LF_NUM_DIR_ENT = 1
  NIBLK = 2
  NDBLK = 3
  IBPERSECT = 2
  LF_IBLEN = 2
  LF_BLKSIZ = 1
CHECK_DEADLOCK FALSE
INVARIANT BlocksOwned
