SPECIFICATION FairSpec
CONSTANTS
  Proc = {p1, p2}
  NoProc = none
  Nlfl = 1
  Names = {a}
  Bytes = {b0}
  MaxSize = 3
  MaxCount = 2
  Calls = {"open", "close", "read", "write", "rename", "seek"}
  PerFile = TRUE
  Careless = {"share_fds"}
  LF_NUM_DIR_ENT = 1
  NIBLK = 2
  NDBLK = 2
  IBPERSECT = 2
  LF_IBLEN = 1
  LF_BLKSIZ = 2
INVARIANT NoUndefined
PROPERTY CallsReturn
CHECK_DEADLOCK FALSE
