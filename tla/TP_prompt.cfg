SPECIFICATION FairSpec
CONSTANTS
  a = a  b = b  c = c
  m1 = m1  m2 = m2  m3 = m3
  P = P  Q = Q
  Node = {a, b}
  Foreign = {}
  Global = Global
  Message = {m1, m2, m3}
  NoMessage = NoMessage
  Header <- MixedHeader
  PGN = {P, Q}
  ForeignFrame = {}
  Blank = Blank
  Padding = Padding
  NoSession = NoSession
  MaxSessions = 3
  PacketsPerCts = 1
  FramesPerUpdate = 2
  T1 = 1  T2T3 = 2  BamGap = 1
  TxCapacity = 3
  Allowance <- OneLossOneOther
  Prompt = TRUE
INVARIANTS TypeOK BufferInOrder SendingHasSession WithinGrant
PROPERTIES TransferSafety FaultlessSucceeds
