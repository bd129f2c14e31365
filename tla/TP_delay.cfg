SPECIFICATION FairSpec
CONSTANTS
  a = a  b = b  c = c
  m1 = m1  m2 = m2  m3 = m3
  P = P  Q = Q
  Node = {a, b}
  Foreign = {}
  Global = Global
  Message = {m1, m2}
  NoMessage = NoMessage
  Header <- BothWaysHeader
  PGN = {P, Q}
  ForeignFrame = {}
  Blank = Blank
  Padding = Padding
  NoSession = NoSession
  MaxSessions = 1
  PacketsPerCts = 1
  FramesPerUpdate = 2
  T1 = 0  T2T3 = 1  BamGap = 0
  TxCapacity = 3
  Allowance <- OneAddressLoss
  Prompt = FALSE
PROPERTIES TransferSpec SessionsEnd
