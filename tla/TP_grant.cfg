SPECIFICATION Spec
CONSTANTS
  a = a  b = b  c = c
  m1 = m1  m2 = m2  m3 = m3
  P = P  Q = Q
  Node = {a, c}
  Foreign = {c}
  Global = Global
  Message = {m1, m2}
  NoMessage = NoMessage
  Header <- ForeignHeader
  PGN = {P, Q}
  ForeignFrame <- Retransmission
  Blank = Blank
  Padding = Padding
  NoSession = NoSession
  MaxSessions = 2
  PacketsPerCts = 2
  FramesPerUpdate = 2
  T1 = 0  T2T3 = 1  BamGap = 0
  TxCapacity = 3
  Allowance <- ForeignFrames
  Prompt = TRUE
INVARIANT NoMoreThanGranted
