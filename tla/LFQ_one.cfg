SPECIFICATION FairSpec
CONSTANTS
  p1 = p1  p2 = p2
  f1 = f1  f2 = f2
  Producer = {p1}
  Frame = {f1, f2}
  NoFrame = NoFrame
  Capacity = 3
  Roles = {"transmit", "receive"}
INVARIANTS NoSlotRace ReceivedFrameFits
PROPERTY FifoSpec
