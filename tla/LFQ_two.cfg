SPECIFICATION Spec
CONSTANTS
  p1 = p1  p2 = p2
  f1 = f1  f2 = f2
  Producer = {p1, p2}
  Frame = {f1, f2}
  NoFrame = NoFrame
  Capacity = 3
  Roles = {"transmit"}
PROPERTY PushedWhenTrue
