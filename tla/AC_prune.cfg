SPECIFICATION Spec
CONSTANTS
  Node = {2, 3}
  Foreign = {3}
  Address = {1, 2}
  Null = 254
  Global = 255
  Dynamic = {2}
  Capable = {2}
  Preferred <- SamePreferred
  Matching = {3}
  Partner = Partner
  NoCf = NoCf
  ForeignFrame <- AskAndClaim
  MaxForeign = 2
  MaxRefused = 0
  MaxPartners = 1
PROPERTIES PrunedDidNotClaim
