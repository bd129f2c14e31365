SPECIFICATION Spec
CONSTANTS
  Node = {1, 2, 3}
  Foreign = {1, 3}
  Address = {1, 2}
  Null = 254
  Global = 255
  Dynamic = {2}
  Capable = {2}
  Preferred <- SamePreferred
  Matching = {1, 3}
  Partner = Partner
  NoCf = NoCf
  ForeignFrame <- OtherMakes
  MaxForeign = 3
  MaxRefused = 0
  MaxPartners = 1
INVARIANTS TypeOK PartnerBound
