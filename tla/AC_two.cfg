SPECIFICATION FairSpec
CONSTANTS
  Node = {1, 2}
  Foreign = {}
  Address = {1, 2}
  Null = 254
  Global = 255
  Dynamic = {2}
  Capable = {2}
  Preferred <- SamePreferred
  Matching = {}
  Partner = Partner
  NoCf = NoCf
  ForeignFrame <- NoFrames
  MaxForeign = 0
  MaxRefused = 1
  MaxPartners = 0
INVARIANTS QuietNodesDiffer NoStaleSlot LowestNameClaims
PROPERTIES ClaimsEnd
