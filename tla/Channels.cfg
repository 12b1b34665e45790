SPECIFICATION Spec
CONSTANTS
  ann = ann
  bob = bob
  Browser = {b1, b2}
  User = {ann, bob}
  Group = {ann}
  Grouped = {ann}
  Key = {k1, k2}
  Process = {p1, p2}
  Address <- OneAddress
  Request = {r1}
  Environ <- MCEnviron
  Wish <- MCWish
  Asked = {"any"}
  Audience <- MCAudience
  SELF = SELF
  Nobody = Nobody
  None = None
  MaxMessages = 1
INVARIANTS TypeOK NobodyElse EveryoneMeant FetchFindsLasting FetchedIsMeant
SYMMETRY Alike
CHECK_DEADLOCK FALSE
