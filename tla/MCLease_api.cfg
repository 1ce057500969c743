SPECIFICATION Spec
CONSTANTS
  Kinds = {display, camera}
  Owners = {alice, bob}
  Guards = {g1, g2, g3}
  NoGuard = NoGuard
  NoExpiry = NoExpiry
  Ttls = {1, NoExpiry}
  TokenMax = 4
  HoldMax = 3
  MaxTime = 2
SYMMETRY MCSymmetry
INVARIANTS TypeOK ExclusiveIsAlone OneRecordPerOwner HoldsCountGuards
PROPERTY OnlyOwnHoldsReleased
