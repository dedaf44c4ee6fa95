\* An owner and a second user who joins, leaves and comes back; two requests of any kind overlap.
SPECIFICATION Spec
CONSTANTS
  s1 = s1
  s2 = s2
  ann = ann
  bob = bob
  Slots = {s1, s2}
  Members = {ann, bob}
  Founders = {ann}
  Elsewhere = {bob}
  Roles = {"OWNER", "MANAGER"}
  MaxTokens = 2
SYMMETRY Interchangeable
INVARIANTS
  TypeOK
  ActiveHasPassword
  OwnerRemains
  OneInvite
  InvitedHasInvite
PROPERTIES
  OnlyOwnersTakeOwners
  DeactivationHolds
CHECK_DEADLOCK FALSE
