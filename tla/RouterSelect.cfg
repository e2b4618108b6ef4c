\* Three backends, six setups, six requests; rotation modulo 6.
CONSTANTS
  b1 = b1
  b2 = b2
  b3 = b3
  p1 = p1
  p2 = p2
  Listed <- MCListed
  Provider <- MCProvider
  Setups <- MCSetups
  Requests <- MCRequests
  Slots <- MCSlots
  Loads <- MCLoads
  TTL = 1
  RotationModulus = 6

SPECIFICATION Spec

INVARIANTS
  TypeOK
  NobodyIsLost
  ExcludedComeLast
  AffinityWins
  RotationIsFair
