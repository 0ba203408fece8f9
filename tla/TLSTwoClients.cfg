SPECIFICATION Spec
CONSTANTS
  Clients = {c1, c2}
  Servers = {s1}
  None = None
  Junk = Junk
  LowOrder = LowOrder
  Noncanonical = Noncanonical
  Malformed = Malformed
  Altered <- MCAltered
SYMMETRY Symmetry
INVARIANTS KeyLifetime ServerAgreement MacKeySingleUse
