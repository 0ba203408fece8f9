SPECIFICATION Spec
CONSTANTS
  Clients = {c1}
  Servers = {s1, s2}
  None = None
  Junk = Junk
  LowOrder = LowOrder
  Noncanonical = Noncanonical
  Malformed = Malformed
  Altered <- MCAltered
INVARIANT ClientAgreement
PROPERTIES ImplementsAgreement
