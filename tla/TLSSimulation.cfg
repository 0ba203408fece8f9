SPECIFICATION SimulationSpec
CONSTANTS
  Calls <- MCCalls
  ClientOf <- MCClientOf
  ServerOf <- MCServerOf
  Clients = {1, 2, 3}
  Servers = {4, 5, 6}
  None = None
  Junk = Junk
  LowOrder = LowOrder
  Noncanonical = Noncanonical
  Malformed = Malformed
  Altered = {}
PROPERTY SimulationReturns
\* A call that returned or raised takes no further step.
CHECK_DEADLOCK FALSE
