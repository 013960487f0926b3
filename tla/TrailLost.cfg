SPECIFICATION Spec
CONSTANTS
  Docs = {d1}
  Invoices = {i1, i2}
  None = None
  Wallets = {w1, w2}
  Nullifiers = {n1}
  Callers = {c1}
  MaxTopic = 3
  MaxRestarts = 2
  MaxFaults = 1
PROPERTY RestartsForgetNothing
CHECK_DEADLOCK FALSE
