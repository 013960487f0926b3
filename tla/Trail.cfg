SPECIFICATION Spec
CONSTANTS
  Docs = {d1}
  Invoices = {i1, i2}
  None = None
  Wallets = {w1, w2}
  Nullifiers = {n1}
  Callers = {c1, c2}
  MaxTopic = 3
  MaxRestarts = 2
  MaxFaults = 1
CONSTRAINT Bounded
SYMMETRY Interchangeable
INVARIANTS TrailInv OneInvoicePerDoc
PROPERTIES PledgesSurvive
CHECK_DEADLOCK FALSE
