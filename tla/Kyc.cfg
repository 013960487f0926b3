SPECIFICATION Spec
CONSTANTS
  Wallets = {w1, w2}
  Bonds = {b1}
  Callers = {c1}
  Declarations <- CleanAndPep
  RequireSelfieCheck = TRUE
  MaxReviews = 2
  MaxFailures = 1
  MaxRestarts = 1
INVARIANTS KycInv
CHECK_DEADLOCK FALSE
