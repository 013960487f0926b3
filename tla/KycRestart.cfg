SPECIFICATION FairSpec
CONSTANTS
  Wallets = {w1}
  Bonds = {b1}
  Callers = {c1}
  Declarations <- CleanOnly
  RequireSelfieCheck = FALSE
  MaxReviews = 2
  MaxFailures = 0
  MaxRestarts = 1
PROPERTY GrantedGetsRevoked
