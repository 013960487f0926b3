SPECIFICATION FairSpec
CONSTANTS
  Wallets = {w1}
  Bonds = {b1, b2}
  Callers = {c1}
  Declarations <- CleanOnly
  RequireSelfieCheck = FALSE
  MaxReviews = 2
  MaxFailures = 1
  MaxRestarts = 1
PROPERTIES EligibleGetsGranted RevocationsComeThrough
