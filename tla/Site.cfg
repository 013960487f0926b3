SPECIFICATION Spec
CONSTANTS
  h1 = h1
  h2 = h2
  a1 = a1
  Holders = {h1, h2}
  None = None
  Verdicts = {"granted"}
  MaxSwitches = 3
  MaxTrouble = 2
  MaxDetours = 1
  MaxCalls = 2
  MaxReads = 1
  Issuers = {a1, a2}
  Files = {f1, f2}
  Nothing = Nothing
  MaxPicks = 3
  MaxMishaps = 2
  a2 = a2
  Submissions = {m1, m2, m3, o1}
  ChunksOf <- Sizes
  flat = m3
  Marked = {m1, m2, m3}
  Plain = {}
  PageSize = 2
  MAX_PAGES = 2
  Absent = Absent
  Offers <- TwoOffers
  PAGE_SIZE = 1
  TOP = 1
  SUGGESTED = 2
  MaxBonds = 2
  MaxDays = 3
  Accounts = {a1, a2}
  MaxListings = 2
  MaxTrades = 2
  MaxVisits = 2
  Nobody = Nobody
  Unread = Unread
  Slots = {k1, k2}
  Units = {1, 2}
  RatesBps = {200, 500}
  Maturities = {1, 2, 4}
  Windows = {1, 3}
  All = All
  LastDay = 5
  Scale = 12
  Visitors = {h1, h2}
  NoOne = NoOne
  MaxUpsets = 1
  MaxShown = 2
  FaceUnits = 2
  MaxBreaks = 1
INVARIANTS OnboardingInv WalletPagesInv ReadingsAreWhole BondsAreFound PayoffIsHonest
PROPERTIES FiledByItsOwner ArrivesAtStatus ListedGetsAnchored PagesCatchUp
CHECK_DEADLOCK FALSE
