SPECIFICATION FairSpec
CONSTANTS
  iss = iss
  ann = ann
  bob = bob
  inv = inv
  inv2 = inv2
  op = op
  key = key
  key2 = key2
  Zero = Zero
  Market = Market
  Invoices = {inv}
  Accounts = {iss, ann, bob}
  Screened = {ann, bob}
  Operators = {op}
  Minters = {Market, s1}
  Amounts = {1, 2}
  Quotes <- OneBond
  Signers = {key}
  MaxRateBps = 2
  MaxTime = 2
  Bps = 4
  MaxFeeBps = 1
  Fees = {}
  Treasuries = {iss}
  RoleTargets = {}
  Consumers = {Market}
  Prices = {}
  MaxAsks = 0
  OpeningUsdc <- Opening
  Grace = 1
CHECK_DEADLOCK FALSE
PROPERTIES
  RepaidHoldersGetOut
INVARIANTS
  TypeOK
  UnitsWithinFace
  DepositsAddUp
  ClaimsCovered
  SnapshotBoundsSupply
  MoneyHasAWayOut
