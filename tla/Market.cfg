SPECIFICATION ScenesSpec
CONSTANTS
  iss = iss
  ann = ann
  bob = bob
  inv = inv
  inv2 = inv2
  op = op
  key = key
  key2 = key2
  s1 = s1
  s2 = s2
  Zero = Zero
  Market = Market
  Invoices = {inv}
  Accounts = {iss, ann, bob}
  Screened = {ann, bob}
  Operators = {op}
  Minters = {Market, s1, s2}
  Amounts = {1, 2}
  Quotes <- OneBond
  Signers = {key}
  MaxRateBps = 2
  MaxTime = 2
  Bps = 4
  MaxFeeBps = 1
  Fees = {1}
  Treasuries = {bob}
  RoleTargets = {s1, op}
  Consumers = {Market}
  Prices = {3}
  MaxAsks = 2
  OpeningUsdc <- Opening
  Grace = 1
CHECK_DEADLOCK FALSE
PROPERTIES
  ComplianceHolds
  AsksHonoured
  SettledRateIsFinal
  RefinesClaimPool
