SPECIFICATION Spec
CONSTANTS
  payer = payer
  Payloads = {p1, p2}
  Payers = {payer}
  PayerOf <- OnePayer
  Requests = {r1, r2}
  ReplayTTL = 2
  MaxTimeout = 1
  Claimants = {w1, w2}
  Drips = {c1, c2, c3}
  Cooldown = 2
  MaxTimeouts = 1
  IPs = {a1, a2}
  Wallets = {w1}
  Base = 1
  VerifiedRate = 2
  Minute = 2
  IdleTTL = 2
  Maturities = {1, 3, 6}
  BaseRate = 2
  StepRate = 2
  MaxRate = 5
  Step = 2
  Validity = 1
  CounterMod = 2
  MaxQuotes = 4
  MaxTime = 5
  BookLength = 3
  MaxFailures = 2
  References = {i1, i2}
  Subjects = {s1}
  Idle = Idle
  MaxTokens = 2
  MaxStops = 2
  MaxExpiries = 1
  Amount = 2
  Funds = 5
  MaxLost = 1
  MaxTurns = 1
  MaxDown = 1
  MaxFlaps = 1
  IsinBodies <- ShortBodies
INVARIANTS PaidOnceServedOnce OncePerCooldown NoncesUnique ServiceInv ToolsInv
PROPERTIES ReservationsEnd LimiterIsTokenBuckets ToolsComeThrough
CHECK_DEADLOCK FALSE
