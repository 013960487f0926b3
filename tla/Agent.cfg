SPECIFICATION Spec
CONSTANTS
  ann = ann
  bob = bob
  MaxMoves = 1
  Cash = {1000, 1100, 1200, 1300, 1400, 1500, 1600}
  Rates = {300}
  Desks = {"agent"}
  Price = 100
  SCALE = 1000
  Requests = {5000}
  Me = ann
  Other = bob
  Bond = inv
  Face = 100000
  TheirUnits = 1
  Zero = Zero
  Market = Market
  Invoices = {inv}
  Accounts = {ann, bob}
  Screened = {ann}
  Operators = {op}
  Minters = {Market}
  Amounts = {1}
  Quotes = {}
  Signers = {key}
  MaxRateBps = 5000
  MaxTime = 0
  Bps = 10000
  MaxFeeBps = 200
  Fees = {50}
  Treasuries = {bob}
  RoleTargets = {}
  Consumers = {Market}
  Prices = {3}
  MaxAsks = 2
  OpeningUsdc <- Opening
  Forms = {"fund", "fill", "sell", "cancel"}
  Reads = {"feeBps", "usdcAllowance", "usdcBalance", "supply", "asks", "bondAllowance", "held"}
  MaxQueue = 2
  None = None
  Unread = Unread
INVARIANT OrdersWithinBalance
CHECK_DEADLOCK FALSE
