SPECIFICATION Spec
CONSTANTS
  ann = ann
  bob = bob
  MaxMoves = 1
  Cash = {1, 2, 3, 4, 5, 6, 7, 8, 9, 10, 11, 12}
  Rates = {1, 2}
  Desks = {"funding", "taking", "selling", "agent"}
  Price = 1
  SCALE = 4
  Requests = {4, 20}
  Me = ann
  Other = bob
  Bond = inv
  Face = 16
  TheirUnits = 1
  Zero = Zero
  Market = Market
  Invoices = {inv}
  Accounts = {ann, bob}
  Screened = {ann}
  Operators = {op}
  Minters = {Market}
  Amounts = {1}
  Quotes = {}
  Signers = {key}
  MaxRateBps = 2
  MaxTime = 0
  Bps = 4
  MaxFeeBps = 1
  Fees = {0, 1}
  Treasuries = {bob}
  RoleTargets = {}
  Consumers = {Market}
  Prices = {3}
  MaxAsks = 2
  OpeningUsdc <- Opening
  Forms = {"fund", "fill", "sell", "cancel"}
  Reads = {"feeBps", "usdcAllowance", "usdcBalance", "supply", "asks", "bondAllowance", "held"}
  MaxQueue = 2
  None = None
  Unread = Unread
INVARIANTS OrdersSucceed ApprovalsSuffice AgentInv
PROPERTIES PaysWhatItShowed
CHECK_DEADLOCK FALSE
