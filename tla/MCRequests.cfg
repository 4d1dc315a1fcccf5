SPECIFICATION MCSpec
CONSTANTS
  Call = {c1, c2}
  MaxFaults = 1
  m1 = m1
  m2 = m2
  p1 = p1
  p2 = p2
  p3 = p3
  Person = {p1, p2, p3}
  Nobody = Nobody
  Processes <- MCProcesses
  Delegations <- MCDelegations
  MaxTasks = 3
  Bill = {m1, m2}
  Vendor = {m1, m2}
  VendorOf <- MCVendorOf
  Totals = {2}
  Amounts = {1}
  MaxPayments = 2
  MaxEntries = 2
  Claim = {m1, m2}
  Days <- MCChanges
  Grants = {1}
  Periods <- MCPeriods
  MaxAccrued = 2
  Salaries = {1, 2}
  RunTypes = {m1, m2}
  PayMonths = 2
  MaxMapped = 1
  MaxRuns = 2
  MaxRaises = 1
  CostCentre = {x}
  NoCentre = NoCentre
  Budget <- MCBudget
  Sums = {1, 2}
  Source = {m1, m2}
  MaxRows = 3
  Quantities = {1, 2}
  Levels = {0, 1}
  MaxLines = 2
  MaxReceipts = 2
  MaxListed = 2
  InvoiceAmounts = {1, 2}
  OrderTotal = 2
  MaxInvoices = 1
  MaxGoods = 2
  Warehouse = {m1, m2}
  Nowhere = Nowhere
  Units <- MCUnits
  Changes <- MCChanges
  Ordered <- MCOrdered
  MaxMovements = 2
  Contract = {m1, m2}
  Cycles = {3}
  BilledMonths = {2, 3}
  MaxBills = 2
  x = x
  y = y
  JournalEntry = {1, 2, 3}
  Account = {x, y}
  Period = {m1, m2}
  Caller = {1, 2, 3, 4}
  Nets <- MCNets
  None = None
  MaxActive = 2
SYMMETRY MCSymmetry
INVARIANTS
  NoStageJumped
  StagesServed
  BillPaidOnce
  ControlAgrees
  DaysAccounted
  NeverOverdrawn
  DatesBookedOnce
  PayrollSettles
  FundsKept
  ReceiptsAgree
  ClearedInPairs
  StockAgrees
  MonthsBilledOnce
  BooksBalance
  Mirrored
PROPERTIES
  OutcomeStands
  BooksKept
CHECK_DEADLOCK FALSE
