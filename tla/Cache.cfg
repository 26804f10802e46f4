SPECIFICATION CacheSpec
CONSTANTS
  alice = alice
  bob = bob
  Accounts = {alice, bob}
  NoAccount = NoAccount
  MaxTypes = 2
  MaxItems = 3
  MaxUint = 6
  FractionLimit = 2
  MaxBatch = 2
  Allowlists = {}
  CSVs <- WideTable
  Shares = {40}
  Policies = {"AllowAll"}
  TransferAmounts = {}
  Operators = {}
  Deployer = alice
  NextOwners = {}
  Organisers = {alice}
  Visitors = {alice}
  SingleClaimers = {bob}
  BatchClaimers = {bob}
  MaxFailures = 1
INVARIANTS
  CacheTypeOK
  NothingLost
PROPERTIES
  ListedIsClaimed
  ClaimedRowsGo
CHECK_DEADLOCK FALSE
