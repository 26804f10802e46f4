SPECIFICATION CacheSpec
CONSTANTS
  alice = alice
  bob = bob
  Accounts = {alice, bob}
  NoAccount = NoAccount
  MaxTypes = 1
  MaxItems = 2
  MaxUint = 3
  FractionLimit = 2
  MaxBatch = 1
  Allowlists = {}
  CSVs <- SharedTable
  Shares = {0}
  Policies = {"AllowAll"}
  TransferAmounts = {}
  Operators = {}
  Deployer = alice
  NextOwners = {}
  Organisers = {alice}
  Visitors = {bob}
  SingleClaimers = {bob}
  BatchClaimers = {}
  MaxFailures = 0
PROPERTIES
  EveryClaimedRowGoes
CHECK_DEADLOCK FALSE
