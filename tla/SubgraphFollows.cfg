SPECIFICATION SubgraphSpec
CONSTANTS
  alice = alice
  bob = bob
  Accounts = {alice, bob}
  NoAccount = NoAccount
  NoEntity = NoEntity
  MaxTypes = 1
  MaxItems = 2
  MaxUint = 2
  FractionLimit = 2
  MaxBatch = 2
  Allowlists <- OneLeaf
  Policies = {"AllowAll"}
  TransferAmounts = {1}
  Operators = {}
  Deployer = alice
  NextOwners = {}
  Contracts = {bob}
  MaxDepth = 2
  MaxAhead = 2
PROPERTIES
  MintedIsIndexed
INVARIANTS
  SubgraphTypeOK
  UnitsIndexed
  OwnersIndexed
  TokensHaveClaims
CHECK_DEADLOCK FALSE
