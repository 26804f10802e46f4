SPECIFICATION ClientSpec
CONSTANTS
  alice = alice
  bob = bob
  Accounts = {alice, bob}
  NoAccount = NoAccount
  Deployer = bob
  Allowlists <- AliceOnce
  MaxTypes = 1
  MaxItems = 2
  MaxUint = 2
  FractionLimit = 2
  MaxBatch = 1
  Policies = {"AllowAll"}
  TransferAmounts = {0, 1}
  Operators = {}
  NextOwners = {}
  Clients = {alice}
  Direct = {alice, bob}
INVARIANTS
  ClientTypeOK
  RecordedIsHolder
PROPERTIES
  OthersUntouched
  SignerKeepsUnits
CONSTRAINT OnlyMintedRecorded
CHECK_DEADLOCK FALSE
