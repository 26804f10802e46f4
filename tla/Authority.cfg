SPECIFICATION ProxySpec
CONSTANTS
  alice = alice
  bob = bob
  Accounts = {alice, bob}
  NoAccount = NoAccount
  MaxTypes = 1
  MaxItems = 2
  MaxUint = 2
  FractionLimit = 2
  MaxBatch = 1
  Allowlists <- OneLeaf
  Policies = {"AllowAll"}
  TransferAmounts = {0, 1}
  Operators = {bob}
  Deployer = alice
  NextOwners = {bob, NoAccount}
  Versions = {v1, v2}
  Upgradeable = {v1}
  NoImplementation = NoImplementation
  Foreign = Foreign
INVARIANTS
  ProxyTypeOK
PROPERTIES
  BurnedForever
  OnlyAuthorisedTakes
  FrozenWhilePaused
  CreatedIsFixed
  OwnerDecides
