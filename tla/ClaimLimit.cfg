SPECIFICATION Spec
CONSTANTS
  alice = alice
  bob = bob
  Accounts = {alice, bob}
  NoAccount = NoAccount
  Deployer = alice
  Allowlists <- SmallAllowlists
  MaxTypes = 1
  MaxItems = 2
  MaxUint = 2
  FractionLimit = 2
  MaxBatch = 1
  Policies = {"AllowAll"}
  TransferAmounts = {1}
  Operators = {}
  NextOwners = {}
INVARIANTS
  ClaimsWithinMaxUnits
