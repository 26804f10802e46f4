SPECIFICATION ReentrantSpec
CONSTANTS
  alice = alice
  carl = carl
  Accounts = {alice, carl}
  NoAccount = NoAccount
  MaxTypes = 1
  MaxItems = 3
  MaxUint = 3
  FractionLimit = 3
  MaxBatch = 2
  Allowlists <- SmallAllowlists
  Policies = {"AllowAll"}
  TransferAmounts = {1}
  Operators = {carl}
  Deployer = alice
  NextOwners = {}
  Contracts = {carl}
  MaxDepth = 1
INVARIANTS
  TypeOK
  SingleHolder
  OnlyMintedHeld
  UnitsBacked
  IssuedIsClaimed
  ClaimsListed
PROPERTIES
  ImplementsLedger
CHECK_DEADLOCK FALSE
