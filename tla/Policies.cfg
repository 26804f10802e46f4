SPECIFICATION ReentrantSpec
CONSTANTS
  alice = alice
  carl = carl
  Accounts = {alice, carl}
  NoAccount = NoAccount
  MaxTypes = 2
  MaxItems = 2
  MaxUint = 2
  FractionLimit = 2
  MaxBatch = 2
  Allowlists = {}
  Policies = {"DisallowAll", "FromCreatorOnly"}
  TransferAmounts = {1}
  Operators = {}
  Deployer = carl
  NextOwners = {}
  Contracts = {carl}
  MaxDepth = 2
PROPERTIES
  PolicyObeyed
  FinishedIsFixed
  OnlyUnfinishedGrow
CHECK_DEADLOCK FALSE
