SPECIFICATION ProvisioningSpec
CONSTANTS
  Networks = {"goerli", "optimism"}
  Kinds <- TwoKinds
  Configured <- Shrinking
INVARIANTS
  ProvisioningTypeOK
  NoStrays
PROPERTIES
  DoneIsCurrent
  RolloutServes
CHECK_DEADLOCK FALSE
