--------------------------- MODULE MCProvisioning ---------------------------
(***************************************************************************)
(* Small instances of Provisioning for TLC.                                *)
(***************************************************************************)
EXTENDS Provisioning, TLC

\* Two runs of the same code but for a network that the second has dropped.
Shrinking == <<{"goerli", "optimism"}, {"goerli"}>>

TwoKinds == <<"on-allowlist-created", "mint-claim-from-allowlist">>
=============================================================================
