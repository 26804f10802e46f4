-------------------------- MODULE MCHypercertClient --------------------------
(***************************************************************************)
(* Small instances of HypercertClient for TLC.                             *)
(***************************************************************************)
EXTENDS HypercertClient, TLC

CONSTANTS alice, bob

\* A list that lets one of them claim once.
AliceOnce == {{<<alice, 1>>}}

\* A bound: transfers of 0 are followed where they name a token, and not where
\* they name a base ID or an ID still to be minted.
OnlyMintedRecorded == \A id \in TokenIDs : Minted(id) \/ owners[id] = NoAccount
=============================================================================
