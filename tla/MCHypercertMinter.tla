-------------------------- MODULE MCHypercertMinter --------------------------
(***************************************************************************)
(* Small instances of HypercertMinter for TLC.                             *)
(***************************************************************************)
EXTENDS MinterRefinement, TLC

CONSTANTS alice, bob

\* One list within the declared units, one whose leaves exceed them together,
\* and one with two leaves for the same account.
SmallAllowlists == {{<<alice, 1>>, <<bob, 2>>}, {<<alice, 1>>, <<alice, 2>>}}

\* A list that lets one account claim once.
OneLeaf == {{<<bob, 1>>}}

=============================================================================
