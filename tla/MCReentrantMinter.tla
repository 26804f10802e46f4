-------------------------- MODULE MCReentrantMinter --------------------------
(***************************************************************************)
(* Small instances of ReentrantMinter for TLC.                             *)
(***************************************************************************)
EXTENDS ReentrantMinter, MinterRefinement, TLC

CONSTANTS alice, carl

\* One list with a leaf for the contract, and one with two leaves for the same
\* account.
SmallAllowlists == {{<<alice, 1>>, <<carl, 2>>}, {<<alice, 1>>, <<alice, 2>>}}
=============================================================================
