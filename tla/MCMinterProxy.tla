---------------------------- MODULE MCMinterProxy ----------------------------
(***************************************************************************)
(* Small instances of MinterProxy for TLC.                                 *)
(***************************************************************************)
EXTENDS MinterProxy, TLC

CONSTANTS alice, bob

\* A list that lets one account claim once.
OneLeaf == {{<<bob, 1>>}}
=============================================================================
