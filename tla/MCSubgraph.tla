----------------------------- MODULE MCSubgraph -----------------------------
(***************************************************************************)
(* Small instances of Subgraph for TLC.                                    *)
(***************************************************************************)
EXTENDS Subgraph, TLC

CONSTANTS alice, bob

\* A list that lets one account claim once.
OneLeaf == {{<<bob, 1>>}}

=============================================================================
