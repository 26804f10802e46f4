-------------------------- MODULE MCAllowlistCache --------------------------
(***************************************************************************)
(* Small instances of AllowlistCache for TLC.                              *)
(***************************************************************************)
EXTENDS AllowlistCache, TLC

CONSTANTS alice, bob

\* With a share of 40 percent for alice the first table names a leaf of hers
\* twice beside another one, or adds them all up.
WideTable == {<<<<alice, 1>>, <<alice, 2>>, <<bob, 1>>>>}
SharedTable == {<<<<alice, 1>>, <<bob, 1>>>>}
=============================================================================
