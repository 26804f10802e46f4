-------------------------- MODULE MinterRefinement --------------------------
(***************************************************************************)
(* HypercertMinter read as a FractionLedger: the holder of a token is the  *)
(* account with a balance of it.  The recorded owner is not used: it is    *)
(* not always the holder, since a transfer of 0 replaces it.               *)
(***************************************************************************)
EXTENDS HypercertMinter

\* The ledger tells its two marks from every account.
ASSUME MarksAssumption == "Gone" \notin Accounts /\ "Unminted" \notin Accounts

holder ==
  [id \in TokenIDs |-> IF Held(id) THEN CHOOSE a \in Accounts : Holds(a, id)
                       ELSE IF Minted(id) THEN "Gone" ELSE "Unminted"]

circulating == [t \in TypeIDs |-> Circulating(t)]

Ledger == INSTANCE FractionLedger
  WITH Tokens <- TokenIDs, Types <- TypeIDs, Unminted <- "Unminted", Gone <- "Gone"

\* Every transaction of the contract, batches and merges included, is one step
\* of the ledger's, or leaves the ledger as it was.
ImplementsLedger == Ledger!Spec
=============================================================================
