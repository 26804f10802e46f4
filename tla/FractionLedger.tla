--------------------------- MODULE FractionLedger ---------------------------
(***************************************************************************)
(* What the hypercert contract promises of its fractions, without saying   *)
(* how: a fraction is minted once, to one account; passes from one account *)
(* to one other; and once given up is gone for good.  The units in         *)
(* circulation for a type only grow when as many are issued.               *)
(***************************************************************************)
EXTENDS Integers

CONSTANTS Tokens, Types, Accounts,
          Unminted, Gone     \* what holder says of a token nobody holds

VARIABLES holder,       \* token -> its account, Unminted or Gone
          issued,       \* type -> the units issued so far
          circulating   \* type -> the units its fractions carry

Init ==
  /\ holder = [id \in Tokens |-> Unminted]
  /\ issued = [t \in Types |-> 0]
  /\ circulating = [t \in Types |-> 0]

\* The tokens of S, all in state was, become now.
Become(S, was, now) ==
  /\ \A id \in S : holder[id] = was
  /\ holder' = [id \in Tokens |-> IF id \in S THEN now ELSE holder[id]]

\* What circulates grows by no more than what is issued.
Backed ==
  \A t \in Types : /\ issued[t] <= issued'[t]
                   /\ circulating'[t] - circulating[t] <= issued'[t] - issued[t]

\* Splitting is minting without issuing.
Mint(a, S) == Become(S, Unminted, a) /\ Backed

Transfer(a, b, S) == Become(S, a, b) /\ UNCHANGED <<issued, circulating>>

\* Burning and merging.
GiveUp(a, S) == Become(S, a, Gone) /\ UNCHANGED issued /\ Backed

Next ==
  \E a \in Accounts, S \in SUBSET Tokens :
    \/ Mint(a, S)
    \/ \E b \in Accounts : Transfer(a, b, S)
    \/ GiveUp(a, S)

Spec == Init /\ [][Next]_<<holder, issued, circulating>>
=============================================================================
