--------------------------- MODULE ReentrantMinter ---------------------------
(***************************************************************************)
(* HypercertMinter when some accounts are contracts.  A mint or transfer to *)
(* a contract calls onERC1155Received on it before it returns, and the     *)
(* contract may call the minter again from there.  Nothing guards against  *)
(* that, so what an entry point does after the callback works on storage   *)
(* that may have moved on.                                                 *)
(*                                                                         *)
(* Only the two ways of minting a new type do anything after a callback,   *)
(* and theirs are modelled as calls in progress.  Elsewhere the callback   *)
(* is the last thing an entry point does, and calls made from it are calls *)
(* that follow.  A call that reverts takes with it all that was done in    *)
(* its callbacks: as in HypercertMinter it leaves no trace, and a behaviour *)
(* that cannot return from a call simply ends inside it.                   *)
(***************************************************************************)
EXTENDS HypercertMinter

CONSTANTS
  Contracts,   \* the accounts that are contracts and accept tokens
  MaxDepth     \* the deepest nesting of mints (a bound of the model)

ASSUME ReentrantAssumption == Contracts \subseteq Accounts /\ MaxDepth \in Nat

VARIABLE calls   \* the mints waiting for a callback to return, innermost last

reentrantVars == <<vars, calls>>

\* A mint in progress: the local claimID, the fractions it has still to split
\* the new token into (none: they are split), and the policy it has to store.
Call(t, fractions, restrictions) ==
  [claimID |-> t, fractions |-> fractions, restrictions |-> restrictions]

Innermost == calls[Len(calls)]
Outer == SubSeq(calls, 1, Len(calls) - 1)

\* Type t is being minted: its policy is not stored yet.
Unfinished(t) == \E i \in DOMAIN calls : calls[i].claimID = t
Finished(t) == Created(t) /\ ~Unfinished(t)

ReentrantInit == Init /\ calls = <<>>

\* _mintNewTypeWithToken up to the callback: the type has its creator, its
\* units and its first token, and the policy its storage slot had before.
CallReceiver(s, units, fractions, restrictions) ==
  /\ Len(calls) < MaxDepth
  /\ NewType \in TypeIDs
  /\ MintClaim(s, units, typeRestrictions[NewType])
  /\ calls' = Append(calls, Call(NewType, fractions, restrictions))

CallMintClaim(s, units, restrictions) ==
  CallReceiver(s, units, <<>>, restrictions)

CallMintClaimWithFractions(s, fractions, restrictions) ==
  /\ ValidSum(fractions)
  /\ CallReceiver(s, SumOf(fractions), fractions, restrictions)

\* Mutant of ReturnToSplit: the shares of the token just minted are handed out
\* without asking what the token carries by now.
ReturnToSplitUnchecked ==
  LET t == Innermost.claimID
      fractions == Innermost.fractions
      items == NewShares(t, fractions)
  IN  /\ calls # <<>> /\ fractions # <<>>
      /\ MintTo(creators[t], items)
      /\ tokenValues' = [MintedValues(items) EXCEPT ![<<t, maxIndex[t]>>] = fractions[1]]
      /\ calls' = Append(Outer, [Innermost EXCEPT !.fractions = <<>>])
      /\ UNCHANGED <<typeVars, allowlistVars, adminVars, operatorApprovals, issued>>

\* mintClaimWithFractions after the first callback: maxIndex is read again to
\* name the token to split, and its new tokens call the receiver once more.
ReturnToSplit ==
  LET t == Innermost.claimID
  IN  /\ calls # <<>> /\ Innermost.fractions # <<>>
      /\ SplitTokenUnits(creators[t], creators[t], <<t, maxIndex[t]>>,
                         Innermost.fractions)
      /\ calls' = Append(Outer, [Innermost EXCEPT !.fractions = <<>>])

\* Mutant of StoredFor: the policy is stored for the last type created.
StoredForLast(call) == typeCounter

\* The type whose policy a mint stores when its last callback has returned.
StoredFor(call) == call.claimID

ReturnToStore ==
  /\ calls # <<>> /\ Innermost.fractions = <<>>
  /\ typeRestrictions' =
       [typeRestrictions EXCEPT ![StoredFor(Innermost)] = Innermost.restrictions]
  /\ calls' = Outer
  /\ UNCHANGED <<typeCounter, creators, tokenVars, allowlistVars, adminVars,
                 operatorApprovals>>

\* A transaction is over before the next one starts: while a mint waits, only
\* contracts call the minter, from within the callback.
ReentrantNext ==
  \/ \E s \in Accounts : /\ calls = <<>> \/ s \in Contracts
                         /\ NextBy(s)
                         /\ UNCHANGED calls
  \/ \E s \in Contracts, r \in Policies :
       \/ \E units \in 0..MaxUint : CallMintClaim(s, units, r)
       \/ \E fractions \in SeqsBetween(0..MaxUint, 2, FractionLimit) :
            CallMintClaimWithFractions(s, fractions, r)
  \/ ReturnToSplit
  \/ ReturnToStore

ReentrantSpec == ReentrantInit /\ [][ReentrantNext]_reentrantVars

-----------------------------------------------------------------------------
(* Properties.  Those of HypercertMinter are checked here as well.         *)

\* Whatever receivers do in their callbacks, once a type has been minted its
\* creator and policy are final: a mint that returns late stores the policy of
\* its own type, and nobody else stores one.
FinishedIsFixed ==
  [][\A t \in TypeIDs : Finished(t) =>
       /\ Finished(t)'
       /\ creators'[t] = creators[t]
       /\ typeRestrictions'[t] = typeRestrictions[t]]_reentrantVars

\* The policy that the mint of type t asks for, stored by now or not.
PolicyAsked(t) ==
  {calls[i].restrictions : i \in {j \in DOMAIN calls : calls[j].claimID = t}}
    \cup (IF Unfinished(t) THEN {} ELSE {typeRestrictions[t]})

\* What the SDK says of DisallowAll, that all transfers are disallowed: a token
\* whose mint asks for it does not pass from hand to hand. Violated: the policy
\* is stored when the receiver of the token has already been called.
DisallowedStaysPut ==
  [][\A id \in TokenIDs : \A a, b \in Accounts :
       (a # b /\ Holds(a, id) /\ Holds(b, id)') =>
         "DisallowAll" \notin PolicyAsked(getBaseType(id))]_reentrantVars

\* Pausing is asked for on entry only, so a mint that was under way when its
\* receiver paused the contract goes on; no other type gains tokens or units.
OnlyUnfinishedGrow ==
  [][paused =>
       /\ UNCHANGED <<typeCounter, creators, allowlistVars>>
       /\ \A t \in TypeIDs : ~Unfinished(t) =>
            /\ maxIndex'[t] = maxIndex[t]
            /\ typeRestrictions'[t] = typeRestrictions[t]
            /\ \A id \in FractionIDs(t) : tokenValues'[id] = tokenValues[id]]_reentrantVars
=============================================================================
