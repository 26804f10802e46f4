--------------------------- MODULE ReentrantProofs ---------------------------
(***************************************************************************)
(* HypercertMinter implements the FractionLedger; and what receivers        *)
(* cannot change when they call the contract again from within             *)
(* onERC1155Received, for every instance of ReentrantMinter.               *)
(***************************************************************************)
EXTENDS ReentrantMinter, UnitsProofs, MinterRefinement

(* The ledger.  Its holder is well defined because a token has at most one *)
(* holder (HolderInv); a mint hands out exactly the indices it passes over, *)
(* so no token is skipped; and the units of every step are backed.         *)

\* What holder says of a token.
LEMMA HolderIs ==
  ASSUME HolderInv, NEW id \in TokenIDs
  PROVE  /\ \A a \in Accounts : Holds(a, id) => holder[id] = a
         /\ ~Held(id) => holder[id] = IF Minted(id) THEN "Gone" ELSE "Unminted"
<1>1. \A a, b \in Accounts : Holds(a, id) /\ Holds(b, id) => a = b
  BY DEF HolderInv, SingleHolder
<1> QED BY <1>1 DEF holder, Held

LEMMA HolderIsNext ==
  ASSUME HolderInv', NEW id \in TokenIDs
  PROVE  /\ \A a \in Accounts : Holds(a, id)' => holder'[id] = a
         /\ ~Held(id)' => holder'[id] = IF Minted(id)' THEN "Gone" ELSE "Unminted"
<1>1. \A a, b \in Accounts : Holds(a, id)' /\ Holds(b, id)' => a = b
  BY DEF HolderInv, SingleHolder
<1> QED BY <1>1 DEF holder, Held

\* A token whose balances and minting do not change keeps its holder.
LEMMA HolderKept ==
  ASSUME HolderInv, HolderInv', NEW id \in TokenIDs,
         \A a \in Accounts : Holds(a, id)' <=> Holds(a, id),
         Minted(id)' <=> Minted(id)
  PROVE  holder'[id] = holder[id]
<1>1. CASE Held(id)
  <2>1. PICK a \in Accounts : Holds(a, id)
    BY <1>1 DEF Held
  <2> QED BY <2>1, HolderIs, HolderIsNext
<1>2. CASE ~Held(id)
  <2>1. ~Held(id)'
    BY <1>2 DEF Held
  <2> QED BY <1>2, <2>1, HolderIs, HolderIsNext
<1> QED BY <1>1, <1>2

-----------------------------------------------------------------------------
(* Each step of the contract as a step of the ledger                       *)

LEMMA StepIsBackedInLedger ==
  ASSUME HolderInv, NEW s \in Accounts, NextBy(s)
  PROVE  Ledger!Backed
<1>1. \A t \in TypeIDs : GrowthBacked(t)
  BY StepIsBacked
<1> QED BY <1>1 DEF Ledger!Backed, GrowthBacked, circulating

\* A mint, a claim or a split is a Mint of the ledger.
LEMMA MintsInLedger ==
  ASSUME HolderInv, HolderInv', NEW account \in Accounts, NEW items \in Seq(ItemSet),
         MintTo(account, items)
  PROVE  Ledger!Become(NewIDs(items), "Unminted", account)
<1>1. NewIDs(items) \subseteq TokenIDs
  <2>1. DOMAIN items = 1..Len(items)
    BY LenProperties
  <2> QED BY <2>1, ItemIDFresh DEF NewIDs, MintTo, HolderInv
<1>2. ASSUME NEW id \in NewIDs(items)
      PROVE  holder[id] = "Unminted" /\ holder'[id] = account
  <2>1. /\ id \in TokenIDs /\ ~Minted(id)
        /\ \A a \in Accounts : balances[id][a] = 0
        /\ \A a \in Accounts : balances'[id][a] = IF a = account THEN 1 ELSE 0
    BY <1>1, <1>2, MintTouchesFresh
  <2>2. ~Held(id) /\ Holds(account, id)'
    BY <2>1 DEF Held, Holds
  <2> QED BY <2>1, <2>2, HolderIs, HolderIsNext
<1>3. ASSUME NEW id \in TokenIDs \ NewIDs(items)
      PROVE  holder'[id] = holder[id]
  <2>1. balances'[id] = balances[id]
    BY <1>3, MintTouchesFresh
  <2>2. Minted(id)' <=> Minted(id)
    <3>1. Mints
      BY DEF Mints
    <3> QED BY <1>3, <3>1, MintedStays, MintSkipsNone DEF HolderInv
  <2> QED BY <2>1, <2>2, HolderKept DEF Holds
<1>4. holder' = [id \in TokenIDs |-> IF id \in NewIDs(items) THEN account ELSE holder[id]]
  <2>1. holder' = [id \in TokenIDs |-> holder'[id]]
    BY DEF holder
  <2> QED BY <1>1, <1>2, <1>3, <2>1
<1> QED BY <1>2, <1>4 DEF Ledger!Become

\* A burn or a merge gives up the tokens its account no longer holds; what
\* leaves balances alone gives up none.
LEMMA ShrinksInLedger ==
  ASSUME HolderInv, HolderInv', Shrinks
  PROVE  \E a \in Accounts, S \in SUBSET TokenIDs : Ledger!Become(S, a, "Gone")
<1>1. PICK account \in Accounts : \A id \in TokenIDs, a \in Accounts :
        /\ balances'[id][a] <= balances[id][a]
        /\ a # account => balances'[id][a] = balances[id][a]
  BY DEF Shrinks
<1> DEFINE S == {id \in TokenIDs : Holds(account, id) /\ ~Holds(account, id)'}
<1>2. \A id \in TokenIDs, a \in Accounts :
        balances[id][a] \in Nat /\ balances'[id][a] \in Nat
  BY DEF HolderInv, TypeOK
<1>3. \A id \in TokenIDs : Minted(id)' <=> Minted(id)
  BY DEF Shrinks, Minted
<1>4. \A id \in TokenIDs, a \in Accounts : Holds(a, id)' => Holds(a, id)
  BY <1>1, <1>2 DEF Holds
<1>5. ASSUME NEW id \in S
      PROVE  holder[id] = account /\ holder'[id] = "Gone"
  <2>1. id \in TokenIDs /\ Holds(account, id) /\ ~Holds(account, id)'
    OBVIOUS
  <2>2. \A a \in Accounts : Holds(a, id) => a = account
    BY <2>1 DEF HolderInv, SingleHolder
  <2>3. ~Held(id)'
    BY <1>4, <2>1, <2>2 DEF Held
  <2>4. Minted(id)'
    BY <1>3, <2>1 DEF HolderInv, OnlyMintedHeld, Held
  <2> QED BY <2>1, <2>3, <2>4, HolderIs, HolderIsNext
<1>6. ASSUME NEW id \in TokenIDs \ S
      PROVE  holder'[id] = holder[id]
  <2>1. \A a \in Accounts : Holds(a, id)' <=> Holds(a, id)
    BY <1>1, <1>4 DEF Holds
  <2> QED BY <1>3, <2>1, HolderKept
<1>7. holder' = [id \in TokenIDs |-> IF id \in S THEN "Gone" ELSE holder[id]]
  <2>1. holder' = [id \in TokenIDs |-> holder'[id]]
    BY DEF holder
  <2> HIDE DEF S
  <2> QED BY <1>5, <1>6, <2>1
<1> HIDE DEF S
<1>8. Ledger!Become(S, account, "Gone")
  BY <1>5, <1>7 DEF Ledger!Become
<1> QED BY <1>8 DEF S

\* A safe transfer moves the tokens it names an amount of, and no units.
LEMMA TransferInLedger ==
  ASSUME HolderInv, HolderInv', NEW s, NEW from \in Accounts, NEW to \in Accounts,
         NEW batch \in Seq(Transfers), SafeBatchTransferFrom(s, from, to, batch)
  PROVE  \E S \in SUBSET TokenIDs : Ledger!Transfer(from, to, S)
<1> DEFINE S == {id \in TokenIDs : Moved(batch, id) # 0}
<1>1. /\ from # to /\ maxIndex' = maxIndex
      /\ UNCHANGED <<tokenValues, issued>>
      /\ \A id \in TokenIDs : /\ Moved(batch, id) \in 0..balances[id][from]
                              /\ MovesToken(from, to, id, Moved(batch, id))
  BY TransferMoves DEF HolderInv, SafeBatchTransferFrom
<1>2. \A id \in TokenIDs, a \in Accounts :
        balances[id][a] \in Nat /\ balances'[id][a] \in Nat
  BY DEF HolderInv, TypeOK
<1>3. ASSUME NEW id \in S
      PROVE  holder[id] = from /\ holder'[id] = to
  <2> DEFINE n == Moved(batch, id)
  <2>1. /\ id \in TokenIDs /\ n # 0 /\ n \in Nat /\ n <= balances[id][from]
        /\ balances[id][from] \in Nat /\ balances[id][to] \in Nat
        /\ balances'[id][to] = balances[id][to] + n
    BY <1>1, <1>2 DEF MovesToken
  <2> HIDE DEF n
  <2>2. Holds(from, id) /\ Holds(to, id)'
    BY <2>1 DEF Holds
  <2> QED BY <2>1, <2>2, HolderIs, HolderIsNext
<1>4. ASSUME NEW id \in TokenIDs \ S
      PROVE  holder'[id] = holder[id]
  <2>1. \A a \in Accounts : balances'[id][a] = balances[id][a]
    BY <1>1, <1>2, <1>4 DEF MovesToken
  <2> QED BY <1>1, <2>1, HolderKept DEF Holds, Minted
<1>5. holder' = [id \in TokenIDs |-> IF id \in S THEN to ELSE holder[id]]
  <2>1. holder' = [id \in TokenIDs |-> holder'[id]]
    BY DEF holder
  <2> HIDE DEF S
  <2> QED BY <1>3, <1>4, <2>1
<1> HIDE DEF S
<1>6. Ledger!Become(S, from, to)
  BY <1>3, <1>5 DEF Ledger!Become
<1>7. UNCHANGED <<issued, circulating>>
  BY <1>1 DEF circulating, Circulating
<1> QED BY <1>6, <1>7 DEF S, Ledger!Transfer

-----------------------------------------------------------------------------

LEMMA InitInLedger == Init => Ledger!Init
<1> SUFFICES ASSUME Init PROVE Ledger!Init
  OBVIOUS
<1>1. \A id \in TokenIDs : ~Held(id) /\ ~Minted(id)
  BY DEF Init, InitialStorage, Held, Holds, Minted, TokenIDs, getBaseType, getItemIndex
<1>2. holder = [id \in TokenIDs |-> "Unminted"]
  BY <1>1 DEF holder
<1>3. ASSUME NEW t \in TypeIDs
      PROVE  Circulating(t) = 0
  <2>1. \A id \in FractionIDs(t) : tokenValues[id] = 0
    BY TokenIDsFinite DEF Init, InitialStorage
  <2>2. UnitsOver(tokenValues, FractionIDs(t)) = {}
    BY <2>1, UnitsOverMember
  <2> QED BY <2>2, FS_EmptySet DEF Total, Circulating
<1>4. issued = [t \in TypeIDs |-> 0] /\ circulating = [t \in TypeIDs |-> 0]
  BY <1>3 DEF Init, InitialStorage, circulating
<1> QED BY <1>2, <1>4 DEF Ledger!Init

LEMMA MintStepInLedger ==
  ASSUME HolderInv, HolderInv', Mints, Ledger!Backed
  PROVE  Ledger!Next
<1>1. PICK account \in Accounts, items \in Seq(ItemSet) : MintTo(account, items)
  BY DEF Mints
<1>2. Ledger!Become(NewIDs(items), "Unminted", account)
  BY <1>1, MintsInLedger
<1>3. NewIDs(items) \in SUBSET TokenIDs
  <2>1. DOMAIN items = 1..Len(items)
    BY LenProperties
  <2> QED BY <1>1, <2>1, ItemIDFresh DEF NewIDs, MintTo, HolderInv
<1> QED BY <1>2, <1>3 DEF Ledger!Next, Ledger!Mint

LEMMA StepInLedger ==
  ASSUME HolderInv, NEW s \in Accounts, NextBy(s)
  PROVE  Ledger!Next
<1>1. HolderInv' /\ Ledger!Backed
  BY HolderStep, StepIsBackedInLedger
<1>2. CASE Mints
  BY <1>1, <1>2, MintStepInLedger
<1>3. CASE Shrinks
  <2>1. PICK a \in Accounts, S \in SUBSET TokenIDs : Ledger!Become(S, a, "Gone")
    BY <1>1, <1>3, ShrinksInLedger
  <2>2. UNCHANGED issued
    BY <1>3 DEF Shrinks
  <2> QED BY <1>1, <2>1, <2>2 DEF Ledger!Next, Ledger!GiveUp
<1>4. ASSUME NEW from \in Accounts, NEW to \in Accounts,
             NEW batch \in Seq(Transfers), SafeBatchTransferFrom(s, from, to, batch)
      PROVE  Ledger!Next
  <2>1. PICK S \in SUBSET TokenIDs : Ledger!Transfer(from, to, S)
    BY <1>1, <1>4, TransferInLedger
  <2> QED BY <2>1 DEF Ledger!Next
<1> QED BY <1>2, <1>3, <1>4, MintShrinkOrTransfer DEF HolderInv

\* The contract implements the ledger, for any number of accounts, types,
\* tokens and units.
THEOREM MinterImplementsLedger == Spec => ImplementsLedger
<1>1. Init => Ledger!Init
  BY InitInLedger
<1>2. HolderInv /\ [Next]_vars => [Ledger!Next]_<<holder, issued, circulating>>
  <2>1. HolderInv /\ Next => Ledger!Next
    BY StepInLedger DEF Next
  <2>2. UNCHANGED vars => UNCHANGED <<holder, issued, circulating>>
    BY DEF vars, typeVars, tokenVars, holder, circulating, Circulating, Held, Holds,
           Minted
  <2> QED BY <2>1, <2>2 DEF Next
<1> QED BY <1>1, <1>2, HolderInvariant, PTL DEF Spec, Ledger!Spec, ImplementsLedger

-----------------------------------------------------------------------------
(* Callbacks.  A mint that waits for one has already done what keeps its   *)
(* type's units and tokens in order; what it does when the callback returns *)
(* is one more split, or the writing of a policy.                          *)
\* What a mint in progress remembers.
CallSet ==
  [claimID : TypeIDs,
   fractions : {q \in Seq(0..MaxUint) : q # <<>> => Len(q) >= 2},
   restrictions : TransferRestrictions]

\* Every waiting mint is of a type that was created, for an account.
CallsOK ==
  /\ calls \in Seq(CallSet)
  /\ \A i \in DOMAIN calls : /\ Created(calls[i].claimID)
                             /\ creators[calls[i].claimID] \in Accounts

\* A mint that starts to wait: the step of CallReceiver, whatever its shares.
StartsWaiting(s, units, items, r) ==
  /\ MintNewType(s, units, items, r)
  /\ \A t : UnitsFor(items, t) = IF t = NewType THEN units ELSE 0
  /\ \E call \in CallSet : call.claimID = NewType /\ calls' = Append(calls, call)

\* A mint whose shares are handed out after the callback.
Splits(t, values) ==
  /\ t \in TypeIDs /\ values \in Seq(0..MaxUint) /\ Len(values) >= 2
  /\ creators[t] \in Accounts /\ <<t, maxIndex[t]>> \in TokenIDs
  /\ Unfinished(t)
  /\ SplitTokenUnits(creators[t], creators[t], <<t, maxIndex[t]>>, values)
  /\ Len(calls') = Len(calls)
  /\ \A i \in DOMAIN calls : calls'[i].claimID = calls[i].claimID
  /\ calls' \in Seq(CallSet)

\* The innermost mint, of type t, stores its policy and is done.
Stores(t, r) ==
  /\ t \in TypeIDs /\ r \in TransferRestrictions /\ Unfinished(t)
  /\ typeRestrictions' = [typeRestrictions EXCEPT ![t] = r]
  /\ calls' \in Seq(CallSet)
  /\ Len(calls') < Len(calls)
  /\ \A i \in DOMAIN calls' : calls'[i] = calls[i]
  /\ UNCHANGED <<typeCounter, creators, tokenVars, allowlistVars, adminVars,
                 operatorApprovals>>

LEMMA WholeCall ==
  ASSUME TypeOK, NEW s \in Accounts, NEW units \in Nat, NEW fractions,
         NEW r \in TransferRestrictions,
         fractions \in {q \in Seq(0..MaxUint) : q # <<>> => Len(q) >= 2},
         CallReceiver(s, units, fractions, r), units <= MaxUint
  PROVE  \E items \in Seq(ItemSet), policy \in TransferRestrictions :
           StartsWaiting(s, units, items, policy)
<1> DEFINE items == <<Item(NewType, units)>>
           policy == typeRestrictions[NewType]
<1>1. NewType \in TypeIDs /\ units \in 0..MaxUint
  BY MinterAssumption DEF CallReceiver
<1>2. items \in Seq(ItemSet)
      /\ \A t : UnitsFor(items, t) = IF t = NewType THEN units ELSE 0
  BY <1>1, WholeClaim
<1>3. policy \in TransferRestrictions
  BY <1>1 DEF TypeOK
<1>4. MintNewType(s, units, items, policy)
  BY DEF CallReceiver, MintClaim
<1>5. Call(NewType, fractions, r) \in CallSet
  BY <1>1 DEF Call, CallSet
<1>6. /\ Call(NewType, fractions, r).claimID = NewType
      /\ calls' = Append(calls, Call(NewType, fractions, r))
  BY DEF Call, CallReceiver
<1> HIDE DEF items, policy
<1> QED BY <1>2, <1>3, <1>4, <1>5, <1>6 DEF StartsWaiting

\* The mint whose callback returns first.
LEMMA InnermostFacts ==
  ASSUME CallsOK, calls # <<>>
  PROVE  /\ Len(calls) \in DOMAIN calls
         /\ Innermost \in CallSet
         /\ Unfinished(Innermost.claimID)
         /\ Outer \in Seq(CallSet) /\ Len(Outer) = Len(calls) - 1
         /\ \A i \in DOMAIN Outer : Outer[i] = calls[i]
<1>1. Len(calls) \in Nat \ {0} /\ DOMAIN calls = 1..Len(calls)
  BY EmptySeq, LenProperties DEF CallsOK
<1>2. Innermost \in CallSet
  BY <1>1, ElementOfSeq DEF CallsOK, Innermost
<1>3. /\ Outer \in Seq(CallSet) /\ Len(Outer) = Len(calls) - 1
      /\ \A i \in DOMAIN Outer : Outer[i] = calls[i]
  BY <1>1 DEF CallsOK, Outer
<1> QED BY <1>1, <1>2, <1>3 DEF Unfinished, Innermost

\* What is left of a mint with fractions is a split.
LEMMA ReturnSplits ==
  ASSUME TypeOK, CallsOK, ReturnToSplit
  PROVE  Splits(Innermost.claimID, Innermost.fractions)
<1> DEFINE t == Innermost.claimID
           values == Innermost.fractions
           settled == [Innermost EXCEPT !.fractions = <<>>]
<1>1. calls # <<>> /\ values # <<>>
  BY DEF ReturnToSplit
<1>2. /\ t \in TypeIDs /\ values \in Seq(0..MaxUint) /\ Len(values) >= 2
      /\ Unfinished(t)
  BY <1>1, InnermostFacts DEF CallSet
<1>3. creators[t] \in Accounts
  BY <1>1, InnermostFacts DEF CallsOK, Innermost
<1>4. <<t, maxIndex[t]>> \in TokenIDs
  BY <1>2 DEF TypeOK, TokenIDs
<1>5. settled \in CallSet /\ settled.claimID = t
  <2>1. <<>> \in {q \in Seq(0..MaxUint) : q # <<>> => Len(q) >= 2}
    OBVIOUS
  <2> QED BY <1>1, InnermostFacts, <2>1 DEF CallSet
<1>6. calls' = Append(Outer, settled)
  BY DEF ReturnToSplit
<1>7. /\ Outer \in Seq(CallSet) /\ Len(Outer) = Len(calls) - 1
      /\ \A i \in DOMAIN Outer : Outer[i] = calls[i]
      /\ Len(calls) \in Nat /\ Len(Outer) \in Nat
      /\ DOMAIN Outer = 1..Len(Outer) /\ DOMAIN calls = 1..Len(calls)
  BY <1>1, InnermostFacts, LenProperties DEF CallsOK
<1>8. /\ calls' \in Seq(CallSet) /\ Len(calls') = Len(calls)
      /\ calls'[Len(calls)] = settled
      /\ \A i \in 1..Len(Outer) : calls'[i] = Outer[i]
  <2> HIDE DEF settled
  <2> QED BY <1>5, <1>6, <1>7, AppendProperties
<1>9. \A i \in DOMAIN calls : calls'[i].claimID = calls[i].claimID
  <2> TAKE i \in DOMAIN calls
  <2>1. CASE i = Len(calls)
    BY <1>5, <1>8, <2>1 DEF Innermost
  <2>2. CASE i # Len(calls)
    BY <1>7, <1>8, <2>2
  <2> QED BY <2>1, <2>2
<1>10. SplitTokenUnits(creators[t], creators[t], <<t, maxIndex[t]>>, values)
  BY DEF ReturnToSplit
<1> QED BY <1>2, <1>3, <1>4, <1>8, <1>9, <1>10 DEF Splits

\* Every step is a transaction's or one of the three that a callback splits a
\* mint into.
LEMMA ReentrantCases ==
  ASSUME TypeOK, CallsOK, ReentrantNext
  PROVE  \/ \E s \in Accounts : NextBy(s) /\ UNCHANGED calls
         \/ \E s \in Accounts, units \in 0..MaxUint, items \in Seq(ItemSet),
               r \in TransferRestrictions : StartsWaiting(s, units, items, r)
         \/ \E t, values : Splits(t, values)
         \/ \E t, r : Stores(t, r)
<1> USE MinterAssumption, ReentrantAssumption
<1>1. ASSUME NEW s \in Contracts, NEW r \in Policies, NEW units \in 0..MaxUint,
             CallMintClaim(s, units, r)
      PROVE  \E items \in Seq(ItemSet), policy \in TransferRestrictions :
               StartsWaiting(s, units, items, policy)
  <2>1. <<>> \in {q \in Seq(0..MaxUint) : q # <<>> => Len(q) >= 2}
    OBVIOUS
  <2>2. CallReceiver(s, units, <<>>, r) /\ units \in Nat /\ units <= MaxUint
    BY <1>1 DEF CallMintClaim
  <2> QED BY <2>1, <2>2, WholeCall
<1>2. ASSUME NEW s \in Contracts, NEW r \in Policies,
             NEW fractions \in SeqsBetween(0..MaxUint, 2, FractionLimit),
             CallMintClaimWithFractions(s, fractions, r)
      PROVE  \E units \in 0..MaxUint, items \in Seq(ItemSet),
                policy \in TransferRestrictions : StartsWaiting(s, units, items, policy)
  <2>1. /\ fractions \in Seq(0..MaxUint) /\ Len(fractions) >= 2
        /\ DOMAIN fractions = 1..Len(fractions)
    BY SeqsBetweenType
  <2>2. SumOf(fractions) \in Nat /\ SumOf(fractions) <= MaxUint
    BY <1>2, <2>1, ValuesOfSeqSummable, TotalIsNat
       DEF CallMintClaimWithFractions, ValidSum, SumOf
  <2>3. CallReceiver(s, SumOf(fractions), fractions, r)
    BY <1>2 DEF CallMintClaimWithFractions
  <2>4. SumOf(fractions) \in 0..MaxUint
    BY <2>2
  <2>5. fractions \in {q \in Seq(0..MaxUint) : q # <<>> => Len(q) >= 2}
    BY <2>1
  <2>6. \E items \in Seq(ItemSet), policy \in TransferRestrictions :
          StartsWaiting(s, SumOf(fractions), items, policy)
    BY <2>2, <2>3, <2>5, WholeCall
  <2> QED BY <2>4, <2>6
<1>3. ASSUME ReturnToStore
      PROVE  Stores(Innermost.claimID, Innermost.restrictions)
  <2>1. Innermost.claimID \in TypeIDs /\ Innermost.restrictions \in TransferRestrictions
    BY <1>3, InnermostFacts DEF ReturnToStore, CallSet
  <2>2. Len(calls) \in Nat
    BY LenProperties DEF CallsOK
  <2> QED BY <1>3, <2>1, <2>2, InnermostFacts DEF ReturnToStore, StoredFor, Stores
<1> QED BY <1>1, <1>2, <1>3, ReturnSplits DEF ReentrantNext

-----------------------------------------------------------------------------
(* The invariant: that of the contract, and that a waiting mint knows its  *)
(* type and account                                                        *)

ReentrantInv == UnitsInv /\ AllowlistInv /\ CallsOK

\* Each kind of step does to balances one of the three things that transactions
\* do.
LEMMA ReentrantTokens ==
  ASSUME HolderInv, CallsOK, ReentrantNext
  PROVE  HolderInv' /\ (Mints \/ Shrinks \/ Moves)
<1>1. TypeOK
  BY DEF HolderInv
<1>2. ASSUME NEW s \in Accounts, NextBy(s)
      PROVE  TypeOK' /\ (Mints \/ Shrinks \/ Moves)
  BY <1>1, <1>2, StepType, BalanceSteps
<1>3. ASSUME NEW s \in Accounts, NEW units \in 0..MaxUint, NEW items \in Seq(ItemSet),
             NEW r \in TransferRestrictions, StartsWaiting(s, units, items, r)
      PROVE  TypeOK' /\ Mints
  <2>1. MintNewType(s, units, items, r)
    BY <1>3 DEF StartsWaiting
  <2> QED BY <1>1, <2>1, MintNewTypeType DEF MintNewType, Mints
<1>4. ASSUME NEW t, NEW values, Splits(t, values)
      PROVE  TypeOK' /\ Mints
  <2> DEFINE account == creators[t]
             id == <<t, maxIndex[t]>>
  <2>1. /\ account \in Accounts /\ id \in TokenIDs
        /\ values \in Seq(0..MaxUint) /\ Len(values) >= 2
        /\ SplitTokenUnits(account, account, id, values)
    BY <1>4 DEF Splits
  <2> HIDE DEF account, id
  <2>2. NewShares(getBaseType(id), values) \in Seq(ItemSet)
    BY <2>1, NewSharesType DEF TokenIDs, getBaseType
  <2> QED BY <1>1, <2>1, <2>2, SplitType DEF SplitTokenUnits, Mints
<1>5. ASSUME NEW t, NEW r, Stores(t, r)
      PROVE  TypeOK' /\ Shrinks
  <2>1. TypeOK'
    BY <1>1, <1>5 DEF Stores, TypeOK, tokenVars, allowlistVars, adminVars
  <2>2. UNCHANGED <<maxIndex, issued, balances>>
    BY <1>5 DEF Stores, tokenVars
  <2>3. Deployer \in Accounts
    BY MinterAssumption
  <2>4. \A id \in TokenIDs, a \in Accounts : balances[id][a] \in Nat
    BY <1>1 DEF TypeOK
  <2>5. \A id \in TokenIDs, a \in Accounts : balances'[id][a] <= balances[id][a]
    BY <2>2, <2>4
  <2> QED BY <2>1, <2>2, <2>3, <2>5 DEF Shrinks
<1> QED BY <1>1, <1>2, <1>3, <1>4, <1>5, ReentrantCases, HolderInvKept

LEMMA ReentrantBacked ==
  ASSUME HolderInv, CallsOK, ReentrantNext, NEW t \in TypeIDs
  PROVE  GrowthBacked(t)
<1>1. TypeOK /\ TypeOK'
  BY ReentrantTokens DEF HolderInv
<1>2. ASSUME NEW s \in Accounts, NEW units \in 0..MaxUint, NEW items \in Seq(ItemSet),
             NEW r \in TransferRestrictions, StartsWaiting(s, units, items, r)
      PROVE  GrowthBacked(t)
  BY <1>1, <1>2, NewTypeBacked DEF StartsWaiting
<1>3. ASSUME NEW u, NEW values, Splits(u, values)
      PROVE  GrowthBacked(t)
  BY <1>1, <1>3, SplitBacked DEF Splits
<1>4. ASSUME NEW u, NEW r, Stores(u, r)
      PROVE  GrowthBacked(t)
  <2>1. issued' = issued /\ Circulating(t)' = Circulating(t)
    BY <1>4 DEF Stores, tokenVars, Circulating
  <2> QED BY <1>1, <2>1, UnitsAreNat DEF GrowthBacked
<1> QED BY <1>1, <1>2, <1>3, <1>4, ReentrantCases, StepIsBacked

LEMMA ReentrantAllowlists ==
  ASSUME AllowlistInv, HolderInv, CallsOK, ReentrantNext
  PROVE  AllowlistInv'
<1>1. TypeOK /\ TypeOK'
  BY ReentrantTokens DEF HolderInv
<1>2. ASSUME NEW s \in Accounts, NEW units \in 0..MaxUint, NEW items \in Seq(ItemSet),
             NEW r \in TransferRestrictions, StartsWaiting(s, units, items, r)
      PROVE  AllowlistInv'
  BY <1>1, <1>2, NewTypeUnlisted DEF StartsWaiting
<1>3. ASSUME NEW t, NEW values, Splits(t, values)
      PROVE  AllowlistInv'
  BY <1>1, <1>3, ClaimsUntouched DEF Splits, SplitTokenUnits, typeVars
<1>4. ASSUME NEW t, NEW r, Stores(t, r)
      PROVE  AllowlistInv'
  BY <1>1, <1>4, ClaimsUntouched DEF Stores, tokenVars
<1> QED BY <1>1, <1>2, <1>3, <1>4, ReentrantCases, AllowlistStep

\* Mints that wait keep waiting for the same type and account, until they store
\* its policy.
LEMMA ReentrantCalls ==
  ASSUME TypeOK, CallsOK, ReentrantNext
  PROVE  CallsOK'
<1>1. /\ DOMAIN calls = 1..Len(calls) /\ Len(calls) \in Nat
      /\ \A i \in DOMAIN calls : calls[i] \in CallSet
  BY LenProperties, ElementOfSeq DEF CallsOK
<1>2. \A i \in DOMAIN calls : calls[i].claimID \in TypeIDs
  BY <1>1 DEF CallSet
<1>3. ASSUME NEW s \in Accounts, NextBy(s), UNCHANGED calls
      PROVE  CallsOK'
  <2>1. \A t \in TypeIDs : Created(t) => Created(t)' /\ creators'[t] = creators[t]
    BY <1>3, CreatedStep DEF Fixed
  <2> QED BY <1>2, <1>3, <2>1 DEF CallsOK
<1>4. ASSUME NEW s \in Accounts, NEW units \in 0..MaxUint, NEW items \in Seq(ItemSet),
             NEW r \in TransferRestrictions, StartsWaiting(s, units, items, r)
      PROVE  CallsOK'
  <2>1. CreateType(s, r) /\ NewType \in TypeIDs
    BY <1>4 DEF StartsWaiting, MintNewType, CreateType
  <2>2. NewType <= typeCounter' /\ creators'[NewType] = s
    <3>1. typeCounter \in Nat /\ typeCounter' = NewType
      BY <2>1, MinterAssumption DEF CreateType, TypeOK
    <3> QED BY <2>1, <3>1 DEF CreateType, NewType, TypeOK
  <2>3. \A t \in TypeIDs : Created(t) => Created(t)' /\ creators'[t] = creators[t]
    BY <2>1, CreateTypeFixes
  <2>4. PICK call \in CallSet : call.claimID = NewType /\ calls' = Append(calls, call)
    BY <1>4 DEF StartsWaiting
  <2>5. /\ calls' \in Seq(CallSet) /\ Len(calls') = Len(calls) + 1
        /\ calls'[Len(calls) + 1] = call
        /\ \A i \in 1..Len(calls) : calls'[i] = calls[i]
    BY <2>4, AppendProperties DEF CallsOK
  <2>6. DOMAIN calls' = 1..(Len(calls) + 1)
    BY <2>5, LenProperties
  <2>7. ASSUME NEW i \in DOMAIN calls'
        PROVE  /\ calls'[i].claimID <= typeCounter'
               /\ creators'[calls'[i].claimID] \in Accounts
    <3>1. CASE i = Len(calls) + 1
      BY <2>2, <2>4, <2>5, <3>1
    <3>2. CASE i # Len(calls) + 1
      <4>1. i \in DOMAIN calls /\ calls'[i] = calls[i]
        BY <1>1, <2>5, <2>6, <3>2
      <4> QED BY <1>2, <2>3, <4>1 DEF CallsOK, Created
    <3> QED BY <3>1, <3>2
  <2> QED BY <2>5, <2>7 DEF CallsOK, Created
<1>5. ASSUME NEW t, NEW values, Splits(t, values)
      PROVE  CallsOK'
  <2>1. /\ calls' \in Seq(CallSet) /\ Len(calls') = Len(calls)
        /\ UNCHANGED <<typeCounter, creators>>
        /\ \A i \in DOMAIN calls : calls'[i].claimID = calls[i].claimID
    BY <1>5 DEF Splits, SplitTokenUnits, typeVars
  <2>2. DOMAIN calls' = DOMAIN calls
    BY <1>1, <2>1, LenProperties
  <2> QED BY <2>1, <2>2 DEF CallsOK, Created
<1>6. ASSUME NEW t, NEW r, Stores(t, r)
      PROVE  CallsOK'
  <2>1. /\ calls' \in Seq(CallSet) /\ Len(calls') < Len(calls)
        /\ UNCHANGED <<typeCounter, creators>>
        /\ \A i \in DOMAIN calls' : calls'[i] = calls[i]
    BY <1>6 DEF Stores
  <2>2. DOMAIN calls' \subseteq DOMAIN calls
    BY <1>1, <2>1, LenProperties
  <2> QED BY <2>1, <2>2 DEF CallsOK, Created
<1> QED BY <1>3, <1>4, <1>5, <1>6, ReentrantCases

\* No step, of a transaction or of a mint that goes on after a callback, breaks it.
LEMMA ReentrantKeeps ==
  ASSUME ReentrantInv, ReentrantNext
  PROVE  ReentrantInv'
<1>1. UnitsInv /\ HolderInv /\ TypeOK /\ AllowlistInv /\ CallsOK
  BY DEF ReentrantInv, UnitsInv, HolderInv
<1>2. HolderInv' /\ \A t \in TypeIDs : GrowthBacked(t)
  BY <1>1, ReentrantTokens, ReentrantBacked
<1> QED BY <1>1, <1>2, UnitsKept, ReentrantAllowlists, ReentrantCalls DEF ReentrantInv

\* However calls are nested in the callbacks of mints, the units, tokens and
\* allowlists of the contract stay in order, and a waiting mint knows its type.
THEOREM ReentrantInvariant == ReentrantSpec => []ReentrantInv
<1>1. ReentrantInit => ReentrantInv
  <2>1. ReentrantInit => CallsOK
    BY DEF ReentrantInit, CallsOK
  <2> QED BY <2>1, UnitsInit, AllowlistInit DEF ReentrantInit, ReentrantInv
<1>2. ReentrantInv /\ [ReentrantNext]_reentrantVars => ReentrantInv'
  <2>1. ASSUME ReentrantInv, ReentrantNext
        PROVE  ReentrantInv'
    BY <2>1, ReentrantKeeps
  <2>2. ASSUME ReentrantInv, UNCHANGED reentrantVars
        PROVE  ReentrantInv'
    <3> USE <2>2 DEF ReentrantInv, reentrantVars, vars
    <3>1. UnitsInv'
      BY DEF UnitsInv, UnitsBacked, Circulating, HolderInv, TypeOK, SingleHolder,
             OnlyMintedHeld, Held, Holds, Minted, typeVars, tokenVars,
             allowlistVars, adminVars
    <3>2. AllowlistInv'
      BY <3>1, ClaimsUntouched DEF UnitsInv, HolderInv, typeVars, tokenVars
    <3>3. CallsOK'
      BY DEF CallsOK, Created, typeVars
    <3> QED BY <3>1, <3>2, <3>3
  <2> QED BY <2>1, <2>2
<1> QED BY <1>1, <1>2, PTL DEF ReentrantSpec
-----------------------------------------------------------------------------
\* Amounts and indices keep their widths between a callback and its return.
THEOREM TypeCorrectInside == ReentrantSpec => []TypeOK
BY ReentrantInvariant, PTL DEF ReentrantInv, UnitsInv, HolderInv

\* No receiver gets units that were not issued, however it nests its calls.
THEOREM UnitsNeverMadeInside == ReentrantSpec => []UnitsBacked
BY ReentrantInvariant, PTL DEF ReentrantInv, UnitsInv

\* Nor a second token of an ID, or a token another account holds.
THEOREM HeldByOneInside == ReentrantSpec => []SingleHolder
BY ReentrantInvariant, PTL DEF ReentrantInv, UnitsInv, HolderInv

\* Nor a token that is not minted yet: an ID is minted before its receiver is
\* called.
THEOREM HeldOnceMintedInside == ReentrantSpec => []OnlyMintedHeld
BY ReentrantInvariant, PTL DEF ReentrantInv, UnitsInv, HolderInv

\* An allowlist hands out its claimed leaves, each once, whoever receives them.
THEOREM LeavesIssuedOnceInside == ReentrantSpec => []IssuedIsClaimed
BY ReentrantInvariant, PTL DEF ReentrantInv, AllowlistInv

\* Only its own leaves are claimed.
THEOREM ClaimsAreListedInside == ReentrantSpec => []ClaimsListed
BY ReentrantInvariant, PTL DEF ReentrantInv, AllowlistInv

\* With callbacks too, the contract implements the ledger: a mint in progress
\* is several of its steps.
THEOREM ReentrantImplementsLedger == ReentrantSpec => ImplementsLedger
<1>1. ReentrantInit => Ledger!Init
  BY InitInLedger DEF ReentrantInit
<1>2. ReentrantInv /\ [ReentrantNext]_reentrantVars
        => [Ledger!Next]_<<holder, issued, circulating>>
  <2>1. ASSUME ReentrantInv, ReentrantNext
        PROVE  Ledger!Next \/ UNCHANGED <<holder, issued, circulating>>
    <3>1. HolderInv /\ TypeOK /\ CallsOK
      BY <2>1 DEF ReentrantInv, UnitsInv, HolderInv
    <3>2. HolderInv' /\ \A t \in TypeIDs : GrowthBacked(t)
      BY <2>1, <3>1, ReentrantTokens, ReentrantBacked
    <3>3. Ledger!Backed
      BY <3>2 DEF Ledger!Backed, GrowthBacked, circulating
    <3>4. ASSUME Mints
          PROVE  Ledger!Next
      BY <3>1, <3>2, <3>3, <3>4, MintStepInLedger
    <3>5. ASSUME NEW s \in Accounts, NEW units \in 0..MaxUint,
                 NEW items \in Seq(ItemSet), NEW r \in TransferRestrictions,
                 StartsWaiting(s, units, items, r)
          PROVE  Ledger!Next
      BY <3>4, <3>5 DEF StartsWaiting, MintNewType, Mints
    <3>6. ASSUME NEW t, NEW values, Splits(t, values)
          PROVE  Ledger!Next
      <4>1. NewShares(t, values) \in Seq(ItemSet)
        BY <3>6, NewSharesType DEF Splits
      <4> QED BY <3>4, <3>6, <4>1 DEF Splits, SplitTokenUnits, getBaseType, Mints
    <3>7. ASSUME NEW t, NEW r, Stores(t, r)
          PROVE  UNCHANGED <<holder, issued, circulating>>
      BY <3>7 DEF Stores, tokenVars, holder, circulating, Circulating, Held, Holds,
                  Minted
    <3> QED BY <2>1, <3>1, <3>5, <3>6, <3>7, StepInLedger, ReentrantCases
  <2>2. UNCHANGED reentrantVars => UNCHANGED <<holder, issued, circulating>>
    BY DEF reentrantVars, vars, typeVars, tokenVars, holder, circulating,
           Circulating, Held, Holds, Minted
  <2> QED BY <2>1, <2>2
<1> QED BY <1>1, <1>2, ReentrantInvariant, PTL DEF ReentrantSpec, Ledger!Spec, ImplementsLedger

-----------------------------------------------------------------------------
(* What a step may do                                                      *)

\* A token that passes from a to b within one step was sent by a transfer.
THEOREM PolicyIsObeyedInside == ReentrantSpec => PolicyObeyed
<1> DEFINE Obeyed ==
      \A id \in TokenIDs : \A a, b \in Accounts :
        (a # b /\ Holds(a, id) /\ Holds(b, id)') =>
          LET t == getBaseType(id)
          IN  \/ typeRestrictions[t] = "AllowAll"
              \/ typeRestrictions[t] = "FromCreatorOnly" /\ a = creators[t]
<1>1. ASSUME ReentrantInv, ReentrantNext, NEW id \in TokenIDs,
             NEW a \in Accounts, NEW b \in Accounts,
             a # b, Holds(a, id), Holds(b, id)'
      PROVE  LET t == getBaseType(id)
             IN  \/ typeRestrictions[t] = "AllowAll"
                 \/ typeRestrictions[t] = "FromCreatorOnly" /\ a = creators[t]
  <2>1. HolderInv /\ TypeOK /\ CallsOK /\ HolderInv'
    BY <1>1, ReentrantTokens DEF ReentrantInv, UnitsInv, HolderInv
  <2>2. ~Holds(b, id)
    BY <1>1, <2>1 DEF HolderInv, SingleHolder
  <2>3. ASSUME NEW account \in Accounts, NEW items \in Seq(ItemSet),
               MintTo(account, items)
        PROVE  FALSE
    BY <1>1, <2>1, <2>2, <2>3, MintTouchesFresh DEF Holds
  <2>4. ASSUME NEW s \in Accounts, NEW units \in 0..MaxUint,
               NEW items \in Seq(ItemSet), NEW r \in TransferRestrictions,
               StartsWaiting(s, units, items, r)
        PROVE  FALSE
    BY <2>3, <2>4 DEF StartsWaiting, MintNewType
  <2>5. ASSUME NEW t, NEW values, Splits(t, values)
        PROVE  FALSE
    <3>1. NewShares(t, values) \in Seq(ItemSet)
      BY <2>5, NewSharesType DEF Splits
    <3> QED BY <2>3, <2>5, <3>1 DEF Splits, SplitTokenUnits, getBaseType
  <2>6. ASSUME NEW t, NEW r, Stores(t, r)
        PROVE  FALSE
    BY <1>1, <2>2, <2>6 DEF Stores, tokenVars, Holds
  <2>7. PICK s \in Accounts : NextBy(s)
    BY <1>1, <2>1, <2>4, <2>5, <2>6, ReentrantCases
  <2>8. TransferAllowed(a, getBaseType(id))
    BY <1>1, <2>1, <2>7, PassedByTransfer
  <2>9. typeRestrictions[getBaseType(id)] \in TransferRestrictions
    BY <2>1 DEF TypeOK, TokenIDs, getBaseType
  <2> QED BY <2>8, <2>9 DEF TransferAllowed, TransferRestrictions
<1>2. ReentrantInv /\ [ReentrantNext]_reentrantVars => [Obeyed]_vars
  BY <1>1 DEF reentrantVars
<1> QED BY <1>2, ReentrantInvariant, PTL DEF ReentrantSpec, PolicyObeyed

\* Once minted, a type keeps its creator and its policy.
THEOREM FinishedStaysFixed == ReentrantSpec => FinishedIsFixed
<1> DEFINE Keeps(t) == /\ Finished(t)'
                       /\ creators'[t] = creators[t]
                       /\ typeRestrictions'[t] = typeRestrictions[t]
<1>1. ASSUME ReentrantInv, ReentrantNext, NEW t \in TypeIDs, Finished(t)
      PROVE  Keeps(t)
  <2>1. TypeOK /\ CallsOK /\ Created(t) /\ ~Unfinished(t)
    BY <1>1 DEF ReentrantInv, UnitsInv, HolderInv, Finished
  <2>2. DOMAIN calls = 1..Len(calls) /\ Len(calls) \in Nat
    BY <2>1, LenProperties DEF CallsOK
  <2>3. ASSUME NEW s \in Accounts, NextBy(s), UNCHANGED calls
        PROVE  Keeps(t)
    BY <2>1, <2>3, CreatedStep DEF Fixed, Finished, Unfinished
  <2>4. ASSUME NEW s \in Accounts, NEW units \in 0..MaxUint,
               NEW items \in Seq(ItemSet), NEW r \in TransferRestrictions,
               StartsWaiting(s, units, items, r)
        PROVE  Keeps(t)
    <3>1. /\ t # NewType /\ Created(t)'
          /\ creators'[t] = creators[t]
          /\ typeRestrictions'[t] = typeRestrictions[t]
      BY <2>1, <2>4, CreateTypeFixes DEF StartsWaiting, MintNewType
    <3>2. PICK call \in CallSet : call.claimID = NewType /\ calls' = Append(calls, call)
      BY <2>4 DEF StartsWaiting
    <3>3. /\ calls' \in Seq(CallSet) /\ Len(calls') = Len(calls) + 1
          /\ calls'[Len(calls) + 1] = call
          /\ \A i \in 1..Len(calls) : calls'[i] = calls[i]
      BY <2>1, <3>2, AppendProperties DEF CallsOK
    <3>4. DOMAIN calls' = 1..(Len(calls) + 1)
      BY <3>3, LenProperties
    <3>5. ASSUME NEW i \in DOMAIN calls'
          PROVE  calls'[i].claimID # t
      <4>1. CASE i = Len(calls) + 1
        BY <3>1, <3>2, <3>3, <4>1
      <4>2. CASE i # Len(calls) + 1
        BY <2>1, <2>2, <3>3, <3>4, <4>2 DEF Unfinished
      <4> QED BY <4>1, <4>2
    <3> QED BY <3>1, <3>5 DEF Finished, Unfinished
  <2>5. ASSUME NEW u, NEW values, Splits(u, values)
        PROVE  Keeps(t)
    <3>1. /\ UNCHANGED <<typeCounter, creators, typeRestrictions>>
          /\ Len(calls') = Len(calls) /\ calls' \in Seq(CallSet)
          /\ \A i \in DOMAIN calls : calls'[i].claimID = calls[i].claimID
      BY <2>5 DEF Splits, SplitTokenUnits, typeVars
    <3>2. DOMAIN calls' = DOMAIN calls
      BY <2>2, <3>1, LenProperties
    <3> QED BY <2>1, <3>1, <3>2 DEF Finished, Unfinished, Created
  <2>6. ASSUME NEW u, NEW r, Stores(u, r)
        PROVE  Keeps(t)
    <3>1. /\ u # t /\ UNCHANGED <<typeCounter, creators>>
          /\ typeRestrictions' = [typeRestrictions EXCEPT ![u] = r]
          /\ Len(calls') < Len(calls) /\ calls' \in Seq(CallSet)
          /\ \A i \in DOMAIN calls' : calls'[i] = calls[i]
      BY <2>1, <2>6 DEF Stores
    <3>2. DOMAIN calls' \subseteq DOMAIN calls
      BY <2>2, <3>1, LenProperties
    <3>3. typeRestrictions'[t] = typeRestrictions[t]
      BY <2>1, <3>1 DEF TypeOK
    <3> QED BY <2>1, <3>1, <3>2, <3>3 DEF Finished, Unfinished, Created
  <2> HIDE DEF Keeps
  <2> QED BY <1>1, <2>1, <2>3, <2>4, <2>5, <2>6, ReentrantCases
<1>2. ReentrantInv /\ [ReentrantNext]_reentrantVars
        => [\A t \in TypeIDs : Finished(t) => Keeps(t)]_reentrantVars
  BY <1>1
<1> QED BY <1>2, ReentrantInvariant, PTL DEF ReentrantSpec, FinishedIsFixed

\* While paused, only a mint that was already under way goes on.
THEOREM OnlyUnfinishedGrowth == ReentrantSpec => OnlyUnfinishedGrow
<1> DEFINE Stands(t) ==
             /\ maxIndex'[t] = maxIndex[t]
             /\ typeRestrictions'[t] = typeRestrictions[t]
             /\ \A id \in FractionIDs(t) : tokenValues'[id] = tokenValues[id]
           Waits == /\ UNCHANGED <<typeCounter, creators, allowlistVars>>
                    /\ \A t \in TypeIDs : ~Unfinished(t) => Stands(t)
<1>1. ASSUME ReentrantInv, ReentrantNext, paused
      PROVE  Waits
  <2>1. TypeOK /\ CallsOK
    BY <1>1 DEF ReentrantInv, UnitsInv, HolderInv
  <2>2. ASSUME NEW s \in Accounts, NextBy(s)
        PROVE  Waits
    BY <1>1, <2>2, FrozenStep DEF typeVars
  <2>3. ASSUME NEW s \in Accounts, NEW units \in 0..MaxUint,
               NEW items \in Seq(ItemSet), NEW r \in TransferRestrictions,
               StartsWaiting(s, units, items, r)
        PROVE  FALSE
    BY <1>1, <2>3 DEF StartsWaiting, MintNewType
  <2>4. ASSUME NEW u, NEW values, Splits(u, values)
        PROVE  Waits
    <3> DEFINE items == NewShares(u, values)
               id == <<u, maxIndex[u]>>
               n == Len(values) - 1
    <3>1. /\ MintTo(creators[u], items)
          /\ tokenValues' = [MintedValues(items) EXCEPT ![id] = values[1]]
          /\ UNCHANGED <<typeVars, allowlistVars>>
      BY <2>4 DEF Splits, SplitTokenUnits, getBaseType
    <3>2. /\ u \in TypeIDs /\ values \in Seq(0..MaxUint) /\ Len(values) >= 2
          /\ Unfinished(u)
      BY <2>4 DEF Splits
    <3>3. /\ items \in Seq(ItemSet) /\ Len(items) = n
          /\ DOMAIN items = 1..n
          /\ \A i \in 1..n : items[i].typeID = u
      BY <3>2, NewSharesType, LenProperties DEF NewShares, Item
    <3>4. ASSUME NEW t \in TypeIDs, ~Unfinished(t)
          PROVE  Stands(t)
      <4>1. t # u
        BY <3>2, <3>4
      <4>2. CountOf(items, t, Len(items)) = 0
        <5>1. {i \in 1..Len(items) : items[i].typeID = t} = {}
          BY <3>3, <4>1
        <5> QED BY <5>1, FS_EmptySet DEF CountOf
      <4>3. maxIndex'[t] = maxIndex[t]
        BY <2>1, <3>1, <4>2, MinterAssumption DEF MintTo, TypeOK
      <4>4. ASSUME NEW x \in FractionIDs(t)
            PROVE  tokenValues'[x] = tokenValues[x]
        <5>1. x \in TokenIDs /\ x[1] = t
          BY TokenIDsFinite DEF FractionIDs
        <5>2. x # id /\ x \notin NewIDs(items)
          BY <3>3, <4>1, <5>1 DEF NewIDs, ItemID
        <5> HIDE DEF items, id
        <5> QED BY <3>1, <5>1, <5>2 DEF MintedValues
      <4>5. typeRestrictions'[t] = typeRestrictions[t]
        BY <3>1 DEF typeVars
      <4> QED BY <4>3, <4>4, <4>5
    <3> HIDE DEF Stands
    <3> QED BY <3>1, <3>4 DEF typeVars
  <2>5. ASSUME NEW u, NEW r, Stores(u, r)
        PROVE  Waits
    BY <2>1, <2>5 DEF Stores, tokenVars, TypeOK
  <2> HIDE DEF Waits
  <2> QED BY <1>1, <2>1, <2>2, <2>3, <2>4, <2>5, ReentrantCases
<1>2. ReentrantInv /\ [ReentrantNext]_reentrantVars => [paused => Waits]_reentrantVars
  BY <1>1
<1> QED BY <1>2, ReentrantInvariant, PTL DEF ReentrantSpec, OnlyUnfinishedGrow
=============================================================================
