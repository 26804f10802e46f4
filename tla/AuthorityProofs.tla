--------------------------- MODULE AuthorityProofs ---------------------------
(***************************************************************************)
(* Who decides, for every instance of HypercertMinter and of the proxy it   *)
(* runs behind: who may take a token, and who may upgrade, pause and hand  *)
(* over the contract.                                                      *)
(***************************************************************************)
EXTENDS MinterProxy, UnitsProofs

\* The transactions that bring a token into being leave the balances of others
\* alone: a mint only ever adds.
LEMMA MintTakesNothing ==
  ASSUME TypeOK, NEW account \in Accounts, NEW items, MintTo(account, items),
         NEW id \in TokenIDs, NEW a \in Accounts
  PROVE  balances'[id][a] >= balances[id][a]
<1>1. balances[id] \in [Accounts -> Nat] /\ balances[id][a] \in Nat
  BY DEF TypeOK
<1>2. balances'[id] = IF id \in NewIDs(items)
                      THEN [balances[id] EXCEPT ![account] = @ + 1]
                      ELSE balances[id]
  BY DEF MintTo
<1> QED BY <1>1, <1>2

\* A transaction of s that takes a token from a was authorised by a.
LEMMA TakenByAuthorised ==
  ASSUME TypeOK, NEW s \in Accounts, NextBy(s), NEW id \in TokenIDs,
         NEW a \in Accounts, balances'[id][a] < balances[id][a]
  PROVE  Authorised(s, a)
<1>1. balances[id] \in [Accounts -> Nat] /\ balances[id][a] \in Nat
  BY DEF TypeOK
<1>2. ASSUME NEW account \in Accounts, NEW items, MintTo(account, items)
      PROVE  FALSE
  <2>1. balances'[id][a] >= balances[id][a]
    BY <1>2, MintTakesNothing
  <2>2. balances'[id][a] \in Nat
    BY StepType DEF TypeOK
  <2> QED BY <1>1, <2>1, <2>2
<1>3. ASSUME balances' = balances
      PROVE  FALSE
  BY <1>1, <1>3
<1>4. ASSUME NEW units \in 0..MaxUint, NEW r \in TransferRestrictions,
             NEW items \in Seq(ItemSet), MintNewType(s, units, items, r)
      PROVE  FALSE
  BY <1>2, <1>4 DEF MintNewType
<1>5. ASSUME NEW account \in Accounts \cup {NoAccount}, NEW units \in 0..MaxUint,
             NEW root \in SUBSET Leaves, NEW r \in TransferRestrictions,
             CreateAllowlist(account, units, root, r)
      PROVE  FALSE
  BY <1>3, <1>5 DEF CreateAllowlist
<1>6. ASSUME NEW account \in Accounts, NEW items \in Seq(ItemSet),
             BatchMintClaimsFromAllowlists(s, account, items)
      PROVE  FALSE
  BY <1>2, <1>6 DEF BatchMintClaimsFromAllowlists
<1>7. ASSUME NEW account \in Accounts, NEW id2 \in TokenIDs,
             NEW values \in Seq(0..MaxUint), Len(values) >= 2,
             SplitFraction(s, account, id2, values)
      PROVE  FALSE
  BY <1>2, <1>7 DEF SplitFraction, SplitTokenUnits
<1>8. ASSUME NEW account \in Accounts, NEW ids \in Seq(TokenIDs), Len(ids) >= 2,
             MergeFractions(s, account, ids)
      PROVE  Authorised(s, a)
  <2>1. a # account => balances'[id][a] = balances[id][a]
    BY <1>1, <1>8 DEF MergeFractions
  <2> QED BY <1>1, <1>8, <2>1 DEF MergeFractions
<1>9. ASSUME NEW account \in Accounts, NEW id2 \in TokenIDs,
             BurnFraction(s, account, id2)
      PROVE  Authorised(s, a)
  <2>1. a # account => balances'[id][a] = balances[id][a]
    BY <1>1, <1>9 DEF BurnFraction, TypeOK
  <2> QED BY <1>1, <1>9, <2>1 DEF BurnFraction
<1>10. ASSUME NEW from \in Accounts, NEW to \in Accounts, NEW batch \in Seq(Transfers),
              SafeBatchTransferFrom(s, from, to, batch)
       PROVE  Authorised(s, a)
  <2>1. balances'[id] = [balances[id] EXCEPT ![from] = @ - Moved(batch, id),
                                             ![to] = @ + Moved(batch, id)]
    BY <1>10 DEF SafeBatchTransferFrom
  <2>2. Moved(batch, id) \in Nat
    BY MovedType
  <2>3. a # from => balances'[id][a] >= balances[id][a]
    BY <1>1, <2>1, <2>2
  <2>4. balances'[id][a] \in Nat
    BY StepType DEF TypeOK
  <2>5. a = from
    BY <1>1, <2>3, <2>4
  <2> QED BY <1>10, <2>5 DEF SafeBatchTransferFrom
<1>11. ASSUME NEW from \in Accounts, NEW batch \in Seq(Transfers),
              SafeBatchTransferToSelf(s, from, batch)
       PROVE  FALSE
  BY <1>3, <1>11 DEF SafeBatchTransferToSelf
<1>12. ASSUME NEW account \in Accounts, NEW batch \in Seq(Transfers),
              BurnBatch(s, account, batch)
       PROVE  Authorised(s, a)
  <2>1. balances'[id] = [balances[id] EXCEPT ![account] = @ - Moved(batch, id)]
    BY <1>12 DEF BurnBatch
  <2>2. a # account => balances'[id][a] = balances[id][a]
    BY <1>1, <2>1
  <2> QED BY <1>1, <1>12, <2>2 DEF BurnBatch
<1>13. ASSUME NEW operator \in Accounts, NEW approved \in BOOLEAN,
              SetApprovalForAll(s, operator, approved)
       PROVE  FALSE
  BY <1>3, <1>13 DEF SetApprovalForAll, tokenVars
<1>14. ASSUME NEW value \in BOOLEAN, SetPaused(s, value)
       PROVE  FALSE
  BY <1>3, <1>14 DEF SetPaused, tokenVars
<1>15. ASSUME NEW newOwner \in Accounts \cup {NoAccount},
              TransferOwnership(s, newOwner)
       PROVE  FALSE
  BY <1>3, <1>15 DEF TransferOwnership, tokenVars
<1> QED BY StepCases, <1>4, <1>5, <1>6, <1>7, <1>8, <1>9, <1>10, <1>11, <1>12,
           <1>13, <1>14, <1>15

\* Nobody loses a token but by an account it authorised.
THEOREM TakenOnlyByAuthorised == Spec => OnlyAuthorisedTakes
<1> DEFINE Takes ==
      \A id \in TokenIDs, a \in Accounts : balances'[id][a] < balances[id][a] =>
        \A s \in Accounts : NextBy(s) => s = a \/ <<a, s>> \in operatorApprovals
<1>1. TypeOK => Takes
  BY TakenByAuthorised DEF Authorised
<1>2. TypeOK => [Takes]_vars
  BY <1>1
<1> QED BY <1>2, TypeCorrect, PTL DEF Spec, OnlyAuthorisedTakes

-----------------------------------------------------------------------------
(* The proxy                                                               *)

\* An account other than the owner leaves ownership and the pause alone.
LEMMA AdminOnly ==
  ASSUME NEW s \in Accounts, NextBy(s), s # owner
  PROVE  UNCHANGED <<owner, paused>>
<1> USE DEF adminVars
<1>1. ASSUME UNCHANGED adminVars
      PROVE  UNCHANGED <<owner, paused>>
  BY <1>1
<1>2. ~(\E value \in BOOLEAN : SetPaused(s, value))
  BY DEF SetPaused
<1>3. ~(\E newOwner \in Accounts \cup {NoAccount} : TransferOwnership(s, newOwner))
  BY DEF TransferOwnership
<1> QED BY StepCases, <1>1, <1>2, <1>3
        DEF MintNewType, CreateAllowlist, BatchMintClaimsFromAllowlists,
            SplitFraction, SplitTokenUnits, MergeFractions, BurnFraction,
            SafeBatchTransferFrom, SafeBatchTransferToSelf, BurnBatch,
            SetApprovalForAll

\* The storage is as the contract's invariants say, and initialize() was run in
\* the transaction that deployed the proxy: never before, and never again.
ProxyInv ==
  /\ ProxyTypeOK
  /\ HolderInv
  /\ Deployed <=> initialized = 1

\* Before the proxy is deployed nobody can call it.
LEMMA ProxyCases ==
  ASSUME ProxyInv, NEW s \in Accounts, ProxyBy(s)
  PROVE  \/ /\ ~Deployed /\ implementation' \in Versions /\ initialized' = 1
            /\ owner' = s /\ paused' = FALSE
            /\ UNCHANGED <<typeVars, tokenVars, allowlistVars, operatorApprovals>>
         \/ /\ Deployed /\ s = owner /\ implementation' \in Versions
            /\ UNCHANGED <<vars, initialized>>
         \/ Deployed /\ NextBy(s) /\ UNCHANGED <<implementation, initialized>>
<1> USE DEF ProxyInv, ProxyTypeOK, Deployed
<1>1. ASSUME Initialize(s)
      PROVE  /\ ~Deployed /\ implementation' \in Versions /\ initialized' = 1
             /\ owner' = s /\ paused' = FALSE
             /\ UNCHANGED <<typeVars, tokenVars, allowlistVars, operatorApprovals>>
  BY <1>1 DEF Initialize, NotInitialized, Construct
<1>2. ASSUME NEW i \in Versions \cup {Foreign}, UpgradeTo(s, i)
      PROVE  /\ Deployed /\ s = owner /\ implementation' \in Versions
             /\ UNCHANGED <<vars, initialized>>
  BY <1>2, ProxyAssumption DEF UpgradeTo, ProxiableUUID
<1> QED BY <1>1, <1>2 DEF ProxyBy

LEMMA ProxyStep ==
  ASSUME ProxyInv, NEW s \in Accounts, ProxyBy(s)
  PROVE  ProxyInv'
<1>1. CASE NextBy(s) /\ UNCHANGED <<implementation, initialized>>
  <2>1. HolderInv' /\ TypeOK'
    BY <1>1, HolderStep DEF ProxyInv, HolderInv
  <2> QED BY <1>1, <2>1 DEF ProxyInv, ProxyTypeOK, Deployed
<1>2. CASE /\ implementation' \in Versions /\ initialized' = 1
           /\ owner' \in Accounts \cup {NoAccount} /\ paused' \in BOOLEAN
           /\ UNCHANGED <<typeVars, tokenVars, allowlistVars, operatorApprovals>>
  <2>1. TypeOK'
    BY <1>2 DEF ProxyInv, ProxyTypeOK, TypeOK, typeVars, tokenVars, allowlistVars
  <2>2. HolderInv'
    BY <1>2, <2>1 DEF ProxyInv, HolderInv, SingleHolder, OnlyMintedHeld, Held, Holds,
                      Minted, tokenVars
  <2> QED BY <1>2, <2>1, <2>2, ProxyAssumption DEF ProxyInv, ProxyTypeOK, Deployed
<1>3. owner \in Accounts \cup {NoAccount} /\ paused \in BOOLEAN
  BY DEF ProxyInv, HolderInv, TypeOK
<1>4. Deployed <=> initialized = 1
  BY DEF ProxyInv
<1> QED BY <1>1, <1>2, <1>3, <1>4, ProxyCases DEF vars, adminVars

\* Whoever calls the proxy, and whatever it delegates to, its storage holds what the
\* contract's types say, and it is initialized from its deployment on.
THEOREM ProxyInvariant == ProxySpec => []ProxyInv
<1>1. ProxyInit => ProxyInv
  <2> SUFFICES ASSUME ProxyInit PROVE ProxyInv
    OBVIOUS
  <2>1. TypeOK
    <3> USE MinterAssumption DEF ProxyInit, InitialStorage
    <3>1. typeCounter \in 0..MaxTypes /\ owner \in Accounts \cup {NoAccount}
      OBVIOUS
    <3>2. /\ creators \in [TypeIDs -> Accounts \cup {NoAccount}]
          /\ typeRestrictions \in [TypeIDs -> TransferRestrictions]
          /\ maxIndex \in [TypeIDs -> 0..MaxItems]
          /\ tokenValues \in [TokenIDs -> 0..MaxUint]
          /\ owners \in [TokenIDs -> Accounts \cup {NoAccount}]
      BY DEF TransferRestrictions
    <3>3. balances \in [TokenIDs -> [Accounts -> Nat]]
      OBVIOUS
    <3>4. /\ merkleRoots \in [TypeIDs -> SUBSET Leaves]
          /\ hasBeenClaimed \in [TypeIDs -> SUBSET Leaves]
          /\ maxUnits \in [TypeIDs -> 0..MaxUint]
          /\ minted \in [TypeIDs -> 0..MaxUint]
          /\ issued \in [TypeIDs -> Nat]
      BY DEF NoRoot
    <3> QED BY <3>1, <3>2, <3>3, <3>4 DEF TypeOK
  <2>2. HolderInv
    BY <2>1 DEF ProxyInit, InitialStorage, HolderInv, SingleHolder, OnlyMintedHeld,
                Held, Holds
  <2> QED BY <2>1, <2>2 DEF ProxyInit, ProxyInv, ProxyTypeOK, Deployed
<1>2. ProxyInv /\ [ProxyNext]_proxyVars => ProxyInv'
  <2>1. ProxyInv /\ ProxyNext => ProxyInv'
    BY ProxyStep DEF ProxyNext
  <2>2. ProxyInv /\ UNCHANGED proxyVars => ProxyInv'
    BY DEF ProxyInv, ProxyTypeOK, Deployed, HolderInv, TypeOK, SingleHolder,
           OnlyMintedHeld, Held, Holds, Minted, proxyVars,
           vars, typeVars, tokenVars, allowlistVars, adminVars
  <2> QED BY <2>1, <2>2
<1> QED BY <1>1, <1>2, PTL DEF ProxySpec

\* The proxy's own slots and the storage behind it keep their types.
THEOREM ProxyTypeCorrect == ProxySpec => []ProxyTypeOK
BY ProxyInvariant, PTL DEF ProxyInv

\* Nobody but the owner upgrades, pauses or hands over the contract, whatever is
\* initialized, transferred or renounced before.
THEOREM OwnerAloneDecides == ProxySpec => OwnerDecides
<1> DEFINE Decides ==
      (/\ Deployed
       /\ <<owner, implementation, paused>>' # <<owner, implementation, paused>>) =>
         \A s \in Accounts : ProxyBy(s) => s = owner
<1>1. ProxyInv => Decides
  BY ProxyCases, AdminOnly
<1>2. ProxyInv /\ [ProxyNext]_proxyVars => [Decides]_proxyVars
  BY <1>1
<1> QED BY <1>2, ProxyInvariant, PTL DEF ProxySpec, OwnerDecides

\* Tokens given up before an upgrade do not come back after it.
THEOREM BurnedStaysBurnedBehindProxy == ProxySpec => BurnedForever
<1> DEFINE Stays == \A id \in TokenIDs : Minted(id) /\ ~Held(id) => ~Held(id)'
<1>1. ASSUME ProxyInv, NEW s \in Accounts, ProxyBy(s)
      PROVE  Stays
  <2>1. CASE NextBy(s)
    <3>1. HolderInv /\ TypeOK' /\ (Mints \/ Shrinks \/ Moves)
      BY <1>1, <2>1, StepType, BalanceSteps DEF ProxyInv, HolderInv
    <3> QED BY <3>1, BurnedStep
  <2>2. CASE UNCHANGED tokenVars
    BY <2>2 DEF tokenVars, Held, Holds
  <2> QED BY <1>1, <2>1, <2>2, ProxyCases DEF vars
<1>2. ProxyInv /\ [ProxyNext]_proxyVars => [Stays]_vars
  BY <1>1 DEF ProxyNext, proxyVars
<1> QED BY <1>2, ProxyInvariant, PTL DEF ProxySpec, BurnedForever

\* What a type was created with outlives every upgrade.
THEOREM TypesAreFixedBehindProxy == ProxySpec => CreatedIsFixed
<1> DEFINE FixedAll == \A t \in TypeIDs : Created(t) => Fixed(t)
<1>1. ASSUME ProxyInv, NEW s \in Accounts, ProxyBy(s)
      PROVE  FixedAll
  <2>1. TypeOK
    BY <1>1 DEF ProxyInv, HolderInv
  <2>2. CASE NextBy(s)
    BY <2>1, <2>2, CreatedStep
  <2>3. CASE UNCHANGED <<typeVars, tokenVars, allowlistVars>>
    BY <2>1, <2>3, MinterAssumption
       DEF typeVars, tokenVars, allowlistVars, Fixed, Created, TypeOK
  <2> QED BY <1>1, <2>2, <2>3, ProxyCases DEF vars
<1>2. ProxyInv /\ [ProxyNext]_proxyVars => [FixedAll]_vars
  BY <1>1 DEF ProxyNext, proxyVars
<1> QED BY <1>2, ProxyInvariant, PTL DEF ProxySpec, CreatedIsFixed, Fixed

\* Behind the proxy too, nobody loses a token but by an account it authorised.
THEOREM TakenOnlyByAuthorisedBehindProxy == ProxySpec => OnlyAuthorisedTakes
<1> DEFINE Takes ==
      \A id \in TokenIDs, a \in Accounts : balances'[id][a] < balances[id][a] =>
        \A s \in Accounts : NextBy(s) => s = a \/ <<a, s>> \in operatorApprovals
<1>1. ProxyInv => Takes
  BY TakenByAuthorised DEF Authorised, ProxyInv, HolderInv
<1>2. ProxyInv => [Takes]_vars
  BY <1>1
<1> QED BY <1>2, ProxyInvariant, PTL DEF OnlyAuthorisedTakes

\* A pause survives upgrades, and nothing is minted, split or merged meanwhile.
THEOREM PauseFreezesBehindProxy == ProxySpec => FrozenWhilePaused
<1> DEFINE Frozen ==
      paused => UNCHANGED <<typeVars, allowlistVars, maxIndex, tokenValues>>
<1>1. ASSUME ProxyInv, NEW s \in Accounts, ProxyBy(s)
      PROVE  Frozen
  <2>1. CASE NextBy(s)
    BY <2>1, FrozenStep
  <2>2. CASE UNCHANGED <<typeVars, tokenVars, allowlistVars>>
    BY <2>2 DEF tokenVars
  <2> QED BY <1>1, <2>1, <2>2, ProxyCases DEF vars
<1>2. ProxyInv /\ [ProxyNext]_proxyVars => [Frozen]_vars
  BY <1>1 DEF ProxyNext, proxyVars
<1> QED BY <1>2, ProxyInvariant, PTL DEF ProxySpec, FrozenWhilePaused
=============================================================================
