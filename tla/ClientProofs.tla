---------------------------- MODULE ClientProofs ----------------------------
(***************************************************************************)
(* The SDK's client, for every instance of HypercertClient: whatever it    *)
(* and the callers around it do is a behaviour of the contract, so that    *)
(* every theorem about HypercertMinter holds here as well; and what the    *)
(* client checks before it sends is enough to leave others' tokens alone   *)
(* and to keep the signer's units with the signer.                         *)
(***************************************************************************)
EXTENDS HypercertClient, UnitsProofs

\* What a call holds from its start on: arguments that the contract's entry
\* point takes.
CallOK(call) ==
  /\ call.unread \subseteq 0..Len(call.ids)
  /\ call.op \in {"mintClaim", "createAllowlist"} => Len(call.values) = 1
  /\ call.op = "createAllowlist" => call.list \in Allowlists
  /\ call.op \in {"splitFraction", "burnFraction"} => Len(call.ids) = 1
  /\ call.op = "splitFraction" =>
       call.values \in SeqsBetween(0..MaxUint, 2, FractionLimit)
  /\ call.op = "mergeFractions" =>
       call.ids \in SeqsBetween(TokenIDs, 2, FractionLimit)
  /\ call.op = "claim" => call.claims \in SeqsBetween(Claim, 1, MaxBatch)

CallsOK ==
  /\ client \in [Accounts -> ClientCalls]
  /\ \A a \in Accounts : CallOK(client[a])
  /\ detached \subseteq TokenIDs

\* While nothing it asked about was detached or has changed, the signer of a call
\* is the one holder of every token it has checked.
CheckedAreHeld ==
  \A a \in Accounts : ~client[a].stale =>
    \A id \in Checked(client[a]) : Holders(id) = {a}

ClientInv == CallsOK /\ HolderInv /\ RecordedIsHolder /\ CheckedAreHeld

-----------------------------------------------------------------------------
(* Calls                                                                   *)

LEMMA CallType ==
  ASSUME NEW op \in {"none", "mintClaim", "createAllowlist", "splitFraction",
                     "mergeFractions", "burnFraction", "claim"},
         NEW ids \in Seq(TokenIDs), NEW values \in Seq(0..MaxUint),
         NEW unread \in SUBSET Nat,
         NEW list \in SUBSET Leaves,
         NEW claims \in Seq(Claim)
  PROVE  /\ Call(op, ids, values, unread) \in ClientCalls
         /\ [Call(op, ids, values, unread) EXCEPT !.list = list] \in ClientCalls
         /\ [Call(op, ids, values, unread) EXCEPT !.claims = claims] \in ClientCalls
<1> HIDE DEF Claim
<1>1. <<>> \in Seq(Claim) /\ {} \in SUBSET Leaves
  OBVIOUS
<1>2. Call(op, ids, values, unread) \in ClientCalls
  BY <1>1 DEF Call, ClientCalls
<1>3. [Call(op, ids, values, unread) EXCEPT !.list = list] \in ClientCalls
  BY <1>2 DEF ClientCalls
<1>4. [Call(op, ids, values, unread) EXCEPT !.claims = claims] \in ClientCalls
  BY <1>2 DEF ClientCalls
<1> QED BY <1>2, <1>3, <1>4

LEMMA NoCallOK ==
  NoCall \in ClientCalls /\ CallOK(NoCall) /\ ~NoCall.stale /\ Checked(NoCall) = {}
<1>1. <<>> \in Seq(TokenIDs) /\ <<>> \in Seq(0..MaxUint) /\ {} \in SUBSET Nat
      /\ {} \in SUBSET Leaves
      /\ <<>> \in Seq(Claim)
  OBVIOUS
<1>2. NoCall \in ClientCalls
  BY <1>1, CallType DEF NoCall
<1> QED BY <1>2 DEF NoCall, Call, CallOK, Checked

Begins(a) ==
  \/ splitClaimUnits(a) \/ mergeClaimUnits(a) \/ burnClaimFraction(a)
  \/ mintClaim(a) \/ createAllowlist(a) \/ claimFractions(a)

\* A call starts with arguments of the right shape and with nothing checked.
LEMMA BeginsOK ==
  ASSUME NEW a, Begins(a)
  PROVE  \E call \in ClientCalls :
           CallOK(call) /\ ~call.stale /\ Checked(call) = {} /\ Begin(a, call)
<1> DEFINE Fine(call) == /\ call \in ClientCalls /\ CallOK(call)
                         /\ ~call.stale /\ Checked(call) = {}
<1>0. /\ <<>> \in Seq(TokenIDs) /\ <<>> \in Seq(0..MaxUint)
      /\ \A id \in TokenIDs : <<id>> \in Seq(TokenIDs)
      /\ \A units \in 0..MaxUint : <<units>> \in Seq(0..MaxUint)
      /\ {0, 1} \in SUBSET Nat /\ {1} \in SUBSET Nat
      /\ {} \in SUBSET Leaves
      /\ <<>> \in Seq(Claim)
  OBVIOUS
<1>1. ASSUME NEW id \in TokenIDs,
             NEW values \in SeqsBetween(0..MaxUint, 2, FractionLimit)
      PROVE  Fine(Call("splitFraction", <<id>>, values, {0, 1}))
  <2>1. values \in Seq(0..MaxUint)
    BY SeqsBetweenType, MinterAssumption
  <2>2. Call("splitFraction", <<id>>, values, {0, 1}) \in ClientCalls
    BY <1>0, <2>1, CallType
  <2> QED BY <2>2 DEF Call, CallOK, Checked
<1>2. ASSUME NEW ids \in SeqsBetween(TokenIDs, 2, FractionLimit)
      PROVE  Fine(Call("mergeFractions", ids, <<>>, DOMAIN ids))
  <2>1. ids \in Seq(TokenIDs) /\ DOMAIN ids = 1..Len(ids) /\ Len(ids) \in Nat
    BY SeqsBetweenType, MinterAssumption
  <2>2. DOMAIN ids \in SUBSET Nat
    BY <2>1
  <2>3. Call("mergeFractions", ids, <<>>, DOMAIN ids) \in ClientCalls
    BY <1>0, <2>1, <2>2, CallType
  <2> QED BY <2>1, <2>3 DEF Call, CallOK, Checked
<1>3. ASSUME NEW id \in TokenIDs
      PROVE  Fine(Call("burnFraction", <<id>>, <<>>, {1}))
  <2>1. Call("burnFraction", <<id>>, <<>>, {1}) \in ClientCalls
    BY <1>0, CallType
  <2> QED BY <2>1 DEF Call, CallOK, Checked
<1>4. ASSUME NEW units \in 0..MaxUint
      PROVE  Fine(Call("mintClaim", <<>>, <<units>>, {}))
  <2>1. Call("mintClaim", <<>>, <<units>>, {}) \in ClientCalls
    BY <1>0, CallType
  <2> QED BY <2>1 DEF Call, CallOK, Checked
<1>5. ASSUME NEW list \in Allowlists, NEW units \in 0..MaxUint
      PROVE  Fine([Call("createAllowlist", <<>>, <<units>>, {}) EXCEPT !.list = list])
  <2>1. list \in SUBSET Leaves
    BY MinterAssumption
  <2>2. [Call("createAllowlist", <<>>, <<units>>, {}) EXCEPT !.list = list]
          \in ClientCalls
    BY <1>0, <2>1, CallType
  <2> QED BY <2>2 DEF Call, CallOK, Checked
<1>6. ASSUME NEW claims \in SeqsBetween(Claim, 1, MaxBatch)
      PROVE  Fine([Call("claim", <<>>, <<>>, {}) EXCEPT !.claims = claims])
  <2>1. claims \in Seq(Claim)
    BY SeqsBetweenType, MinterAssumption
  <2>2. [Call("claim", <<>>, <<>>, {}) EXCEPT !.claims = claims] \in ClientCalls
    BY <1>0, <2>1, CallType
  <2> QED BY <2>2 DEF Call, CallOK, Checked
<1> SUFFICES \E call : Fine(call) /\ Begin(a, call)
  OBVIOUS
<1> HIDE DEF Fine
<1>7. CASE splitClaimUnits(a)
  BY <1>1, <1>7 DEF splitClaimUnits
<1>8. CASE mergeClaimUnits(a)
  BY <1>2, <1>8 DEF mergeClaimUnits
<1>9. CASE burnClaimFraction(a)
  BY <1>3, <1>9 DEF burnClaimFraction
<1>10. CASE mintClaim(a)
  BY <1>4, <1>10 DEF mintClaim
<1>11. CASE createAllowlist(a)
  <2>1. \A n \in 1..MaxUint : n \in 0..MaxUint
    BY MinterAssumption
  <2> QED BY <1>5, <1>11, <2>1 DEF createAllowlist
<1>12. CASE claimFractions(a)
  BY <1>6, <1>12 DEF claimFractions
<1> QED BY <1>7, <1>8, <1>9, <1>10, <1>11, <1>12 DEF Begins

\* A transaction that overtakes a call leaves its arguments and checks alone.
LEMMA OvertakenOK ==
  ASSUME NEW call \in ClientCalls, CallOK(call)
  PROVE  /\ Overtaken(call) \in ClientCalls
         /\ CallOK(Overtaken(call))
         /\ Checked(Overtaken(call)) = Checked(call)
         /\ ~Overtaken(call).stale =>
              /\ ~call.stale
              /\ \A id \in Checked(call) : Standing(id)' = Standing(id)
<1> DEFINE changed == \E id \in Checked(call) : Standing(id)' # Standing(id)
<1>1. Overtaken(call) = [call EXCEPT !.stale = @ \/ changed]
  BY DEF Overtaken
<1>2. (call.stale \/ changed) \in BOOLEAN
  OBVIOUS
<1>3. Overtaken(call) \in ClientCalls
  <2> HIDE DEF changed
  <2> QED BY <1>1, <1>2 DEF ClientCalls
<1>4. /\ CallOK(Overtaken(call)) /\ Checked(Overtaken(call)) = Checked(call)
      /\ Overtaken(call).stale = (call.stale \/ changed)
  <2> HIDE DEF changed
  <2> QED BY <1>1 DEF ClientCalls, CallOK, Checked
<1> QED BY <1>3, <1>4

\* Calls keep the shape they began with.
LEMMA CallsStep ==
  ASSUME CallsOK, ClientNext
  PROVE  CallsOK'
<1>0. /\ client \in [Accounts -> ClientCalls]
      /\ \A a \in Accounts : client[a] \in ClientCalls /\ CallOK(client[a])
      /\ Clients \subseteq Accounts
      /\ detached \subseteq TokenIDs
      /\ Detaches => detached' \subseteq TokenIDs
  BY ClientAssumption DEF CallsOK, Detaches
<1>1. ASSUME NEW a \in Clients, NEW call \in ClientCalls, CallOK(call),
             client' = [client EXCEPT ![a] = call], detached' = detached
      PROVE  CallsOK'
  <2>1. client' \in [Accounts -> ClientCalls]
    BY <1>0, <1>1
  <2>2. \A b \in Accounts : CallOK(client'[b])
    BY <1>0, <1>1
  <2> QED BY <1>0, <1>1, <2>1, <2>2 DEF CallsOK, CallOK
<1>2. ASSUME NEW a \in Clients, Begins(a)
      PROVE  CallsOK'
  BY <1>1, <1>2, BeginsOK DEF Begin
<1>3. ASSUME NEW a \in Clients, AskOwner(a) \/ AskUnits(a)
      PROVE  CallsOK'
  <2> DEFINE next(unread, stale) ==
        [client[a] EXCEPT !.unread = unread, !.stale = stale]
  <2>1. PICK unread \in SUBSET client[a].unread, stale \in BOOLEAN :
          client' = [client EXCEPT ![a] = next(unread, stale)] /\ detached' = detached
    <3>1. CASE AskOwner(a)
      <4>1. PICK i \in client[a].unread \ {0} :
              /\ client' = [client EXCEPT
                   ![a].unread = @ \ {i},
                   ![a].stale = @ \/ client[a].ids[i] \in detached]
              /\ detached' = detached
        BY <3>1 DEF AskOwner
      <4> DEFINE stale == client[a].stale \/ client[a].ids[i] \in detached
      <4>2. client' = [client EXCEPT ![a] = next(client[a].unread \ {i}, stale)]
        BY <1>0, <4>1
      <4>3. stale \in BOOLEAN /\ client[a].unread \ {i} \in SUBSET client[a].unread
        BY DEF ClientCalls
      <4> HIDE DEF stale, next
      <4> QED BY <4>1, <4>2, <4>3
    <3>2. CASE AskUnits(a)
      <4>1. client' = [client EXCEPT ![a] = next({}, client[a].stale)]
            /\ detached' = detached
        <5>1. client' = [client EXCEPT ![a].unread = {}] /\ detached' = detached
          BY <3>2 DEF AskUnits
        <5>2. [client[a] EXCEPT !.unread = {}] = next({}, client[a].stale)
          BY <1>0 DEF ClientCalls
        <5> QED BY <1>0, <5>1, <5>2
      <4>2. client[a].stale \in BOOLEAN /\ {} \in SUBSET client[a].unread
        BY <1>0 DEF ClientCalls
      <4> HIDE DEF next
      <4> QED BY <4>1, <4>2
    <3> QED BY <1>3, <3>1, <3>2
  <2>2. next(unread, stale) \in ClientCalls
    BY <1>0 DEF ClientCalls
  <2>3. CallOK(next(unread, stale))
    BY <1>0 DEF ClientCalls, CallOK
  <2> HIDE DEF next
  <2> QED BY <1>1, <2>1, <2>2, <2>3
<1>4. ASSUME NEW a \in Clients, CallEnds(a)
      PROVE  CallsOK'
  BY <1>1, <1>4, NoCallOK DEF CallEnds
<1>5. ASSUME NEW who,
             client' = [b \in Accounts |-> IF b = who THEN NoCall ELSE Overtaken(client[b])],
             Detaches
      PROVE  CallsOK'
  <2>1. \A b \in Accounts :
          client'[b] \in ClientCalls /\ CallOK(client'[b])
    BY <1>0, <1>5, NoCallOK, OvertakenOK
  <2>2. client' \in [Accounts -> ClientCalls]
    BY <1>5, <2>1
  <2> QED BY <1>0, <1>5, <2>1, <2>2 DEF CallsOK, CallOK
<1>6. ASSUME NEW s \in Direct, DirectBy(s)
      PROVE  CallsOK'
  <2>1. \A b \in Accounts :
          client'[b] \in ClientCalls /\ CallOK(client'[b])
    BY <1>0, <1>6, OvertakenOK DEF DirectBy
  <2>2. client' \in [Accounts -> ClientCalls]
    BY <1>6, <2>1 DEF DirectBy
  <2> QED BY <1>0, <1>6, <2>1, <2>2 DEF CallsOK, CallOK, DirectBy
<1>7. ASSUME NEW a \in Clients, Mined(a)
      PROVE  CallsOK'
  BY <1>5, <1>7 DEF Mined
<1> QED BY <1>2, <1>3, <1>4, <1>6, <1>7 DEF ClientNext, ClientBy, Begins

-----------------------------------------------------------------------------
(* The client is a user of the contract                                    *)

\* What a call sends is a transaction that the account may make of the contract.
LEMMA SendsIsNext ==
  ASSUME NEW a \in Accounts, NEW call \in ClientCalls, CallOK(call), Sends(a, call)
  PROVE  NextBy(a)
<1>0. /\ call.ids \in Seq(TokenIDs) /\ call.values \in Seq(0..MaxUint)
      /\ call.list \in SUBSET Leaves
      /\ call.claims \in Seq(Claim)
  BY DEF ClientCalls
<1>1. Len(call.ids) = 1 => call.ids[1] \in TokenIDs
  BY <1>0
<1>2. ASSUME Len(call.values) = 1
      PROVE  call.values[1] \in 0..MaxUint
  <2>1. 1 \in 1..Len(call.values)
    BY <1>2
  <2> QED BY <1>0, <2>1, ElementOfSeq
<1>3. CASE call.op = "mintClaim" /\ \E r \in Policies : MintClaim(a, call.values[1], r)
  BY <1>2, <1>3 DEF CallOK, NextBy, MintBy
<1>4. CASE /\ call.op = "createAllowlist"
           /\ \E r \in Policies : CreateAllowlist(a, call.values[1], call.list, r)
  BY <1>2, <1>4 DEF CallOK, NextBy, MintBy
<1>5. CASE call.op = "splitFraction" /\ SplitFraction(a, a, call.ids[1], call.values)
  BY <1>1, <1>5 DEF CallOK, NextBy, UnitsBy
<1>6. CASE call.op = "mergeFractions" /\ MergeFractions(a, a, call.ids)
  BY <1>6 DEF CallOK, NextBy, UnitsBy
<1>7. CASE call.op = "burnFraction" /\ BurnFraction(a, a, call.ids[1])
  BY <1>1, <1>7 DEF CallOK, NextBy, UnitsBy
<1>8. CASE call.op = "claim" /\ BatchMintClaimsFromAllowlists(a, a, call.claims)
  <2> DEFINE items == call.claims
             n == Len(items)
  <2>1. /\ n \in 1..MaxBatch /\ items \in Seq(Claim) /\ DOMAIN items = 1..n
        /\ \A i \in 1..n : items[i] \in Claim
    <3>1. items \in SeqsBetween(Claim, 1, MaxBatch)
      BY <1>8 DEF CallOK
    <3> QED BY <3>1, SeqsBetweenType, MinterAssumption
  <2>2. BatchMintClaimsFromAllowlists(a, a, items)
    BY <1>8
  <2> HIDE DEF items
  <2>3. CASE n = 1
    <3> DEFINE c == items[1]
    <3>1. c \in [typeID : TypeIDs, units : 0..MaxUint]
      BY <2>1, <2>3 DEF Claim
    <3>2. items = <<c>>
      BY <2>1, <2>3
    <3>3. c = Item(c.typeID, c.units)
      BY <3>1 DEF Item
    <3> HIDE DEF c
    <3>4. MintClaimFromAllowlist(a, a, c.typeID, c.units)
      BY <2>2, <3>2, <3>3 DEF MintClaimFromAllowlist
    <3> QED BY <3>1, <3>4 DEF NextBy, MintBy
  <2>4. CASE n # 1
    <3>1. n \in 2..MaxBatch
      BY <2>1, <2>4, MinterAssumption
    <3>2. items \in [1..n -> [typeID : TypeIDs, units : 0..MaxUint]]
      BY <2>1 DEF Claim
    <3> HIDE DEF n
    <3>3. items \in SeqsBetween([typeID : TypeIDs, units : 0..MaxUint], 2, MaxBatch)
      BY <3>1, <3>2 DEF SeqsBetween
    <3> QED BY <2>2, <3>3 DEF NextBy, MintBy
  <2> QED BY <2>3, <2>4
<1> QED BY <1>3, <1>4, <1>5, <1>6, <1>7, <1>8 DEF Sends

\* Every step is a transaction of some account, or leaves the contract alone.
LEMMA ClientStepIsNext ==
  ASSUME CallsOK, ClientNext
  PROVE  Next \/ UNCHANGED vars
<1>1. ASSUME NEW s \in Direct, DirectBy(s)
      PROVE  Next
  BY <1>1, ClientAssumption DEF DirectBy, Next
<1>2. ASSUME NEW a \in Clients, Mined(a)
      PROVE  Next
  <2>1. a \in Accounts
    BY ClientAssumption
  <2>2. client[a] \in ClientCalls /\ CallOK(client[a])
    BY <2>1 DEF CallsOK
  <2> QED BY <1>2, <2>1, <2>2, SendsIsNext DEF Mined, Next
<1>3. ASSUME NEW a \in Clients, Begins(a)
      PROVE  UNCHANGED vars
  BY <1>3, BeginsOK DEF Begin
<1>4. ASSUME NEW a \in Clients, AskOwner(a) \/ AskUnits(a) \/ CallEnds(a)
      PROVE  UNCHANGED vars
  BY <1>4 DEF AskOwner, AskUnits, CallEnds
<1> QED BY <1>1, <1>2, <1>3, <1>4 DEF ClientNext, ClientBy, Begins

LEMMA CallsKept == ClientSpec => []CallsOK
<1>1. ClientInit => CallsOK
  BY NoCallOK DEF ClientInit, CallsOK
<1>2. CallsOK /\ [ClientNext]_clientVars => CallsOK'
  <2>1. CallsOK /\ UNCHANGED clientVars => CallsOK'
    BY DEF CallsOK, CallOK, clientVars
  <2> QED BY <2>1, CallsStep
<1> QED BY <1>1, <1>2, PTL DEF ClientSpec

\* The contract behind the client is the contract: the calls, their checks and
\* what comes between them are transactions the contract knows, with arguments
\* in its range.
THEOREM ClientUsesMinter == ClientSpec => Spec
<1>1. ClientInit => Init
  BY DEF ClientInit
<1>2. CallsOK /\ [ClientNext]_clientVars => [Next]_vars
  BY ClientStepIsNext DEF clientVars
<1> QED BY <1>1, <1>2, CallsKept, PTL DEF ClientSpec, Spec

\* Calls, and the storage they meet, keep their types.
THEOREM ClientTypeCorrect == ClientSpec => []ClientTypeOK
<1>1. TypeOK /\ CallsOK => ClientTypeOK
  BY DEF ClientTypeOK, CallsOK, CallOK
<1> QED BY <1>1, CallsKept, ClientUsesMinter, TypeCorrect, PTL

-----------------------------------------------------------------------------
(* The recorded owner                                                      *)

\* A batch moves none of a token it does not name.
LEMMA MovedIfNamed ==
  ASSUME NEW batch \in Seq(Transfers), NEW id, Moved(batch, id) # 0
  PROVE  \E i \in DOMAIN batch : batch[i].id = id
<1> DEFINE amounts == [i \in DOMAIN batch |-> batch[i].amount]
           entries == {i \in DOMAIN batch : batch[i].id = id}
<1>1. Moved(batch, id) = Total(amounts, entries)
  BY DEF Moved
<1>2. entries = {} => Moved(batch, id) = 0
  <2> HIDE DEF entries, amounts
  <2> QED BY <1>1, TotalEmpty
<1> QED BY <1>2

LEMMA HeldAlone ==
  ASSUME HolderInv, NEW id \in TokenIDs, NEW a \in Holders(id)
  PROVE  Holders(id) = {a} /\ balances[id][a] = 1
BY DEF HolderInv, SingleHolder, Holds, Holders

\* Taking from the one holder of a token leaves it nobody's.
LEMMA TakenFromHolder ==
  ASSUME HolderInv, NEW id \in TokenIDs, NEW account \in Accounts,
         NEW n \in Nat \ {0}, n <= balances[id][account],
         balances'[id] = [balances[id] EXCEPT ![account] = @ - n]
  PROVE  n = 1 /\ \A a \in Accounts : ~(balances'[id][a] > 0)
<1>1. balances[id] \in [Accounts -> Nat]
  BY DEF HolderInv, TypeOK
<1>2. account \in Holders(id)
  BY <1>1 DEF Holders
<1>3. Holders(id) = {account} /\ balances[id][account] = 1
  BY <1>2, HeldAlone
<1>4. \A a \in Accounts : a # account => ~(balances[id][a] > 0)
  BY <1>3 DEF Holders
<1> QED BY <1>1, <1>3, <1>4

\* A transaction that moves a token records as its owner who holds it then, and
\* address(0) where nobody does.
LEMMA RecordFollowsToken ==
  ASSUME HolderInv, NEW s \in Accounts, NextBy(s), NEW id \in TokenIDs,
         balances'[id] # balances[id]
  PROVE  \A a \in Accounts : owners'[id] = a <=> balances'[id][a] > 0
<1> DEFINE Right == \A a \in Accounts : owners'[id] = a <=> balances'[id][a] > 0
<1>0. /\ TypeOK /\ NoAccount \notin Accounts
      /\ balances[id] \in [Accounts -> Nat]
      /\ \A a \in Accounts : balances[id][a] \in Nat
  BY MinterAssumption DEF HolderInv, TypeOK
<1>1. ASSUME balances' = balances PROVE Right
  BY <1>1
<1>2. ASSUME NEW account \in Accounts, NEW items \in Seq(ItemSet),
             MintTo(account, items)
      PROVE  Right
  <2>1. id \in NewIDs(items)
    BY <1>2, MintTouchesFresh
  <2>2. owners'[id] = account
    BY <1>2, <2>1 DEF MintTo
  <2>3. \A a \in Accounts : balances'[id][a] = IF a = account THEN 1 ELSE 0
    BY <1>2, <2>1, MintTouchesFresh
  <2> QED BY <2>2, <2>3
<1>3. ASSUME NEW account \in Accounts, NEW ids \in Seq(TokenIDs), Len(ids) >= 2,
             MergeFractions(s, account, ids)
      PROVE  Right
  <2>1. id \in Sources(ids)
    BY <1>3 DEF MergeFractions
  <2>2. /\ balances[id][account] >= TimesMerged(ids, id)
        /\ balances'[id] = [balances[id] EXCEPT ![account] = @ - TimesMerged(ids, id)]
        /\ owners'[id] = NoAccount
    BY <1>3, <2>1 DEF MergeFractions
  <2>3. TimesMerged(ids, id) \in Nat \ {0}
    BY <1>0, <1>3, <2>1, MergeType
  <2>4. \A a \in Accounts : ~(balances'[id][a] > 0)
    BY <1>0, <2>2, <2>3, TakenFromHolder
  <2> QED BY <1>0, <2>2, <2>4
<1>4. ASSUME NEW account \in Accounts, NEW burned \in TokenIDs,
             BurnFraction(s, account, burned)
      PROVE  Right
  <2>1. id = burned
    BY <1>0, <1>4 DEF BurnFraction, TypeOK
  <2> DEFINE n == 1
  <2>2. /\ n \in Nat \ {0} /\ n <= balances[id][account]
        /\ balances'[id] = [balances[id] EXCEPT ![account] = @ - n]
        /\ owners'[id] = NoAccount
    BY <1>0, <1>4, <2>1 DEF BurnFraction, TypeOK
  <2>3. \A a \in Accounts : ~(balances'[id][a] > 0)
    <3> HIDE DEF n
    <3> QED BY <2>2, TakenFromHolder
  <2> QED BY <1>0, <2>2, <2>3
<1>5. ASSUME NEW from \in Accounts, NEW to \in Accounts, NEW batch \in Seq(Transfers),
             SafeBatchTransferFrom(s, from, to, batch)
      PROVE  Right
  <2> DEFINE n == Moved(batch, id)
  <2>1. /\ n \in 0..balances[id][from] /\ from # to
        /\ balances'[id] = [balances[id] EXCEPT ![from] = @ - n, ![to] = @ + n]
    BY <1>0, <1>5, TransferMoves DEF SafeBatchTransferFrom
  <2>2. n \in Nat /\ n <= balances[id][from]
    BY <1>0, <2>1
  <2> HIDE DEF n
  <2>3. n # 0
    <3> SUFFICES ASSUME n = 0 PROVE FALSE
      OBVIOUS
    <3>1. \A a \in Accounts : balances'[id][a] = balances[id][a]
      BY <1>0, <2>1
    <3>2. DOMAIN balances'[id] = Accounts
      BY <1>0, <2>1
    <3> QED BY <1>0, <2>1, <3>1, <3>2
  <2>4. owners'[id] = to
    <3>1. \E i \in DOMAIN batch : batch[i].id = id
      BY <2>3, MovedIfNamed DEF n
    <3> QED BY <1>5, <3>1 DEF SafeBatchTransferFrom, RecordOwner
  <2>5. from \in Holders(id)
    BY <1>0, <2>2, <2>3 DEF Holders
  <2>6. Holders(id) = {from} /\ balances[id][from] = 1
    BY <2>5, HeldAlone
  <2>7. \A a \in Accounts : a # from => balances[id][a] = 0
    BY <1>0, <2>6 DEF Holders
  <2>8. n = 1
    BY <2>2, <2>3, <2>6
  <2>9. \A a \in Accounts : balances'[id][a] > 0 <=> a = to
    BY <1>0, <2>1, <2>6, <2>7, <2>8
  <2> QED BY <2>4, <2>9
<1>6. ASSUME NEW from \in Accounts, NEW batch \in Seq(Transfers),
             SafeBatchTransferToSelf(s, from, batch)
      PROVE  Right
  BY <1>1, <1>6 DEF SafeBatchTransferToSelf
<1>7. ASSUME NEW account \in Accounts, NEW batch \in Seq(Transfers),
             BurnBatch(s, account, batch)
      PROVE  Right
  <2> DEFINE n == Moved(batch, id)
  <2>1. /\ n <= balances[id][account]
        /\ balances'[id] = [balances[id] EXCEPT ![account] = @ - n]
    BY <1>7 DEF BurnBatch
  <2>2. n \in Nat
    BY MovedType
  <2>3. n # 0
    <3> HIDE DEF n
    <3> SUFFICES ASSUME n = 0 PROVE FALSE
      OBVIOUS
    <3> QED BY <1>0, <2>1
  <2>4. owners'[id] = NoAccount
    <3>1. \E i \in DOMAIN batch : batch[i].id = id
      BY <2>3, MovedIfNamed
    <3> QED BY <1>7, <3>1 DEF BurnBatch, RecordOwner
  <2> HIDE DEF n
  <2>5. \A a \in Accounts : ~(balances'[id][a] > 0)
    BY <2>1, <2>2, <2>3, TakenFromHolder
  <2> QED BY <1>0, <2>4, <2>5
<1> HIDE DEF Right
<1>8. ASSUME NEW units \in 0..MaxUint, NEW r \in TransferRestrictions,
             NEW items \in Seq(ItemSet), MintNewType(s, units, items, r)
      PROVE  Right
  BY <1>2, <1>8 DEF MintNewType
<1>9. ASSUME NEW account \in Accounts \cup {NoAccount}, NEW units \in 0..MaxUint,
             NEW root \in SUBSET Leaves, NEW r \in TransferRestrictions,
             CreateAllowlist(account, units, root, r)
      PROVE  Right
  BY <1>1, <1>9 DEF CreateAllowlist
<1>10. ASSUME NEW account \in Accounts, NEW items \in Seq(ItemSet),
              BatchMintClaimsFromAllowlists(s, account, items)
       PROVE  Right
  BY <1>2, <1>10 DEF BatchMintClaimsFromAllowlists
<1>11. ASSUME NEW account \in Accounts, NEW split \in TokenIDs,
              NEW values \in Seq(0..MaxUint), Len(values) >= 2,
              SplitFraction(s, account, split, values)
       PROVE  Right
  <2>1. getBaseType(split) \in TypeIDs
    BY DEF TokenIDs, getBaseType
  <2>2. NewShares(getBaseType(split), values) \in Seq(ItemSet)
    BY <1>11, <2>1, NewSharesType
  <2> QED BY <1>2, <1>11, <2>2 DEF SplitFraction, SplitTokenUnits
<1>12. ASSUME NEW operator \in Accounts, NEW approved \in BOOLEAN,
              SetApprovalForAll(s, operator, approved)
       PROVE  Right
  BY <1>1, <1>12 DEF SetApprovalForAll, tokenVars
<1>13. ASSUME NEW value \in BOOLEAN, SetPaused(s, value)
       PROVE  Right
  BY <1>1, <1>13 DEF SetPaused, tokenVars
<1>14. ASSUME NEW newOwner \in Accounts \cup {NoAccount},
              TransferOwnership(s, newOwner)
       PROVE  Right
  BY <1>1, <1>14 DEF TransferOwnership, tokenVars
<1>15. Right
  BY <1>0, StepCases, <1>3, <1>4, <1>5, <1>6, <1>7, <1>8, <1>9, <1>10, <1>11,
     <1>12, <1>13, <1>14
<1> QED BY <1>15 DEF Right

\* Whoever sends it, a transaction leaves the record right or the token detached.
LEMMA RecordedStep ==
  ASSUME CallsOK, HolderInv, RecordedIsHolder, ClientNext
  PROVE  RecordedIsHolder'
<1>1. CASE UNCHANGED <<vars, detached>>
  BY <1>1 DEF RecordedIsHolder, Holders, vars, tokenVars
<1>2. ASSUME NEW s \in Accounts, NextBy(s), Detaches
      PROVE  RecordedIsHolder'
  <2> SUFFICES ASSUME NEW id \in TokenIDs, id \notin detached', NEW a \in Accounts
               PROVE  owners'[id] = a <=> balances'[id][a] > 0
    BY DEF RecordedIsHolder, Holders
  <2>1. CASE balances'[id] # balances[id]
    BY <1>2, <2>1, RecordFollowsToken
  <2>2. CASE balances'[id] = balances[id]
    <3>1. id \notin detached /\ owners'[id] = owners[id]
      BY <1>2, <2>2 DEF Detaches
    <3> QED BY <2>2, <3>1 DEF RecordedIsHolder, Holders
  <2> QED BY <2>1, <2>2
<1>3. ASSUME NEW a \in Clients, Mined(a)
      PROVE  RecordedIsHolder'
  <2>1. a \in Accounts /\ client[a] \in ClientCalls /\ CallOK(client[a])
    BY ClientAssumption DEF CallsOK
  <2> QED BY <1>2, <1>3, <2>1, SendsIsNext DEF Mined
<1>4. ASSUME NEW s \in Direct, DirectBy(s)
      PROVE  RecordedIsHolder'
  BY <1>2, <1>4, ClientAssumption DEF DirectBy
<1>5. ASSUME NEW a \in Clients, Begins(a)
      PROVE  RecordedIsHolder'
  BY <1>1, <1>5, BeginsOK DEF Begin
<1>6. ASSUME NEW a \in Clients, AskOwner(a) \/ AskUnits(a) \/ CallEnds(a)
      PROVE  RecordedIsHolder'
  BY <1>1, <1>6 DEF AskOwner, AskUnits, CallEnds
<1> QED BY <1>3, <1>4, <1>5, <1>6 DEF ClientNext, ClientBy, Begins

\* The premise of the client's checks: but for the tokens that a transfer of 0
\* has detached, who is recorded as a token's owner holds it.
THEOREM RecordedOwnerHoldsForClient == ClientSpec => []RecordedIsHolder
<1>1. ClientInit => RecordedIsHolder
  BY MinterAssumption DEF ClientInit, Init, InitialStorage, RecordedIsHolder, Holders
<1>2. CallsOK /\ HolderInv /\ RecordedIsHolder /\ [ClientNext]_clientVars
        => RecordedIsHolder'
  <2>1. RecordedIsHolder /\ UNCHANGED clientVars => RecordedIsHolder'
    BY DEF RecordedIsHolder, Holders, clientVars, vars, tokenVars
  <2> QED BY <2>1, RecordedStep
<1> QED BY <1>1, <1>2, CallsKept, ClientUsesMinter, HolderInvariant, PTL DEF ClientSpec

-----------------------------------------------------------------------------
(* What a call has checked                                                 *)

LEMMA CheckedType ==
  ASSUME NEW call \in ClientCalls
  PROVE  Checked(call) \subseteq TokenIDs
<1>1. call.ids \in Seq(TokenIDs)
  BY DEF ClientCalls
<1> QED BY <1>1, ElementOfSeq, LenProperties DEF Checked

\* A token is checked when its recorded owner is the signer, who then holds it,
\* alone; and a transaction that moves it marks the call.
LEMMA CheckedStep ==
  ASSUME CallsOK, HolderInv, RecordedIsHolder, CheckedAreHeld, ClientNext
  PROVE  CheckedAreHeld'
<1>0. /\ client \in [Accounts -> ClientCalls]
      /\ \A a \in Accounts : client[a] \in ClientCalls /\ CallOK(client[a])
      /\ Clients \subseteq Accounts
  BY ClientAssumption DEF CallsOK
<1>1. ASSUME NEW a \in Clients, NEW call, UNCHANGED vars,
             client' = [client EXCEPT ![a] = call],
             ~call.stale => \A id \in Checked(call) : Holders(id) = {a}
      PROVE  CheckedAreHeld'
  <2> SUFFICES ASSUME NEW b \in Accounts, ~client'[b].stale,
                      NEW id \in Checked(client'[b])
               PROVE  Holders(id)' = {b}
    BY DEF CheckedAreHeld, Checked
  <2>1. Holders(id)' = Holders(id)
    BY <1>1 DEF Holders, vars, tokenVars
  <2>2. CASE b = a
    BY <1>0, <1>1, <2>1, <2>2
  <2>3. CASE b # a
    <3>1. client'[b] = client[b]
      BY <1>0, <1>1, <2>3
    <3> QED BY <2>1, <3>1 DEF CheckedAreHeld
  <2> QED BY <2>2, <2>3
<1>2. ASSUME NEW a \in Clients, Begins(a)
      PROVE  CheckedAreHeld'
  <2>1. PICK call \in ClientCalls : Checked(call) = {} /\ Begin(a, call)
    BY <1>2, BeginsOK
  <2> QED BY <1>1, <2>1 DEF Begin
<1>3. ASSUME NEW a \in Clients, AskOwner(a)
      PROVE  CheckedAreHeld'
  <2> DEFINE call == client[a]
  <2>1. PICK i \in call.unread \ {0} :
          /\ owners[call.ids[i]] = a
          /\ client' = [client EXCEPT ![a].unread = @ \ {i},
                                      ![a].stale = @ \/ call.ids[i] \in detached]
          /\ UNCHANGED vars
    BY <1>3 DEF AskOwner
  <2> DEFINE next == [call EXCEPT !.unread = @ \ {i},
                                  !.stale = @ \/ call.ids[i] \in detached]
  <2>2. call \in ClientCalls /\ call.unread \subseteq 0..Len(call.ids)
        /\ call.ids \in Seq(TokenIDs)
    BY <1>0 DEF CallOK, ClientCalls
  <2>3. i \in 1..Len(call.ids) /\ DOMAIN call.ids = 1..Len(call.ids)
    BY <2>2, LenProperties
  <2>4. call.ids[i] \in TokenIDs
    BY <2>2, <2>3, ElementOfSeq
  <2>5. call.ids[i] \notin detached => Holders(call.ids[i]) = {a}
    BY <1>0, <2>1, <2>4, HeldAlone DEF RecordedIsHolder
  <2>6. /\ next.stale = (call.stale \/ call.ids[i] \in detached)
        /\ next.ids = call.ids /\ next.unread = call.unread \ {i}
    BY <2>2 DEF ClientCalls
  <2>7. Checked(next) = Checked(call) \cup {call.ids[i]}
    BY <2>3, <2>6 DEF Checked
  <2>8. ~next.stale => \A id \in Checked(next) : Holders(id) = {a}
    BY <1>0, <2>5, <2>6, <2>7 DEF CheckedAreHeld
  <2>9. client' = [client EXCEPT ![a] = next]
    BY <1>0, <2>1
  <2> HIDE DEF next
  <2> QED BY <1>1, <2>1, <2>8, <2>9
<1>4. ASSUME NEW a \in Clients, AskUnits(a)
      PROVE  CheckedAreHeld'
  <2> DEFINE call == client[a]
             next == [call EXCEPT !.unread = {}]
  <2>1. call \in ClientCalls /\ call.unread = {0}
    BY <1>0, <1>4 DEF AskUnits
  <2>2. DOMAIN call.ids \ {0} = DOMAIN call.ids
    <3>1. call.ids \in Seq(TokenIDs)
      BY <2>1 DEF ClientCalls
    <3> QED BY <3>1, LenProperties
  <2>3. next.stale = call.stale /\ Checked(next) = Checked(call)
    BY <2>1, <2>2 DEF ClientCalls, Checked
  <2>4. ~next.stale => \A id \in Checked(next) : Holders(id) = {a}
    BY <1>0, <2>3 DEF CheckedAreHeld
  <2>5. client' = [client EXCEPT ![a] = next] /\ UNCHANGED vars
    BY <1>4 DEF AskUnits
  <2> HIDE DEF next
  <2> QED BY <1>1, <2>4, <2>5
<1>5. ASSUME NEW a \in Clients, CallEnds(a)
      PROVE  CheckedAreHeld'
  BY <1>1, <1>5, NoCallOK DEF CallEnds
<1>6. ASSUME \A b \in Accounts : client'[b] \in {NoCall, Overtaken(client[b])}
      PROVE  CheckedAreHeld'
  <2> SUFFICES ASSUME NEW b \in Accounts, ~client'[b].stale,
                      NEW id \in Checked(client'[b])
               PROVE  Holders(id)' = {b}
    BY DEF CheckedAreHeld, Checked
  <2>1. client'[b] = Overtaken(client[b])
    BY <1>6, NoCallOK
  <2>2. ~client[b].stale /\ id \in Checked(client[b]) /\ Standing(id)' = Standing(id)
    BY <1>0, <2>1, OvertakenOK
  <2>3. Holders(id)' = Holders(id)
    BY <2>2 DEF Standing
  <2> QED BY <2>2, <2>3 DEF CheckedAreHeld
<1>7. ASSUME NEW a \in Clients, Mined(a)
      PROVE  CheckedAreHeld'
  BY <1>6, <1>7 DEF Mined
<1>8. ASSUME NEW s \in Direct, DirectBy(s)
      PROVE  CheckedAreHeld'
  BY <1>6, <1>8 DEF DirectBy
<1> QED BY <1>2, <1>3, <1>4, <1>5, <1>7, <1>8 DEF ClientNext, ClientBy, Begins

\* A call's checks were answered truthfully and still hold, unless it met a
\* detached token or was overtaken.
THEOREM ClientInvariant == ClientSpec => []ClientInv
<1>1. ClientInit => CheckedAreHeld
  BY NoCallOK DEF ClientInit, CheckedAreHeld
<1>2. CallsOK /\ HolderInv /\ RecordedIsHolder /\ CheckedAreHeld
        /\ [ClientNext]_clientVars => CheckedAreHeld'
  <2>1. CheckedAreHeld /\ UNCHANGED clientVars => CheckedAreHeld'
    BY DEF CheckedAreHeld, Checked, Holders, clientVars, vars, tokenVars
  <2> QED BY <2>1, CheckedStep
<1> QED BY <1>1, <1>2, CallsKept, ClientUsesMinter, HolderInvariant,
           RecordedOwnerHoldsForClient, PTL DEF ClientSpec, ClientInv

-----------------------------------------------------------------------------
(* What a call that was not overtaken does                                 *)

\* The IDs that a transaction of the client names have been checked by then.
LEMMA MinedNamesChecked ==
  ASSUME CallsOK, CheckedAreHeld, NEW a \in Clients, Mined(a), ~client[a].stale,
         NEW i \in DOMAIN client[a].ids
  PROVE  Holders(client[a].ids[i]) = {a} /\ client[a].ids[i] \in TokenIDs
<1>1. a \in Accounts /\ client[a] \in ClientCalls
  BY ClientAssumption DEF CallsOK
<1>2. client[a].ids[i] \in Checked(client[a])
  BY DEF Checked, Mined
<1> QED BY <1>1, <1>2, CheckedType DEF CheckedAreHeld

\* A mint gives a token that is held nothing.
LEMMA MintLeavesHeld ==
  ASSUME HolderInv, NEW account \in Accounts, NEW items \in Seq(ItemSet),
         MintTo(account, items), NEW id \in TokenIDs, Holders(id) # {}
  PROVE  /\ id \notin NewIDs(items)
         /\ balances'[id] = balances[id]
         /\ MintedValues(items)[id] = tokenValues[id]
         /\ \A t : id # BaseID(t)
<1>1. PICK a \in Accounts : balances[id][a] > 0
  BY DEF Holders
<1>2. Minted(id)
  BY <1>1 DEF HolderInv, OnlyMintedHeld, Held, Holds
<1>3. id \notin NewIDs(items) /\ balances'[id] = balances[id]
  BY <1>2, MintTouchesFresh
<1>4. MintedValues(items)[id] = tokenValues[id]
  BY <1>3 DEF MintedValues
<1>5. \A t : id # BaseID(t)
  BY <1>2 DEF Minted, BaseID, getItemIndex
<1> QED BY <1>3, <1>4, <1>5

\* The client's transaction leaves every token alone that somebody else holds.
LEMMA MinedStep ==
  ASSUME CallsOK, HolderInv, CheckedAreHeld, NEW a \in Clients, Mined(a),
         ~client[a].stale, NEW id \in TokenIDs, Holders(id) \ {a} # {}
  PROVE  Standing(id)' = Standing(id)
<1> DEFINE call == client[a]
<1>0. a \in Accounts /\ call \in ClientCalls /\ CallOK(call)
  BY ClientAssumption DEF CallsOK
<1>1. /\ call.ids \in Seq(TokenIDs) /\ call.values \in Seq(0..MaxUint)
      /\ call.claims \in Seq(Claim)
  BY <1>0 DEF ClientCalls
<1>2. \A i \in DOMAIN call.ids :
        id # call.ids[i] /\ call.ids[i] \in TokenIDs
  BY MinedNamesChecked
<1>3. TypeOK /\ balances[id] \in [Accounts -> Nat]
  BY DEF HolderInv, TypeOK
<1>4. Holders(id) # {} /\ \A t : id = BaseID(t) => FALSE
  <2>1. PICK b \in Accounts : balances[id][b] > 0
    BY DEF Holders
  <2>2. Minted(id)
    BY <2>1 DEF HolderInv, OnlyMintedHeld, Held, Holds
  <2> QED BY <2>1, <2>2 DEF Holders, Minted, BaseID, getItemIndex
<1>5. SUFFICES balances'[id] = balances[id] /\ tokenValues'[id] = tokenValues[id]
  BY DEF Standing, Holders
<1>6. CASE call.op = "mintClaim" /\ \E r \in Policies : MintClaim(a, call.values[1], r)
  <2> DEFINE items == <<Item(NewType, call.values[1])>>
  <2>1. /\ NewType \in TypeIDs /\ MintTo(a, items)
        /\ tokenValues' = [MintedValues(items) EXCEPT ![BaseID(NewType)] = call.values[1]]
    BY <1>6 DEF MintClaim, MintNewType, CreateType
  <2>2. items \in Seq(ItemSet)
    <3>1. 1 \in 1..Len(call.values)
      BY <1>0, <1>6 DEF CallOK
    <3>2. call.values[1] \in 0..MaxUint
      BY <1>1, <3>1, ElementOfSeq
    <3> QED BY <2>1, <3>2 DEF Item, ItemSet
  <2> HIDE DEF items
  <2>3. balances'[id] = balances[id] /\ MintedValues(items)[id] = tokenValues[id]
    BY <1>0, <1>4, <2>1, <2>2, MintLeavesHeld
  <2>4. MintedValues(items) \in [TokenIDs -> 0..MaxUint]
    BY <1>0, <1>3, <2>1, <2>2, MintToType
  <2> QED BY <1>4, <2>1, <2>3, <2>4
<1>7. CASE /\ call.op = "createAllowlist"
           /\ \E r \in Policies : CreateAllowlist(a, call.values[1], call.list, r)
  BY <1>3, <1>4, <1>7 DEF CreateAllowlist, TypeOK
<1>8. CASE call.op = "splitFraction" /\ SplitFraction(a, a, call.ids[1], call.values)
  <2> DEFINE first == call.ids[1]
             items == NewShares(getBaseType(first), call.values)
  <2>1. first \in TokenIDs /\ id # first
    <3>1. 1 \in DOMAIN call.ids
      BY <1>0, <1>1, <1>8 DEF CallOK
    <3> QED BY <1>2, <3>1
  <2>2. items \in Seq(ItemSet)
    <3>1. Len(call.values) >= 2
      <4>1. call.values \in SeqsBetween(0..MaxUint, 2, FractionLimit)
        BY <1>0, <1>8 DEF CallOK
      <4>2. Len(call.values) \in 2..FractionLimit
        BY <4>1, SeqsBetweenType, MinterAssumption
      <4> QED BY <4>2
    <3> QED BY <1>1, <2>1, <3>1, NewSharesType DEF TokenIDs, getBaseType
  <2>3. MintTo(a, items)
        /\ tokenValues' = [MintedValues(items) EXCEPT ![first] = call.values[1]]
    BY <1>8 DEF SplitFraction, SplitTokenUnits
  <2> HIDE DEF items
  <2>4. balances'[id] = balances[id] /\ MintedValues(items)[id] = tokenValues[id]
    BY <1>0, <1>4, <2>2, <2>3, MintLeavesHeld
  <2>5. MintedValues(items) \in [TokenIDs -> 0..MaxUint]
    BY <1>0, <1>3, <2>2, <2>3, MintToType
  <2> QED BY <2>1, <2>3, <2>4, <2>5
<1>9. CASE call.op = "mergeFractions" /\ MergeFractions(a, a, call.ids)
  <2>1. DOMAIN call.ids = 1..Len(call.ids) /\ Len(call.ids) \in Nat /\ Len(call.ids) >= 2
    BY <1>0, <1>1, <1>9, SeqsBetweenType, MinterAssumption DEF CallOK
  <2>2. id \notin Sources(call.ids)
    <3>1. \A i \in 1..(Len(call.ids) - 1) : i \in DOMAIN call.ids
      BY <2>1
    <3> QED BY <1>2, <3>1 DEF Sources
  <2>3. id # Target(call.ids)
    <3>1. Len(call.ids) \in DOMAIN call.ids
      BY <2>1
    <3> QED BY <1>2, <3>1 DEF Target
  <2> QED BY <1>9, <2>2, <2>3 DEF MergeFractions, ClearedValues
<1>10. CASE call.op = "burnFraction" /\ BurnFraction(a, a, call.ids[1])
  <2>1. id # call.ids[1]
    <3>1. 1 \in DOMAIN call.ids
      BY <1>0, <1>1, <1>10 DEF CallOK
    <3> QED BY <1>2, <3>1
  <2> QED BY <1>3, <1>10, <2>1 DEF BurnFraction, TypeOK
<1>11. CASE call.op = "claim" /\ BatchMintClaimsFromAllowlists(a, a, call.claims)
  <2>1. call.claims \in Seq(ItemSet)
    BY <1>1 DEF Claim, ItemSet
  <2>2. MintTo(a, call.claims) /\ tokenValues' = MintedValues(call.claims)
    BY <1>11 DEF BatchMintClaimsFromAllowlists
  <2> QED BY <1>0, <1>4, <2>1, <2>2, MintLeavesHeld
<1>12. Sends(a, call)
  BY DEF Mined
<1> QED BY <1>6, <1>7, <1>8, <1>9, <1>10, <1>11, <1>12 DEF Sends

\* A call whose tokens were not detached when the client asked about them, and
\* stayed as they were since, takes and changes nothing that others hold.
THEOREM OthersStayUntouched == ClientSpec => OthersUntouched
<1>1. ClientInv => [\A a \in Clients : Mined(a) /\ ~client[a].stale =>
                      \A id \in TokenIDs : Holders(id) \ {a} # {} =>
                        Standing(id)' = Standing(id)]_clientVars
  BY MinedStep DEF ClientInv
<1> QED BY <1>1, ClientInvariant, PTL DEF OthersUntouched

-----------------------------------------------------------------------------
(* The units the signer holds                                              *)

HeldBy(a) == {id \in TokenIDs : a \in Holders(id)}

\* A split of a token the signer holds leaves it all the units: one share on
\* the token, the others on new tokens of its own.
LEMMA SplitKeepsHeld ==
  ASSUME HolderInv, TypeOK', NEW a \in Accounts, NEW id \in TokenIDs,
         NEW values \in Seq(0..MaxUint), Len(values) >= 2,
         SplitTokenUnits(a, a, id, values), a \in Holders(id)
  PROVE  UnitsHeld(a)' = UnitsHeld(a)
<1> DEFINE t == getBaseType(id)
           items == NewShares(t, values)
           M == MintedValues(items)
           N == NewIDs(items)
           H == HeldBy(a)
           E == H \ {id}
<1>1. TypeOK /\ t \in TypeIDs /\ items \in Seq(ItemSet)
  BY NewSharesType DEF HolderInv, TokenIDs, getBaseType
<1>2. /\ MintTo(a, items) /\ RoomFor(items)
      /\ tokenValues[id] = SumOf(values)
      /\ tokenValues' = [M EXCEPT ![id] = values[1]]
  BY DEF SplitTokenUnits, MintTo
<1>3. /\ M \in [TokenIDs -> 0..MaxUint]
      /\ tokenValues \in [TokenIDs -> 0..MaxUint]
      /\ tokenValues' \in [TokenIDs -> 0..MaxUint]
  BY <1>1, <1>2, MintToType DEF TypeOK
<1>4. N \subseteq TokenIDs /\ Total(M, N) = SumOf(values) - values[1]
  <2>1. \A i \in DOMAIN items : items[i].typeID = t
    BY DEF NewShares, Item
  <2>2. N = {ItemID(items, i) : i \in Positions(items, t)}
    <3> HIDE DEF items
    <3> QED BY <2>1 DEF NewIDs, Positions
  <2>3. UnitsFor(items, t) = SumOf(values) - values[1]
    BY <1>1, SharesSum
  <2> HIDE DEF items, M, N
  <2> QED BY <1>1, <1>2, <1>3, <2>2, <2>3, NewUnits DEF M
<1> HIDE DEF items
<1>5. H \cap N = {} /\ id \in E \cup {id} /\ H = E \cup {id} /\ H \subseteq TokenIDs
  <2>1. id \in H /\ H \subseteq TokenIDs
    BY DEF HeldBy
  <2>2. ASSUME NEW x \in H PROVE x \notin N
    BY <1>1, <1>2, <2>1, MintLeavesHeld DEF HeldBy
  <2> HIDE DEF H, N
  <2> QED BY <2>1, <2>2
<1>6. HeldBy(a)' = H \cup N
  <2>1. \A x \in TokenIDs :
          /\ x \notin N => balances'[x][a] = balances[x][a]
          /\ x \in N => balances'[x][a] = 1
    BY <1>1, <1>2, MintTouchesFresh
  <2>2. \A x \in TokenIDs : balances'[x][a] > 0 <=> x \in N \/ balances[x][a] > 0
    <3> HIDE DEF N
    <3> QED BY <2>1
  <2> HIDE DEF N
  <2> QED BY <1>4, <2>2 DEF HeldBy, Holders
<1>7. /\ Summable(tokenValues', H) /\ Summable(tokenValues', N)
      /\ Summable(tokenValues, H) /\ Summable(tokenValues, E)
  <2> HIDE DEF H, N
  <2> QED BY <1>3, <1>4, <1>5, ValuesSummable
<1>8. Total(tokenValues', H \cup N) = Total(tokenValues', H) + Total(tokenValues', N)
  <2> HIDE DEF H, N
  <2> QED BY <1>5, <1>7, TotalUnion
<1>9. Total(tokenValues', N) = SumOf(values) - values[1]
  <2>1. \A x \in N : tokenValues'[x] = M[x]
    <3>1. id \notin N
      BY <1>5 DEF HeldBy
    <3> HIDE DEF N, M
    <3> QED BY <1>2, <1>3, <1>4, <3>1
  <2>2. Total(tokenValues', N) = Total(M, N)
    <3> HIDE DEF N, M
    <3> QED BY <2>1, TotalSame
  <2> QED BY <1>4, <2>2
<1>10. /\ Total(tokenValues', H) = Total(tokenValues', E) + tokenValues'[id]
       /\ Total(tokenValues, H) = Total(tokenValues, E) + tokenValues[id]
  <2>1. id \in H
    BY DEF HeldBy
  <2> HIDE DEF H
  <2> QED BY <1>7, <2>1, TotalRemove
<1>11. Total(tokenValues', E) = Total(tokenValues, E)
  <2>1. \A x \in E : tokenValues'[x] = tokenValues[x]
    <3> TAKE x \in E
    <3>1. x \in TokenIDs /\ x \notin N /\ x # id
      BY <1>5
    <3>2. M[x] = tokenValues[x]
      BY <3>1 DEF MintedValues
    <3> HIDE DEF M, N, E
    <3> QED BY <1>2, <1>3, <3>1, <3>2
  <2> HIDE DEF E
  <2> QED BY <2>1, TotalSame
<1>12. tokenValues'[id] = values[1] /\ tokenValues'[id] \in Nat /\ tokenValues[id] \in Nat
  <2> HIDE DEF M
  <2> QED BY <1>2, <1>3, MinterAssumption
<1>13. Total(tokenValues, E) \in Nat
  BY <1>7, TotalIsNat
<1> HIDE DEF H, N, E, M
<1>14. Total(tokenValues', H \cup N) = Total(tokenValues, H)
  BY <1>2, <1>8, <1>9, <1>10, <1>11, <1>12, <1>13
<1> QED BY <1>6, <1>14 DEF UnitsHeld, HeldBy, H

\* A merge of different tokens that the signer holds leaves it all the units:
\* the sources are gone, and the target has what they carried.
LEMMA MergeKeepsHeld ==
  ASSUME HolderInv, TypeOK', NEW a \in Accounts, NEW ids \in Seq(TokenIDs),
         Len(ids) >= 2, MergeFractions(a, a, ids), IsInjective(ids),
         \A i \in DOMAIN ids : Holders(ids[i]) = {a}
  PROVE  UnitsHeld(a)' = UnitsHeld(a)
<1> DEFINE S == Sources(ids)
           target == Target(ids)
           H == HeldBy(a)
           R == H \ S
           E == R \ {target}
<1>1. TypeOK /\ S \subseteq TokenIDs /\ target \in TokenIDs
      /\ MergedUnits(ids) \in Nat /\ MergedUnits(ids) = Total(tokenValues, S)
  BY MergeType, MergeSources DEF HolderInv
<1>2. DOMAIN ids = 1..Len(ids) /\ Len(ids) \in Nat
  BY LenProperties
<1>3. S \subseteq H /\ target \in R /\ H \subseteq TokenIDs
  <2>1. \A i \in 1..(Len(ids) - 1) : i \in DOMAIN ids /\ ids[i] # ids[Len(ids)]
    BY <1>2 DEF IsInjective
  <2>2. target \notin S
    BY <2>1 DEF Sources, Target
  <2>3. S \subseteq H
    BY <1>1, <2>1 DEF Sources, HeldBy
  <2>4. Len(ids) \in DOMAIN ids
    BY <1>2
  <2>5. target \in H
    BY <1>1, <2>4 DEF Target, HeldBy
  <2> QED BY <2>2, <2>3, <2>5 DEF HeldBy
<1>4. /\ tokenValues \in [TokenIDs -> 0..MaxUint]
      /\ tokenValues' \in [TokenIDs -> 0..MaxUint]
      /\ balances \in [TokenIDs -> [Accounts -> Nat]]
  BY <1>1 DEF TypeOK
<1>5. HeldBy(a)' = R
  <2>1. ASSUME NEW x \in S
        PROVE  ~(balances'[x][a] > 0)
    <3>1. x \in TokenIDs /\ a \in Holders(x)
      BY <1>3 DEF HeldBy
    <3>2. balances[x][a] = 1
      BY <3>1, HeldAlone
    <3>3. TimesMerged(ids, x) \in Nat \ {0} /\ balances[x][a] >= TimesMerged(ids, x)
      BY <1>1, MergeType DEF MergeFractions
    <3>4. balances'[x] = [balances[x] EXCEPT ![a] = @ - TimesMerged(ids, x)]
      BY <3>1 DEF MergeFractions
    <3>5. balances[x] \in [Accounts -> Nat]
      BY <1>4, <3>1
    <3> QED BY <3>2, <3>3, <3>4, <3>5
  <2>2. ASSUME NEW x \in TokenIDs, x \notin S
        PROVE  balances'[x] = balances[x]
    BY <2>2 DEF MergeFractions
  <2> HIDE DEF S
  <2> QED BY <1>1, <2>1, <2>2 DEF HeldBy, Holders
<1>6. /\ tokenValues'[target] = tokenValues[target] + MergedUnits(ids)
      /\ \A x \in E : tokenValues'[x] = tokenValues[x]
  <2> DEFINE cleared == ClearedValues(ids)
  <2>1. tokenValues' = [cleared EXCEPT ![target] = @ + MergedUnits(ids)]
    BY DEF MergeFractions
  <2>2. \A x \in R : x \in TokenIDs /\ cleared[x] = tokenValues[x]
    BY <1>3 DEF ClearedValues
  <2>3. DOMAIN cleared = TokenIDs
    BY DEF ClearedValues
  <2> HIDE DEF cleared, target, R
  <2> QED BY <1>1, <1>3, <2>1, <2>2, <2>3
<1> HIDE DEF S, target, H
<1>7. /\ Summable(tokenValues, S) /\ Summable(tokenValues, R)
      /\ Summable(tokenValues, E) /\ Summable(tokenValues', R)
  BY <1>1, <1>3, <1>4, ValuesSummable
<1>8. Total(tokenValues, H) = Total(tokenValues, R) + Total(tokenValues, S)
  <2>1. H = R \cup S /\ R \cap S = {}
    BY <1>3
  <2> HIDE DEF R
  <2> QED BY <1>7, <2>1, TotalUnion
<1> HIDE DEF R
<1>9. /\ Total(tokenValues, R) = Total(tokenValues, E) + tokenValues[target]
      /\ Total(tokenValues', R) = Total(tokenValues', E) + tokenValues'[target]
  BY <1>3, <1>7, TotalRemove
<1>10. Total(tokenValues', E) = Total(tokenValues, E)
  <2> HIDE DEF E
  <2> QED BY <1>6, TotalSame
<1>11. Total(tokenValues, E) \in Nat /\ tokenValues[target] \in Nat
  BY <1>1, <1>4, <1>7, TotalIsNat, MinterAssumption
<1> HIDE DEF E
<1>12. Total(tokenValues', R) = Total(tokenValues, H)
  BY <1>1, <1>6, <1>8, <1>9, <1>10, <1>11
<1> QED BY <1>5, <1>12 DEF UnitsHeld, HeldBy, H

LEMMA SignerStep ==
  ASSUME CallsOK, HolderInv, TypeOK', CheckedAreHeld,
         NEW a \in Clients, Mined(a), ~client[a].stale,
         client[a].op \in {"splitFraction", "mergeFractions"},
         IsInjective(client[a].ids)
  PROVE  UnitsHeld(a)' = UnitsHeld(a)
<1> DEFINE call == client[a]
<1>1. a \in Accounts /\ call \in ClientCalls /\ CallOK(call)
  BY ClientAssumption DEF CallsOK
<1>2. call.ids \in Seq(TokenIDs) /\ call.values \in Seq(0..MaxUint)
  BY <1>1 DEF ClientCalls
<1>3. Sends(a, call)
  BY DEF Mined
<1>4. CASE call.op = "splitFraction"
  <2>1. SplitFraction(a, a, call.ids[1], call.values)
    BY <1>3, <1>4 DEF Sends
  <2>2. Len(call.ids) = 1 /\ call.values \in SeqsBetween(0..MaxUint, 2, FractionLimit)
    BY <1>1, <1>4 DEF CallOK
  <2>3. Len(call.values) \in 2..FractionLimit
    BY <2>2, SeqsBetweenType, MinterAssumption
  <2>4. 1 \in DOMAIN call.ids
    BY <1>2, <2>2
  <2>5. Holders(call.ids[1]) = {a} /\ call.ids[1] \in TokenIDs
    BY <2>4, MinedNamesChecked
  <2>6. Len(call.values) >= 2
    BY <2>3
  <2> QED BY <1>1, <1>2, <2>1, <2>5, <2>6, SplitKeepsHeld DEF SplitFraction
<1>5. CASE call.op = "mergeFractions"
  <2>1. MergeFractions(a, a, call.ids)
    BY <1>3, <1>5 DEF Sends
  <2>2. Len(call.ids) \in 2..FractionLimit
    BY <1>1, <1>5, SeqsBetweenType, MinterAssumption DEF CallOK
  <2>3. Len(call.ids) >= 2
    BY <2>2
  <2>4. \A i \in DOMAIN call.ids : Holders(call.ids[i]) = {a}
    BY MinedNamesChecked
  <2> QED BY <1>1, <1>2, <2>1, <2>3, <2>4, MergeKeepsHeld
<1> QED BY <1>4, <1>5

\* And a split, or a merge of different tokens, leaves the signer the units it
\* had, though the contract would let them end up on a token of somebody else.
THEOREM SignersKeepUnits == ClientSpec => SignerKeepsUnits
<1>1. ClientInv /\ ClientInv' =>
        [\A a \in Clients :
           /\ Mined(a) /\ ~client[a].stale
           /\ client[a].op \in {"splitFraction", "mergeFractions"}
           /\ IsInjective(client[a].ids)
           => UnitsHeld(a)' = UnitsHeld(a)]_clientVars
  BY SignerStep DEF ClientInv, HolderInv
<1> QED BY <1>1, ClientInvariant, PTL DEF SignerKeepsUnits
=============================================================================
