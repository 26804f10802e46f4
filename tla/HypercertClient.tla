--------------------------- MODULE HypercertClient ---------------------------
(***************************************************************************)
(* The SDK's client.  A call asks the contract who holds the tokens and    *)
(* what they carry, one question at a time, and only then sends its        *)
(* transaction, which the wallet and the network deliver when they like.   *)
(* Other transactions come in between: the user's own from another wallet, *)
(* those of its operators, those of other clients.  The contract does not  *)
(* ask again whether the signer holds what it splits or merges into.       *)
(*                                                                         *)
(* An account makes one call at a time.  Storing metadata and the tree has *)
(* no effect on the contract and is left out.                              *)
(***************************************************************************)
EXTENDS HypercertMinter, SequencesExt

CONSTANTS
  Clients,   \* the accounts that use the client
  Direct     \* the accounts that (also) call the contract without it

ASSUME ClientAssumption == Clients \subseteq Accounts /\ Direct \subseteq Accounts

VARIABLES
  client,    \* account -> the call its client is making
  detached   \* the tokens, as a history, whose recorded owner a transfer of 0
             \* has replaced since they last changed hands

clientVars == <<vars, client, detached>>

\* A call: what it does, the tokens it checks, the shares of a split or the units
\* of the rest, the list it registers or the claims it makes of one, the
\* questions not yet answered (i: who owns the i-th token; 0: what the first one
\* carries), and, as a history, whether a token was detached when it was asked for
\* or has changed since.
Call(op, ids, values, unread) ==
  [op |-> op, ids |-> ids, values |-> values, list |-> {}, claims |-> <<>>,
   unread |-> unread, stale |-> FALSE]

NoCall == Call("none", <<>>, <<>>, {})

Claim == [typeID : TypeIDs, units : 0..MaxUint]

ClientCalls ==
  [op : {"none", "mintClaim", "createAllowlist", "splitFraction",
         "mergeFractions", "burnFraction", "claim"},
   ids : Seq(TokenIDs),
   values : Seq(0..MaxUint),
   list : SUBSET Leaves,
   claims : Seq(Claim),
   unread : SUBSET Nat,
   stale : BOOLEAN]

ClientTypeOK ==
  /\ TypeOK
  /\ client \in [Accounts -> ClientCalls]
  /\ \A a \in Accounts : client[a].unread \subseteq 0..Len(client[a].ids)
  /\ detached \subseteq TokenIDs

ClientInit == Init /\ client = [a \in Accounts |-> NoCall] /\ detached = {}

-----------------------------------------------------------------------------
(* Calls and their checks                                                  *)

Begin(a, call) ==
  /\ client[a].op = "none"
  /\ client' = [client EXCEPT ![a] = call]
  /\ UNCHANGED <<vars, detached>>

\* Mutant of splitClaimUnits: the owner is not asked for.
splitClaimUnitsUnowned(a) ==
  \E id \in TokenIDs, fractions \in SeqsBetween(0..MaxUint, 2, FractionLimit) :
    Begin(a, Call("splitFraction", <<id>>, fractions, {0}))

splitClaimUnits(a) ==
  \E id \in TokenIDs, fractions \in SeqsBetween(0..MaxUint, 2, FractionLimit) :
    Begin(a, Call("splitFraction", <<id>>, fractions, {0, 1}))

\* Mutant of mergeClaimUnits: the token merged into is not asked for.
mergeClaimUnitsSources(a) ==
  \E ids \in SeqsBetween(TokenIDs, 2, FractionLimit) :
    Begin(a, Call("mergeFractions", ids, <<>>, 1..(Len(ids) - 1)))

\* Mutant of mergeClaimUnits: it waits for one answer more than there are.
mergeClaimUnitsPast(a) ==
  \E ids \in SeqsBetween(TokenIDs, 2, FractionLimit) :
    Begin(a, Call("mergeFractions", ids, <<>>, 1..(Len(ids) + 1)))

mergeClaimUnits(a) ==
  \E ids \in SeqsBetween(TokenIDs, 2, FractionLimit) :
    Begin(a, Call("mergeFractions", ids, <<>>, DOMAIN ids))

burnClaimFraction(a) ==
  \E id \in TokenIDs : Begin(a, Call("burnFraction", <<id>>, <<>>, {1}))

mintClaim(a) ==
  \E units \in 0..MaxUint : Begin(a, Call("mintClaim", <<>>, <<units>>, {}))

\* validateAllowlist: the list adds up to the units declared, which are not 0 and
\* have to fit a uint256 to be sent.
createAllowlist(a) ==
  \E list \in Allowlists :
    LET units == Total([leaf \in list |-> leaf[2]], list)
    IN  /\ units \in 1..MaxUint
        /\ Begin(a, [Call("createAllowlist", <<>>, <<units>>, {})
                      EXCEPT !.list = list])

\* A caller that passes the roots has its proofs verified first.  One claim and
\* several are two calls of the client, which differ in nothing else.
claimFractions(a) ==
  \E claims \in SeqsBetween(Claim, 1, MaxBatch), verify \in BOOLEAN :
    /\ verify => \A i \in DOMAIN claims :
                   <<a, claims[i].units>> \in merkleRoots[claims[i].typeID]
    /\ Begin(a, [Call("claim", <<>>, <<>>, {}) EXCEPT !.claims = claims])

\* ownerOf: the answers of a merge arrive in any order, and anything but the
\* signer ends the call.
AskOwner(a) ==
  \E i \in client[a].unread \ {0} :
    /\ owners[client[a].ids[i]] = a
    /\ client' = [client EXCEPT ![a].unread = @ \ {i},
                                ![a].stale = @ \/ client[a].ids[i] \in detached]
    /\ UNCHANGED <<vars, detached>>

\* unitsOf, after the owner: the shares have to add up to it.
AskUnits(a) ==
  /\ client[a].unread = {0}
  /\ tokenValues[client[a].ids[1]] = SumOf(client[a].values)
  /\ client' = [client EXCEPT ![a].unread = {}]
  /\ UNCHANGED <<vars, detached>>

\* A check fails, the user or the wallet declines, or the transaction reverts.
CallEnds(a) ==
  /\ client[a].op # "none"
  /\ client' = [client EXCEPT ![a] = NoCall]
  /\ UNCHANGED <<vars, detached>>

-----------------------------------------------------------------------------
(* Transactions                                                            *)

\* The tokens whose owner has been asked.
Checked(call) == {call.ids[i] : i \in DOMAIN call.ids \ call.unread}

Holders(id) == {a \in Accounts : balances[id][a] > 0}
Standing(id) == <<tokenValues[id], Holders(id)>>

\* What a transaction does to the calls it overtakes.
Overtaken(call) ==
  [call EXCEPT !.stale = @ \/ \E id \in Checked(call) : Standing(id)' # Standing(id)]

Sends(a, call) ==
  \/ call.op = "mintClaim" /\ \E r \in Policies : MintClaim(a, call.values[1], r)
  \/ call.op = "createAllowlist" /\ \E r \in Policies :
                                      CreateAllowlist(a, call.values[1], call.list, r)
  \/ call.op = "splitFraction" /\ SplitFraction(a, a, call.ids[1], call.values)
  \/ call.op = "mergeFractions" /\ MergeFractions(a, a, call.ids)
  \/ call.op = "burnFraction" /\ BurnFraction(a, a, call.ids[1])
  \/ call.op = "claim" /\ BatchMintClaimsFromAllowlists(a, a, call.claims)

\* A transaction detaches the tokens that it gives another recorded owner and
\* does not move, and mends the record of those that it moves.
Detaches ==
  detached' = {id \in TokenIDs : /\ balances'[id] = balances[id]
                                 /\ id \in detached \/ owners'[id] # owners[id]}

Mined(a) ==
  /\ client[a].unread = {}
  /\ Sends(a, client[a])
  /\ Detaches
  /\ client' = [b \in Accounts |-> IF b = a THEN NoCall ELSE Overtaken(client[b])]

DirectBy(s) ==
  /\ NextBy(s)
  /\ Detaches
  /\ client' = [a \in Accounts |-> Overtaken(client[a])]

ClientBy(a) ==
  \/ splitClaimUnits(a) \/ mergeClaimUnits(a) \/ burnClaimFraction(a)
  \/ mintClaim(a) \/ createAllowlist(a) \/ claimFractions(a)
  \/ AskOwner(a) \/ AskUnits(a) \/ CallEnds(a) \/ Mined(a)

ClientNext == (\E s \in Direct : DirectBy(s)) \/ (\E a \in Clients : ClientBy(a))

ClientSpec == ClientInit /\ [][ClientNext]_clientVars

-----------------------------------------------------------------------------
(* Properties                                                              *)

\* The premise of the client's checks: the contract records as the owner of a
\* token whoever holds it, through mints, batches, merges and burns. All that
\* ever parts the two is a transfer of 0, and the token's next change of hands
\* mends it.
RecordedIsHolder ==
  \A id \in TokenIDs \ detached, a \in Accounts : owners[id] = a <=> a \in Holders(id)

\* A call that asked for tokens that were not detached, and that stayed as they
\* were since, takes and changes nothing that others hold, though the contract
\* would let it.
OthersUntouched ==
  [][\A a \in Clients : Mined(a) /\ ~client[a].stale =>
       \A id \in TokenIDs : Holders(id) \ {a} # {} => Standing(id)' = Standing(id)]_clientVars

\* The units an account holds.
UnitsHeld(a) == Total(tokenValues, {id \in TokenIDs : a \in Holders(id)})

\* And a split, or a merge of different tokens, leaves the signer the units it
\* had: none end up on a token the signer does not hold.
SignerKeepsUnits ==
  [][\A a \in Clients :
       /\ Mined(a) /\ ~client[a].stale
       /\ client[a].op \in {"splitFraction", "mergeFractions"}
       /\ IsInjective(client[a].ids)
       => UnitsHeld(a)' = UnitsHeld(a)]_clientVars
=============================================================================
