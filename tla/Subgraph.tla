------------------------------ MODULE Subgraph ------------------------------
(***************************************************************************)
(* The subgraph beside the contract: transactions emit events, blocks seal *)
(* them, and the mapping handlers turn them into entities, one block after *)
(* another and at any distance behind the chain.  A handler that creates a *)
(* ClaimToken asks the contract for ownerOf and is answered from the state *)
(* at the end of the block, not at its event.                              *)
(*                                                                         *)
(* A mint, a claim or a split calls its receiver back when the new tokens  *)
(* are there, and only then emits the event that says what units they      *)
(* carry.  If the receiver is a contract, the events of the calls it makes *)
(* come in between, so every such transaction is cut at its callback.      *)
(*                                                                         *)
(* Events whose handlers are empty and that change nothing here (URI,      *)
(* LeafClaimed, ApprovalForAll, OwnershipTransferred, Initialized) are     *)
(* left out, and with them approvals, pausing and changes of the owner:    *)
(* they only decide who may send the transactions modelled.                *)
(***************************************************************************)
EXTENDS ReentrantMinter

CONSTANTS
  NoEntity,      \* what the store holds for an ID before its entity exists
  MaxAhead       \* the most calls whose block is not indexed (a bound)

\* Token ID 0, which stands for no token at either end of a ValueTransfer.
\* The handlers keep an entity for it like for any other.
NoToken == <<0, 0>>

VARIABLES
  block,         \* the open block: its number of calls and the events emitted
  waiting,       \* the mints, claims and splits in a callback, innermost last
  unemitted,     \* what they emit once their callbacks have returned, in order
  feed,          \* the sealed blocks to index, with the owners at their end
  claims,        \* Claim entities
  allowlists,    \* Allowlist entities
  claimTokens,   \* ClaimToken entities
  merged,        \* history: the types some merge has touched
  batched,       \* history: the tokens named by a batch after they were minted
  credited,      \* history: the tokens a merge credited before they were minted
  early          \* history: the tokens that gave units before the event of their mint

chainVars == <<block, waiting, unemitted, feed>>
storeVars == <<claims, allowlists, claimTokens>>
historyVars == <<merged, batched, credited, early>>
subgraphVars == <<reentrantVars, chainVars, storeVars, historyVars>>

\* The calls whose block is not indexed to its end.
Ahead == block.txs + Total([i \in DOMAIN feed |-> feed[i].txs], DOMAIN feed)

ClaimToken == [owner : Accounts \cup {NoAccount}, claim : TypeIDs, units : Int]

\* Of a Claim, its creator and owner (event.transaction.from) are left out.
Claim == [totalUnits : 0..MaxUint]

ASSUME SubgraphAssumption ==
  /\ MaxAhead \in Nat
  /\ NoEntity \notin ClaimToken /\ NoEntity \notin Claim

SubgraphTypeOK ==
  /\ TypeOK
  /\ Ahead <= MaxAhead
  /\ waiting \in Seq([call : Nat, left : Nat])
  /\ claims \in [TypeIDs -> Claim \cup {NoEntity}]
  /\ allowlists \in [TypeIDs -> (SUBSET Leaves) \cup {NoEntity}]
  /\ claimTokens \in [TokenIDs \cup {NoToken} -> ClaimToken \cup {NoEntity}]
  /\ merged \subseteq TypeIDs
  /\ batched \subseteq TokenIDs
  /\ credited \subseteq TokenIDs
  /\ early \subseteq TokenIDs

EmptyBlock == [txs |-> 0, events |-> <<>>]

SubgraphInit ==
  /\ ReentrantInit
  /\ block = EmptyBlock
  /\ waiting = <<>>
  /\ unemitted = <<>>
  /\ feed = <<>>
  /\ claims = [t \in TypeIDs |-> NoEntity]
  /\ allowlists = [t \in TypeIDs |-> NoEntity]
  /\ claimTokens = [id \in TokenIDs \cup {NoToken} |-> NoEntity]
  /\ merged = {}
  /\ batched = {}
  /\ credited = {}
  /\ early = {}

-----------------------------------------------------------------------------
(* Events                                                                  *)

ClaimStored(t, units) == [event |-> "ClaimStored", claim |-> t, units |-> units]
AllowlistCreated(t, root) ==
  [event |-> "AllowlistCreated", claim |-> t, root |-> root]
TransferSingle(to, id) == [event |-> "TransferSingle", to |-> to, id |-> id]
TransferBatch(to, ids) == [event |-> "TransferBatch", to |-> to, ids |-> ids]
ValueTransfer(t, from, to, value) ==
  [event |-> "ValueTransfer", claim |-> t, from |-> from, to |-> to, value |-> value]

\* Mutant of BatchValueTransfer: the last entry is left out.
BatchValueTransferShort(from, ids, items) ==
  [i \in 1..(Len(items) - 1) |->
     ValueTransfer(items[i].typeID, from, ids[i], items[i].units)]

\* A BatchValueTransfer is handled entry by entry, each as a ValueTransfer is.
BatchValueTransfer(from, ids, items) ==
  [i \in DOMAIN items |->
     ValueTransfer(items[i].typeID, from, ids[i], items[i].units)]

\* What a batch of new tokens emits if no callback comes in between.
BatchMinted(account, from, ids, items) ==
  <<TransferBatch(account, ids)>> \o BatchValueTransfer(from, ids, items)

IDsOf(items) == [i \in DOMAIN items |-> ItemID(items, i)]

\* The tokens that these events take units from, while the event that will give
\* them those of their mint is still among the later ones.
Overtaken(events, later) ==
  {id \in TokenIDs :
     /\ \E i \in DOMAIN events : /\ events[i].event = "ValueTransfer"
                                 /\ events[i].from = id
     /\ \E i \in DOMAIN later : /\ later[i].event = "ValueTransfer"
                                /\ later[i].from = NoToken /\ later[i].to = id}

\* A call joins the open block with the events it emits: a transaction, or a
\* call that a contract makes from a callback.
Emit(events) ==
  /\ Ahead < MaxAhead
  /\ block' = [txs |-> block.txs + 1, events |-> block.events \o events]
  /\ early' = early \cup Overtaken(events, unemitted)
  /\ UNCHANGED <<waiting, unemitted, feed, storeVars>>

\* A call that waits: its place in calls, or 0 if it has only events to emit when
\* its callback has returned; and how many events others emit after it.
Waiting(call, left) == [call |-> call, left |-> left]

\* A call whose receiver is called back between two parts of its events.
EmitAround(receiver, call, before, after) ==
  \/ /\ receiver \notin Contracts
     /\ Emit(before \o after)
  \/ /\ receiver \in Contracts
     /\ Ahead < MaxAhead /\ Len(waiting) < MaxDepth
     /\ block' = [txs |-> block.txs + 1, events |-> block.events \o before]
     /\ waiting' = Append(waiting, Waiting(call, Len(unemitted)))
     /\ unemitted' = after \o unemitted
     /\ early' = early \cup Overtaken(before \o after, unemitted)
     /\ UNCHANGED <<feed, storeVars>>

\* A batch of new tokens that take their units from a token, or from none.
EmitBatchMinted(account, from, items) ==
  /\ EmitAround(account, 0, <<TransferBatch(account, IDsOf(items))>>,
                BatchValueTransfer(from, IDsOf(items), items))
  /\ UNCHANGED <<calls, merged, batched, credited>>

\* _createTokenType announces the type as a transfer of its base ID to nobody.
TypeEvent == TransferSingle(NoAccount, BaseID(NewType))

-----------------------------------------------------------------------------
(* Transactions of the contract with their events                          *)

\* The first token of a new type: nobody transfers the base ID, so nobody is
\* called back for that.
EmitNewToken(s, call, units) ==
  LET id == <<NewType, 1>>
  IN  EmitAround(s, call, <<TypeEvent, TransferSingle(s, id)>>,
                 <<ValueTransfer(NewType, NoToken, id, units),
                   ClaimStored(NewType, units)>>)

EmitMintClaim(s, units, r) ==
  /\ \/ s \notin Contracts /\ MintClaim(s, units, r) /\ UNCHANGED calls
     \/ s \in Contracts /\ CallMintClaim(s, units, r)
  /\ EmitNewToken(s, Len(calls) + 1, units)
  /\ UNCHANGED <<merged, batched, credited>>

\* Without callbacks, the first token is split at once.
EmitMintClaimWithFractions(s, units, fractions, r) ==
  LET id == <<NewType, 1>>
      shares == NewShares(NewType, fractions)
      ids == [i \in DOMAIN shares |-> <<NewType, i + 1>>]
  IN  /\ \/ /\ s \notin Contracts
            /\ MintClaimWithFractions(s, units, fractions, r)
            /\ Emit(<<TypeEvent, TransferSingle(s, id),
                      ValueTransfer(NewType, NoToken, id, units)>>
                    \o BatchMinted(s, id, ids, shares)
                    \o <<ClaimStored(NewType, units)>>)
            /\ UNCHANGED calls
         \/ /\ s \in Contracts
            /\ units = SumOf(fractions)
            /\ CallMintClaimWithFractions(s, fractions, r)
            /\ EmitNewToken(s, Len(calls) + 1, units)
      /\ UNCHANGED <<merged, batched, credited>>

\* Mutant of EmitCreateAllowlist: the claim is not announced.
EmitCreateAllowlistUnstored(account, units, root, r) ==
  /\ CreateAllowlist(account, units, root, r)
  /\ Emit(<<TypeEvent, AllowlistCreated(NewType, root)>>)
  /\ UNCHANGED <<calls, merged, batched, credited>>

\* The account named is the operator of the type's event, which no handler reads.
EmitCreateAllowlist(account, units, root, r) ==
  /\ CreateAllowlist(account, units, root, r)
  /\ Emit(<<TypeEvent, AllowlistCreated(NewType, root), ClaimStored(NewType, units)>>)
  /\ UNCHANGED <<calls, merged, batched, credited>>

EmitMintClaimFromAllowlist(s, account, t, units) ==
  LET id == IDsOf(<<Item(t, units)>>)[1]
  IN  /\ MintClaimFromAllowlist(s, account, t, units)
      /\ EmitAround(account, 0, <<TransferSingle(account, id)>>,
                    <<ValueTransfer(t, NoToken, id, units)>>)
      /\ UNCHANGED <<calls, merged, batched, credited>>

EmitBatchMintClaims(s, account, items) ==
  /\ BatchMintClaimsFromAllowlists(s, account, items)
  /\ EmitBatchMinted(account, NoToken, items)

EmitSplitFraction(s, account, id, values) ==
  /\ SplitFraction(s, account, id, values)
  /\ EmitBatchMinted(account, id, NewShares(getBaseType(id), values))

\* A merge says which tokens were burned and nothing of where their units went.
EmitMergeFractions(s, account, ids) ==
  /\ MergeFractions(s, account, ids)
  /\ Emit(<<TransferBatch(NoAccount, SubSeq(ids, 1, Len(ids) - 1))>>)
  /\ merged' = merged \cup {getBaseType(Target(ids))}
  /\ batched' = batched \cup Sources(ids)
  /\ credited' = credited \cup ({Target(ids)} \ {id \in TokenIDs : Minted(id)})
  /\ UNCHANGED calls

EmitBurnFraction(s, account, id) ==
  /\ BurnFraction(s, account, id)
  /\ Emit(<<TransferSingle(NoAccount, id),
            ValueTransfer(getBaseType(id), id, NoToken, tokenValues[id])>>)
  /\ UNCHANGED <<calls, merged, batched, credited>>

\* safeTransferFrom and burn announce their one token, the batches a list.
EmitTransfer(batch, to) ==
  LET ids == [i \in DOMAIN batch |-> batch[i].id]
  IN  /\ \/ /\ Len(batch) = 1
            /\ Emit(<<TransferSingle(to, ids[1])>>)
            /\ UNCHANGED batched
         \/ /\ Emit(<<TransferBatch(to, ids)>>)
            /\ batched' = batched \cup {ids[i] : i \in DOMAIN ids}
      /\ UNCHANGED <<calls, merged, credited>>

Transact(s) ==
  \/ \E units \in 0..MaxUint, r \in Policies : EmitMintClaim(s, units, r)
  \/ \E units \in 0..MaxUint, r \in Policies :
       \E fractions \in SeqsBetween(0..MaxUint, 2, FractionLimit) :
         EmitMintClaimWithFractions(s, units, fractions, r)
  \/ \E account \in Accounts, units \in 0..MaxUint, root \in Allowlists, r \in Policies :
       EmitCreateAllowlist(account, units, root, r)
  \/ \E account \in Accounts, t \in TypeIDs, units \in 0..MaxUint :
       EmitMintClaimFromAllowlist(s, account, t, units)
  \/ \E account \in Accounts,
        items \in SeqsBetween([typeID : TypeIDs, units : 0..MaxUint], 1, MaxBatch) :
       EmitBatchMintClaims(s, account, items)
  \/ \E account \in Accounts, id \in TokenIDs,
        values \in SeqsBetween(0..MaxUint, 2, FractionLimit) :
       EmitSplitFraction(s, account, id, values)
  \/ \E account \in Accounts, ids \in SeqsBetween(TokenIDs, 2, FractionLimit) :
       EmitMergeFractions(s, account, ids)
  \/ \E account \in Accounts, id \in TokenIDs : EmitBurnFraction(s, account, id)
  \/ \E from, to \in Accounts, batch \in SeqsBetween(Transfers, 1, MaxBatch) :
       \/ SafeBatchTransferFrom(s, from, to, batch) /\ EmitTransfer(batch, to)
       \/ /\ from = to
          /\ SafeBatchTransferToSelf(s, from, batch)
          /\ EmitTransfer(batch, to)
  \/ \E account \in Accounts, batch \in SeqsBetween(Transfers, 1, MaxBatch) :
       BurnBatch(s, account, batch) /\ EmitTransfer(batch, NoAccount)

-----------------------------------------------------------------------------
(* The callbacks                                                           *)

InCallback == waiting[Len(waiting)]

\* mintClaimWithFractions, called back for its first token, emits the event of
\* that and splits it, which calls the receiver once more; ClaimStored comes last.
ReturnAndSplit ==
  LET t == Innermost.claimID
      id == <<t, maxIndex[t]>>
      items == NewShares(t, Innermost.fractions)
      batch == TransferBatch(creators[t], IDsOf(items))
      transfers == BatchValueTransfer(id, IDsOf(items), items)
  IN  /\ waiting # <<>> /\ InCallback.call = Len(calls)
      /\ ReturnToSplit
      /\ block' = [block EXCEPT !.events = @ \o <<Head(unemitted), batch>>]
      /\ unemitted' = transfers \o Tail(unemitted)
      /\ early' = early \cup Overtaken(<<batch>> \o transfers, Tail(unemitted))
      /\ UNCHANGED <<waiting, feed, storeVars, merged, batched, credited>>

\* The innermost callback has returned: its call emits what it has left to emit.
EmitRest ==
  LET n == Len(unemitted) - InCallback.left
  IN  /\ waiting # <<>>
      /\ block' = [block EXCEPT !.events = @ \o SubSeq(unemitted, 1, n)]
      /\ unemitted' = SubSeq(unemitted, n + 1, Len(unemitted))
      /\ waiting' = SubSeq(waiting, 1, Len(waiting) - 1)
      /\ UNCHANGED <<feed, storeVars, historyVars>>

\* A claim or a split has nothing else to do; a mint of a new type stores its policy.
ReturnFromCallback ==
  /\ EmitRest
  /\ \/ InCallback.call = 0 /\ UNCHANGED reentrantVars
     \/ InCallback.call = Len(calls) /\ ReturnToStore

-----------------------------------------------------------------------------
(* The chain and the indexer                                               *)

\* The open block is sealed, between transactions. An eth_call made for it sees
\* owners as they are now.
SealBlock ==
  /\ block.txs > 0 /\ waiting = <<>>
  /\ feed' = Append(feed, [txs |-> block.txs, events |-> block.events,
                           owners |-> owners])
  /\ block' = EmptyBlock
  /\ UNCHANGED <<reentrantVars, waiting, unemitted, storeVars, historyVars>>

handleClaimStored(e) ==
  /\ claims' = [claims EXCEPT ![e.claim] = [totalUnits |-> e.units]]
  /\ UNCHANGED <<allowlists, claimTokens>>

handleAllowlistCreated(e) ==
  /\ allowlists' = [allowlists EXCEPT ![e.claim] = IF @ = NoEntity THEN e.root ELSE @]
  /\ UNCHANGED <<claims, claimTokens>>

\* Mutant of handleTransferSingle: a burn is taken for no change of owner.
handleTransferSingleNotBurned(e) ==
  /\ claimTokens' =
       IF claimTokens[e.id] = NoEntity \/ e.to = NoAccount THEN claimTokens
       ELSE [claimTokens EXCEPT ![e.id].owner = e.to]
  /\ UNCHANGED <<claims, allowlists>>

handleTransferSingle(e) ==
  /\ claimTokens' = IF claimTokens[e.id] = NoEntity THEN claimTokens
                    ELSE [claimTokens EXCEPT ![e.id].owner = e.to]
  /\ UNCHANGED <<claims, allowlists>>

handleTransferBatch(e) == UNCHANGED storeVars

\* Mutant of getOrCreateClaimToken: the lower half of the token's ID is taken for
\* its claim.
getOrCreateClaimTokenOwnID(t, id, ownerOf) ==
  IF claimTokens[id] # NoEntity THEN claimTokens[id]
  ELSE [owner |-> IF id = NoToken THEN NoAccount ELSE ownerOf[id],
        claim |-> getItemIndex(id), units |-> 0]

\* The entity of token id, created for claim t if it does not exist.
\* The contract's owner of token 0 is address(0).
getOrCreateClaimToken(t, id, ownerOf) ==
  IF claimTokens[id] # NoEntity THEN claimTokens[id]
  ELSE [owner |-> IF id = NoToken THEN NoAccount ELSE ownerOf[id],
        claim |-> t, units |-> 0]

\* Mutant of handleValueTransfer: a burn leaves the units with the token.
handleValueTransferNotBurned(e, ownerOf) ==
  LET from == getOrCreateClaimToken(e.claim, e.from, ownerOf)
      to == getOrCreateClaimToken(e.claim, e.to, ownerOf)
  IN  /\ claimTokens' =
           [claimTokens EXCEPT
              ![e.from] = [from EXCEPT !.units =
                             IF NoToken \in {e.from, e.to} THEN @ ELSE @ - e.value],
              ![e.to] = [to EXCEPT !.units = IF e.to = NoToken THEN @ ELSE @ + e.value]]
      /\ UNCHANGED <<claims, allowlists>>

\* Both ends are loaded before either is saved, from first.
handleValueTransfer(e, ownerOf) ==
  LET from == getOrCreateClaimToken(e.claim, e.from, ownerOf)
      to == getOrCreateClaimToken(e.claim, e.to, ownerOf)
  IN  /\ claimTokens' =
           [claimTokens EXCEPT
              ![e.from] = [from EXCEPT !.units =
                             IF e.from = NoToken THEN @ ELSE @ - e.value],
              ![e.to] = [to EXCEPT !.units =
                             IF e.to = NoToken THEN @
                             ELSE IF e.from = NoToken THEN e.value ELSE @ + e.value]]
      /\ UNCHANGED <<claims, allowlists>>

Handle(e, ownerOf) ==
  CASE e.event = "ClaimStored" -> handleClaimStored(e)
    [] e.event = "AllowlistCreated" -> handleAllowlistCreated(e)
    [] e.event = "TransferSingle" -> handleTransferSingle(e)
    [] e.event = "TransferBatch" -> handleTransferBatch(e)
    [] e.event = "ValueTransfer" -> handleValueTransfer(e, ownerOf)

\* The next event of the oldest block not yet indexed.
IndexEvent ==
  /\ feed # <<>>
  /\ LET b == Head(feed)
     IN  /\ Handle(Head(b.events), b.owners)
         /\ feed' = IF Len(b.events) = 1 THEN Tail(feed)
                    ELSE [feed EXCEPT ![1].events = Tail(@)]
  /\ UNCHANGED <<reentrantVars, block, waiting, unemitted, historyVars>>

\* A transaction starts when the last one is over; from a callback, contracts
\* call.
SubgraphNext ==
  \/ \E s \in Accounts : (waiting = <<>> \/ s \in Contracts) /\ Transact(s)
  \/ ReturnAndSplit
  \/ ReturnFromCallback
  \/ SealBlock
  \/ IndexEvent

\* Blocks keep coming and the subgraph keeps reading them; nobody has to send
\* a transaction.
SubgraphSpec ==
  /\ SubgraphInit /\ [][SubgraphNext]_subgraphVars
  /\ WF_subgraphVars(SealBlock) /\ WF_subgraphVars(IndexEvent)

-----------------------------------------------------------------------------
(* Properties                                                              *)

\* Everything that happened on the chain has been indexed.
CaughtUp == Ahead = 0

Indexed(id) == claimTokens[id] # NoEntity
indexedUnits(id) == IF Indexed(id) THEN claimTokens[id].units ELSE 0

\* Merges, and calls made from a mint's own callback, are all the subgraph misses
\* of the units: for the fractions of a type that was never merged it shows what
\* the contract holds, through every mint, claim, split and burn, in whichever
\* blocks they fell and however calls were nested; but not for a token that gave
\* units before the event of its own mint, whose handler overwrites that.
UnitsIndexed ==
  CaughtUp => \A t \in TypeIDs \ merged : \A id \in FractionIDs(t) \ early :
                indexedUnits(id) = tokenValues[id]

\* Batches are all the subgraph misses of the owners: for a token that moved
\* only singly since it was minted it shows the owner the contract records,
\* although it asks for that owner after the block and not at the event. (A
\* merge may credit an ID yet to be minted. A split of it shows an entity that
\* has no owner, and the mint does not give it one.)
OwnersIndexed ==
  CaughtUp => \A id \in TokenIDs \ (batched \cup credited) :
                Indexed(id) => claimTokens[id].owner = owners[id]

\* Every ClaimToken belongs to an indexed Claim, that of its own type.
TokensHaveClaims ==
  CaughtUp => \A id \in TokenIDs :
    Indexed(id) => /\ claimTokens[id].claim = getBaseType(id)
                   /\ claims[getBaseType(id)] # NoEntity

\* Every token that is minted comes to be shown, if callbacks return. (A call
\* whose callback never does is reverted and leaves no trace on the chain.)
MintedIsIndexed ==
  []<>(waiting = <<>>) => \A id \in TokenIDs : Minted(id) ~> Indexed(id)

-----------------------------------------------------------------------------
(* What the documentation says and the code does not do (see the README)   *)

\* "units | BigInt | The number of units." (docs/docs/developer/querying.md, of a
\* ClaimToken): once all is indexed, the tokens of a type that was never merged
\* show their units. The event of a mint comes after the callback to its receiver
\* and sets the units, whatever the receiver had split off or burned in between.
UnitsShown ==
  CaughtUp => \A t \in TypeIDs \ merged : \A id \in FractionIDs(t) :
                indexedUnits(id) = tokenValues[id]
=============================================================================
