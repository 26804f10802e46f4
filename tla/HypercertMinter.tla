--------------------------- MODULE HypercertMinter ---------------------------
(***************************************************************************)
(* The HypercertMinter contract with everything it inherits that keeps     *)
(* state: SemiFungible1155 (typed tokens that carry units), AllowlistMinter *)
(* (claims against a Merkle root), and from OpenZeppelin ERC1155, its      *)
(* Burnable extension, Pausable and Ownable.                               *)
(*                                                                         *)
(* One action is one transaction: the EVM runs it alone and a revert       *)
(* leaves no trace, so a revert is a guard.  The parameter s of an action  *)
(* is msg.sender.  Every account here is externally owned, so a mint or    *)
(* transfer calls nobody back.                                             *)
(*                                                                         *)
(* A token ID is the pair <<type, index>> of its upper and lower 128 bits; *)
(* index 0 is the type itself (the claim) and the fractions start at 1.    *)
(***************************************************************************)
EXTENDS Totals, Sequences

CONSTANTS
  Accounts,         \* externally owned accounts
  NoAccount,        \* address(0)
  MaxTypes,         \* the largest typeCounter (a bound of the model)
  MaxItems,         \* type(uint128).max, the largest index within a type
  MaxUint,          \* type(uint256).max, the largest amount of units
  FractionLimit,    \* FRACTION_LIMIT, 253 in the code
  MaxBatch,         \* the longest batch of a transfer, burn or claim (a bound)
  Allowlists,       \* the allowlists that may be registered: sets of leaves
  Policies,         \* the transfer policies that types may be created with
  TransferAmounts,  \* the amounts a transfer or ERC1155 burn may name
  Operators,        \* the accounts that may be approved as operators
  Deployer,         \* the account that calls initialize()
  NextOwners        \* who ownership may pass to, address(0) to renounce it

TypeIDs == 1..MaxTypes
TokenIDs == TypeIDs \X (0..MaxItems)
BaseID(t) == <<t, 0>>
getBaseType(id) == id[1]
getItemIndex(id) == id[2]
isBaseType(id) == getItemIndex(id) = 0
FractionIDs(t) == {t} \X (1..MaxItems)

TransferRestrictions == {"AllowAll", "DisallowAll", "FromCreatorOnly"}

\* _calculateLeaf: the hash of <<msg.sender, units>>, taken as collision free.
Leaves == Accounts \X (0..MaxUint)

\* A Merkle root stands for the leaves that have a proof under it; the zero
\* root proves nothing.
NoRoot == {}

ASSUME MinterAssumption ==
  /\ NoAccount \notin Accounts
  /\ MaxTypes \in Nat /\ MaxItems \in Nat /\ MaxUint \in Nat
  /\ FractionLimit \in Nat /\ MaxBatch \in Nat
  /\ Allowlists \subseteq SUBSET Leaves
  /\ Policies \subseteq TransferRestrictions
  /\ TransferAmounts \subseteq Nat
  /\ Operators \subseteq Accounts
  /\ Deployer \in Accounts
  /\ NextOwners \subseteq Accounts \cup {NoAccount}

VARIABLES
  typeCounter,        \* the last type created
  creators,           \* type -> the account it was created for
  typeRestrictions,   \* type -> its transfer policy
  maxIndex,           \* type -> the highest index minted
  tokenValues,        \* token -> the units it carries
  owners,             \* token -> the account recorded by the last transfer
  balances,           \* token -> account -> the ERC1155 balance
  operatorApprovals,  \* the pairs <<account, operator>> approved
  merkleRoots,        \* type -> the leaves of its allowlist
  hasBeenClaimed,     \* type -> the leaves already claimed
  maxUnits,           \* type -> the units its allowlist was registered with
  minted,             \* type -> a counter no code writes
  paused,             \* Pausable
  owner,              \* Ownable
  issued              \* history: type -> the units minted or claimed so far

typeVars == <<typeCounter, creators, typeRestrictions>>
tokenVars == <<maxIndex, tokenValues, owners, balances, issued>>
allowlistVars == <<merkleRoots, hasBeenClaimed, maxUnits, minted>>
adminVars == <<paused, owner>>
vars == <<typeVars, tokenVars, allowlistVars, adminVars, operatorApprovals>>

TypeOK ==
  /\ typeCounter \in 0..MaxTypes
  /\ creators \in [TypeIDs -> Accounts \cup {NoAccount}]
  /\ typeRestrictions \in [TypeIDs -> TransferRestrictions]
  /\ maxIndex \in [TypeIDs -> 0..MaxItems]
  /\ tokenValues \in [TokenIDs -> 0..MaxUint]
  /\ owners \in [TokenIDs -> Accounts \cup {NoAccount}]
  /\ balances \in [TokenIDs -> [Accounts -> Nat]]
  /\ operatorApprovals \subseteq Accounts \X Accounts
  /\ merkleRoots \in [TypeIDs -> SUBSET Leaves]
  /\ hasBeenClaimed \in [TypeIDs -> SUBSET Leaves]
  /\ maxUnits \in [TypeIDs -> 0..MaxUint]
  /\ minted \in [TypeIDs -> 0..MaxUint]
  /\ paused \in BOOLEAN
  /\ owner \in Accounts \cup {NoAccount}
  /\ issued \in [TypeIDs -> Nat]

\* Solidity's zeros.
InitialStorage ==
  /\ typeCounter = 0
  /\ creators = [t \in TypeIDs |-> NoAccount]
  /\ typeRestrictions = [t \in TypeIDs |-> "AllowAll"]
  /\ maxIndex = [t \in TypeIDs |-> 0]
  /\ tokenValues = [id \in TokenIDs |-> 0]
  /\ owners = [id \in TokenIDs |-> NoAccount]
  /\ balances = [id \in TokenIDs |-> [a \in Accounts |-> 0]]
  /\ operatorApprovals = {}
  /\ merkleRoots = [t \in TypeIDs |-> NoRoot]
  /\ hasBeenClaimed = [t \in TypeIDs |-> {}]
  /\ maxUnits = [t \in TypeIDs |-> 0]
  /\ minted = [t \in TypeIDs |-> 0]
  /\ paused = FALSE
  /\ issued = [t \in TypeIDs |-> 0]

\* The storage after initialize(), called once by the deployer.
Init == InitialStorage /\ owner = Deployer

-----------------------------------------------------------------------------
(* Helpers                                                                 *)

\* Mutant of Authorised: the approval is looked up the wrong way round.
AuthorisedSwapped(s, account) ==
  s = account \/ <<s, account>> \in operatorApprovals

\* s is account itself or an operator account approved.
Authorised(s, account) == s = account \/ <<account, s>> \in operatorApprovals

\* _getSum reverts on a zero element and on overflow.
SumOf(values) == Total(values, DOMAIN values)
ValidSum(values) ==
  /\ \A i \in DOMAIN values : values[i] # 0
  /\ SumOf(values) <= MaxUint

\* The items of a mint, in order: each names its type and the units it gets.
Item(t, units) == [typeID |-> t, units |-> units]

\* How many of the first n items belong to type t: ++maxIndex, once for each.
CountOf(items, t, n) == Cardinality({i \in 1..n : items[i].typeID = t})

\* Mutant of ItemID: the index is read before it is advanced.
ItemIDBeforeIncrement(items, i) ==
  LET t == items[i].typeID IN <<t, maxIndex[t] + CountOf(items, t, i) - 1>>

\* Mutant of ItemID: the next index is the number of tokens still held.
ItemIDFromSupply(items, i) ==
  LET t == items[i].typeID
      live == {id \in FractionIDs(t) : \E a \in Accounts : balances[id][a] > 0}
  IN  <<t, Cardinality(live) + CountOf(items, t, i)>>

ItemID(items, i) ==
  LET t == items[i].typeID IN <<t, maxIndex[t] + CountOf(items, t, i)>>
NewIDs(items) == {ItemID(items, i) : i \in DOMAIN items}

\* _notMaxItem: an index never leaves its 128 bits.
RoomFor(items) ==
  \A t \in TypeIDs : maxIndex[t] + CountOf(items, t, Len(items)) <= MaxItems

\* tokenValues once each new token holds its item's units.
MintedValues(items) ==
  [id \in TokenIDs |->
    IF id \in NewIDs(items)
    THEN items[CHOOSE i \in DOMAIN items : ItemID(items, i) = id].units
    ELSE tokenValues[id]]

\* _mint and _mintBatch: one of each new token for account, its recorded owner.
MintTo(account, items) ==
  /\ RoomFor(items)
  /\ maxIndex' = [t \in TypeIDs |->
                    maxIndex[t] + CountOf(items, t, Len(items))]
  /\ balances' = [id \in TokenIDs |->
                    IF id \in NewIDs(items)
                    THEN [balances[id] EXCEPT ![account] = @ + 1]
                    ELSE balances[id]]
  /\ owners' = [id \in TokenIDs |->
                  IF id \in NewIDs(items) THEN account ELSE owners[id]]

\* Mutant of NewShares: the swap is forgotten, so the original token and the
\* first new one get the same share.
NewSharesUnswapped(t, values) ==
  [j \in 1..(Len(values) - 1) |-> Item(t, values[j])]

\* The shares of a split that become new tokens: the code swaps the first and
\* the last share and leaves the last of the result with the original token.
NewShares(t, values) ==
  [j \in 1..(Len(values) - 1) |->
    Item(t, IF j = 1 THEN values[Len(values)] ELSE values[j])]

\* Mutant of NewType: the counter wraps around within its bits.
NewTypeWrapped == (typeCounter % MaxTypes) + 1

NewType == typeCounter + 1

\* _createTokenType, without the units it stores at the new type's base ID.
CreateType(account, restrictions) ==
  /\ NewType \in TypeIDs
  /\ typeCounter' = NewType
  /\ creators' = [creators EXCEPT ![NewType] = account]
  /\ typeRestrictions' = [typeRestrictions EXCEPT ![NewType] = restrictions]

-----------------------------------------------------------------------------
(* Minting                                                                 *)

\* What both ways of minting a claim come to: a new type whose declared units
\* sit at its base ID and whose first fractions all belong to account.
MintNewType(account, units, items, restrictions) ==
  /\ ~paused
  /\ CreateType(account, restrictions)
  /\ MintTo(account, items)
  /\ tokenValues' = [MintedValues(items) EXCEPT ![BaseID(NewType)] = units]
  /\ issued' = [issued EXCEPT ![NewType] = @ + units]
  /\ UNCHANGED <<allowlistVars, adminVars, operatorApprovals>>

\* The caller mints for itself: the account argument must be msg.sender.
MintClaim(s, units, restrictions) ==
  /\ units # 0
  /\ MintNewType(s, units, <<Item(NewType, units)>>, restrictions)

\* The first fraction is minted with all the units and split at once.
MintClaimWithFractions(s, units, fractions, restrictions) ==
  /\ ValidSum(fractions)
  /\ SumOf(fractions) = units
  /\ Len(fractions) \in 2..FractionLimit
  /\ MintNewType(s, units,
                 <<Item(NewType, fractions[1])>> \o NewShares(NewType, fractions),
                 restrictions)

\* The account argument of createAllowlist is not tied to the caller.
CreateAllowlist(account, units, root, restrictions) ==
  /\ ~paused
  /\ root # NoRoot /\ units # 0
  /\ CreateType(account, restrictions)
  /\ merkleRoots[NewType] = NoRoot
  /\ merkleRoots' = [merkleRoots EXCEPT ![NewType] = root]
  /\ maxUnits' = [maxUnits EXCEPT ![NewType] = units]
  /\ tokenValues' = [tokenValues EXCEPT ![BaseID(NewType)] = units]
  /\ UNCHANGED <<maxIndex, owners, balances, issued, hasBeenClaimed, minted,
                 adminVars, operatorApprovals>>

\* Mutant of NotYetClaimed: a batch is checked as a whole before it is recorded.
NotClaimedBefore(s, items, i) ==
  <<s, items[i].units>> \notin hasBeenClaimed[items[i].typeID]

\* Claims are recorded as the loop goes: an item that repeats an earlier one of
\* its batch finds its leaf claimed.
NotYetClaimed(s, items, i) ==
  /\ <<s, items[i].units>> \notin hasBeenClaimed[items[i].typeID]
  /\ \A j \in 1..(i - 1) : items[j] # items[i]

\* Mutant of ClaimValid: either test may refuse the claim, not both.
ClaimValidEither(s, t, units) ==
  <<s, units>> \in merkleRoots[t] \/ minted[t] + units <= maxUnits[t]

ClaimValid(s, t, units) ==
  <<s, units>> \in merkleRoots[t] /\ minted[t] + units <= maxUnits[t]

\* _processClaim for every item of a batch, in order.
ProcessClaims(s, items) ==
  /\ \A i \in DOMAIN items : /\ NotYetClaimed(s, items, i)
                             /\ ClaimValid(s, items[i].typeID, items[i].units)
  /\ hasBeenClaimed' =
       [t \in TypeIDs |->
          hasBeenClaimed[t] \cup
            {<<s, items[i].units>> : i \in {j \in DOMAIN items :
                                              items[j].typeID = t}}]
  /\ UNCHANGED <<merkleRoots, maxUnits, minted>>

\* The units the items bring to type t.
UnitsFor(items, t) ==
  Total([i \in DOMAIN items |-> items[i].units],
        {i \in DOMAIN items : items[i].typeID = t})

\* A claim proves the caller's leaf; the token goes to any non-zero account.
\* One item is mintClaimFromAllowlist, several are the batch entry point.
BatchMintClaimsFromAllowlists(s, account, items) ==
  /\ ~paused
  /\ ProcessClaims(s, items)
  /\ MintTo(account, items)
  /\ tokenValues' = MintedValues(items)
  /\ issued' = [t \in TypeIDs |-> issued[t] + UnitsFor(items, t)]
  /\ UNCHANGED <<typeVars, adminVars, operatorApprovals>>

MintClaimFromAllowlist(s, account, t, units) ==
  BatchMintClaimsFromAllowlists(s, account, <<Item(t, units)>>)

-----------------------------------------------------------------------------
(* Splitting, merging and burning                                          *)

\* The new tokens go to account, who need not hold id.
SplitTokenUnits(s, account, id, values) ==
  LET items == NewShares(getBaseType(id), values)
  IN  /\ Len(values) \in 2..FractionLimit
      /\ ~isBaseType(id)
      /\ Authorised(s, account)
      /\ ValidSum(values)
      /\ tokenValues[id] = SumOf(values)
      /\ MintTo(account, items)
      /\ tokenValues' = [MintedValues(items) EXCEPT ![id] = values[1]]
      /\ UNCHANGED <<typeVars, allowlistVars, adminVars, operatorApprovals,
                     issued>>

SplitFraction(s, account, id, values) ==
  /\ ~paused
  /\ SplitTokenUnits(s, account, id, values)

\* mergeFractions: the last ID is the target, the others are the sources.
Sources(ids) == {ids[i] : i \in 1..(Len(ids) - 1)}
Target(ids) == ids[Len(ids)]

\* Mutant of TimesMerged: a source listed twice is burned once.
TimesMergedOnce(ids, id) == IF id \in Sources(ids) THEN 1 ELSE 0

TimesMerged(ids, id) == Cardinality({i \in 1..(Len(ids) - 1) : ids[i] = id})

\* The values of the sources are read before any is deleted.
\* They add up in checked arithmetic.
MergedUnits(ids) ==
  Total([i \in DOMAIN ids |-> tokenValues[ids[i]]], 1..(Len(ids) - 1))

\* tokenValues with the sources deleted, before the target is credited.
ClearedValues(ids) ==
  [id \in TokenIDs |-> IF id \in Sources(ids) THEN 0 ELSE tokenValues[id]]

\* Mutant of MergeFits: the sums of a merge wrap around instead of reverting.
MergeAlwaysFits(ids) == TRUE

MergeFits(ids) ==
  ClearedValues(ids)[Target(ids)] + MergedUnits(ids) <= MaxUint

\* account must hold every source, as often as the source is listed
\* (_burnBatch), but need not hold the target.
MergeFractions(s, account, ids) ==
  /\ ~paused
  /\ Len(ids) \in 2..FractionLimit
  /\ Authorised(s, account)
  /\ \A id \in Sources(ids) : /\ ~isBaseType(id)
                              /\ getBaseType(id) = getBaseType(Target(ids))
                              /\ balances[id][account] >= TimesMerged(ids, id)
  /\ MergeFits(ids)
  /\ tokenValues' =
       [ClearedValues(ids) EXCEPT ![Target(ids)] = @ + MergedUnits(ids)]
  /\ balances' = [id \in TokenIDs |->
                    IF id \in Sources(ids)
                    THEN [balances[id] EXCEPT ![account] = @ - TimesMerged(ids, id)]
                    ELSE balances[id]]
  /\ owners' = [id \in TokenIDs |->
                  IF id \in Sources(ids) THEN NoAccount ELSE owners[id]]
  /\ UNCHANGED <<typeVars, allowlistVars, adminVars, operatorApprovals,
                 maxIndex, issued>>

\* burnFraction: the units go with the token.
BurnFraction(s, account, id) ==
  /\ ~paused
  /\ Authorised(s, account)
  /\ balances[id][account] >= 1
  /\ tokenValues' = [tokenValues EXCEPT ![id] = 0]
  /\ balances' = [balances EXCEPT ![id][account] = @ - 1]
  /\ owners' = [owners EXCEPT ![id] = NoAccount]
  /\ UNCHANGED <<typeVars, allowlistVars, adminVars, operatorApprovals,
                 maxIndex, issued>>

-----------------------------------------------------------------------------
(* ERC1155: none of these is paused.  A batch is a sequence of transfers   *)
(* [id, amount]; a single transfer or burn is a batch of one.              *)

Transfers == [id : TokenIDs, amount : TransferAmounts]

\* The amount of id that the whole batch moves.
Moved(batch, id) ==
  Total([i \in DOMAIN batch |-> batch[i].amount],
        {i \in DOMAIN batch : batch[i].id = id})

\* Mutant of RecordOwner: burns leave the record as it was.
RecordReceiver(batch, to) ==
  owners' = [id \in TokenIDs |->
               IF to # NoAccount /\ \E i \in DOMAIN batch : batch[i].id = id
               THEN to ELSE owners[id]]

\* _afterTokenTransfer: every ID named is recorded as to's, whatever the amount.
RecordOwner(batch, to) ==
  owners' = [id \in TokenIDs |->
               IF \E i \in DOMAIN batch : batch[i].id = id THEN to ELSE owners[id]]

\* _beforeTokenTransfer.
TransferAllowed(from, t) ==
  CASE typeRestrictions[t] = "AllowAll" -> TRUE
    [] typeRestrictions[t] = "DisallowAll" -> FALSE
    [] typeRestrictions[t] = "FromCreatorOnly" -> from = creators[t]

\* Mutant of BatchAllowed: only the first entry of a batch is looked at.
FirstAllowed(from, batch) == TransferAllowed(from, getBaseType(batch[1].id))

BatchAllowed(from, batch) ==
  \A i \in DOMAIN batch : TransferAllowed(from, getBaseType(batch[i].id))

\* safeTransferFrom and safeBatchTransferFrom between two different accounts.
SafeBatchTransferFrom(s, from, to, batch) ==
  /\ Authorised(s, from)
  /\ from # to
  /\ BatchAllowed(from, batch)
  /\ \A id \in TokenIDs : Moved(batch, id) <= balances[id][from]
  /\ balances' = [id \in TokenIDs |->
                    [balances[id] EXCEPT ![from] = @ - Moved(batch, id),
                                         ![to] = @ + Moved(batch, id)]]
  /\ RecordOwner(batch, to)
  /\ UNCHANGED <<typeVars, allowlistVars, adminVars, operatorApprovals,
                 maxIndex, tokenValues, issued>>

\* A transfer to oneself credits what it debited before the next entry is
\* checked, so each entry only has to be covered on its own.
SafeBatchTransferToSelf(s, from, batch) ==
  /\ Authorised(s, from)
  /\ BatchAllowed(from, batch)
  /\ \A i \in DOMAIN batch : batch[i].amount <= balances[batch[i].id][from]
  /\ RecordOwner(batch, from)
  /\ UNCHANGED <<typeVars, allowlistVars, adminVars, operatorApprovals,
                 maxIndex, tokenValues, balances, issued>>

\* ERC1155Burnable.burn and burnBatch, which leave tokenValues alone.
BurnBatch(s, account, batch) ==
  /\ Authorised(s, account)
  /\ \A id \in TokenIDs : Moved(batch, id) <= balances[id][account]
  /\ balances' = [id \in TokenIDs |->
                    [balances[id] EXCEPT ![account] = @ - Moved(batch, id)]]
  /\ RecordOwner(batch, NoAccount)
  /\ UNCHANGED <<typeVars, allowlistVars, adminVars, operatorApprovals,
                 maxIndex, tokenValues, issued>>

SetApprovalForAll(s, operator, approved) ==
  /\ s # operator
  /\ operatorApprovals' = IF approved
                          THEN operatorApprovals \cup {<<s, operator>>}
                          ELSE operatorApprovals \ {<<s, operator>>}
  /\ UNCHANGED <<typeVars, tokenVars, allowlistVars, adminVars>>

-----------------------------------------------------------------------------
(* Ownable and Pausable                                                    *)

SetPaused(s, value) ==
  /\ s = owner
  /\ paused # value
  /\ paused' = value
  /\ UNCHANGED <<typeVars, tokenVars, allowlistVars, operatorApprovals, owner>>

Pause(s) == SetPaused(s, TRUE)
Unpause(s) == SetPaused(s, FALSE)

\* transferOwnership to an account, or renounceOwnership to address(0).
TransferOwnership(s, newOwner) ==
  /\ s = owner
  /\ owner' = newOwner
  /\ UNCHANGED <<typeVars, tokenVars, allowlistVars, operatorApprovals, paused>>

-----------------------------------------------------------------------------

\* What the account s can make the contract do in one transaction.
MintBy(s) ==
  \/ \E units \in 0..MaxUint, r \in Policies : MintClaim(s, units, r)
  \/ \E units \in 0..MaxUint, r \in Policies :
       \E fractions \in SeqsBetween(0..MaxUint, 2, FractionLimit) :
         MintClaimWithFractions(s, units, fractions, r)
  \/ \E account \in Accounts \cup {NoAccount}, units \in 0..MaxUint,
        root \in Allowlists, r \in Policies :
       CreateAllowlist(account, units, root, r)
  \/ \E account \in Accounts, t \in TypeIDs, units \in 0..MaxUint :
       MintClaimFromAllowlist(s, account, t, units)
  \/ \E account \in Accounts,
        items \in SeqsBetween([typeID : TypeIDs, units : 0..MaxUint], 2, MaxBatch) :
       BatchMintClaimsFromAllowlists(s, account, items)

UnitsBy(s) ==
  \/ \E account \in Accounts, id \in TokenIDs,
        values \in SeqsBetween(0..MaxUint, 2, FractionLimit) :
       SplitFraction(s, account, id, values)
  \/ \E account \in Accounts, ids \in SeqsBetween(TokenIDs, 2, FractionLimit) :
       MergeFractions(s, account, ids)
  \/ \E account \in Accounts, id \in TokenIDs : BurnFraction(s, account, id)

TokensBy(s) ==
  \/ \E from, to \in Accounts, batch \in SeqsBetween(Transfers, 1, MaxBatch) :
       SafeBatchTransferFrom(s, from, to, batch)
  \/ \E from \in Accounts, batch \in SeqsBetween(Transfers, 1, MaxBatch) :
       SafeBatchTransferToSelf(s, from, batch)
  \/ \E account \in Accounts, batch \in SeqsBetween(Transfers, 1, MaxBatch) :
       BurnBatch(s, account, batch)
  \/ \E operator \in Operators, approved \in BOOLEAN :
       SetApprovalForAll(s, operator, approved)

AdminBy(s) ==
  \/ Pause(s)
  \/ Unpause(s)
  \/ \E newOwner \in NextOwners : TransferOwnership(s, newOwner)

NextBy(s) == MintBy(s) \/ UnitsBy(s) \/ TokensBy(s) \/ AdminBy(s)

Next == \E s \in Accounts : NextBy(s)

Spec == Init /\ [][Next]_vars

-----------------------------------------------------------------------------
(* Properties                                                              *)

Holds(a, id) == balances[id][a] > 0
Held(id) == \E a \in Accounts : Holds(a, id)
Minted(id) == getItemIndex(id) \in 1..maxIndex[getBaseType(id)]
Created(t) == t <= typeCounter
HasAllowlist(t) == merkleRoots[t] # NoRoot

\* A fraction has at most one holder, who holds one of it, although ERC1155
\* would allow any balance: mints never reuse an ID, and transfers and burns,
\* single or in batches, never multiply one.
SingleHolder ==
  \A id \in TokenIDs : \A a, b \in Accounts :
    Holds(a, id) /\ Holds(b, id) => a = b /\ balances[id][a] = 1

\* Only minted fractions are held: never a base ID (the claim itself is not a
\* token), and never an ID that a later mint will hand out.
OnlyMintedHeld == \A id \in TokenIDs : Held(id) => Minted(id)

\* The units of type t at its fraction IDs, held or not.
Circulating(t) == Total(tokenValues, FractionIDs(t))

\* No order of splits, merges, transfers and burns makes units: the fractions
\* of a type never carry more than was minted or claimed.
UnitsBacked == \A t \in TypeIDs : Circulating(t) <= issued[t]

\* The units handed out under an allowlist are those of the leaves claimed, each
\* counted once, however claims are batched and whoever receives the tokens.
IssuedIsClaimed ==
  \A t \in TypeIDs :
    HasAllowlist(t) =>
      issued[t] = Total([leaf \in Leaves |-> leaf[2]], hasBeenClaimed[t])

\* Only leaves of the type's own allowlist are ever claimed, none for more than
\* the units the allowlist was registered with, and a type minted outright has
\* no claims.
ClaimsListed ==
  \A t \in TypeIDs : \A leaf \in hasBeenClaimed[t] :
    leaf \in merkleRoots[t] /\ leaf[2] <= maxUnits[t]

\* A token that was minted and is no longer held never comes back: indices are
\* not reused after burns and merges.
BurnedForever ==
  [][\A id \in TokenIDs : Minted(id) /\ ~Held(id) => ~Held(id)']_vars

\* A token passes from one holder to another only if its type's policy lets it:
\* freely, from the creator only, or never.
PolicyObeyed ==
  [][\A id \in TokenIDs : \A a, b \in Accounts :
       (a # b /\ Holds(a, id) /\ Holds(b, id)') =>
         LET t == getBaseType(id)
         IN  \/ typeRestrictions[t] = "AllowAll"
             \/ typeRestrictions[t] = "FromCreatorOnly" /\ a = creators[t]]_vars

\* Nobody loses a token but by its own transaction or that of an operator it
\* has approved, whichever entry point is used.
OnlyAuthorisedTakes ==
  [][\A id \in TokenIDs, a \in Accounts : balances'[id][a] < balances[id][a] =>
       \A s \in Accounts : NextBy(s) =>
         s = a \/ <<a, s>> \in operatorApprovals]_vars

\* A created type keeps its creator, policy and allowlist; its claims and its
\* highest index only grow.
CreatedIsFixed ==
  [][\A t \in TypeIDs : Created(t) =>
       /\ Created(t)'
       /\ creators'[t] = creators[t]
       /\ typeRestrictions'[t] = typeRestrictions[t]
       /\ merkleRoots'[t] = merkleRoots[t]
       /\ maxUnits'[t] = maxUnits[t]
       /\ hasBeenClaimed[t] \subseteq hasBeenClaimed'[t]
       /\ maxIndex[t] <= maxIndex'[t]]_vars

\* While paused, nothing is minted, claimed, split or merged: a token can only
\* change hands or go, through ERC1155, and its units stay where they are.
FrozenWhilePaused ==
  [][paused => UNCHANGED <<typeVars, allowlistVars, maxIndex, tokenValues>>]_vars

-----------------------------------------------------------------------------
(* What the documentation says and the code does not do (see the README)   *)

\* "Function called to split tokenID owned by account" (IHypercertToken): the
\* units of a held token are taken only by its holder or the holder's operator.
\* The code asks who account is, not whether account holds the token.
UnitsTakenByHolder ==
  [][\A id \in TokenIDs, a \in Accounts :
       Holds(a, id) /\ tokenValues'[id] < tokenValues[id] =>
         \A s \in Accounts : NextBy(s) => s = a \/ <<a, s>> \in operatorApprovals]_vars

\* "a units argument which should be the maximum units mintable through the
\* allowlist" (security review, M-02): the claims of a type stay within maxUnits.
\* The code compares each claim with maxUnits but never counts what it minted.
ClaimsWithinMaxUnits ==
  \A t \in TypeIDs : HasAllowlist(t) => issued[t] <= maxUnits[t]
=============================================================================
