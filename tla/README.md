# Hypercerts in TLA+

A verification project for the hypercerts repository: TLA+ modules for the
contract that mints and moves hypercerts, with receivers that call it back and
behind its proxy, for the subgraph that indexes it, for the cache and the page
that tell users what they can claim, for the SDK's client, and for the scripts
that install the autotasks; TLC configurations that check them on small
instances; and theorems that TLAPS proves for any number of accounts, types, tokens
and units. Every safety property that the runs check, of the contract and of all
that is built around it, is one of them.

Paths are relative to the repository's root.

## 1. The system

A *hypercert* is a claim of work. On chain it is a *type* of an ERC1155
contract whose *fractions* carry *units*. A token ID has 256 bits: the upper 128
name the type and the lower 128 the fraction, 0 standing for the type itself.

| Component | State | Operations | Talks to |
|---|---|---|---|
| Semi-fungible tokens, `contracts/src/SemiFungible1155.sol` | `typeCounter`, `creators`, `tokenValues`, `owners`, `maxIndex`, ERC1155 balances | create a type, mint one or many fractions, split, merge, burn | inherited by the minter; ERC1155 hooks |
| Allowlists, `AllowlistMinter.sol` | `merkleRoots`, `hasBeenClaimed`, `maxUnits`, `minted` | register a root, claim leaves | inherited by the minter; Merkle proofs |
| Entry points, `HypercertMinter.sol` | `typeRestrictions`, and the above | `mintClaim`, `mintClaimWithFractions`, `createAllowlist`, two ways to claim, `splitFraction`, `mergeFractions`, `burnFraction`, `pause`, `unpause` | wallets, the SDK |
| ERC1155, Burnable, Pausable, Ownable (vendored OpenZeppelin) | balances, approvals, `paused`, `owner` | transfers and burns, single or in batches, approvals, ownership | calls a receiving contract back |
| Proxy and upgrades (vendored) | implementation slot, `_initialized` | initialise, upgrade | the owner, or the signers of a proposal |
| Subgraph, `graph/` | `Allowlist`, `Claim`, `ClaimToken` entities | one handler per event | reads the chain's events; asks the contract for `ownerOf` |
| Autotasks, `defender/src/auto-tasks/` | rows `(address, claimId, fractionCounter)` in a database | one task when an allowlist is created, one per way to claim | triggered by the contract's transactions; reads IPFS |
| Deployment scripts, `defender/src/*.ts` | the autotasks and sentinels installed on Defender | list, roll out, update, reset | started by each push; Defender's API |
| Claim page, `frontend/hooks/mintFractionAllowlistBatch.ts`, `verifyFractionClaim.ts`, `components/contract-interaction-dialog-context.tsx` | the claims last fetched, a batch in flight, an open dialog | refetch, verify, claim everything, reload | database, subgraph, IPFS, contract |
| Allowlist upload, `frontend/lib/parsing.ts` | none | from a table and the organiser's share to the list that is registered | the SDK |
| SDK client, `sdk/src/client.ts` | the call it is making | one call per entry point, most with checks before the transaction | contract, IPFS |
| Everything else: other frontend hooks, CORS proxy, contract tasks, docker, e2e | none that is shared | | |

Where it is hard:

* **The contract** runs one transaction at a time, so most of its difficulty is
  *long sequences of legal calls*. Four paths hand out indices; two of them write
  `tokenValues` in an order that matters; a merge accepts any target and any
  repetition of sources and relies on the burn that follows; a second record of
  ownership (`owners`) moves separately from balances; an approval is checked for
  the account named, not for the holder of the token. What makes it correct: a
  fraction has one holder and is never reused; units are never made; each leaf is
  claimed once; policies, approvals and the pause hold for every entry point.
* **Callbacks.** A mint to a contract calls it before the mint is over, and nothing
  guards against calls from there. The two ways of minting a new type go on
  afterwards: one reads `maxIndex` again to name the token it splits, both store
  the policy. It is correct if all of the above holds inside a callback and a mint
  that has returned is final.
* **The proxy** keeps the storage and exchanges the code. It is correct if nobody
  but the owner decides, initialisation happens once, and what the contract promises
  outlives every upgrade.
* **The subgraph** is behind the chain by any distance, processes one event at a
  time and asks the contract about *the end of the block* while it handles an
  event in the middle. The contract calls a receiver back before the event that says
  what units a new token carries, so calls made from there come first in the block. It is
  correct if, once it has caught up, it shows what the contract holds.
* **The allowlist cache** is written by tasks that run in any order, late or
  never, while a page claims whatever it fetched last, all or nothing, from lists
  that may name a leaf twice, and lies under a dialog once a batch has failed. It
  is correct if no leaf is lost and everything listed is claimed and unlisted in
  the end.
* **The SDK's client** asks, then acts: other transactions come between, and the
  contract does not ask again. It is correct if a call whose tokens stayed put
  takes nothing from others and loses nothing of the signer's.
* **The deployment scripts** make requests side by side, some of them awaited by
  nobody, and a rejection ends the process wherever the others are. They are
  correct if no sentinel triggers a task that is missing, nothing is installed
  twice, and a run that ends well leaves its own code everywhere.

Every hazard found in the code, with its line and the properties that cover it,
is in `PROJECT.json`.

## 2. The modules

| Module | Models | Notes |
|---|---|---|
| `Totals` | the loops that add units up | a sum is the number of pairs (element, unit), so it needs no recursion and theorems on finite cardinality apply to it |
| `HypercertMinter` | the contract, all of it that keeps state | one action per transaction |
| `FractionLedger` | what the contract promises of fractions | abstract specification: mint, pass on, give up; units grow only by what is issued |
| `MinterRefinement` | the contract read as a ledger | the refinement mapping and `ImplementsLedger` |
| `MCHypercertMinter` | its instances for TLC | three runs of section 4 |
| `ReentrantMinter`, `MCReentrantMinter` | the contract with receivers that call it back | extends `HypercertMinter` with a stack of mints in progress |
| `MinterProxy`, `MCMinterProxy` | the deployed proxy: initialisation, upgrades, and the contract behind it | extends `HypercertMinter` with the implementation slot |
| `Subgraph`, `MCSubgraph` | contract with its callbacks + blocks + graph-node + the mapping handlers | composes `ReentrantMinter` |
| `AllowlistCache`, `MCAllowlistCache` | contract + upload + autotasks + database + claim page | composes `HypercertMinter` |
| `HypercertClient`, `MCHypercertClient` | contract + clients that check and then act | composes `HypercertMinter` |
| `Provisioning`, `MCProvisioning` | runs of the deployment scripts and what they install | stands alone |
| `HypercertMinterProofs` | sums, sets listed as sequences, what each step does, types, holders, policies | extends `HypercertMinter` and `TLAPS`; every other module of proofs but `ProvisioningProofs` builds on it |
| `UnitsProofs` | units, allowlists, what is fixed | |
| `ReentrantProofs` | the refinement of the ledger, and the contract inside callbacks | |
| `AuthorityProofs` | who may take, who decides, and the contract behind its proxy | |
| `SubgraphProofs`, `CacheProofs`, `ClientProofs`, `ProvisioningProofs` | one composition each | section 5 |

### How `HypercertMinter` corresponds to the code

* A token ID is a pair `<<type, index>>`; `getBaseType` and `getItemIndex` are the
  bit masks. `MaxItems` and `MaxUint` stand for `type(uint128).max` and
  `type(uint256).max`, and the checked arithmetic of the code becomes a guard:
  an addition that would overflow reverts (`ValidSum`, `MergeFits`, `RoomFor`).
* A transaction is atomic: a revert is a guard that is false. The first
  parameter of an action, `s`, is `msg.sender`. Actions keep the code's liberties
  too: `createAllowlist` and the claims take any `account`; a claim proves the
  *sender's* leaf and mints to `account`; a split never asks for the holder; a
  merge takes repeated sources and any target; transfers accept amount 0.
* `MintClaimWithFractions` is the whole handler: the first fraction with all the
  units, and the split that follows, which swaps the first and last share
  (`NewShares`).
* `owners` is written for every ID a transfer names (`RecordOwner`), as the hook
  does. `minted` is declared and never written, as in the code.
* The limit of the type counter is a bound of the model (`MaxTypes`): the code's
  `_notMaxType`, applied to a counter, never reverts.
* A Merkle root is the set of leaves that have a proof under it. Hashes do not
  collide, and the zero root proves nothing.
* `issued` is a history variable: units minted or claimed so far per type.
* `Init` is the contract as its proxy's deployment leaves it: empty storage and the
  deployer as owner.
* Left out: URIs, metadata, gas and view functions, whose answers `HypercertClient` reads. Here every
  account is externally owned; `ReentrantMinter` has the callbacks.

### How `ReentrantMinter` corresponds to the code

`Contracts` are the accounts that implement `onERC1155Received`. Almost every entry
point that moves a token does so last, and then a call made from the callback is
the same as a call made after it, which `HypercertMinter` already has. The two
exceptions are `mintClaim` and `mintClaimWithFractions`. Each is cut where it calls
out: `CallReceiver` does what stands before the callback and pushes the locals that
are still needed onto `calls`; `ReturnToSplit` and `ReturnToStore` do the rest when
the innermost callback returns. `createAllowlist` mints no token and calls
nobody. While a mint waits, only contracts act, with any entry point of
`HypercertMinter` or a further mint. A revert undoes what was done in the
callbacks with it, so a behaviour that cannot return ends inside its call; all
that is checked are states and steps before that point, which is what a receiver
can observe.

### How `MinterProxy` corresponds to the code

`Initialize` is the call in the proxy's constructor, which is made once by the
deployer, and any later call to `initialize()` by anyone, which the `initializer`
modifier turns down. `UpgradeTo` asks for the owner and for `proxiableUUID` on the
new implementation, which only shows what slot that answers (`Versions`; `Foreign`
answers none and is refused), and not that it can be upgraded again: a version
outside `Upgradeable` is accepted and is the last. Every version ever deployed
may be proposed, also an older one, since a proposal waits for signers. All other
transactions are those of `HypercertMinter`, and run only if the slot holds code.
Versions are taken to differ in `upgradeTo` alone: the repository has one.

### How `Subgraph` corresponds to the code

Every transaction of the contract is taken with the events it emits, in the
code's order (`EmitMintClaim` and its siblings), and joins the open block.

A mint, a claim and a split announce the new tokens as a transfer, call the receiver,
and emit the `ValueTransfer` that gives the tokens their units only after that
(`SemiFungible1155.sol:138-139`, `164-165`, `195-196`, `253-255`). If the receiver is
one of `Contracts`, the call is cut there (`EmitAround`): what it has emitted joins the block,
what it has yet to emit goes to the front of `unemitted`, and `waiting` remembers where
that ends. Now the receiver may make any calls, which may wait themselves, and when the
innermost callback returns its call emits its rest (`ReturnFromCallback`). The two mints of
a new type have more to do than that, and `ReentrantMinter` says what (`ReturnAndSplit`
splits, which calls back once more; the policy is stored at the end). Their place
in `calls` is kept in `waiting`. A transfer emits its event before it calls the receiver,
so the calls made from there are like calls made afterwards, and it is not cut.

`SealBlock` closes the block between transactions and remembers `owners` at that moment, since graph-node
answers `ownerOf` from the end of the block. `IndexEvent` runs one handler.
`handleTransferBatch` is empty because it is; a `TransferSingle` for an unknown
token is dropped; a `ValueTransfer` loads or creates both ends, sets the units of
a mint, adds and subtracts otherwise, and saves `from` before `to`. An entry of a
`BatchValueTransfer` goes through the same code as a `ValueTransfer`, so a batch is
unrolled into its entries. `merged`, `batched`, `credited` and `early` are history variables:
they record which types were merged, which tokens moved in batches, which IDs a merge
credited before they were minted, and which tokens gave units before the event of their
own mint: the four things the handlers do not follow. Of the `Claim` entity its creator
and owner are left out: both are the sender of the transaction that stores it.

Approvals, pausing and ownership are left out of this composition: their events
have empty handlers and they only decide who may send what. Reorganisations of
the chain are left out as well.

### How `AllowlistCache` corresponds to the code

`RegisterAllowlist` goes from the uploaded table to the contract: the organiser's
percentage comes on top as an entry like the others (`parseAllowlistCsv`), repeated
accounts are added up if the option is chosen (`Deduplicated`, in any order: none
survives the tree), and the SDK builds
a tree whose leaves are sorted by hash. Two equal entries have one proof if
they end up as siblings and two if they do not; which, depends on hashes, so
`apart` is chosen freely where a tree has room for it. `ClaimSingly`, `ClaimInBatch` and
the page's `Mined` are the other transactions; each triggers its task (`Trigger`), as
`defender/src/rollout.ts` sets up. `tasks` is a bag: a task runs at any time after its
transaction, in any order. `RunTask` is the three handlers: a row for every entry
(a pair of type and entry number, the entry giving the address); deletion by
address and claim; and, for the single claim, nothing, because it throws before it
deletes. `TaskFails` is a task that throws on its way; nothing runs it again.

A page keeps the claims it last fetched (`Refetch`), verifies all entries of its
address in their trees, drops those with equal units and proof (`unique`), and writes
one batch (`Write`). The batch is mined, after which the page reloads, or not, after
which it lies under its dialog (`stuck`) until it is loaded again (`Reload`).

The `hidden` flag, which no code here sets, is left out, and so is the batch with no
item that the page would send with an empty list: it changes nothing. The organiser's
share is rounded down exactly; the code divides floating-point numbers, which
may come out one unit lower. Units pass through a floating-point number on the page, too,
which is exact up to 2^53. The contract is taken not to be paused: claims read that,
and no other transaction that is left out touches what is read here.

### How `HypercertClient` corresponds to the code

An account's client makes one call at a time. The call's parameters are fixed when it
begins; `AskOwner` and `AskUnits` are the answers to `ownerOf` and `unitsOf`, each
read from the contract as it is then: a split asks for the owner and then for the
units, a merge for all its owners at once (`Promise.all`), and their answers arrive
in any order. `Mined` is the transaction, at any later time, and `CallEnds` whatever
ends the call without one: a check that fails, a wallet that declines, a revert.
`mintClaim`, `createAllowlist` and the claims have no check of the contract's state,
but the list must add up, to some units and to no more than 256 bits hold
(`validateAllowlist`), and roots, where passed, verify. Claims are a sequence, as the
arrays passed are; a single claim is a sequence of one, since the client's two calls for
it and for several differ in nothing else that is modelled. `DirectBy` is any transaction of
anybody that does not come from a client.

Anyone may transfer 0 of any token, which moves nothing and makes the receiver
its recorded owner. `detached` is a history: the tokens whose recorded owner was replaced
like this and that have not changed hands since. `stale` is another: one of the tokens
of the call was detached when its owner was asked for, or has changed its holder or units since.

### How `Provisioning` corresponds to the code

`ListTasks` and `ListSentinels` are the two awaited lists of `setup()`, after which it
updates, or resets and rolls out. `pending` holds the requests that may be answered
next: `updateAutotask` and `updateSentinel` run side by side and unawaited, `reset` deletes
everything it listed, `rollOut` follows one chain per network, in which each task
is awaited before its sentinel and each sentinel before the next task. Answers come
in any order. `Fail` is a rejection that nobody catches; a refused sentinel is caught
and logged (`missed`). A run deploys the configuration of its commit (`Configured`). The
workflow does not keep two runs apart; `overlapped` records that they were not.

## 3. The runs

All runs use two accounts (two networks, `Provisioning`) and take at most about two
minutes and a half.

| Run | Checks | Shows |
|---|---|---|
| `Units` | `TypeOK`, `SingleHolder`, `OnlyMintedHeld`, `UnitsBacked`, `IssuedIsClaimed`, `ClaimsListed`, `ImplementsLedger` | one type, three indices, units up to 3, splits and merges of up to 3, batches of 2, an operator, and a receiver that calls back from its mints; every step is one of the abstract ledger |
| `Policies` | `PolicyObeyed`, `FinishedIsFixed`, `OnlyUnfinishedGrow` | two types under the restrictive policies, mints nested in mints, batches that mix types, a pause in a callback |
| `Authority` | `ProxyTypeOK`, `BurnedForever`, `OnlyAuthorisedTakes`, `FrozenWhilePaused`, `CreatedIsFixed`, `OwnerDecides` | from an empty proxy: operators, amounts 0 and 1, upgrades between two versions, one of which is the last, pausing, passing on and renouncing ownership, paused or not |
| `SubgraphFollows` | `SubgraphTypeOK`, `UnitsIndexed`, `OwnersIndexed`, `TokensHaveClaims`, `MintedIsIndexed` | up to two calls ahead of the indexer, in one block or two, the second perhaps from the callback of the first |
| `Cache` | `CacheTypeOK`, `NothingLost`, `ListedIsClaimed`, `ClaimedRowsGo` | two lists from one table, deduplicated or not, one visitor of the page, another account that claims past it; one task may throw |
| `Client` | `ClientTypeOK`, `RecordedIsHolder`, `OthersUntouched`, `SignerKeepsUnits` | one client, against its account's own other transactions and another account's, transfers of 0 among them |
| `Provisioning` | `ProvisioningTypeOK`, `NoStrays`, `DoneIsCurrent`, `RolloutServes` | two runs, the second without one of the two networks, any request refused |
| five *violation* runs | one property each | section 4 |

**Why the bounds are enough.** The contract's rules look at one type, at the
token named and at the next index; nothing compares more than the parts of one
call. One type with three indices has a fraction, two more for a split in three, and
a merge of two into a third, with a repeated source or with a target still to be
minted; units up to 3 give splits with different shares, and merges that could
overflow. What concerns several types (policies in one batch, a mint returning after
another type was made) is checked with two. Two accounts are a holder and another,
an account and its operator, or a creator and a buyer. Mints nest once (`MaxDepth` =
1) in `Units`, where one type is all there is, and twice in `Policies`. Beyond the
bounds the theorems take over. For the proxy two versions are what an upgrade and
a downgrade need, and one of them may be the last. For the subgraph, two transactions in one block are what the
end-of-block answer needs, and two blocks what a late indexer needs; since
handlers look at one or two tokens, two fractions suffice. One of the two accounts is a
contract: what mints or splits tokens for it calls it back, and it may then call any entry
point. The other is not called. For the cache, two lists
let a page batch new leaves with stale ones; with the visitor named twice in
the table, and a share of 40 percent that equals a row of the visitor's, a list has two
different leaves of the account, a repeated one, or after deduplication one alone.
For the client, two tokens give a merge with one answer early and one late; transfers of 0
are followed where they name a token, and behaviours in which they name a base ID or an ID
still to be minted are cut (`OnlyMintedRecorded`, a constraint of the run and of no theorem). For the
scripts, two tasks per network are a chain with a middle, two networks are two chains,
and two runs a rollout and what comes after it.

Bounds of the model and not of the code: `MaxTypes`, `MaxBatch`, `MaxDepth`, `MaxAhead`,
`MaxFailures`, and the sets of allowlists, tables, shares, policies, amounts,
operators, owners and versions an instance offers. `FRACTION_LIMIT` is 253 in the code.

No symmetry is used: the deployer, the leaves and the receiver tell the accounts
apart, and most runs check action or liveness properties. The deadlock check is on for
`Authority` and the violation runs on the plain contract. The others turn it off: inside a callback nobody
but the receiver acts; everything may have been minted, claimed and burned within the
bounds; the scripts' runs come to an end.

**Fairness.** The contract promises safety only: nobody has to call it. In `Subgraph`
sealing a block and indexing an event are weakly fair: the chain goes on producing
blocks whoever transacts, and graph-node goes on reading them. `MintedIsIndexed` has a premise
besides: callbacks return, time and again. One that never does runs out of gas, which
reverts it, and the model has no action for that. In `AllowlistCache`
tasks are weakly fair (Defender runs what a sentinel triggered), and so are a
page's refetch (a timer of five seconds), its claiming, the end of a
transaction and the reload of a page under its dialog. That a valid batch is mined if
it is sent again and again is strong fairness: a wallet may refuse or drop it, but
not for ever. The claiming, the reload and the strong fairness are assumptions about the
user: the properties concern one who goes on claiming what is shown. In
`Provisioning` a run that has started goes on: Defender answers each request, with a
result or with a refusal.

**Mutants.** Each property is paired with a mutant of the code it is about, such as a
dropped guard, a missing swap, an index taken before it is advanced, a handler that
forgets a case. The mutants stand before the definitions they vary and are used by no
run of this table; with the mutant in place TLC finds the property violated.

## 4. Where the code does something else than it says

| Run | The text | The code |
|---|---|---|
| `SplitByHolder` | `IHypercertToken.sol:37`: split a token *owned by `account`* | nothing compares `account` with the holder; the sender may name itself and split any token |
| `ClaimLimit` | the security review, M-02: `units` should be the maximum mintable through the allowlist | `minted` is never written, so each claim is compared with the limit alone |
| `PolicyAsked` | `sdk/src/types/hypercerts.ts:6`: with `DisallowAll` "All transfers are disallowed" | a mint stores the policy after it has called the receiver back, which may have passed the token on by then |
| `SubgraphCallbacks` | `docs/docs/developer/querying.md:193`: `units` of a claim token is its number of units | what a receiver splits off or burns in the callback of its mint is indexed before the mint, whose handler then sets the units again |
| `CacheSingles` | `mint-claim-from-allowlist.ts:96`: "Remove from DB" | the handler wants a `BatchValueTransfer`, which a single claim does not emit, and throws; the row stays and every batch of that account's page reverts on it |

`UnitsIndexed` and `OwnersIndexed` say what is right all the same. The units shown are the
contract's for every type never merged, except at a token that gave units in the callback of its own
mint, however calls nest and blocks fall. The owner shown is the contract's for every token
never moved in a batch, callbacks or not. (`OwnersIndexed` leaves out one more kind of
token, for the fourth reason in the list below. Its behaviour needs a third index, one more
than the run has.)

Met while modelling, and visible in how the properties are scoped, but without a run:

* `owners` is written for every ID a transfer or an ERC1155 burn names, whatever the amount, so anyone who
  transfers 0 of a token makes `unitsOf(account, id)` answer 0 to its holder, against
  `IHypercertToken.sol:54`. The model has it (`RecordOwner`), and `RecordedIsHolder` leaves out the tokens
  it has happened to (`detached`).
* `handleTransferBatch` is empty, so a query by owner (`docs/docs/developer/burning.md:8`) goes on naming
  the owner before a batch transfer; `OwnersIndexed` leaves tokens moved in batches out (`batched`).
* A merge emits no `ValueTransfer`, so the subgraph goes on showing the figure the merged
  token had (`docs/docs/developer/querying.md:193` calls it the number of units);
  `UnitsIndexed` leaves merged types out.
* A merge may name as its target an ID that is yet to be minted. A split of that ID, which
  asks for no holder, emits a `ValueTransfer` from it; the handler creates its entity with the
  owner the contract records, address(0), and the mint of the ID, if it comes in a batch,
  does not change the owner of an entity that exists. `OwnersIndexed` leaves such tokens
  out (`credited`). It was stated without that exception, and held in its run, until the
  attempt to prove it failed.
* A list that names a leaf twice, where the two come to lie apart in the tree, can
  never be claimed from the page: both are put in the one batch (`Repeated` in `ListedIsClaimed`).
* The dialog over the claim page is closed by success alone.
* A network configured after the first rollout gets no tasks, although the run succeeds
  (`setup.ts:30` against `docs/docs/devops/deploy-proxy.md:75-89`); a sentinel that was
  refused is never made up for; the configuration that drops a network whose sentinels
  still exist makes every later run fail.
* Merging `[x, x]` burns `x` with all its units, and the client does not stop it;
  `SignerKeepsUnits` is stated for different tokens.
* An upgrade proposal may name an older version; `OwnerDecides` says who decides, not what.
* The frontend's split and merge hooks are used by no page.

## 5. What is proved

Nothing in the theorems bounds the number of accounts, types, tokens, units, the
length of batches, the depth of nested mints or the number of versions. They hold for
every value of the constants that satisfies the assumptions: `MinterAssumption` (limits
are naturals, the deployer and operators are accounts, address(0) is not one, policies
are among the three), `MarksAssumption` for the ledger (its two marks are not
accounts), `ReentrantAssumption` (receivers are accounts), `ProxyAssumption` (a
foreign contract and the empty slot are no versions, and what can be upgraded is one),
`SubgraphAssumption` (the mark for a
missing entity is no entity), `ClientAssumption` and `CacheAssumption` (clients, visitors and
claimers are accounts, tables are lists of accounts and units, shares are percentages
below 100) and `ProvisioningAssumption` (each kind of task is listed once, configurations name
networks).

| Theorem, of `Spec` | States | inside callbacks (`ReentrantSpec`) | behind the proxy (`ProxySpec`) |
|---|---|---|---|
| `TypeCorrect` | `TypeOK`: among other things, no merge ever leaves 256 bits | `TypeCorrectInside` | `ProxyTypeCorrect` |
| `HolderInvariant`, `HeldByOne`, `HeldOnceMinted` | one holder of one token; only minted fractions are held | `HeldByOneInside`, `HeldOnceMintedInside` | part of `ProxyInvariant` |
| `BurnedStaysBurned` | a token given up never returns | | `BurnedStaysBurnedBehindProxy` |
| `PolicyIsObeyed` | a token changes hands only as its type's policy allows | `PolicyIsObeyedInside` | |
| `TakenOnlyByAuthorised` | a balance falls only by its account or an approved operator | | `TakenOnlyByAuthorisedBehindProxy` |
| `TypesAreFixed` | created types do not change | `FinishedStaysFixed`, for types whose mint has returned | `TypesAreFixedBehindProxy` |
| `PauseFreezes` | the pause stops everything that moves units | `OnlyUnfinishedGrowth`, but for the mints under way | `PauseFreezesBehindProxy` |
| `UnitsNeverMade` | the fractions of a type never carry more than was issued | `UnitsNeverMadeInside` | |
| `ClaimsAreListed`, `LeavesIssuedOnce` | only listed leaves are claimed; what was issued is the sum of the claimed leaves | `ClaimsAreListedInside`, `LeavesIssuedOnceInside` | |
| `MinterImplementsLedger` | the contract implements `FractionLedger` | `ReentrantImplementsLedger` | |
| | only the owner changes owner, implementation and pause | | `OwnerAloneDecides` |

The compositions have theorems of their own:

| Specification | Theorems | State |
|---|---|---|
| `SubgraphSpec` | `SubgraphInvariant`, `SubgraphTypeCorrect`, `TokensBelongToClaims`, `UnitsAreIndexed`, `OwnersAreIndexed` | what a subgraph that has caught up shows, at any distance it may have been behind, with any number of transactions in a block and calls nested in callbacks |
| | `SubgraphUsesMinter` | what it indexes are steps of the contract with its callbacks (`ReentrantSpec`) |
| `CacheSpec` | `CacheInvariant`, `CacheTypeCorrect`, `NoLeafLost` | until a task throws, each leaf of an account that claims from the page alone is about to be listed, listed, or claimed |
| `ClientSpec` | `ClientUsesMinter`, `ClientTypeCorrect` | as above |
| | `RecordedOwnerHoldsForClient`, `ClientInvariant`, `OthersStayUntouched`, `SignersKeepUnits` | the checks of a call whose tokens were not detached and stayed put were enough, whatever came between |
| `ProvisioningSpec` | `ProvisioningInvariant`, `ProvisioningTypeCorrect`, `NothingStrays`, `DoneLeavesCurrent` | as long as runs do not overlap, whatever is refused |

No theorem has a hypothesis beside these assumptions. In particular none restricts the amounts
transferred. That a transfer of 0 makes anyone the recorded owner is part of
the client's model and of its theorems: they speak of the tokens this has not happened to, and say that nothing else can part the record from the holder.

**The argument.** A lemma of `HypercertMinterProofs`, `StepCases`, breaks `Next` into its
actions once; others say what the parts of an action do: the IDs a mint hands out
are fresh and distinct (`ItemIDFresh`, `ItemIDInjective`), what a batch of transfers moves
(`TransferMoves`), and that every step mints, shrinks balances or transfers
(`MintShrinkOrTransfer`).

* `SingleHolder` is not inductive alone: that a mint cannot give a held token a second
  holder needs `OnlyMintedHeld`, whose step needs that indices are within their range.
  `HolderInv` is the three together. `BurnedForever` and `PolicyObeyed` follow from it with
  one lemma per step.
* `UnitsInv` adds `UnitsBacked`. A split is neutral because its shares add up to the
  units of the token split (`SharesSum`, with the swap, is a reindexing:
  `TotalReindex`). A merge is the delicate step: sources repeated in the call are
  credited as often as they are listed, and it is the burn, which takes one balance
  for each occurrence, that excludes them. So the step needs `SingleHolder`. And a
  new token may overwrite the units a merge left at an ID not yet minted, which only
  lowers the total.
* `AllowlistInv` adds that a type still to be created has no list, no claims and nothing
  issued, and that `minted` stays 0. With it a claim adds leaves and units together, and the
  minting paths without a list cannot touch a type that has one.
* For the refinement, `holder` is the account with a balance. `HolderInv` makes it unique;
  a batch is then one step of the ledger, since all its tokens pass from one account
  to one other.
* Inside callbacks most of the work is to see that a mint cut in two still consists of
  steps the contract has anyway: `CallReceiver` is a `mintClaim` that stores the policy its
  slot had, `ReturnToSplit` is a split, on behalf of the creator, of a token of the type
  just minted, and `ReturnToStore` touches policies alone. So the lemmas on splits and
  mints, which are stated for the parts of an entry point, serve both specifications. What the cut adds is
  `CallsOK`: a waiting mint is of a type that has been created by an account, has a
  sound policy to store and sound shares to split into. `ReentrantInv` is
  `UnitsInv`, `AllowlistInv` and `CallsOK`. That the receiver may have burned,
  merged or split the token meanwhile needs no clause: the split that follows asks
  what the token carries by then.
* Behind the proxy, `ProxyInv` says that `initialized` is 1 exactly when the slot holds an
  implementation. Without it a second `initialize()` could not be excluded, and with it
  every step but the first is the contract's own or changes the slot alone.
* `SubgraphInv` is about the events still to be indexed, those of the sealed blocks, of
  the open one, and, at its end, those that the calls in a callback have yet to emit (`Chain`).
  `WaitingOK` says how these are divided among the calls that wait. Its other clauses say that
  the store with what is in the chain is
  what the contract has *now*: the claim of every created type is stored or coming
  (`ClaimsComing`), what moves is of created types (`OnlyCreated`), a minted token has its
  entity or its mint is coming (`MintedIsComing`), before all else that moves its units
  unless it gave some early (`ComesFirst`), units shown plus those incoming are those held plus those
  outgoing, but for tokens that did (`UnitsAddUp`), and the owner shown is the contract's
  unless the last single transfer that
  is coming names it (`OwnersFollow`). The last clause of `OwnersFollow` is what answers from the
  end of a block need: where no later block reassigns a token, the owner remembered with the
  block of its mint is right. Without events left the clauses are the properties
  (`NothingPending`). Three lemmas say what happens to the places of events when a
  call joins the open block, in front of what others have yet to emit (`Inserted`), when the
  block is sealed (`Sealed`) and when an event is taken (`Advanced`). A callback that returns moves
  events from `unemitted` to the block, which changes no place (`RestKeepsChain`).
  `TransactAccounted` says of each entry point that its events account
  for what it does to the contract, and `HandledTokens` what a handler makes of one. Order
  matters: a debit indexed before its credit would create the entity, and the mint would
  find it there. `ComesFirst` excludes it for all tokens but those in `early`, and with
  callbacks that is as much as is true.
* `CacheInv` has, beside `NothingLost`, what the task of a batch relies on. It deletes all rows
  of the claimer for the claims named, whether or not their leaves were in the batch. That is
  safe because a batch in flight that names one leaf of the account in a list names all of
  them (`BatchIsWhole`), trees are what was registered (`TreesMatch`), and so a task that is to delete
  follows a batch that has claimed all it deletes (`TasksAreDone`).
* `ClientInv` has `CheckedAreHeld`: unless the call is `stale`, the signer is the
  one holder of every token checked so far. It needs `HolderInv`, for one holder means nobody
  else is hurt, and `RecordedIsHolder`, since `ownerOf` is all the client can ask. That is an
  invariant since a step either moves a token, and then records its new holder, or does not,
  and then a new record of it is what `detached` notes.
* `ProvisioningInv` says that, unless runs have overlapped, one run is active, all that is installed
  comes from one rollout, every request under way fits what is installed, and an update still
  has to ask for whatever is not its own code yet (`InOrder`).

Sums are counts (`Totals`), so what is known of finite cardinalities carries over: the
total of a union, of one element less, along a bijection (`HypercertMinterProofs`). Deduplication
and the page's batch list a set as a sequence, and one theorem (`SetToSeqLists`) says that
such a list is whole and without repetition. Recursive definitions are avoided in this way: what they
compute would need induction over data, which these provers do not do.

**Only model-checked:** the four liveness properties (`MintedIsIndexed`, `ListedIsClaimed`, `ClaimedRowsGo`,
`RolloutServes`), because fairness is out of this prover's reach. Every other property of a passing
run is a theorem.

## 6. Not modelled

* Merkle verification itself. It is a pure function over hashes, and with collision-free
  hashes its answer is membership in the tree, which is what the contract model uses.
* The widths of token IDs beyond their limits: the code's shifts and masks.
* URIs, metadata, timestamps and the text of files that are parsed.
* Addresses in mixed case: lists made on the page are in lower case, and one registered
  by other means with checksummed addresses would be shown and then not verified.
* Reorganisations of the chain; a task that is redeployed while it runs.
* The other frontend hooks and pages: each validates a form, calls the client once and
  closes its dialog; no state outlives the call. SDK storage, indexer and evaluations, and
  the CORS proxy: one request per call. Contract tasks: their transactions are actions of
  `MinterProxy`, and that they print the result is left out. Docker, e2e, docs: no program logic.

About half of the repository's lines of code are generated or data, and state nothing
that a model could be diffed with: the two GraphQL clients
(`sdk/.graphclient/`, among them a schema of 6342 lines), the subgraph's generated event
classes (`graph/generated/`), the contract's ABI as a constant
(`defender/src/HypercertMinterABI.ts`), Plasmic's component registration and the project
list of the frontend, and a vendored yarn. Most of the rest is React components, tests and
vendored libraries. What is mapped is the code with logic of its own.

## 7. Plan

Done: every module of section 2, its runs, and theorems for every safety property of the
passing runs.

1. `UnitsInv` and `AllowlistInv` of `CacheSpec`. It does not imply `Spec`, as the subgraph's and
   the client's specifications do: its lists come from tables and not from `Allowlists`, and a page's
   batch is as long as its lists make it, whatever `MaxBatch`. The lemmas on the two transactions it
   makes do not depend on either.
2. `MerkleProof`: verification as a fold, against membership in a small tree.
3. `Subgraph` with reorganisations, once the code does anything about them.
