--------------------------- MODULE AllowlistCache ---------------------------
(***************************************************************************)
(* The cache of who may claim what, and the page that claims from it.      *)
(*                                                                         *)
(* OpenZeppelin Defender watches the contract.  When an allowlist is       *)
(* created an autotask writes one row per leaf to a database, and when     *)
(* leaves are claimed another deletes the rows of the claimer.  A task     *)
(* runs at any time after its transaction, in any order with the others,   *)
(* and one that throws is not run again.  The page of an account refetches *)
(* the rows of its address, takes the proofs for them from the stored      *)
(* trees and claims them all in one batch, which reverts as a whole.  The  *)
(* dialog that covers the page meanwhile is closed by nothing but success. *)
(*                                                                         *)
(* The lists come from a table of accounts and units; nothing stops it     *)
(* from naming a leaf twice.  The contract's other transactions match no   *)
(* sentinel and are left out: of what is read here they change whether the *)
(* contract is paused, and it is taken not to be.                          *)
(***************************************************************************)
EXTENDS HypercertMinter, SequencesExt

CONSTANTS
  CSVs,             \* the tables uploaded: sequences of <<account, units>>
  Shares,           \* the percentages, below 100, an organiser keeps
  Organisers,       \* the accounts that register allowlists
  Visitors,         \* the accounts that use the page
  SingleClaimers,   \* who also claims one leaf at a time, past the page
  BatchClaimers,    \* who also claims batches of its own choice, past the page
  MaxFailures       \* the most tasks that throw on their way (a bound)

ASSUME CacheAssumption ==
  /\ CSVs \subseteq Seq(Accounts \X Nat)
  /\ Shares \subseteq 0..99
  /\ Organisers \cup Visitors \cup SingleClaimers \cup BatchClaimers \subseteq Accounts
  /\ MaxFailures \in Nat

VARIABLES
  trees,        \* type -> the entries of the tree stored for it
  rows,         \* the database: the entries of each type thought claimable
  tasks,        \* the autotasks triggered that have not ended
  claimIds,     \* account -> the types its page last fetched
  batch,        \* account -> the claims its page has in flight, in order
  stuck,        \* the accounts whose page lies under a dialog left open
  failures      \* how many tasks have thrown on their way

pageVars == <<claimIds, batch, stuck>>
cacheVars == <<vars, trees, rows, tasks, pageVars, failures>>

\* The proof of an entry is known by the places of the leaves it leads to.
Entry(a, units, proof) == [account |-> a, units |-> units, proof |-> proof]

Claim == [typeID : TypeIDs, units : 0..MaxUint]

Listing(t) == [on |-> "AllowlistCreated", claims |-> {t}, from |-> Deployer]
Claimed(s, items) ==
  [on |-> "batchMintClaimsFromAllowlists", from |-> s,
   claims |-> {items[i].typeID : i \in DOMAIN items}]
ClaimedOne(s, t) ==
  [on |-> "mintClaimFromAllowlist", claims |-> {t}, from |-> s]

Entries == [account : Accounts, units : 0..MaxUint, proof : SUBSET Nat]
TaskSet ==
  [on : {"AllowlistCreated", "batchMintClaimsFromAllowlists", "mintClaimFromAllowlist"},
   claims : SUBSET TypeIDs, from : Accounts]

CacheTypeOK ==
  /\ TypeOK
  /\ trees \in [TypeIDs -> Seq(Entries)]
  /\ rows \subseteq UNION {{t} \X DOMAIN trees[t] : t \in TypeIDs}
  /\ IsABag(tasks) /\ BagToSet(tasks) \subseteq TaskSet
  /\ claimIds \in [Accounts -> SUBSET TypeIDs]
  /\ batch \in [Accounts -> Seq(Claim)]
  /\ stuck \subseteq Accounts
  /\ failures \in 0..MaxFailures

CacheInit ==
  /\ Init
  /\ trees = [t \in TypeIDs |-> <<>>]
  /\ rows = {}
  /\ tasks = EmptyBag
  /\ claimIds = [a \in Accounts |-> {}]
  /\ batch = [a \in Accounts |-> <<>>]
  /\ stuck = {}
  /\ failures = 0

-----------------------------------------------------------------------------
(* Transactions and the tasks their sentinels trigger                      *)

Trigger(task) ==
  /\ tasks' = tasks (+) SetToBag({task})
  /\ UNCHANGED <<rows, failures>>

UnitsIn(table) == Total([i \in DOMAIN table |-> table[i][2]], DOMAIN table)

\* The units of an account's repeated entries are added up in one.  Their order
\* is of no account: the tree sorts its leaves.
Deduplicated(table) ==
  LET units(a) == Total([i \in DOMAIN table |-> table[i][2]],
                        {i \in DOMAIN table : table[i][1] = a})
  IN  SetToSeq({<<table[i][1], units(table[i][1])>> : i \in DOMAIN table})

\* The organiser's share comes on top, rounded down: an entry like the others.
parseAllowlistCsv(csv, deduplicate, organiser, share) ==
  LET all == Append(csv, <<organiser, (UnitsIn(csv) * share) \div (100 - share)>>)
  IN  IF deduplicate THEN Deduplicated(all) ELSE all

\* Leaves are sorted by their hash.  Equal ones may become siblings, which have
\* one proof, or, among others, come to lie apart.
Tree(table, apart) ==
  [i \in DOMAIN table |->
     Entry(table[i][1], table[i][2],
           IF apart THEN {i} ELSE {j \in DOMAIN table : table[j] = table[i]})]

\* The page makes the table, of rows that carry some units, the SDK the tree, and
\* registers what it adds up to.  (That this is not 0, as the SDK asks too, the
\* contract asks again.)
RegisterAllowlist ==
  /\ \E s \in Organisers, csv \in CSVs, share \in Shares, deduplicate \in BOOLEAN,
        apart \in BOOLEAN, r \in Policies :
       LET table == parseAllowlistCsv(csv, deduplicate, s, share)
       IN  /\ UnitsIn(csv) > 0
           /\ apart => /\ Len(table) > 2
                       /\ ~IsInjective(table)
           /\ UnitsIn(table) \in 0..MaxUint
           /\ CreateAllowlist(s, UnitsIn(table), ToSet(table), r)
           /\ trees' = [trees EXCEPT ![NewType] = Tree(table, apart)]
  /\ Trigger(Listing(NewType))
  /\ UNCHANGED pageVars

ClaimSingly(s) ==
  \E t \in TypeIDs, units \in 0..MaxUint :
    /\ MintClaimFromAllowlist(s, s, t, units)
    /\ Trigger(ClaimedOne(s, t))
    /\ UNCHANGED <<trees, pageVars>>

ClaimInBatch(s) ==
  \E items \in SeqsBetween(Claim, 1, MaxBatch) :
    /\ BatchMintClaimsFromAllowlists(s, s, items)
    /\ Trigger(Claimed(s, items))
    /\ UNCHANGED <<trees, pageVars>>

-----------------------------------------------------------------------------
(* Autotasks                                                               *)

\* Mutant of onAllowlistCreated: the address is written for the entry's number.
onAllowlistCreatedAddresses(task) ==
  rows \cup UNION {{<<t, trees[t][i].account>> : i \in DOMAIN trees[t]} : t \in task.claims}

\* The tree stored with the claim gives one row per entry.
onAllowlistCreated(task) ==
  rows \cup UNION {{t} \X DOMAIN trees[t] : t \in task.claims}

\* A row holds the address of its entry.
RowOf(row, a) == trees[row[1]][row[2]].account = a

\* Mutant of batchMintClaims: the rows of every address are deleted.
batchMintClaimsOfAll(task) == {row \in rows : row[1] \notin task.claims}

\* Mutant of batchMintClaims: only the rows of one of the claims are deleted.
batchMintClaimsFirst(task) ==
  LET first == CHOOSE t \in task.claims : TRUE
  IN  {row \in rows : row[1] # first \/ ~RowOf(row, task.from)}

\* All rows of the sender for the claims named are deleted, whichever of its
\* leaves the batch claimed.
batchMintClaims(task) ==
  {row \in rows : row[1] \notin task.claims \/ ~RowOf(row, task.from)}

Ends(task) == tasks' = tasks (-) SetToBag({task})

\* The task for a single claim looks for a BatchValueTransfer, which no single
\* claim emits, and throws before it deletes anything.
RunTask(task) ==
  /\ Ends(task)
  /\ \/ task.on = "AllowlistCreated" /\ rows' = onAllowlistCreated(task)
     \/ task.on = "batchMintClaimsFromAllowlists" /\ rows' = batchMintClaims(task)
     \/ task.on = "mintClaimFromAllowlist" /\ UNCHANGED rows
  /\ UNCHANGED <<vars, trees, pageVars, failures>>

\* The node, the storage gateway or the database does not answer as expected.
TaskFails(task) ==
  /\ failures < MaxFailures
  /\ failures' = failures + 1
  /\ Ends(task)
  /\ UNCHANGED <<vars, trees, pageVars, rows>>

-----------------------------------------------------------------------------
(* The page                                                                *)

\* useGetAllEligibility, every five seconds, also while a claim is in flight.
Refetch(a) ==
  /\ claimIds' = [claimIds EXCEPT ![a] = {row[1] : row \in {r \in rows : RowOf(r, a)}}]
  /\ UNCHANGED <<vars, trees, rows, tasks, batch, stuck, failures>>

\* Mutant of verifyFractionClaim: the search ends at the first match.
verifyFractionClaimFirst(t, a) ==
  LET i == CHOOSE i \in DOMAIN trees[t] : trees[t][i].account = a
  IN  {[typeID |-> t, units |-> trees[t][i].units, proof |-> trees[t][i].proof]}

\* Every entry of the tree that names the address, claimed or not.  (Its units go
\* through a floating-point number, which is exact up to 2^53.)
verifyFractionClaim(t, a) ==
  {[typeID |-> t, units |-> e.units, proof |-> e.proof] :
     e \in {e \in ToSet(trees[t]) : e.account = a}}

\* Mutant of unique: every entry is claimed for itself.
uniqueNot(a) ==
  UNION {{[typeID |-> t, units |-> trees[t][i].units, proof |-> {i}] :
            i \in {i \in DOMAIN trees[t] : trees[t][i].account = a}} : t \in claimIds[a]}

\* Entries with the same units and the same proof are one.
unique(a) == UNION {verifyFractionClaim(t, a) : t \in claimIds[a]}

\* The batch lists what was verified in one fixed order.
Write(a) ==
  /\ batch[a] = <<>> /\ a \notin stuck
  /\ claimIds[a] # {}
  /\ LET proofs == SetToSeq(unique(a))
     IN  batch' = [batch EXCEPT ![a] = [i \in DOMAIN proofs |->
                                          Item(proofs[i].typeID, proofs[i].units)]]
  /\ UNCHANGED <<vars, trees, rows, tasks, claimIds, stuck, failures>>

Closes(a) == batch' = [batch EXCEPT ![a] = <<>>]
Forgets(a) == claimIds' = [claimIds EXCEPT ![a] = {}]

\* onComplete reloads the page.
Mined(a) ==
  /\ batch[a] # <<>>
  /\ BatchMintClaimsFromAllowlists(a, a, batch[a])
  /\ Trigger(Claimed(a, batch[a]))
  /\ Closes(a) /\ Forgets(a)
  /\ UNCHANGED <<trees, stuck>>

\* The transaction reverts, or the user or the wallet does not send it.  The
\* error is shown; the dialog is not hidden.
NotMined(a) ==
  /\ batch[a] # <<>>
  /\ Closes(a)
  /\ stuck' = stuck \cup {a}
  /\ UNCHANGED <<vars, trees, rows, tasks, claimIds, failures>>

\* Only loading the page again gets rid of the dialog.
Reload(a) ==
  /\ a \in stuck
  /\ stuck' = stuck \ {a}
  /\ Forgets(a)
  /\ UNCHANGED <<vars, trees, rows, tasks, batch, failures>>

-----------------------------------------------------------------------------
Page(a) == Refetch(a) \/ Write(a) \/ Mined(a) \/ NotMined(a) \/ Reload(a)
Tasks == \E task \in BagToSet(tasks) : RunTask(task) \/ TaskFails(task)

CacheNext ==
  \/ RegisterAllowlist
  \/ \E s \in SingleClaimers : ClaimSingly(s)
  \/ \E s \in BatchClaimers : ClaimInBatch(s)
  \/ Tasks
  \/ \E a \in Visitors : Page(a)

\* Defender runs what it was asked to run, a page refetches by itself, and its
\* user goes on claiming while rows are shown, sending what can be mined in the
\* end, and reloading a page that lies under a dialog.
CacheSpec ==
  /\ CacheInit /\ [][CacheNext]_cacheVars
  /\ WF_cacheVars(Tasks)
  /\ \A a \in Visitors :
       /\ WF_cacheVars(Refetch(a))
       /\ WF_cacheVars(Write(a))
       /\ WF_cacheVars(Mined(a) \/ NotMined(a))
       /\ WF_cacheVars(Reload(a))
       /\ SF_cacheVars(Mined(a))

-----------------------------------------------------------------------------
(* Properties                                                              *)

\* The leaves of accounts that claim from the page alone.
PageLeaves(t) ==
  {leaf \in merkleRoots[t] : leaf[1] \in Visitors \ (SingleClaimers \cup BatchClaimers)}

\* The accounts that a tree names twice with the same leaf and different proofs:
\* the page takes them for two claims and no batch of theirs is ever mined.
Repeated ==
  {a \in Accounts : \E t \in TypeIDs : \E i, j \in DOMAIN trees[t] :
     /\ trees[t][i].account = a /\ trees[t][j].account = a
     /\ trees[t][i].units = trees[t][j].units
     /\ trees[t][i].proof # trees[t][j].proof}

\* Some row shows the page that the leaf may be claimed.
Shown(t, leaf) ==
  \E row \in rows : /\ row[1] = t /\ RowOf(row, leaf[1])
                     /\ trees[t][row[2]].units = leaf[2]

\* Until a task has thrown on its way, no leaf of such an account is lost: it is
\* about to be listed, listed, or claimed, whatever other accounts claim.
NothingLost ==
  failures = 0 => \A t \in TypeIDs : \A leaf \in PageLeaves(t) :
    \/ BagIn(Listing(t), tasks)
    \/ Shown(t, leaf)
    \/ leaf \in hasBeenClaimed[t]

\* And each is claimed in the end, though a batch reverts as long as the page
\* still lists what an earlier one has claimed, and a revert leaves the page
\* under its dialog; unless a list repeats a leaf of the account. (Claims are
\* never taken back, so it is enough that the lists are again and again claimed
\* to the last leaf.)
ListedIsClaimed ==
  []<>(failures = 0 => \A t \in TypeIDs : \A leaf \in PageLeaves(t) :
         leaf[1] \in Repeated \/ leaf \in hasBeenClaimed[t])

\* The rows of claimed leaves of such an account disappear from the page.
ClaimedRowsGo ==
  []<>(failures = 0 => \A t \in TypeIDs :
         \A leaf \in PageLeaves(t) \cap hasBeenClaimed[t] : ~Shown(t, leaf))

-----------------------------------------------------------------------------
(* What a comment says and the code does not do (see the README)           *)

\* "// Remove from DB" (auto-tasks/mint-claim-from-allowlist.ts): the row of a
\* claimed leaf is removed, however it was claimed.
EveryClaimedRowGoes ==
  []<>(failures = 0 => \A t \in TypeIDs :
         \A leaf \in hasBeenClaimed[t] : ~Shown(t, leaf))
=============================================================================
