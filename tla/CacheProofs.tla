----------------------------- MODULE CacheProofs -----------------------------
(***************************************************************************)
(* The cache and the claim page lose no leaf, for every instance of        *)
(* AllowlistCache: whatever the order of the tasks, and whoever else       *)
(* claims, a leaf of an account that claims from the page alone is about   *)
(* to be listed, listed, or claimed, until a task has thrown on its way.   *)
(*                                                                         *)
(* The task of a batch deletes all rows of the claimer for the claims      *)
(* named, whether or not their leaves were in the batch.  That is safe     *)
(* because the page claims every leaf of the account in the trees it       *)
(* fetched, which do not change afterwards.                                *)
(***************************************************************************)
EXTENDS AllowlistCache, UnitsProofs

\* The accounts that claim from the page alone.
PageOnly == Visitors \ (SingleClaimers \cup BatchClaimers)
LeavesOf(a, t) == {leaf \in merkleRoots[t] : leaf[1] = a}

\* The tree stored for a type is the one registered for it.
TreesMatch ==
  \A t \in TypeIDs :
    merkleRoots[t] = {<<trees[t][i].account, trees[t][i].units>> : i \in DOMAIN trees[t]}

\* A batch the page has in flight names listed leaves, and with one of them all
\* that the account has in the same list.
BatchIsWhole ==
  \A a \in Accounts : \A i \in DOMAIN batch[a] :
    LET t == batch[a][i].typeID
    IN  /\ <<a, batch[a][i].units>> \in merkleRoots[t]
        /\ \A leaf \in LeavesOf(a, t) :
             \E j \in DOMAIN batch[a] : batch[a][j] = Item(t, leaf[2])

\* A task that is to delete the rows of such an account follows a batch that has
\* claimed all its leaves in the lists named.
TaskIsDone(task) ==
  (task.on = "batchMintClaimsFromAllowlists" /\ task.from \in PageOnly) =>
    \A t \in task.claims : /\ HasAllowlist(t)
                           /\ LeavesOf(task.from, t) \subseteq hasBeenClaimed[t]
TasksAreDone == \A task \in BagToSet(tasks) : TaskIsDone(task)

CacheInv ==
  CacheTypeOK /\ TreesMatch /\ BatchIsWhole /\ TasksAreDone /\ NothingLost

-----------------------------------------------------------------------------
(* Tasks, and what is computed from a table                                *)

LEMMA ImageFinite ==
  ASSUME NEW S, IsFiniteSet(S), NEW f
  PROVE  IsFiniteSet({f[x] : x \in S})
<1> DEFINE T == {f[x] : x \in S}
           g == [x \in S |-> f[x]]
<1>1. g \in [S -> T] /\ \A y \in T : \E x \in S : g[x] = y
  OBVIOUS
<1> HIDE DEF g, T
<1>2. g \in Surjection(S, T)
  BY <1>1 DEF Surjection
<1>3. IsFiniteSet(T)
  BY <1>2, FS_Surjection
<1> QED BY <1>3 DEF T

LEMMA TaskAdded ==
  ASSUME NEW task, IsABag(tasks), Trigger(task)
  PROVE  /\ IsABag(tasks') /\ BagToSet(tasks') = BagToSet(tasks) \cup {task}
         /\ rows' = rows /\ failures' = failures
<1>1. tasks' = tasks (+) SetToBag({task}) /\ rows' = rows /\ failures' = failures
  BY DEF Trigger
<1> QED BY <1>1 DEF IsABag, BagToSet, SetToBag, (+)

LEMMA TaskRemoved ==
  ASSUME NEW task, IsABag(tasks), Ends(task)
  PROVE  /\ IsABag(tasks')
         /\ BagToSet(tasks') \subseteq BagToSet(tasks)
         /\ \A other \in BagToSet(tasks) : other # task => other \in BagToSet(tasks')
<1>1. tasks' = tasks (-) SetToBag({task})
  BY DEF Ends
<1> QED BY <1>1 DEF IsABag, BagToSet, SetToBag, (-)

Table == Seq(Accounts \X Nat)

\* A table adds up to a natural number of units, and no entry has more.
LEMMA UnitsInType ==
  ASSUME NEW table \in Table
  PROVE  /\ UnitsIn(table) \in Nat
         /\ \A i \in DOMAIN table : table[i][2] <= UnitsIn(table)
         /\ \A I \in SUBSET DOMAIN table :
              Total([i \in DOMAIN table |-> table[i][2]], I) \in Nat
         /\ IsFiniteSet(DOMAIN table)
<1> DEFINE units == [i \in DOMAIN table |-> table[i][2]]
<1>1. DOMAIN table = 1..Len(table) /\ Len(table) \in Nat
  BY LenProperties DEF Table
<1>2. \A i \in DOMAIN table : table[i][2] \in Nat
  <2> TAKE i \in DOMAIN table
  <2>1. table[i] \in Accounts \X Nat
    BY <1>1, ElementOfSeq DEF Table
  <2> QED BY <2>1
<1>3. IsFiniteSet(DOMAIN table)
  BY <1>1, FS_Interval
<1>4. \A I \in SUBSET DOMAIN table : Summable(units, I)
  BY <1>2, <1>3, FS_Subset DEF Summable
<1>5. \A I \in SUBSET DOMAIN table : Total(units, I) \in Nat
  <2> HIDE DEF units
  <2> QED BY <1>4, TotalIsNat
<1>6. ASSUME NEW i \in DOMAIN table
      PROVE  table[i][2] <= Total(units, DOMAIN table)
  <2>1. units[i] = table[i][2] /\ units[i] \in Nat
    BY <1>2
  <2> HIDE DEF units
  <2>2. Total(units, DOMAIN table) = Total(units, DOMAIN table \ {i}) + units[i]
    BY <1>4, TotalRemove
  <2>3. Total(units, DOMAIN table \ {i}) \in Nat
    BY <1>5
  <2> QED BY <2>1, <2>2, <2>3
<1> QED BY <1>3, <1>5, <1>6 DEF UnitsIn

LEMMA TableType ==
  ASSUME NEW csv \in CSVs, NEW organiser \in Organisers, NEW share \in Shares,
         NEW deduplicate \in BOOLEAN
  PROVE  parseAllowlistCsv(csv, deduplicate, organiser, share) \in Table
<1> DEFINE kept == (UnitsIn(csv) * share) \div (100 - share)
           all == Append(csv, <<organiser, kept>>)
           units(a) == Total([i \in DOMAIN all |-> all[i][2]],
                             {i \in DOMAIN all : all[i][1] = a})
           f == [i \in DOMAIN all |-> <<all[i][1], units(all[i][1])>>]
           S == {f[i] : i \in DOMAIN all}
<1>1. csv \in Table /\ organiser \in Accounts /\ share \in 0..99
  BY CacheAssumption DEF Table
<1>2. kept \in Nat
  <2>1. UnitsIn(csv) \in Nat
    BY <1>1, UnitsInType
  <2>2. UnitsIn(csv) * share \in Nat /\ 100 - share \in Nat \ {0}
    BY <1>1, <2>1
  <2>3. \A x \in Nat, y \in Nat \ {0} : x \div y \in Nat
    OBVIOUS
  <2> QED BY <2>2, <2>3
<1> HIDE DEF kept
<1>3. all \in Table
  BY <1>1, <1>2 DEF Table
<1> HIDE DEF all
<1>4. IsFiniteSet(S)
  <2>1. IsFiniteSet(DOMAIN all)
    BY <1>3, UnitsInType
  <2> HIDE DEF f
  <2> QED BY <2>1, ImageFinite
<1>5. S \subseteq Accounts \X Nat
  <2> SUFFICES ASSUME NEW i \in DOMAIN all PROVE f[i] \in Accounts \X Nat
    OBVIOUS
  <2>1. all[i] \in Accounts \X Nat
    BY <1>3, ElementOfSeq, LenProperties DEF Table
  <2>2. units(all[i][1]) \in Nat
    BY <1>3, UnitsInType
  <2> HIDE DEF units
  <2> QED BY <2>1, <2>2
<1>6. SetToSeq(S) \in Table
  <2> HIDE DEF S
  <2>1. SetToSeq(S) \in [1..Cardinality(S) -> S] /\ Cardinality(S) \in Nat
    BY <1>4, SetToSeqLists
  <2>2. SetToSeq(S) \in [1..Cardinality(S) -> Accounts \X Nat]
    BY <1>5, <2>1
  <2> QED BY <2>1, <2>2, IsASeq DEF Table
<1>7. Deduplicated(all) = SetToSeq(S)
  BY DEF Deduplicated
<1> QED BY <1>3, <1>6, <1>7 DEF parseAllowlistCsv, all, kept

-----------------------------------------------------------------------------
(* What only grows keeps what was so                                       *)

\* No transaction changes an allowlist or takes a claim back.
Grows ==
  \A t \in TypeIDs : /\ HasAllowlist(t) => merkleRoots'[t] = merkleRoots[t]
                     /\ hasBeenClaimed[t] \subseteq hasBeenClaimed'[t]

LEMMA DoneStays ==
  ASSUME Grows, NEW task \in TaskSet, TaskIsDone(task)
  PROVE  TaskIsDone(task)'
<1> SUFFICES ASSUME task.on = "batchMintClaimsFromAllowlists", task.from \in PageOnly,
                    NEW t \in task.claims
             PROVE  /\ HasAllowlist(t)'
                    /\ LeavesOf(task.from, t)' \subseteq hasBeenClaimed'[t]
  BY DEF TaskIsDone, PageOnly
<1>1. t \in TypeIDs
  BY DEF TaskSet
<1>2. HasAllowlist(t) /\ LeavesOf(task.from, t) \subseteq hasBeenClaimed[t]
  BY DEF TaskIsDone
<1>3. /\ merkleRoots'[t] = merkleRoots[t]
      /\ hasBeenClaimed[t] \subseteq hasBeenClaimed'[t]
  BY <1>1, <1>2 DEF Grows
<1> QED BY <1>2, <1>3 DEF HasAllowlist, LeavesOf

LEMMA WholeStays ==
  ASSUME CacheTypeOK, BatchIsWhole, Grows,
         \A a \in Accounts : batch'[a] = batch[a] \/ batch'[a] = <<>>
  PROVE  BatchIsWhole'
<1>1. ASSUME NEW a \in Accounts, NEW i \in DOMAIN batch'[a]
      PROVE  /\ <<a, batch'[a][i].units>> \in merkleRoots'[batch'[a][i].typeID]
             /\ \A leaf \in merkleRoots'[batch'[a][i].typeID] : leaf[1] = a =>
                  \E j \in DOMAIN batch'[a] :
                    batch'[a][j] = Item(batch'[a][i].typeID, leaf[2])
  <2> DEFINE t == batch[a][i].typeID
  <2>1. batch'[a] = batch[a]
    BY <1>1
  <2>2. t \in TypeIDs
    <3>1. batch[a] \in Seq(Claim)
      BY DEF CacheTypeOK
    <3>2. batch[a][i] \in Claim
      BY <1>1, <2>1, <3>1, ElementOfSeq, LenProperties
    <3> QED BY <3>2 DEF Claim
  <2>3. /\ <<a, batch[a][i].units>> \in merkleRoots[t]
        /\ \A leaf \in LeavesOf(a, t) :
             \E j \in DOMAIN batch[a] : batch[a][j] = Item(t, leaf[2])
    BY <1>1, <2>1 DEF BatchIsWhole
  <2>4. merkleRoots'[t] = merkleRoots[t]
    BY <2>2, <2>3 DEF Grows, HasAllowlist, NoRoot
  <2> HIDE DEF t
  <2> QED BY <2>1, <2>3, <2>4 DEF t, LeavesOf
<1> QED BY <1>1 DEF BatchIsWhole, LeavesOf

LEMMA LostStays ==
  ASSUME NothingLost, merkleRoots' = merkleRoots, trees' = trees,
         \A t \in TypeIDs : hasBeenClaimed[t] \subseteq hasBeenClaimed'[t],
         rows \subseteq rows', BagToSet(tasks) \subseteq BagToSet(tasks'),
         failures' = failures
  PROVE  NothingLost'
BY DEF NothingLost, PageLeaves, Shown, RowOf, BagIn, Listing

\* A batch of claims leaves the allowlists as they are and records its leaves.
LEMMA ClaimGrows ==
  ASSUME TypeOK, NEW s \in Accounts, NEW items \in Seq(ItemSet),
         BatchMintClaimsFromAllowlists(s, s, items)
  PROVE  /\ TypeOK' /\ Grows /\ merkleRoots' = merkleRoots
         /\ \A i \in DOMAIN items :
              <<s, items[i].units>> \in hasBeenClaimed'[items[i].typeID]
<1>1. TypeOK'
  BY ClaimsType
<1>2. /\ merkleRoots' = merkleRoots
      /\ hasBeenClaimed' =
           [t \in TypeIDs |->
              hasBeenClaimed[t] \cup
                {<<s, items[i].units>> : i \in {j \in DOMAIN items :
                                                  items[j].typeID = t}}]
  BY DEF BatchMintClaimsFromAllowlists, ProcessClaims
<1>3. Grows
  BY <1>2 DEF Grows
<1>4. ASSUME NEW i \in DOMAIN items
      PROVE  <<s, items[i].units>> \in hasBeenClaimed'[items[i].typeID]
  <2>1. items[i] \in ItemSet
    BY ElementOfSeq, LenProperties
  <2>2. items[i].typeID \in TypeIDs
    BY <2>1 DEF ItemSet
  <2> QED BY <1>2, <2>2
<1> QED BY <1>1, <1>2, <1>3, <1>4

-----------------------------------------------------------------------------
(* Claims                                                                  *)

\* A claim keeps the invariant if its task will delete no unclaimed leaf's row.
LEMMA ClaimStep ==
  ASSUME CacheInv, NEW s \in Accounts, NEW items \in Seq(ItemSet),
         BatchMintClaimsFromAllowlists(s, s, items),
         NEW task \in TaskSet, Trigger(task), TaskIsDone(task)',
         trees' = trees, stuck' = stuck,
         claimIds' \in [Accounts -> SUBSET TypeIDs],
         batch' \in [Accounts -> Seq(Claim)],
         \A a \in Accounts : batch'[a] = batch[a] \/ batch'[a] = <<>>
  PROVE  CacheInv'
<1>1. CacheTypeOK /\ TreesMatch /\ BatchIsWhole /\ TasksAreDone /\ NothingLost
  BY DEF CacheInv
<1>2. TypeOK /\ IsABag(tasks) /\ BagToSet(tasks) \subseteq TaskSet
  BY <1>1 DEF CacheTypeOK
<1>3. /\ TypeOK' /\ Grows /\ merkleRoots' = merkleRoots
  BY <1>2, ClaimGrows
<1>4. /\ IsABag(tasks') /\ BagToSet(tasks') = BagToSet(tasks) \cup {task}
      /\ rows' = rows /\ failures' = failures
  BY <1>2, TaskAdded
<1>5. CacheTypeOK'
  BY <1>1, <1>2, <1>3, <1>4 DEF CacheTypeOK
<1>6. TreesMatch'
  BY <1>1, <1>3 DEF TreesMatch
<1>7. BatchIsWhole'
  BY <1>1, <1>3, WholeStays
<1>8. TasksAreDone'
  <2> SUFFICES ASSUME NEW other \in BagToSet(tasks') PROVE TaskIsDone(other)'
    BY DEF TasksAreDone
  <2>1. CASE other = task
    BY <2>1
  <2>2. CASE other \in BagToSet(tasks)
    <3>1. other \in TaskSet /\ TaskIsDone(other)
      BY <1>1, <1>2, <2>2 DEF TasksAreDone
    <3> QED BY <1>3, <3>1, DoneStays
  <2> QED BY <1>4, <2>1, <2>2
<1>9. NothingLost'
  <2>1. \A t \in TypeIDs : hasBeenClaimed[t] \subseteq hasBeenClaimed'[t]
    BY <1>3 DEF Grows
  <2> QED BY <1>1, <1>3, <1>4, <2>1, LostStays
<1> QED BY <1>5, <1>6, <1>7, <1>8, <1>9 DEF CacheInv

LEMMA SingleStep ==
  ASSUME CacheInv, NEW s \in SingleClaimers, ClaimSingly(s)
  PROVE  CacheInv'
<1>1. PICK t \in TypeIDs, units \in 0..MaxUint :
        /\ BatchMintClaimsFromAllowlists(s, s, <<Item(t, units)>>)
        /\ Trigger(ClaimedOne(s, t))
        /\ UNCHANGED <<trees, pageVars>>
  BY DEF ClaimSingly, MintClaimFromAllowlist
<1>2. s \in Accounts /\ <<Item(t, units)>> \in Seq(ItemSet)
  BY CacheAssumption, WholeClaim
<1> DEFINE task == ClaimedOne(s, t)
<1>3. task \in TaskSet /\ TaskIsDone(task)'
  BY <1>2 DEF ClaimedOne, TaskSet, TaskIsDone
<1>4. /\ claimIds \in [Accounts -> SUBSET TypeIDs]
      /\ batch \in [Accounts -> Seq(Claim)]
  BY DEF CacheInv, CacheTypeOK
<1> HIDE DEF task
<1> QED BY <1>1, <1>2, <1>3, <1>4, ClaimStep DEF pageVars, task

LEMMA ClaimedTask ==
  ASSUME NEW s \in Accounts, NEW items \in Seq(ItemSet)
  PROVE  /\ Claimed(s, items) \in TaskSet
         /\ \A t \in Claimed(s, items).claims :
              \E i \in DOMAIN items : items[i].typeID = t
<1>1. \A i \in DOMAIN items : items[i] \in ItemSet
  BY ElementOfSeq, LenProperties
<1>2. {items[i].typeID : i \in DOMAIN items} \subseteq TypeIDs
  BY <1>1 DEF ItemSet
<1> QED BY <1>2 DEF Claimed, TaskSet

LEMMA BatchStep ==
  ASSUME CacheInv, NEW s \in BatchClaimers, ClaimInBatch(s)
  PROVE  CacheInv'
<1>1. PICK items \in SeqsBetween(Claim, 1, MaxBatch) :
        /\ BatchMintClaimsFromAllowlists(s, s, items)
        /\ Trigger(Claimed(s, items))
        /\ UNCHANGED <<trees, pageVars>>
  BY DEF ClaimInBatch
<1>2. s \in Accounts /\ items \in Seq(ItemSet)
  BY CacheAssumption, MinterAssumption, SeqsBetweenType DEF Claim, ItemSet
<1> DEFINE task == Claimed(s, items)
<1>3. task \in TaskSet
  BY <1>2, ClaimedTask
<1>4. TaskIsDone(task)'
  BY DEF Claimed, TaskIsDone, PageOnly
<1>5. /\ claimIds \in [Accounts -> SUBSET TypeIDs]
      /\ batch \in [Accounts -> Seq(Claim)]
  BY DEF CacheInv, CacheTypeOK
<1> HIDE DEF task
<1> QED BY <1>1, <1>2, <1>3, <1>4, <1>5, ClaimStep DEF pageVars, task

\* A batch of the page claims all leaves of the account in the lists it names.
LEMMA MinedStep ==
  ASSUME CacheInv, NEW a \in Visitors, Mined(a)
  PROVE  CacheInv'
<1>0. PICK items : items = batch[a]
  OBVIOUS
<1> DEFINE task == Claimed(a, items)
<1>1. /\ BatchMintClaimsFromAllowlists(a, a, items) /\ Trigger(task)
      /\ batch' = [batch EXCEPT ![a] = <<>>]
      /\ claimIds' = [claimIds EXCEPT ![a] = {}]
      /\ trees' = trees /\ stuck' = stuck
  BY <1>0 DEF Mined, Closes, Forgets
<1>2. /\ a \in Accounts /\ TypeOK
      /\ claimIds \in [Accounts -> SUBSET TypeIDs]
      /\ batch \in [Accounts -> Seq(Claim)]
  BY CacheAssumption DEF CacheInv, CacheTypeOK
<1>3. items \in Seq(ItemSet)
  BY <1>0, <1>2 DEF Claim, ItemSet
<1>4. /\ task \in TaskSet
      /\ \A t \in task.claims : \E i \in DOMAIN items : items[i].typeID = t
  BY <1>2, <1>3, ClaimedTask
<1>5. /\ merkleRoots' = merkleRoots
      /\ \A i \in DOMAIN items :
           <<a, items[i].units>> \in hasBeenClaimed'[items[i].typeID]
  BY <1>1, <1>2, <1>3, ClaimGrows
<1>6. ASSUME NEW t \in task.claims
      PROVE  /\ HasAllowlist(t)'
             /\ LeavesOf(a, t)' \subseteq hasBeenClaimed'[t]
  <2>1. PICK i \in DOMAIN items : items[i].typeID = t
    BY <1>4
  <2>2. /\ <<a, items[i].units>> \in merkleRoots[t]
        /\ \A leaf \in LeavesOf(a, t) :
             \E j \in DOMAIN items : items[j] = Item(t, leaf[2])
    BY <1>0, <1>2, <2>1 DEF CacheInv, BatchIsWhole
  <2>3. HasAllowlist(t)'
    BY <1>5, <2>2 DEF HasAllowlist, NoRoot
  <2>4. t \in TypeIDs
    BY <1>4 DEF TaskSet
  <2>5. ASSUME NEW leaf \in LeavesOf(a, t)
        PROVE  leaf \in hasBeenClaimed'[t]
    <3>1. PICK j \in DOMAIN items : items[j] = Item(t, leaf[2])
      BY <2>2
    <3>2. leaf = <<a, leaf[2]>>
      <4>1. leaf \in Leaves
        BY <1>2, <2>4 DEF LeavesOf, TypeOK
      <4> QED BY <4>1 DEF Leaves, LeavesOf
    <3>3. items[j].typeID = t /\ items[j].units = leaf[2]
      BY <3>1 DEF Item
    <3> QED BY <1>5, <3>2, <3>3
  <2>6. LeavesOf(a, t)' = LeavesOf(a, t)
    BY <1>5 DEF LeavesOf
  <2> QED BY <2>3, <2>5, <2>6
<1>7. task.from = a
  BY DEF Claimed
<1> HIDE DEF task
<1>8. TaskIsDone(task)'
  BY <1>6, <1>7 DEF TaskIsDone
<1>9. /\ claimIds' \in [Accounts -> SUBSET TypeIDs]
      /\ batch' \in [Accounts -> Seq(Claim)]
      /\ \A b \in Accounts : batch'[b] = batch[b] \/ batch'[b] = <<>>
  BY <1>1, <1>2
<1> QED BY <1>1, <1>2, <1>3, <1>4, <1>8, <1>9, ClaimStep

-----------------------------------------------------------------------------
(* The autotasks                                                           *)

\* A row that a task deletes is one whose leaf has been claimed.
LEMMA RunStep ==
  ASSUME CacheInv, NEW task \in BagToSet(tasks), RunTask(task)
  PROVE  CacheInv'
<1>1. /\ CacheTypeOK /\ TreesMatch /\ BatchIsWhole /\ TasksAreDone /\ NothingLost
      /\ IsABag(tasks) /\ task \in TaskSet
  BY DEF CacheInv, CacheTypeOK
<1>2. /\ UNCHANGED <<vars, trees, pageVars, failures>>
      /\ Ends(task)
  BY DEF RunTask
<1>3. /\ IsABag(tasks') /\ BagToSet(tasks') \subseteq BagToSet(tasks)
      /\ \A other \in BagToSet(tasks) : other # task => other \in BagToSet(tasks')
  BY <1>1, <1>2, TaskRemoved
<1>4. /\ merkleRoots' = merkleRoots /\ hasBeenClaimed' = hasBeenClaimed
      /\ trees' = trees /\ batch' = batch /\ failures' = failures
  BY <1>2 DEF vars, allowlistVars, pageVars
<1>5. \/ task.on = "AllowlistCreated" /\ rows' = onAllowlistCreated(task)
      \/ task.on = "batchMintClaimsFromAllowlists" /\ rows' = batchMintClaims(task)
      \/ task.on = "mintClaimFromAllowlist" /\ rows' = rows
  BY DEF RunTask
<1>6. rows' \subseteq UNION {{t} \X DOMAIN trees[t] : t \in TypeIDs}
  BY <1>1, <1>5 DEF CacheTypeOK, onAllowlistCreated, batchMintClaims, TaskSet
<1>7. CacheTypeOK'
  <2>1. TypeOK'
    BY <1>1, <1>2 DEF CacheTypeOK, TypeOK, vars, typeVars, tokenVars,
                      allowlistVars, adminVars
  <2> QED BY <1>1, <1>2, <1>3, <1>4, <1>6, <2>1 DEF CacheTypeOK, pageVars
<1>8. Grows
  BY <1>4 DEF Grows
<1>9. TreesMatch' /\ BatchIsWhole'
  BY <1>1, <1>4, <1>8, WholeStays DEF TreesMatch
<1>10. TasksAreDone'
  <2> SUFFICES ASSUME NEW other \in BagToSet(tasks') PROVE TaskIsDone(other)'
    BY DEF TasksAreDone
  <2>1. other \in TaskSet /\ TaskIsDone(other)
    BY <1>1, <1>3 DEF TasksAreDone, CacheTypeOK
  <2> QED BY <1>8, <2>1, DoneStays
<1>11. ASSUME failures = 0, NEW t \in TypeIDs, NEW leaf \in PageLeaves(t)
       PROVE  Listing(t) \in BagToSet(tasks') \/ Shown(t, leaf)' \/ leaf \in hasBeenClaimed[t]
  <2>1. leaf \in merkleRoots[t] /\ leaf[1] \in PageOnly
    BY DEF PageLeaves, PageOnly
  <2>2. CASE Listing(t) = task
    <3>1. task.on = "AllowlistCreated" /\ task.claims = {t}
      BY <2>2 DEF Listing
    <3>2. rows' = onAllowlistCreated(task)
      BY <1>5, <3>1
    <3>3. PICK i \in DOMAIN trees[t] : leaf = <<trees[t][i].account, trees[t][i].units>>
      BY <1>1, <2>1 DEF TreesMatch
    <3>4. <<t, i>> \in rows'
      BY <3>1, <3>2, <3>3 DEF onAllowlistCreated
    <3> QED BY <1>4, <3>3, <3>4 DEF Shown, RowOf
  <2>3. CASE Listing(t) \in BagToSet(tasks) /\ Listing(t) # task
    BY <1>3, <2>3
  <2>4. ASSUME NEW row \in rows, row[1] = t, RowOf(row, leaf[1]),
               trees[t][row[2]].units = leaf[2], row \notin rows'
        PROVE  leaf \in hasBeenClaimed[t]
    <3>1. /\ task.on = "batchMintClaimsFromAllowlists"
          /\ t \in task.claims /\ RowOf(row, task.from)
      BY <1>5, <2>4 DEF onAllowlistCreated, batchMintClaims
    <3>2. task.from = leaf[1]
      BY <2>4, <3>1 DEF RowOf
    <3>3. LeavesOf(task.from, t) \subseteq hasBeenClaimed[t]
      BY <1>1, <2>1, <3>1, <3>2 DEF TasksAreDone, TaskIsDone
    <3> QED BY <2>1, <3>2, <3>3 DEF LeavesOf
  <2>5. CASE Shown(t, leaf)
    BY <1>4, <2>4, <2>5 DEF Shown, RowOf
  <2>6. Listing(t) \in BagToSet(tasks) \/ Shown(t, leaf) \/ leaf \in hasBeenClaimed[t]
    BY <1>1, <1>11 DEF NothingLost, BagIn
  <2> QED BY <2>2, <2>3, <2>5, <2>6
<1>12. NothingLost'
  BY <1>4, <1>11 DEF NothingLost, PageLeaves, BagIn, Listing
<1> QED BY <1>7, <1>9, <1>10, <1>12 DEF CacheInv

LEMMA FailStep ==
  ASSUME CacheInv, NEW task \in BagToSet(tasks), TaskFails(task)
  PROVE  CacheInv'
<1>1. /\ CacheTypeOK /\ TreesMatch /\ BatchIsWhole /\ TasksAreDone
      /\ IsABag(tasks) /\ failures \in Nat
  BY CacheAssumption DEF CacheInv, CacheTypeOK
<1>2. /\ UNCHANGED <<vars, trees, pageVars, rows>> /\ Ends(task)
      /\ failures < MaxFailures /\ failures' = failures + 1
  BY DEF TaskFails
<1>3. IsABag(tasks') /\ BagToSet(tasks') \subseteq BagToSet(tasks)
  BY <1>1, <1>2, TaskRemoved
<1>4. /\ merkleRoots' = merkleRoots /\ hasBeenClaimed' = hasBeenClaimed
      /\ trees' = trees /\ batch' = batch
  BY <1>2 DEF vars, allowlistVars, pageVars
<1>5. failures' \in 0..MaxFailures /\ failures' # 0
  BY <1>1, <1>2, CacheAssumption
<1>6. CacheTypeOK'
  <2>1. TypeOK'
    BY <1>1, <1>2 DEF CacheTypeOK, TypeOK, vars, typeVars, tokenVars,
                      allowlistVars, adminVars
  <2> QED BY <1>1, <1>2, <1>3, <1>4, <1>5, <2>1 DEF CacheTypeOK, pageVars
<1>7. Grows
  BY <1>4 DEF Grows
<1>8. TreesMatch' /\ BatchIsWhole'
  BY <1>1, <1>4, <1>7, WholeStays DEF TreesMatch
<1>9. TasksAreDone'
  <2> SUFFICES ASSUME NEW other \in BagToSet(tasks') PROVE TaskIsDone(other)'
    BY DEF TasksAreDone
  <2>1. other \in TaskSet /\ TaskIsDone(other)
    BY <1>1, <1>3 DEF TasksAreDone, CacheTypeOK
  <2> QED BY <1>7, <2>1, DoneStays
<1>10. NothingLost'
  BY <1>5 DEF NothingLost
<1> QED BY <1>6, <1>8, <1>9, <1>10 DEF CacheInv

-----------------------------------------------------------------------------
(* The page                                                                *)

\* What the page does by itself changes neither the contract nor the cache.
LEMMA PageStays ==
  ASSUME CacheInv, UNCHANGED <<vars, trees, rows, tasks, failures>>,
         claimIds' \in [Accounts -> SUBSET TypeIDs],
         batch' \in [Accounts -> Seq(Claim)],
         stuck' \subseteq Accounts, BatchIsWhole'
  PROVE  CacheInv'
<1>1. /\ CacheTypeOK /\ TreesMatch /\ TasksAreDone /\ NothingLost
  BY DEF CacheInv
<1>2. /\ merkleRoots' = merkleRoots /\ hasBeenClaimed' = hasBeenClaimed
      /\ trees' = trees /\ rows' = rows /\ tasks' = tasks /\ failures' = failures
  BY DEF vars, allowlistVars
<1>3. CacheTypeOK'
  <2>1. TypeOK'
    BY <1>1 DEF CacheTypeOK, TypeOK, vars, typeVars, tokenVars, allowlistVars, adminVars
  <2> QED BY <1>1, <1>2, <2>1 DEF CacheTypeOK
<1>4. Grows
  BY <1>2 DEF Grows
<1>5. TreesMatch'
  BY <1>1, <1>2 DEF TreesMatch
<1>6. TasksAreDone'
  <2> SUFFICES ASSUME NEW task \in BagToSet(tasks) PROVE TaskIsDone(task)'
    BY <1>2 DEF TasksAreDone
  <2>1. task \in TaskSet /\ TaskIsDone(task)
    BY <1>1 DEF TasksAreDone, CacheTypeOK
  <2> QED BY <1>4, <2>1, DoneStays
<1>7. NothingLost'
  BY <1>1, <1>2, LostStays
<1> QED BY <1>3, <1>5, <1>6, <1>7 DEF CacheInv

\* The page lists each claim of the account that a tree of a fetched type names.
LEMMA UniqueType ==
  ASSUME CacheTypeOK, NEW a \in Accounts
  PROVE  /\ IsFiniteSet(unique(a))
         /\ \A p \in unique(a) :
              /\ p.typeID \in claimIds[a] /\ p.typeID \in TypeIDs
              /\ \E i \in DOMAIN trees[p.typeID] :
                   /\ trees[p.typeID][i].account = a
                   /\ trees[p.typeID][i].units = p.units
         /\ \A t \in claimIds[a] : \A i \in DOMAIN trees[t] :
              trees[t][i].account = a =>
                \E p \in unique(a) : p.typeID = t /\ p.units = trees[t][i].units
<1>1. claimIds[a] \subseteq TypeIDs /\ IsFiniteSet(TypeIDs)
  BY MinterAssumption, FS_Interval DEF CacheTypeOK, TypeIDs
<1>2. ASSUME NEW t \in claimIds[a]
      PROVE  IsFiniteSet(verifyFractionClaim(t, a))
  <2> DEFINE D == {i \in DOMAIN trees[t] : trees[t][i].account = a}
             f == [i \in D |-> [typeID |-> t, units |-> trees[t][i].units,
                                proof |-> trees[t][i].proof]]
  <2>1. trees[t] \in Seq(Entries)
    BY <1>1, <1>2 DEF CacheTypeOK
  <2>2. DOMAIN trees[t] = 1..Len(trees[t]) /\ Len(trees[t]) \in Nat
    BY <2>1, LenProperties
  <2>3. IsFiniteSet(DOMAIN trees[t])
    BY <2>2, FS_Interval
  <2>4. IsFiniteSet(D)
    BY <2>3, FS_Subset
  <2>5. verifyFractionClaim(t, a) = {f[i] : i \in D}
    BY DEF verifyFractionClaim, ToSet
  <2> HIDE DEF f, D
  <2> QED BY <2>4, <2>5, ImageFinite
<1>3. IsFiniteSet(unique(a))
  <2> DEFINE g == [t \in claimIds[a] |-> verifyFractionClaim(t, a)]
             parts == {g[t] : t \in claimIds[a]}
  <2>1. IsFiniteSet(claimIds[a])
    BY <1>1, FS_Subset
  <2>2. \A part \in parts : IsFiniteSet(part)
    BY <1>2
  <2>3. unique(a) = UNION parts
    BY DEF unique
  <2> HIDE DEF g
  <2>4. IsFiniteSet(parts)
    BY <2>1, ImageFinite
  <2> HIDE DEF parts
  <2> QED BY <2>2, <2>3, <2>4, FS_UNION
<1>4. ASSUME NEW p \in unique(a)
      PROVE  /\ p.typeID \in claimIds[a]
             /\ \E i \in DOMAIN trees[p.typeID] :
                  /\ trees[p.typeID][i].account = a
                  /\ trees[p.typeID][i].units = p.units
  <2>1. PICK t \in claimIds[a] : p \in verifyFractionClaim(t, a)
    BY DEF unique
  <2>2. PICK i \in DOMAIN trees[t] :
          /\ trees[t][i].account = a
          /\ p = [typeID |-> t, units |-> trees[t][i].units, proof |-> trees[t][i].proof]
    BY <2>1 DEF verifyFractionClaim, ToSet
  <2> QED BY <2>2
<1>5. ASSUME NEW t \in claimIds[a], NEW i \in DOMAIN trees[t], trees[t][i].account = a
      PROVE  \E p \in unique(a) : p.typeID = t /\ p.units = trees[t][i].units
  <2> DEFINE p == [typeID |-> t, units |-> trees[t][i].units, proof |-> trees[t][i].proof]
  <2>1. trees[t][i] \in {e \in ToSet(trees[t]) : e.account = a}
    BY <1>5 DEF ToSet
  <2>2. p \in verifyFractionClaim(t, a)
    BY <2>1 DEF verifyFractionClaim
  <2>3. p \in unique(a)
    BY <2>2 DEF unique
  <2> QED BY <2>3
<1> QED BY <1>1, <1>3, <1>4, <1>5

LEMMA WriteStep ==
  ASSUME CacheInv, NEW a \in Visitors, Write(a)
  PROVE  CacheInv'
<1> DEFINE U == unique(a)
           proofs == SetToSeq(U)
           n == Cardinality(U)
           claims == [i \in DOMAIN proofs |-> Item(proofs[i].typeID, proofs[i].units)]
<1>1. /\ a \in Accounts /\ CacheTypeOK /\ TreesMatch /\ BatchIsWhole
  BY CacheAssumption DEF CacheInv
<1>2. /\ UNCHANGED <<vars, trees, rows, tasks, failures>>
      /\ claimIds' = claimIds /\ stuck' = stuck
      /\ batch' = [batch EXCEPT ![a] = claims]
      /\ merkleRoots' = merkleRoots
  BY DEF Write, vars, allowlistVars
<1>3. /\ IsFiniteSet(U)
      /\ \A p \in U : /\ p.typeID \in claimIds[a] /\ p.typeID \in TypeIDs
                       /\ \E i \in DOMAIN trees[p.typeID] :
                            /\ trees[p.typeID][i].account = a
                            /\ trees[p.typeID][i].units = p.units
      /\ \A t \in claimIds[a] : \A i \in DOMAIN trees[t] :
           trees[t][i].account = a =>
             \E p \in U : p.typeID = t /\ p.units = trees[t][i].units
  BY <1>1, UniqueType
<1> HIDE DEF U
<1>4. /\ n \in Nat /\ proofs \in [1..n -> U]
      /\ \A p \in U : \E i \in 1..n : proofs[i] = p
  <2>1. n \in Nat /\ proofs \in [1..n -> U] /\ proofs \in Bijection(1..n, U)
    BY <1>3, SetToSeqLists
  <2> HIDE DEF proofs, n
  <2> QED BY <2>1 DEF Bijection, Surjection
<1> HIDE DEF proofs, n
<1>5. \A i \in 1..n : proofs[i] \in U
  BY <1>4
<1>6. ASSUME NEW p \in U
      PROVE  <<a, p.units>> \in merkleRoots[p.typeID] /\ p.units \in 0..MaxUint
  <2>1. PICK i \in DOMAIN trees[p.typeID] :
          trees[p.typeID][i].account = a /\ trees[p.typeID][i].units = p.units
    BY <1>3
  <2>2. <<a, p.units>> \in merkleRoots[p.typeID]
    BY <1>1, <1>3, <2>1 DEF TreesMatch
  <2>3. merkleRoots[p.typeID] \subseteq Leaves
    BY <1>1, <1>3 DEF CacheTypeOK, TypeOK
  <2> QED BY <2>2, <2>3 DEF Leaves
<1>7. claims = [i \in 1..n |-> Item(proofs[i].typeID, proofs[i].units)]
  BY <1>4
<1>8. claims \in Seq(Claim)
  <2>1. \A i \in 1..n : Item(proofs[i].typeID, proofs[i].units) \in Claim
    BY <1>3, <1>5, <1>6 DEF Item, Claim
  <2>2. claims \in [1..n -> Claim]
    BY <1>7, <2>1
  <2> HIDE DEF claims
  <2> QED BY <1>4, <2>2, IsASeq
<1>9. ASSUME NEW i \in DOMAIN claims
      PROVE  /\ <<a, claims[i].units>> \in merkleRoots[claims[i].typeID]
             /\ \A leaf \in LeavesOf(a, claims[i].typeID) :
                  \E j \in DOMAIN claims : claims[j] = Item(claims[i].typeID, leaf[2])
  <2>1. /\ i \in 1..n /\ proofs[i] \in U
        /\ claims[i].typeID = proofs[i].typeID /\ claims[i].units = proofs[i].units
    BY <1>4, <1>5, <1>7 DEF Item
  <2> DEFINE t == proofs[i].typeID
  <2>2. ASSUME NEW leaf \in LeavesOf(a, t)
        PROVE  \E j \in DOMAIN claims : claims[j] = Item(t, leaf[2])
    <3>1. t \in TypeIDs /\ t \in claimIds[a]
      BY <1>3, <2>1
    <3>2. leaf \in merkleRoots[t] /\ leaf[1] = a
      BY DEF LeavesOf
    <3>3. PICK k \in DOMAIN trees[t] : leaf = <<trees[t][k].account, trees[t][k].units>>
      BY <1>1, <3>1, <3>2 DEF TreesMatch
    <3>4. PICK p \in U : p.typeID = t /\ p.units = trees[t][k].units
      BY <1>3, <3>1, <3>2, <3>3
    <3>5. PICK j \in 1..n : proofs[j] = p
      BY <1>4
    <3>6. j \in DOMAIN claims /\ claims[j] = Item(p.typeID, p.units)
      BY <1>7, <3>5
    <3> QED BY <3>3, <3>4, <3>6
  <2>3. <<a, proofs[i].units>> \in merkleRoots[t]
    BY <1>6, <2>1
  <2> HIDE DEF claims, t
  <2> QED BY <2>1, <2>2, <2>3 DEF t
<1> HIDE DEF claims
<1>10. /\ claimIds' \in [Accounts -> SUBSET TypeIDs] /\ stuck' \subseteq Accounts
       /\ batch' \in [Accounts -> Seq(Claim)]
       /\ batch'[a] = claims
       /\ \A b \in Accounts : b # a => batch'[b] = batch[b]
  BY <1>1, <1>2, <1>8 DEF CacheTypeOK
<1>11. BatchIsWhole'
  <2>1. ASSUME NEW b \in Accounts, NEW i \in DOMAIN batch'[b]
        PROVE  /\ <<b, batch'[b][i].units>> \in merkleRoots[batch'[b][i].typeID]
               /\ \A leaf \in LeavesOf(b, batch'[b][i].typeID) :
                    \E j \in DOMAIN batch'[b] :
                      batch'[b][j] = Item(batch'[b][i].typeID, leaf[2])
    <3>1. CASE b = a
      BY <1>9, <1>10, <2>1, <3>1
    <3>2. CASE b # a
      <4>1. batch'[b] = batch[b]
        BY <1>10, <3>2
      <4>2. /\ <<b, batch[b][i].units>> \in merkleRoots[batch[b][i].typeID]
            /\ \A leaf \in LeavesOf(b, batch[b][i].typeID) :
                 \E j \in DOMAIN batch[b] :
                   batch[b][j] = Item(batch[b][i].typeID, leaf[2])
        BY <1>1, <2>1, <4>1 DEF BatchIsWhole
      <4> QED BY <4>1, <4>2
    <3> QED BY <3>1, <3>2
  <2> QED BY <1>2, <2>1 DEF BatchIsWhole, LeavesOf
<1> QED BY <1>2, <1>10, <1>11, PageStays

LEMMA PageStep ==
  ASSUME CacheInv, NEW a \in Visitors, Page(a)
  PROVE  CacheInv'
<1>1. /\ a \in Accounts /\ CacheTypeOK /\ BatchIsWhole
      /\ rows \subseteq UNION {{t} \X DOMAIN trees[t] : t \in TypeIDs}
      /\ claimIds \in [Accounts -> SUBSET TypeIDs]
      /\ batch \in [Accounts -> Seq(Claim)] /\ stuck \subseteq Accounts
  BY CacheAssumption DEF CacheInv, CacheTypeOK
<1>2. ASSUME UNCHANGED vars, \A b \in Accounts : batch'[b] = batch[b] \/ batch'[b] = <<>>
      PROVE  BatchIsWhole'
  <2>1. Grows
    BY <1>2 DEF vars, allowlistVars, Grows
  <2> QED BY <1>1, <1>2, <2>1, WholeStays
<1>3. CASE Refetch(a)
  <2>1. {row[1] : row \in {r \in rows : RowOf(r, a)}} \subseteq TypeIDs
    BY <1>1
  <2>2. /\ UNCHANGED <<vars, trees, rows, tasks, batch, stuck, failures>>
        /\ claimIds' \in [Accounts -> SUBSET TypeIDs]
    BY <1>1, <1>3, <2>1 DEF Refetch
  <2>3. BatchIsWhole'
    BY <1>2, <2>2
  <2> QED BY <1>1, <2>2, <2>3, PageStays
<1>4. CASE NotMined(a)
  <2>1. /\ UNCHANGED <<vars, trees, rows, tasks, claimIds, failures>>
        /\ batch' = [batch EXCEPT ![a] = <<>>] /\ stuck' = stuck \cup {a}
    BY <1>4 DEF NotMined, Closes
  <2>2. /\ batch' \in [Accounts -> Seq(Claim)]
        /\ \A b \in Accounts : batch'[b] = batch[b] \/ batch'[b] = <<>>
        /\ stuck' \subseteq Accounts
    BY <1>1, <2>1
  <2>3. BatchIsWhole'
    BY <1>2, <2>1, <2>2
  <2> QED BY <1>1, <2>1, <2>2, <2>3, PageStays
<1>5. CASE Reload(a)
  <2>1. /\ UNCHANGED <<vars, trees, rows, tasks, batch, failures>>
        /\ claimIds' = [claimIds EXCEPT ![a] = {}] /\ stuck' = stuck \ {a}
    BY <1>5 DEF Reload, Forgets
  <2>2. claimIds' \in [Accounts -> SUBSET TypeIDs] /\ stuck' \subseteq Accounts
    BY <1>1, <2>1
  <2>3. BatchIsWhole'
    BY <1>2, <2>1
  <2> QED BY <1>1, <2>1, <2>2, <2>3, PageStays
<1> QED BY <1>3, <1>4, <1>5, WriteStep, MinedStep DEF Page

-----------------------------------------------------------------------------
(* A new allowlist                                                         *)

LEMMA TreeType ==
  ASSUME NEW table \in Table, UnitsIn(table) \in 0..MaxUint, NEW apart \in BOOLEAN
  PROVE  /\ ToSet(table) \in SUBSET Leaves
         /\ Tree(table, apart) \in Seq(Entries)
         /\ ToSet(table) = {<<Tree(table, apart)[i].account, Tree(table, apart)[i].units>> :
                              i \in DOMAIN Tree(table, apart)}
<1> DEFINE tree == Tree(table, apart)
           proof(i) == IF apart THEN {i} ELSE {j \in DOMAIN table : table[j] = table[i]}
<1>1. DOMAIN table = 1..Len(table) /\ Len(table) \in Nat
  BY LenProperties DEF Table
<1>2. \A i \in DOMAIN table : /\ table[i][1] \in Accounts
                              /\ table[i][2] \in 0..MaxUint
                              /\ table[i] = <<table[i][1], table[i][2]>>
  <2> TAKE i \in DOMAIN table
  <2>1. table[i] \in Accounts \X Nat
    BY <1>1, ElementOfSeq DEF Table
  <2>2. table[i][2] <= UnitsIn(table)
    BY UnitsInType
  <2>3. table[i][2] \in Nat /\ UnitsIn(table) \in Nat /\ UnitsIn(table) <= MaxUint
    BY <2>1, MinterAssumption
  <2>4. table[i][2] \in 0..MaxUint
    BY <2>2, <2>3, MinterAssumption
  <2> QED BY <2>1, <2>4
<1>3. \A i \in DOMAIN table : proof(i) \in SUBSET Nat
  BY <1>1
<1>4. tree = [i \in DOMAIN table |-> Entry(table[i][1], table[i][2], proof(i))]
  BY DEF Tree
<1> HIDE DEF proof
<1>5. \A i \in DOMAIN table : Entry(table[i][1], table[i][2], proof(i)) \in Entries
  BY <1>2, <1>3 DEF Entry, Entries
<1>6. tree \in [1..Len(table) -> Entries]
  BY <1>1, <1>4, <1>5
<1>7. /\ DOMAIN tree = DOMAIN table
      /\ \A i \in DOMAIN table : <<tree[i].account, tree[i].units>> = table[i]
  BY <1>2, <1>4 DEF Entry
<1> HIDE DEF tree
<1>8. tree \in Seq(Entries)
  BY <1>1, <1>6, IsASeq
<1>9. ToSet(table) = {<<tree[i].account, tree[i].units>> : i \in DOMAIN tree}
  BY <1>7 DEF ToSet
<1>10. ToSet(table) \in SUBSET Leaves
  BY <1>2 DEF ToSet, Leaves
<1> QED BY <1>8, <1>9, <1>10 DEF tree

LEMMA RegisterStep ==
  ASSUME CacheInv, RegisterAllowlist
  PROVE  CacheInv'
<1>0. PICK new : new = NewType
  OBVIOUS
<1> DEFINE task == Listing(new)
<1>1. PICK s \in Organisers, csv \in CSVs, share \in Shares, deduplicate \in BOOLEAN,
           apart \in BOOLEAN, r \in Policies :
        LET table == parseAllowlistCsv(csv, deduplicate, s, share)
        IN  /\ UnitsIn(csv) > 0
            /\ apart => /\ Len(table) > 2
                        /\ ~IsInjective(table)
            /\ UnitsIn(table) \in 0..MaxUint
            /\ CreateAllowlist(s, UnitsIn(table), ToSet(table), r)
            /\ trees' = [trees EXCEPT ![NewType] = Tree(table, apart)]
  BY DEF RegisterAllowlist
<1>2. Trigger(task) /\ UNCHANGED pageVars
  BY <1>0 DEF RegisterAllowlist
<1>3. PICK table \in Table :
        /\ UnitsIn(table) \in 0..MaxUint
        /\ CreateAllowlist(s, UnitsIn(table), ToSet(table), r)
        /\ trees' = [trees EXCEPT ![new] = Tree(table, apart)]
  BY <1>0, <1>1, TableType
<1>4. /\ CacheTypeOK /\ TreesMatch /\ BatchIsWhole /\ TasksAreDone /\ NothingLost
      /\ TypeOK /\ trees \in [TypeIDs -> Seq(Entries)] /\ IsABag(tasks)
  BY DEF CacheInv, CacheTypeOK
<1> DEFINE tree == Tree(table, apart)
<1>5. /\ ToSet(table) \in SUBSET Leaves /\ tree \in Seq(Entries)
      /\ ToSet(table) = {<<tree[i].account, tree[i].units>> : i \in DOMAIN tree}
  BY <1>3, TreeType
<1> HIDE DEF tree
<1>6. TypeOK'
  <2>1. s \in Accounts \cup {NoAccount} /\ r \in TransferRestrictions
    BY CacheAssumption, MinterAssumption
  <2> QED BY <1>3, <1>4, <1>5, <2>1, CreateAllowlistType
<1>7. /\ new \in TypeIDs /\ merkleRoots[new] = NoRoot
      /\ merkleRoots' = [merkleRoots EXCEPT ![new] = ToSet(table)]
      /\ hasBeenClaimed' = hasBeenClaimed
  BY <1>0, <1>3 DEF CreateAllowlist, CreateType
<1>8. /\ trees' = [trees EXCEPT ![new] = tree]
      /\ trees' \in [TypeIDs -> Seq(Entries)]
      /\ \A t \in TypeIDs : t # new => /\ trees'[t] = trees[t]
                                       /\ merkleRoots'[t] = merkleRoots[t]
      /\ trees'[new] = tree /\ merkleRoots'[new] = ToSet(table)
  BY <1>3, <1>4, <1>5, <1>7 DEF TypeOK, tree
<1>9. DOMAIN trees[new] = {}
  <2>1. {<<trees[new][i].account, trees[new][i].units>> : i \in DOMAIN trees[new]} = {}
    BY <1>4, <1>7, Zenon DEF TreesMatch, NoRoot
  <2> QED BY <2>1
<1>10. /\ IsABag(tasks') /\ BagToSet(tasks') = BagToSet(tasks) \cup {task}
       /\ rows' = rows /\ failures' = failures
  BY <1>2, <1>4, TaskAdded
<1>11. task \in TaskSet /\ TaskIsDone(task)'
  BY <1>7, MinterAssumption DEF Listing, TaskSet, TaskIsDone
<1>12. rows \subseteq UNION {{t} \X DOMAIN trees'[t] : t \in TypeIDs}
  <2> SUFFICES ASSUME NEW row \in rows
               PROVE  \E t \in TypeIDs : row \in {t} \X DOMAIN trees'[t]
    OBVIOUS
  <2>1. PICK t \in TypeIDs : row \in {t} \X DOMAIN trees[t]
    BY <1>4 DEF CacheTypeOK
  <2>2. t # new
    BY <1>9, <2>1
  <2> QED BY <1>8, <2>1, <2>2
<1>13. CacheTypeOK'
  BY <1>2, <1>4, <1>6, <1>8, <1>10, <1>11, <1>12 DEF CacheTypeOK, pageVars
<1>14. Grows
  BY <1>7, <1>8 DEF Grows, HasAllowlist
<1>15. TreesMatch'
  <2>1. \A t \in TypeIDs : t # new =>
          merkleRoots'[t] = {<<trees'[t][i].account, trees'[t][i].units>> :
                              i \in DOMAIN trees'[t]}
    <3> TAKE t \in TypeIDs
    <3>1. merkleRoots[t] = {<<trees[t][i].account, trees[t][i].units>> :
                             i \in DOMAIN trees[t]}
      BY <1>4 DEF TreesMatch
    <3>2. t # new => merkleRoots'[t] = merkleRoots[t] /\ trees'[t] = trees[t]
      BY <1>8
    <3> QED BY <3>1, <3>2
  <2>2. merkleRoots'[new] = {<<trees'[new][i].account, trees'[new][i].units>> :
                              i \in DOMAIN trees'[new]}
    BY <1>5, <1>8
  <2> QED BY <2>1, <2>2, Zenon DEF TreesMatch
<1>16. BatchIsWhole'
  BY <1>2, <1>4, <1>14, WholeStays DEF pageVars
<1>17. TasksAreDone'
  <2> SUFFICES ASSUME NEW other \in BagToSet(tasks') PROVE TaskIsDone(other)'
    BY DEF TasksAreDone
  <2>1. CASE other = task
    BY <1>11, <2>1
  <2>2. CASE other \in BagToSet(tasks)
    <3>1. other \in TaskSet /\ TaskIsDone(other)
      BY <1>4, <2>2 DEF TasksAreDone, CacheTypeOK
    <3> QED BY <1>14, <3>1, DoneStays
  <2> QED BY <1>10, <2>1, <2>2
<1>18. ASSUME failures = 0, NEW t \in TypeIDs, NEW leaf \in PageLeaves(t)'
       PROVE  \/ Listing(t) \in BagToSet(tasks')
              \/ Shown(t, leaf)'
              \/ leaf \in hasBeenClaimed'[t]
  <2>1. CASE t = new
    BY <1>10, <2>1
  <2>2. CASE t # new
    <3>1. leaf \in PageLeaves(t)
      BY <1>8, <2>2 DEF PageLeaves
    <3>2. Listing(t) \in BagToSet(tasks) \/ Shown(t, leaf) \/ leaf \in hasBeenClaimed[t]
      BY <1>4, <1>18, <3>1 DEF NothingLost, BagIn
    <3>3. Shown(t, leaf) => Shown(t, leaf)'
      BY <1>8, <1>10, <2>2 DEF Shown, RowOf
    <3> QED BY <1>7, <1>10, <3>2, <3>3
  <2> QED BY <2>1, <2>2
<1>19. NothingLost'
  BY <1>10, <1>18 DEF NothingLost, BagIn, Listing
<1> QED BY <1>13, <1>15, <1>16, <1>17, <1>19 DEF CacheInv

-----------------------------------------------------------------------------
LEMMA CacheStep ==
  ASSUME CacheInv, CacheNext
  PROVE  CacheInv'
<1>1. ASSUME NEW task \in BagToSet(tasks), RunTask(task) \/ TaskFails(task)
      PROVE  CacheInv'
  BY <1>1, RunStep, FailStep
<1> QED BY <1>1, RegisterStep, SingleStep, BatchStep, PageStep DEF CacheNext, Tasks

\* Nobody is asked to delete an unclaimed leaf's row: what is in flight from a
\* page is a whole list's worth, and the tasks under way follow such batches.
THEOREM CacheInvariant == CacheSpec => []CacheInv
<1>1. CacheInit => CacheInv
  <2> SUFFICES ASSUME CacheInit PROVE CacheInv
    OBVIOUS
  <2>1. TypeOK
    BY InitType DEF CacheInit
  <2>2. /\ IsABag(tasks) /\ BagToSet(tasks) = {}
    BY DEF CacheInit, EmptyBag, SetToBag, IsABag, BagToSet
  <2>3. CacheTypeOK
    BY <2>1, <2>2, CacheAssumption DEF CacheInit, CacheTypeOK
  <2>4. \A t \in TypeIDs : merkleRoots[t] = {}
    BY DEF CacheInit, Init, InitialStorage, NoRoot
  <2>5. TreesMatch
    BY <2>4 DEF CacheInit, TreesMatch
  <2>6. BatchIsWhole
    BY DEF CacheInit, BatchIsWhole
  <2>7. TasksAreDone
    BY <2>2 DEF TasksAreDone
  <2>8. NothingLost
    BY <2>4 DEF NothingLost, PageLeaves
  <2> QED BY <2>3, <2>5, <2>6, <2>7, <2>8 DEF CacheInv
<1>2. CacheInv /\ [CacheNext]_cacheVars => CacheInv'
  <2> SUFFICES ASSUME CacheInv, [CacheNext]_cacheVars PROVE CacheInv'
    OBVIOUS
  <2>1. CASE CacheNext
    BY <2>1, CacheStep
  <2>2. CASE UNCHANGED cacheVars
    <3>1. /\ UNCHANGED <<vars, trees, rows, tasks, failures>>
          /\ claimIds' = claimIds /\ batch' = batch /\ stuck' = stuck
      BY <2>2 DEF cacheVars, pageVars
    <3>2. /\ CacheTypeOK /\ BatchIsWhole
          /\ claimIds \in [Accounts -> SUBSET TypeIDs]
          /\ batch \in [Accounts -> Seq(Claim)] /\ stuck \subseteq Accounts
      BY DEF CacheInv, CacheTypeOK
    <3>3. Grows
      BY <3>1 DEF vars, allowlistVars, Grows
    <3>4. BatchIsWhole'
      BY <3>1, <3>2, <3>3, WholeStays
    <3> QED BY <3>1, <3>2, <3>4, PageStays
  <2> QED BY <2>1, <2>2
<1> QED BY <1>1, <1>2, PTL DEF CacheSpec

\* The state of the contract, the cache and the pages is well formed.
THEOREM CacheTypeCorrect == CacheSpec => []CacheTypeOK
BY CacheInvariant, PTL DEF CacheInv

\* Until a task throws, each leaf of an account that claims from the page alone
\* is about to be listed, listed, or claimed, in any order of tasks and claims.
THEOREM NoLeafLost == CacheSpec => []NothingLost
BY CacheInvariant, PTL DEF CacheInv
=============================================================================
