--------------------------- MODULE SubgraphProofs ---------------------------
(***************************************************************************)
(* What the subgraph shows once it has caught up, for every instance of    *)
(* Subgraph.  The argument is about the events still to be indexed: what   *)
(* the store shows, with what they will change, is what the contract holds *)
(* now.                                                                    *)
(***************************************************************************)
EXTENDS Subgraph, ReentrantProofs

\* The events of the open block: those emitted and, after them, those that calls in
\* a callback have still to emit.
OpenEvents == block.events \o unemitted

\* The blocks still to be indexed, the open one last, as it would be sealed now if
\* the callbacks under way returned.
Chain == Append(feed, [txs |-> block.txs, events |-> OpenEvents, owners |-> owners])

\* The places of the events in a sequence of blocks, and in these.
PlacesIn(chain) == UNION {{k} \X DOMAIN chain[k].events : k \in DOMAIN chain}
EventAt(chain, p) == chain[p[1]].events[p[2]]
Places == PlacesIn(Chain)
At(p) == EventAt(Chain, p)
Before(p, q) == p[1] < q[1] \/ (p[1] = q[1] /\ p[2] < q[2])

Credits(e, id) == e.event = "ValueTransfer" /\ e.to = id
Debits(e, id) == e.event = "ValueTransfer" /\ e.from = id
Touches(e, id) == Credits(e, id) \/ Debits(e, id)
MintCredits(e, id) == Credits(e, id) /\ e.from = NoToken
Reassigns(e, id) == e.event = "TransferSingle" /\ e.id = id

Ends == TokenIDs \cup {NoToken}
ClaimStoredEvents ==
  [event : {"ClaimStored"}, claim : TypeIDs, units : 0..MaxUint]
AllowlistCreatedEvents ==
  [event : {"AllowlistCreated"}, claim : TypeIDs, root : SUBSET Leaves]
TransferSingleEvents ==
  [event : {"TransferSingle"}, to : Accounts \cup {NoAccount}, id : TokenIDs]
TransferBatchEvents ==
  [event : {"TransferBatch"}, to : Accounts \cup {NoAccount}, ids : Seq(TokenIDs)]
ValueTransferEvents ==
  {e \in [event : {"ValueTransfer"}, claim : TypeIDs, from : Ends, to : Ends,
          value : 0..MaxUint] :
     \A id \in {e.from, e.to} \ {NoToken} : getBaseType(id) = e.claim}
Events ==
  ClaimStoredEvents \cup AllowlistCreatedEvents \cup TransferSingleEvents
    \cup TransferBatchEvents \cup ValueTransferEvents

\* Calls in a callback have not emitted any single transfer of a token that is still
\* to come: those say who a token goes to before its receiver is called.
NoSingles(es) == \A i \in DOMAIN es : es[i].event # "TransferSingle"

\* Every call in a callback has something left to emit, and every mint of a new type
\* that waits is such a call.
WaitingOK ==
  /\ waiting \in Seq([call : Nat, left : Nat])
  /\ waiting = <<>> => unemitted = <<>>
  /\ waiting # <<>> => block.txs > 0 /\ waiting[1].left = 0
  /\ \A i \in DOMAIN waiting :
       waiting[i].left < IF i = Len(waiting) THEN Len(unemitted) ELSE waiting[i + 1].left
  /\ \A k \in DOMAIN calls : \E i \in DOMAIN waiting : waiting[i].call = k

\* Blocks are made of transactions, and each of these emits something.
BlockSet ==
  [txs : Nat, events : Seq(Events), owners : [TokenIDs -> Accounts \cup {NoAccount}]]
ChainOK ==
  /\ feed \in Seq(BlockSet)
  /\ block \in [txs : Nat, events : Seq(Events)]
  /\ block.txs = 0 <=> block.events = <<>>
  /\ \A k \in DOMAIN feed : feed[k].txs > 0 /\ feed[k].events # <<>>
  /\ unemitted \in Seq(Events) /\ NoSingles(unemitted)
  /\ WaitingOK

\* A created type has its claim, or the event that will store it is on its way;
\* and what moves or holds units is of a created type.
Stored(t) ==
  \/ claims[t] # NoEntity
  \/ \E p \in Places : At(p).event = "ClaimStored" /\ At(p).claim = t
ClaimsComing == \A t \in TypeIDs : Created(t) => Stored(t)
OnlyCreated ==
  /\ \A p \in Places : At(p).event = "ValueTransfer" => Created(At(p).claim)
  /\ \A id \in TokenIDs : Indexed(id) => /\ claimTokens[id].claim = getBaseType(id)
                                         /\ Created(getBaseType(id))

\* A token that no merge has credited early is minted before units move at it; and
\* the event of its mint, which sets its units, comes before all that moves them
\* unless it gave some in the callback of that very mint.  No token gives itself units.
Coming(id) == \E p \in Places : Credits(At(p), id)
MintedIsComing ==
  \A id \in TokenIDs : Minted(id) => Indexed(id) \/ Coming(id)
ComesFirst ==
  \A id \in TokenIDs \ credited :
    /\ Indexed(id) => Minted(id)
    /\ \A p \in Places : Touches(At(p), id) => Minted(id)
    /\ \A p \in Places : Credits(At(p), id) => ~Debits(At(p), id)
    /\ id \notin early =>
         \A p \in Places : MintCredits(At(p), id) =>
           /\ ~Indexed(id)
           /\ \A q \in Places : Touches(At(q), id) => p = q \/ Before(p, q)

\* Units are found at minted tokens, or where a merge has put them; a type that
\* is still to be created has neither.
ValuesAtMinted ==
  \A id \in TokenIDs \ credited : ~isBaseType(id) /\ tokenValues[id] # 0 => Minted(id)
CreditedAreMerged ==
  \A id \in credited :
    id \in TokenIDs /\ getBaseType(id) \in merged /\ Created(getBaseType(id))
MintedAreCreated == \A t \in TypeIDs : ~Created(t) => maxIndex[t] = 0
UnitsFound == ValuesAtMinted /\ CreditedAreMerged /\ MintedAreCreated

\* The units shown, with those on their way, are those the contract holds: but not
\* at a token whose mint will overwrite them.
ValueAt == [p \in Places |-> IF At(p).event = "ValueTransfer" THEN At(p).value ELSE 0]
Incoming(id) == Total(ValueAt, {p \in Places : Credits(At(p), id)})
Outgoing(id) == Total(ValueAt, {p \in Places : Debits(At(p), id)})
UnitsAddUp ==
  \A t \in TypeIDs \ merged : \A id \in FractionIDs(t) \ early :
    indexedUnits(id) + Incoming(id) = tokenValues[id] + Outgoing(id)

\* The owner shown is the contract's, unless a single transfer that will change
\* it is on its way; and the last of these names the contract's.
LastFor(p, id) ==
  Reassigns(At(p), id) /\ \A q \in Places : Before(p, q) => ~Reassigns(At(q), id)
OwnersFollow ==
  \A id \in TokenIDs \ (batched \cup credited) :
    /\ (Indexed(id) /\ \A p \in Places : ~Reassigns(At(p), id)) =>
         claimTokens[id].owner = owners[id]
    /\ \A p \in Places :
         /\ LastFor(p, id)
         /\ Indexed(id) \/ \E q \in Places : Before(q, p) /\ Touches(At(q), id)
         => At(p).to = owners[id]
    /\ \A p \in Places :
         /\ Touches(At(p), id)
         /\ \A q \in Places : p[1] < q[1] => ~Reassigns(At(q), id)
         => Chain[p[1]].owners[id] = owners[id]

-----------------------------------------------------------------------------
(* Sequences of blocks                                                     *)

Chains == Seq(BlockSet)

LEMMA ChainShape ==
  ASSUME NEW c \in Chains
  PROVE  /\ Len(c) \in Nat /\ DOMAIN c = 1..Len(c)
         /\ \A k \in 1..Len(c) : /\ c[k] \in BlockSet
                                 /\ c[k].events \in Seq(Events)
                                 /\ Len(c[k].events) \in Nat
                                 /\ DOMAIN c[k].events = 1..Len(c[k].events)
<1>1. Len(c) \in Nat /\ DOMAIN c = 1..Len(c)
  BY LenProperties DEF Chains
<1>2. ASSUME NEW k \in 1..Len(c)
      PROVE  c[k] \in BlockSet /\ c[k].events \in Seq(Events)
  <2>1. c[k] \in BlockSet
    BY ElementOfSeq DEF Chains
  <2> QED BY <2>1 DEF BlockSet
<1> QED BY <1>1, <1>2, LenProperties

LEMMA PlaceShape ==
  ASSUME NEW c \in Chains
  PROVE  /\ \A p \in PlacesIn(c) : /\ p = <<p[1], p[2]>>
                                   /\ p[1] \in 1..Len(c)
                                   /\ p[2] \in 1..Len(c[p[1]].events)
                                   /\ EventAt(c, p) \in Events
         /\ \A k \in 1..Len(c) : \A i \in 1..Len(c[k].events) : <<k, i>> \in PlacesIn(c)
<1>1. /\ DOMAIN c = 1..Len(c)
      /\ \A k \in 1..Len(c) : /\ c[k].events \in Seq(Events)
                              /\ DOMAIN c[k].events = 1..Len(c[k].events)
  BY ChainShape
<1>2. ASSUME NEW p \in PlacesIn(c)
      PROVE  /\ p = <<p[1], p[2]>>
             /\ p[1] \in 1..Len(c)
             /\ p[2] \in 1..Len(c[p[1]].events)
             /\ EventAt(c, p) \in Events
  <2>1. PICK k \in 1..Len(c) : p \in {k} \X DOMAIN c[k].events
    BY <1>1 DEF PlacesIn
  <2>2. p = <<p[1], p[2]>> /\ p[1] = k /\ p[2] \in 1..Len(c[k].events)
    BY <1>1, <2>1
  <2>3. c[k].events[p[2]] \in Events
    BY <1>1, <2>2, ElementOfSeq
  <2> QED BY <2>2, <2>3 DEF EventAt
<1> QED BY <1>1, <1>2 DEF PlacesIn

LEMMA PlacesFinite ==
  ASSUME NEW c \in Chains
  PROVE  IsFiniteSet(PlacesIn(c))
<1> DEFINE part == [k \in 1..Len(c) |-> {k} \X DOMAIN c[k].events]
           parts == {part[k] : k \in 1..Len(c)}
<1>1. /\ Len(c) \in Nat /\ DOMAIN c = 1..Len(c)
      /\ \A k \in 1..Len(c) : /\ Len(c[k].events) \in Nat
                              /\ DOMAIN c[k].events = 1..Len(c[k].events)
  BY ChainShape
<1>2. PlacesIn(c) = UNION parts
  BY <1>1 DEF PlacesIn
<1>3. ASSUME NEW k \in 1..Len(c)
      PROVE  IsFiniteSet(part[k])
  <2>1. IsFiniteSet({k})
    BY FS_Singleton
  <2>2. Len(c[k].events) \in Int /\ 1 \in Int
    BY <1>1
  <2>3. IsFiniteSet(1..Len(c[k].events))
    BY <2>2, FS_Interval
  <2>4. IsFiniteSet({k} \X (1..Len(c[k].events)))
    BY <2>1, <2>3, FS_Product
  <2> QED BY <1>1, <2>4
<1> HIDE DEF part
<1>4. IsFiniteSet(parts)
  <2>1. part \in Surjection(1..Len(c), parts)
    <3>1. DOMAIN part = 1..Len(c) /\ part = [k \in 1..Len(c) |-> part[k]]
      BY DEF part
    <3> QED BY <3>1 DEF Surjection
  <2>2. IsFiniteSet(1..Len(c))
    <3>1. Len(c) \in Int /\ 1 \in Int
      BY <1>1
    <3> QED BY <3>1, FS_Interval
  <2> HIDE DEF parts
  <2> QED BY <2>1, <2>2, FS_Surjection
<1>5. \A S \in parts : IsFiniteSet(S)
  BY <1>3
<1> HIDE DEF parts
<1> QED BY <1>2, <1>4, <1>5, FS_UNION

\* In the last block, after its first m events, there is room for n more: where that
\* leaves what is at place p, and the place of the i-th of these.
PlaceAfter(c, m, n, p) == IF p[1] = Len(c) /\ p[2] > m THEN <<p[1], p[2] + n>> ELSE p
NewPlace(c, m, i) == <<Len(c), m + i>>

\* d is c with the events es in its last block, after the first m events.
Inserts(c, d, m, es) ==
  LET old == c[Len(c)].events
      new == d[Len(c)].events
  IN  /\ c # <<>> /\ Len(d) = Len(c)
      /\ \A k \in 1..Len(c) : k # Len(c) => d[k] = c[k]
      /\ m \in 0..Len(old) /\ Len(new) = Len(old) + Len(es)
      /\ \A i \in 1..m : new[i] = old[i]
      /\ \A i \in 1..Len(es) : new[m + i] = es[i]
      /\ \A i \in (m + 1)..Len(old) : new[i + Len(es)] = old[i]

\* What that does to the places: f says where those of c go, and g where es is.
Shifted(c, d, m, es, f, g) ==
  /\ \A p \in PlacesIn(c) :
       f[p] \in PlacesIn(d) /\ EventAt(d, f[p]) = EventAt(c, p) /\ f[p][1] = p[1]
  /\ \A i \in DOMAIN es :
       g[i] \in PlacesIn(d) /\ EventAt(d, g[i]) = es[i] /\ g[i][1] = Len(c)
  /\ \A q \in PlacesIn(d) : \/ \E p \in PlacesIn(c) : q = f[p]
                            \/ \E i \in DOMAIN es : q = g[i]
  /\ \A p, q \in PlacesIn(c) : (Before(f[p], f[q]) <=> Before(p, q)) /\ (f[p] = f[q] => p = q)
  /\ \A i, j \in DOMAIN es : (Before(g[i], g[j]) <=> i < j) /\ (g[i] = g[j] => i = j)
  /\ \A p \in PlacesIn(c), i \in DOMAIN es :
       /\ f[p] # g[i]
       /\ Before(f[p], g[i]) <=> ~(p[1] = Len(c) /\ p[2] > m)
       /\ Before(g[i], f[p]) <=> p[1] = Len(c) /\ p[2] > m

LEMMA Inserted ==
  ASSUME NEW c \in Chains, NEW d \in Chains, NEW es \in Seq(Events), NEW m,
         Inserts(c, d, m, es)
  PROVE  \E f, g : Shifted(c, d, m, es, f, g)
<1> DEFINE n == Len(c)
           old == c[n].events
           new == d[n].events
           l == Len(es)
<1>1. /\ n \in 1..Len(c) /\ n \in Nat /\ Len(d) = n /\ n \in 1..Len(d)
      /\ Len(old) \in Nat /\ l \in Nat /\ DOMAIN es = 1..l
      /\ m \in 0..Len(old) /\ m \in Nat
      /\ Len(new) = Len(old) + l
      /\ \A k \in 1..n : k # n => d[k] = c[k]
      /\ \A i \in 1..m : new[i] = old[i]
      /\ \A i \in 1..l : new[m + i] = es[i]
      /\ \A i \in (m + 1)..Len(old) : new[i + l] = old[i]
  <2>1. n \in 1..Len(c) /\ n \in Nat
    BY ChainShape, EmptySeq DEF Chains, Inserts
  <2>2. Len(old) \in Nat /\ l \in Nat /\ DOMAIN es = 1..l
    BY <2>1, ChainShape, LenProperties
  <2>3. m \in 0..Len(old) /\ m \in Nat
    BY <2>2 DEF Inserts
  <2> QED BY <2>1, <2>2, <2>3 DEF Inserts
<1>2. ASSUME NEW p \in PlacesIn(c)
      PROVE  /\ p = <<p[1], p[2]>> /\ p[1] \in 1..n /\ p[1] \in Nat /\ p[2] \in Nat
             /\ p[2] >= 1 /\ p[2] \in 1..Len(c[p[1]].events)
             /\ p[1] = n => p[2] \in 1..Len(old)
             /\ EventAt(c, p) = c[p[1]].events[p[2]]
  <2>1. p = <<p[1], p[2]>> /\ p[1] \in 1..n /\ p[2] \in 1..Len(c[p[1]].events)
    BY PlaceShape
  <2> QED BY <1>1, <2>1 DEF EventAt
<1>3. \A p : PlaceAfter(c, m, l, p) = IF p[1] = n /\ p[2] > m THEN <<p[1], p[2] + l>> ELSE p
  BY DEF PlaceAfter
<1>4. \A i : NewPlace(c, m, i) = <<n, m + i>>
  BY DEF NewPlace
<1>5. \A i \in 1..Len(new) : <<n, i>> \in PlacesIn(d) /\ EventAt(d, <<n, i>>) = new[i]
  BY <1>1, PlaceShape DEF EventAt
<1> HIDE DEF old, new, l
<1>6. ASSUME NEW p \in PlacesIn(c)
      PROVE  /\ PlaceAfter(c, m, l, p) \in PlacesIn(d)
             /\ EventAt(d, PlaceAfter(c, m, l, p)) = EventAt(c, p)
             /\ PlaceAfter(c, m, l, p)[1] = p[1]
  <2>1. CASE p[1] = n /\ p[2] > m
    <3>1. p[2] \in (m + 1)..Len(old) /\ p[2] + l \in 1..Len(new)
      BY <1>1, <1>2, <2>1
    <3>2. PlaceAfter(c, m, l, p) = <<n, p[2] + l>> /\ EventAt(c, p) = old[p[2]]
      BY <1>2, <1>3, <2>1 DEF old
    <3> QED BY <1>1, <1>5, <2>1, <3>1, <3>2
  <2>2. CASE p[1] = n /\ ~(p[2] > m)
    <3>1. p[2] \in 1..m /\ p[2] \in 1..Len(new)
      BY <1>1, <1>2, <2>2
    <3>2. PlaceAfter(c, m, l, p) = <<n, p[2]>> /\ EventAt(c, p) = old[p[2]]
      BY <1>2, <1>3, <2>2 DEF old
    <3> QED BY <1>1, <1>5, <2>2, <3>1, <3>2
  <2>3. CASE p[1] # n
    <3>1. PlaceAfter(c, m, l, p) = p /\ d[p[1]] = c[p[1]]
      BY <1>1, <1>2, <1>3, <2>3
    <3>2. <<p[1], p[2]>> \in PlacesIn(d)
      BY <1>1, <1>2, <3>1, PlaceShape
    <3> QED BY <1>2, <3>1, <3>2 DEF EventAt
  <2> QED BY <2>1, <2>2, <2>3
<1>7. ASSUME NEW i \in DOMAIN es
      PROVE  NewPlace(c, m, i) \in PlacesIn(d) /\ EventAt(d, NewPlace(c, m, i)) = es[i]
  <2>1. i \in 1..l /\ m + i \in 1..Len(new)
    BY <1>1
  <2> QED BY <1>1, <1>4, <1>5, <2>1
<1>8. ASSUME NEW q \in PlacesIn(d)
      PROVE  \/ \E p \in PlacesIn(c) : q = PlaceAfter(c, m, l, p)
             \/ \E i \in DOMAIN es : q = NewPlace(c, m, i)
  <2>1. q = <<q[1], q[2]>> /\ q[1] \in 1..n /\ q[2] \in 1..Len(d[q[1]].events)
    BY <1>1, PlaceShape
  <2>2. CASE q[1] # n
    <3>1. d[q[1]] = c[q[1]]
      BY <1>1, <2>1, <2>2
    <3>2. q \in PlacesIn(c)
      BY <2>1, <3>1, PlaceShape
    <3> QED BY <1>3, <2>2, <3>2
  <2>3. CASE q[1] = n
    <3>1. q[2] \in 1..Len(new) /\ q[2] \in Nat
      BY <1>1, <2>1, <2>3 DEF new
    <3>2. CASE q[2] <= m
      <4>1. q[2] \in 1..Len(old)
        BY <1>1, <3>1, <3>2
      <4>2. <<n, q[2]>> \in PlacesIn(c)
        BY <1>1, <4>1, PlaceShape DEF old
      <4>3. PlaceAfter(c, m, l, <<n, q[2]>>) = <<n, q[2]>>
        BY <1>1, <1>3, <3>1, <3>2
      <4> QED BY <2>1, <2>3, <4>2, <4>3
    <3>3. CASE q[2] > m /\ q[2] <= m + l
      <4>1. q[2] - m \in 1..l /\ m + (q[2] - m) = q[2]
        BY <1>1, <3>1, <3>3
      <4>2. NewPlace(c, m, q[2] - m) = <<n, q[2]>>
        BY <1>4, <4>1
      <4> QED BY <1>1, <2>1, <2>3, <4>1, <4>2
    <3>4. CASE q[2] > m + l
      <4>1. q[2] - l \in 1..Len(old) /\ q[2] - l > m /\ (q[2] - l) + l = q[2]
        BY <1>1, <3>1, <3>4
      <4>2. <<n, q[2] - l>> \in PlacesIn(c)
        BY <1>1, <4>1, PlaceShape DEF old
      <4>3. PlaceAfter(c, m, l, <<n, q[2] - l>>) = <<n, q[2]>>
        BY <1>3, <4>1
      <4> QED BY <2>1, <2>3, <4>2, <4>3
    <3> QED BY <1>1, <3>1, <3>2, <3>3, <3>4
  <2> QED BY <2>2, <2>3
<1>9. ASSUME NEW p \in PlacesIn(c), NEW q \in PlacesIn(c)
      PROVE  LET f == PlaceAfter(c, m, l, p)
                 g == PlaceAfter(c, m, l, q)
             IN  (Before(f, g) <=> Before(p, q)) /\ (f = g => p = q)
  <2> DEFINE f == PlaceAfter(c, m, l, p)
             g == PlaceAfter(c, m, l, q)
  <2>1. /\ f[1] = p[1] /\ f[2] = IF p[1] = n /\ p[2] > m THEN p[2] + l ELSE p[2]
        /\ g[1] = q[1] /\ g[2] = IF q[1] = n /\ q[2] > m THEN q[2] + l ELSE q[2]
    BY <1>3
  <2>2. /\ p[1] \in Nat /\ p[2] \in Nat /\ q[1] \in Nat /\ q[2] \in Nat
        /\ p = <<p[1], p[2]>> /\ q = <<q[1], q[2]>>
    BY <1>2
  <2> HIDE DEF f, g
  <2>3. Before(f, g) <=> Before(p, q)
    BY <1>1, <2>1, <2>2 DEF Before
  <2>4. f = g => p[1] = q[1] /\ p[2] = q[2]
    BY <1>1, <2>1, <2>2
  <2> QED BY <2>2, <2>3, <2>4 DEF f, g
<1>10. ASSUME NEW i \in DOMAIN es, NEW j \in DOMAIN es
       PROVE  /\ Before(NewPlace(c, m, i), NewPlace(c, m, j)) <=> i < j
              /\ NewPlace(c, m, i) = NewPlace(c, m, j) => i = j
  <2>1. i \in Nat /\ j \in Nat
    BY <1>1
  <2> QED BY <1>1, <1>4, <2>1 DEF Before
<1>11. ASSUME NEW p \in PlacesIn(c), NEW i \in DOMAIN es
       PROVE  LET f == PlaceAfter(c, m, l, p)
              IN  /\ f # NewPlace(c, m, i)
                  /\ Before(f, NewPlace(c, m, i)) <=> ~(p[1] = n /\ p[2] > m)
                  /\ Before(NewPlace(c, m, i), f) <=> p[1] = n /\ p[2] > m
  <2> DEFINE f == PlaceAfter(c, m, l, p)
             x == NewPlace(c, m, i)
  <2>1. /\ f[1] = p[1] /\ f[2] = IF p[1] = n /\ p[2] > m THEN p[2] + l ELSE p[2]
        /\ x[1] = n /\ x[2] = m + i
    BY <1>3, <1>4
  <2>2. p[1] \in 1..n /\ p[1] \in Nat /\ p[2] \in Nat /\ i \in 1..l /\ i \in Nat
    BY <1>1, <1>2
  <2> HIDE DEF f, x
  <2>3. f[1] # x[1] \/ f[2] # x[2]
    BY <1>1, <2>1, <2>2
  <2>4. /\ Before(f, x) <=> ~(p[1] = n /\ p[2] > m)
        /\ Before(x, f) <=> p[1] = n /\ p[2] > m
    BY <1>1, <2>1, <2>2 DEF Before
  <2> QED BY <2>3, <2>4 DEF f, x
<1>12. PICK f, g : /\ f = [p \in PlacesIn(c) |-> PlaceAfter(c, m, l, p)]
                   /\ g = [i \in DOMAIN es |-> NewPlace(c, m, i)]
  OBVIOUS
<1>13. /\ \A p \in PlacesIn(c) : f[p] = PlaceAfter(c, m, l, p)
       /\ \A i \in DOMAIN es : g[i] = NewPlace(c, m, i)
  BY <1>12
<1>14. \A p \in PlacesIn(c) : f[p] \in PlacesIn(d) /\ EventAt(d, f[p]) = EventAt(c, p) /\ f[p][1] = p[1]
  BY <1>6, <1>13
<1>15. \A i \in DOMAIN es : g[i] \in PlacesIn(d) /\ EventAt(d, g[i]) = es[i] /\ g[i][1] = n
  BY <1>4, <1>7, <1>13
<1>16. \A q \in PlacesIn(d) : \/ \E p \in PlacesIn(c) : q = f[p]
                              \/ \E i \in DOMAIN es : q = g[i]
  BY <1>8, <1>13
<1>17. \A p, q \in PlacesIn(c) : (Before(f[p], f[q]) <=> Before(p, q)) /\ (f[p] = f[q] => p = q)
  BY <1>9, <1>13
<1>18. \A i, j \in DOMAIN es : (Before(g[i], g[j]) <=> i < j) /\ (g[i] = g[j] => i = j)
  BY <1>10, <1>13
<1>19. \A p \in PlacesIn(c), i \in DOMAIN es :
         /\ f[p] # g[i]
         /\ Before(f[p], g[i]) <=> ~(p[1] = n /\ p[2] > m)
         /\ Before(g[i], f[p]) <=> p[1] = n /\ p[2] > m
  BY <1>11, <1>13
<1>20. Shifted(c, d, m, es, f, g)
  BY <1>14, <1>15, <1>16, <1>17, <1>18, <1>19 DEF Shifted
<1> QED BY <1>20

\* d is c with an empty block after it.
Seals(c, d) ==
  /\ Len(d) = Len(c) + 1
  /\ \A k \in 1..Len(c) : d[k] = c[k]
  /\ d[Len(d)].events = <<>>

LEMMA Sealed ==
  ASSUME NEW c \in Chains, NEW d \in Chains, Seals(c, d)
  PROVE  /\ PlacesIn(d) = PlacesIn(c)
         /\ \A p \in PlacesIn(c) : /\ EventAt(d, p) = EventAt(c, p)
                                    /\ d[p[1]] = c[p[1]]
<1> USE DEF Seals
<1>1. /\ Len(c) \in Nat
      /\ \A k \in 1..Len(d) : k \in 1..Len(c) \/ k = Len(d)
      /\ 1..Len(c) \subseteq 1..Len(d) /\ Len(d) \in 1..Len(d)
  <2>1. Len(c) \in Nat
    BY ChainShape
  <2> QED BY <2>1
<1>2. ASSUME NEW p \in PlacesIn(c)
      PROVE  p \in PlacesIn(d) /\ d[p[1]] = c[p[1]]
  <2>1. p = <<p[1], p[2]>> /\ p[1] \in 1..Len(c) /\ p[2] \in 1..Len(c[p[1]].events)
    BY PlaceShape
  <2>2. d[p[1]] = c[p[1]] /\ p[1] \in 1..Len(d)
    BY <1>1, <2>1
  <2>3. <<p[1], p[2]>> \in PlacesIn(d)
    BY <2>1, <2>2, PlaceShape
  <2> QED BY <2>1, <2>2, <2>3
<1>3. ASSUME NEW p \in PlacesIn(d)
      PROVE  p \in PlacesIn(c)
  <2>1. p = <<p[1], p[2]>> /\ p[1] \in 1..Len(d) /\ p[2] \in 1..Len(d[p[1]].events)
    BY PlaceShape
  <2>2. p[1] # Len(d)
    BY <2>1
  <2>3. p[1] \in 1..Len(c) /\ d[p[1]] = c[p[1]]
    BY <1>1, <2>1, <2>2
  <2>4. <<p[1], p[2]>> \in PlacesIn(c)
    BY <2>1, <2>3, PlaceShape
  <2> QED BY <2>1, <2>4
<1> QED BY <1>2, <1>3 DEF EventAt

\* The place in c of what is at place p of d, when d is c without its first event.
PlaceBefore(c, p) ==
  IF Len(c[1].events) = 1 THEN <<p[1] + 1, p[2]>>
  ELSE IF p[1] = 1 THEN <<1, p[2] + 1>> ELSE p
FirstPlace == <<1, 1>>

\* d is c without its first event, or without its first block if that is all it had.
Advances(c, d) ==
  /\ c # <<>> /\ c[1].events # <<>>
  /\ IF Len(c[1].events) = 1
     THEN /\ Len(d) = Len(c) - 1
          /\ \A k \in 1..Len(d) : d[k] = c[k + 1]
     ELSE /\ Len(d) = Len(c)
          /\ \A k \in 2..Len(d) : d[k] = c[k]
          /\ d[1] = [c[1] EXCEPT !.events = Tail(@)]

LEMMA Advanced ==
  ASSUME NEW c \in Chains, NEW d \in Chains, Advances(c, d)
  PROVE  /\ FirstPlace \in PlacesIn(c)
         /\ EventAt(c, FirstPlace) = Head(c[1].events)
         /\ \A p \in PlacesIn(c) : ~Before(p, FirstPlace)
         /\ \A p \in PlacesIn(d) : /\ PlaceBefore(c, p) \in PlacesIn(c) \ {FirstPlace}
                                    /\ Before(FirstPlace, PlaceBefore(c, p))
                                    /\ EventAt(c, PlaceBefore(c, p)) = EventAt(d, p)
                                    /\ c[PlaceBefore(c, p)[1]].owners = d[p[1]].owners
         /\ \A p \in PlacesIn(c) \ {FirstPlace} :
              \E q \in PlacesIn(d) : p = PlaceBefore(c, q)
         /\ \A p, q \in PlacesIn(d) :
              /\ Before(PlaceBefore(c, p), PlaceBefore(c, q)) <=> Before(p, q)
              /\ PlaceBefore(c, p)[1] < PlaceBefore(c, q)[1] <=> p[1] < q[1]
              /\ PlaceBefore(c, p) = PlaceBefore(c, q) => p = q
<1> USE DEF Advances
<1>1. /\ Len(c) \in Nat /\ 1 \in 1..Len(c)
      /\ c[1] \in BlockSet /\ c[1].events \in Seq(Events)
      /\ Len(c[1].events) \in Nat /\ 1 \in 1..Len(c[1].events)
  <2>1. Len(c) \in Nat /\ 1 \in 1..Len(c)
    BY ChainShape, EmptySeq DEF Chains
  <2>2. c[1].events \in Seq(Events) /\ c[1] \in BlockSet
    BY <2>1, ChainShape
  <2> QED BY <2>1, <2>2, EmptySeq, LenProperties
<1>2. FirstPlace \in PlacesIn(c) /\ EventAt(c, FirstPlace) = Head(c[1].events)
  <2>1. <<1, 1>> \in PlacesIn(c)
    BY <1>1, PlaceShape
  <2> QED BY <1>1, <2>1 DEF FirstPlace, EventAt
<1>3. ASSUME NEW p \in PlacesIn(c)
      PROVE  /\ p = <<p[1], p[2]>> /\ p[1] \in Nat /\ p[2] \in Nat
             /\ p[1] >= 1 /\ p[2] >= 1 /\ p[1] \in 1..Len(c)
             /\ p[2] \in 1..Len(c[p[1]].events)
             /\ ~Before(p, FirstPlace)
             /\ p # FirstPlace => Before(FirstPlace, p)
  <2>1. p = <<p[1], p[2]>> /\ p[1] \in 1..Len(c) /\ p[2] \in 1..Len(c[p[1]].events)
    BY PlaceShape
  <2> QED BY <2>1 DEF Before, FirstPlace
<1>4. ASSUME NEW p \in PlacesIn(d)
      PROVE  /\ p = <<p[1], p[2]>> /\ p[1] \in Nat /\ p[2] \in Nat
             /\ p[1] >= 1 /\ p[2] >= 1 /\ p[1] \in 1..Len(d)
             /\ p[2] \in 1..Len(d[p[1]].events)
  <2>1. p = <<p[1], p[2]>> /\ p[1] \in 1..Len(d) /\ p[2] \in 1..Len(d[p[1]].events)
    BY PlaceShape
  <2> QED BY <2>1
<1>5. ASSUME NEW p \in PlacesIn(d), NEW q \in PlacesIn(d)
      PROVE  /\ Before(PlaceBefore(c, p), PlaceBefore(c, q)) <=> Before(p, q)
             /\ PlaceBefore(c, p)[1] < PlaceBefore(c, q)[1] <=> p[1] < q[1]
             /\ PlaceBefore(c, p) = PlaceBefore(c, q) => p = q
  <2>1. p = <<p[1], p[2]>> /\ q = <<q[1], q[2]>>
        /\ {p[1], p[2], q[1], q[2]} \subseteq Nat
        /\ p[1] >= 1 /\ q[1] >= 1
    BY <1>4
  <2> DEFINE f == PlaceBefore(c, p)
             g == PlaceBefore(c, q)
  <2>2. CASE Len(c[1].events) = 1
    <3>1. f[1] = p[1] + 1 /\ f[2] = p[2] /\ g[1] = q[1] + 1 /\ g[2] = q[2]
      BY <2>2 DEF PlaceBefore
    <3> QED BY <2>1, <3>1 DEF Before
  <2>3. CASE Len(c[1].events) # 1
    <3>1. /\ f[1] = p[1] /\ f[2] = IF p[1] = 1 THEN p[2] + 1 ELSE p[2]
          /\ g[1] = q[1] /\ g[2] = IF q[1] = 1 THEN q[2] + 1 ELSE q[2]
      BY <2>3 DEF PlaceBefore
    <3> HIDE DEF f, g
    <3>2. /\ f[1] < g[1] <=> p[1] < q[1]
          /\ Before(f, g) <=> Before(p, q)
      BY <2>1, <3>1 DEF Before
    <3>3. f = g => p[1] = q[1] /\ p[2] = q[2]
      BY <2>1, <3>1
    <3> QED BY <2>1, <3>2, <3>3 DEF f, g
  <2> QED BY <2>2, <2>3
<1>6. CASE Len(c[1].events) = 1
  <2>1. ASSUME NEW p \in PlacesIn(d)
        PROVE  /\ PlaceBefore(c, p) \in PlacesIn(c)
               /\ PlaceBefore(c, p) # FirstPlace
               /\ EventAt(c, PlaceBefore(c, p)) = EventAt(d, p)
               /\ c[PlaceBefore(c, p)[1]].owners = d[p[1]].owners
    <3>1. PlaceBefore(c, p) = <<p[1] + 1, p[2]>> /\ p[1] + 1 \in 1..Len(c)
          /\ d[p[1]] = c[p[1] + 1]
      BY <1>1, <1>4, <1>6 DEF PlaceBefore
    <3>2. <<p[1] + 1, p[2]>> \in PlacesIn(c)
      BY <1>4, <3>1, PlaceShape
    <3> QED BY <1>4, <3>1, <3>2 DEF FirstPlace, EventAt
  <2>2. ASSUME NEW p \in PlacesIn(c), p # FirstPlace
        PROVE  \E q \in PlacesIn(d) : p = PlaceBefore(c, q)
    <3>1. p[1] # 1
      <4>1. p[1] = 1 => p[2] \in 1..1
        BY <1>3, <1>6
      <4>2. p[1] = 1 => p = <<1, 1>>
        BY <1>3, <4>1
      <4> QED BY <2>2, <4>2 DEF FirstPlace
    <3>2. p[1] - 1 \in 1..Len(d) /\ d[p[1] - 1] = c[p[1]]
      BY <1>1, <1>3, <1>6, <3>1
    <3>3. <<p[1] - 1, p[2]>> \in PlacesIn(d)
      BY <1>3, <3>2, PlaceShape
    <3>4. PlaceBefore(c, <<p[1] - 1, p[2]>>) = <<p[1], p[2]>>
      BY <1>3, <1>6 DEF PlaceBefore
    <3> QED BY <1>3, <3>3, <3>4
  <2> QED BY <1>2, <1>3, <1>5, <2>1, <2>2
<1>7. CASE Len(c[1].events) # 1
  <2>1. /\ Len(d) = Len(c)
        /\ \A k \in 2..Len(d) : d[k] = c[k]
        /\ d[1].owners = c[1].owners
        /\ d[1].events = Tail(c[1].events)
    BY <1>1, <1>7 DEF BlockSet
  <2>2. /\ Len(Tail(c[1].events)) = Len(c[1].events) - 1
        /\ \A i \in 1..(Len(c[1].events) - 1) : Tail(c[1].events)[i] = c[1].events[i + 1]
    BY <1>1, HeadTailProperties, EmptySeq
  <2>3. ASSUME NEW p \in PlacesIn(d)
        PROVE  /\ PlaceBefore(c, p) \in PlacesIn(c)
               /\ PlaceBefore(c, p) # FirstPlace
               /\ EventAt(c, PlaceBefore(c, p)) = EventAt(d, p)
               /\ c[PlaceBefore(c, p)[1]].owners = d[p[1]].owners
    <3>1. CASE p[1] = 1
      <4>0. p[2] \in 1..(Len(c[1].events) - 1)
        BY <1>4, <2>1, <2>2, <3>1
      <4>1. /\ PlaceBefore(c, p) = <<1, p[2] + 1>>
            /\ p[2] + 1 \in 1..Len(c[1].events) /\ p[2] + 1 # 1
            /\ d[1].events[p[2]] = c[1].events[p[2] + 1]
        BY <1>1, <1>7, <2>1, <2>2, <3>1, <4>0 DEF PlaceBefore
      <4>2. <<1, p[2] + 1>> \in PlacesIn(c)
        BY <1>1, <4>1, PlaceShape
      <4>3. PlaceBefore(c, p) # FirstPlace
        BY <4>1 DEF FirstPlace
      <4>4. EventAt(c, PlaceBefore(c, p)) = EventAt(d, p)
        <5>1. PlaceBefore(c, p)[1] = 1 /\ PlaceBefore(c, p)[2] = p[2] + 1
          BY <4>1
        <5>2. EventAt(c, PlaceBefore(c, p)) = c[1].events[p[2] + 1]
          BY <5>1 DEF EventAt
        <5>3. EventAt(d, p) = d[1].events[p[2]]
          BY <3>1 DEF EventAt
        <5> QED BY <4>1, <5>2, <5>3
      <4> QED BY <2>1, <3>1, <4>1, <4>2, <4>3, <4>4
    <3>2. CASE p[1] # 1
      <4>1. PlaceBefore(c, p) = p /\ d[p[1]] = c[p[1]]
        BY <1>4, <1>7, <2>1, <3>2 DEF PlaceBefore
      <4>2. <<p[1], p[2]>> \in PlacesIn(c)
        BY <1>4, <2>1, <4>1, PlaceShape
      <4>3. PlaceBefore(c, p) # FirstPlace
        BY <3>2, <4>1 DEF FirstPlace
      <4>4. EventAt(c, PlaceBefore(c, p)) = EventAt(d, p)
        BY <4>1 DEF EventAt
      <4> QED BY <1>4, <4>1, <4>2, <4>3, <4>4
    <3> QED BY <3>1, <3>2
  <2>4. ASSUME NEW p \in PlacesIn(c), p # FirstPlace
        PROVE  \E q \in PlacesIn(d) : p = PlaceBefore(c, q)
    <3>1. CASE p[1] = 1
      <4>1. p[2] # 1 /\ p[2] - 1 \in 1..Len(d[1].events) /\ 1 \in 1..Len(d)
        BY <1>1, <1>3, <2>1, <2>2, <2>4, <3>1 DEF FirstPlace
      <4>2. <<1, p[2] - 1>> \in PlacesIn(d)
        BY <4>1, PlaceShape
      <4>3. PlaceBefore(c, <<1, p[2] - 1>>) = <<1, p[2]>>
        BY <1>3, <1>7 DEF PlaceBefore
      <4> QED BY <1>3, <3>1, <4>2, <4>3
    <3>2. CASE p[1] # 1
      <4>1. d[p[1]] = c[p[1]] /\ p[1] \in 1..Len(d)
        BY <1>3, <2>1, <3>2
      <4>2. <<p[1], p[2]>> \in PlacesIn(d)
        BY <1>3, <4>1, PlaceShape
      <4>3. PlaceBefore(c, p) = p
        BY <1>7, <3>2 DEF PlaceBefore
      <4> QED BY <1>3, <4>2, <4>3
    <3> QED BY <3>1, <3>2
  <2> QED BY <1>2, <1>3, <1>5, <2>3, <2>4
<1> QED BY <1>6, <1>7
-----------------------------------------------------------------------------
(* The events of each transaction                                          *)

\* What each kind of event carries.
LEMMA EventKinds ==
  ASSUME NEW e \in Events
  PROVE  /\ e.event = "ClaimStored" => e \in ClaimStoredEvents
         /\ e.event = "AllowlistCreated" => e \in AllowlistCreatedEvents
         /\ e.event = "TransferSingle" => e \in TransferSingleEvents
         /\ e.event = "TransferBatch" => e \in TransferBatchEvents
         /\ e.event = "ValueTransfer" => e \in ValueTransferEvents
         /\ e.event \in {"ClaimStored", "AllowlistCreated", "TransferSingle",
                         "TransferBatch", "ValueTransfer"}
BY DEF Events, ClaimStoredEvents, AllowlistCreatedEvents, TransferSingleEvents,
       TransferBatchEvents, ValueTransferEvents

LEMMA SingleEventTypes ==
  /\ \A t \in TypeIDs, units \in 0..MaxUint : ClaimStored(t, units) \in Events
  /\ \A t \in TypeIDs, root \in SUBSET Leaves : AllowlistCreated(t, root) \in Events
  /\ \A to \in Accounts \cup {NoAccount}, id \in TokenIDs : TransferSingle(to, id) \in Events
  /\ \A to \in Accounts \cup {NoAccount}, ids \in Seq(TokenIDs) :
       TransferBatch(to, ids) \in Events
BY DEF ClaimStored, AllowlistCreated, TransferSingle, TransferBatch, Events,
       ClaimStoredEvents, AllowlistCreatedEvents, TransferSingleEvents, TransferBatchEvents

LEMMA ValueTransferType ==
  ASSUME NEW t \in TypeIDs, NEW from \in Ends, NEW to \in Ends, NEW value \in 0..MaxUint,
         from = NoToken \/ getBaseType(from) = t,
         to = NoToken \/ getBaseType(to) = t
  PROVE  ValueTransfer(t, from, to, value) \in Events
BY DEF ValueTransfer, Events, ValueTransferEvents

LEMMA EndFacts ==
  /\ NoToken \in Ends /\ NoToken \notin TokenIDs
  /\ \A t \in TypeIDs : BaseID(t) \in TokenIDs
  /\ \A id \in TokenIDs : /\ id \in Ends /\ getBaseType(id) \in TypeIDs
                          /\ id = <<getBaseType(id), getItemIndex(id)>>
                          /\ getItemIndex(id) \in 0..MaxItems
<1>1. NoToken \notin TokenIDs
  <2>1. NoToken[1] = 0
    BY DEF NoToken
  <2>2. \A id \in TokenIDs : id[1] \in TypeIDs
    BY DEF TokenIDs
  <2>3. 0 \notin TypeIDs
    BY DEF TypeIDs
  <2> QED BY <2>1, <2>2, <2>3
<1>2. \A t \in TypeIDs : <<t, 0>> \in TokenIDs
  BY MinterAssumption DEF TokenIDs
<1>3. \A id \in TokenIDs : id[1] \in TypeIDs /\ id = <<id[1], id[2]>> /\ id[2] \in 0..MaxItems
  BY DEF TokenIDs
<1> QED BY <1>1, <1>2, <1>3 DEF Ends, BaseID, getBaseType, getItemIndex

\* A batch of new tokens: the batch, then a transfer of units to each token.
LEMMA BatchMintedShape ==
  ASSUME NEW account \in Accounts, NEW from \in Ends, NEW ids \in Seq(TokenIDs),
         NEW items \in Seq(ItemSet), Len(ids) = Len(items),
         \A i \in 1..Len(items) :
           /\ getBaseType(ids[i]) = items[i].typeID
           /\ from = NoToken \/ getBaseType(from) = items[i].typeID
  PROVE  LET es == BatchMinted(account, from, ids, items)
         IN  /\ es \in Seq(Events) /\ Len(es) = Len(items) + 1
             /\ es[1] = TransferBatch(account, ids)
             /\ \A i \in 1..Len(items) :
                  es[i + 1] = ValueTransfer(items[i].typeID, from, ids[i], items[i].units)
<1> DEFINE head == <<TransferBatch(account, ids)>>
           vts == BatchValueTransfer(from, ids, items)
<1>1. head \in Seq(Events) /\ Len(head) = 1 /\ head[1] = TransferBatch(account, ids)
  BY SingleEventTypes
<1>2. Len(items) \in Nat /\ DOMAIN items = 1..Len(items)
  BY LenProperties
<1>3. ASSUME NEW i \in 1..Len(items)
      PROVE  ValueTransfer(items[i].typeID, from, ids[i], items[i].units) \in Events
  <2>1. items[i] \in ItemSet /\ ids[i] \in TokenIDs
    BY ElementOfSeq
  <2>2. items[i].typeID \in TypeIDs /\ items[i].units \in 0..MaxUint /\ ids[i] \in Ends
    BY <2>1, EndFacts DEF ItemSet
  <2> QED BY <2>2, ValueTransferType
<1>4. vts \in [1..Len(items) -> Events]
  BY <1>2, <1>3 DEF BatchValueTransfer
<1>5. vts \in Seq(Events) /\ Len(vts) = Len(items)
  BY <1>2, <1>4, IsASeq, LenProperties
<1>6. \A i \in 1..Len(items) :
        vts[i] = ValueTransfer(items[i].typeID, from, ids[i], items[i].units)
  BY <1>2 DEF BatchValueTransfer
<1> HIDE DEF head, vts
<1>7. /\ head \o vts \in Seq(Events)
      /\ Len(head \o vts) = Len(items) + 1
      /\ \A i \in 1..(Len(items) + 1) :
           (head \o vts)[i] = IF i <= 1 THEN head[i] ELSE vts[i - 1]
  <2>0. head \in Seq(Events) /\ vts \in Seq(Events)
    BY <1>1, <1>5
  <2>1. /\ head \o vts \in Seq(Events)
        /\ Len(head \o vts) = Len(head) + Len(vts)
        /\ \A i \in 1..(Len(head) + Len(vts)) :
             (head \o vts)[i] = IF i <= Len(head) THEN head[i] ELSE vts[i - Len(head)]
    BY <2>0, ConcatProperties
  <2>2. Len(head) = 1 /\ Len(head) + Len(vts) = Len(items) + 1
    BY <1>1, <1>2, <1>5
  <2>3. \A i \in 1..(Len(items) + 1) :
          (head \o vts)[i] = IF i <= 1 THEN head[i] ELSE vts[i - 1]
    BY <2>1, <2>2
  <2> QED BY <2>1, <2>2, <2>3
<1>8. (head \o vts)[1] = TransferBatch(account, ids)
  BY <1>1, <1>2, <1>7
<1>9. ASSUME NEW i \in 1..Len(items)
      PROVE  (head \o vts)[i + 1] = ValueTransfer(items[i].typeID, from, ids[i], items[i].units)
  <2>1. i + 1 \in 1..(Len(items) + 1) /\ ~(i + 1 <= 1) /\ (i + 1) - 1 = i
    BY <1>2
  <2> QED BY <1>6, <1>7, <2>1
<1> QED BY <1>7, <1>8, <1>9 DEF BatchMinted, head, vts

\* The new tokens of a list of items.
LEMMA IDsOfItems ==
  ASSUME TypeOK, NEW items \in Seq(ItemSet), RoomFor(items)
  PROVE  /\ IDsOf(items) \in Seq(TokenIDs) /\ Len(IDsOf(items)) = Len(items)
         /\ \A i \in 1..Len(items) : /\ IDsOf(items)[i] = ItemID(items, i)
                                     /\ ItemID(items, i) \in TokenIDs
                                     /\ getBaseType(ItemID(items, i)) = items[i].typeID
                                     /\ ~isBaseType(ItemID(items, i))
                                     /\ items[i].typeID \in TypeIDs
<1>1. Len(items) \in Nat /\ DOMAIN items = 1..Len(items)
  BY LenProperties
<1>2. ASSUME NEW i \in 1..Len(items)
      PROVE  /\ ItemID(items, i) \in TokenIDs
             /\ getBaseType(ItemID(items, i)) = items[i].typeID
             /\ ~isBaseType(ItemID(items, i))
             /\ items[i].typeID \in TypeIDs
  <2>1. maxIndex[items[i].typeID] \in Nat
    BY ItemIDFresh, MinterAssumption DEF TypeOK
  <2>2. getItemIndex(ItemID(items, i)) # 0
    BY <2>1, ItemIDFresh
  <2> QED BY <2>2, ItemIDFresh DEF isBaseType
<1>3. IDsOf(items) \in [1..Len(items) -> TokenIDs]
  BY <1>1, <1>2 DEF IDsOf
<1> QED BY <1>1, <1>2, <1>3, IsASeq, LenProperties DEF IDsOf

\* Items of one type get that type's next indices.
LEMMA OneTypeIDs ==
  ASSUME NEW items \in Seq(ItemSet), NEW t, \A i \in 1..Len(items) : items[i].typeID = t,
         NEW i \in 1..Len(items)
  PROVE  ItemID(items, i) = <<t, maxIndex[t] + i>>
<1>1. Len(items) \in Nat /\ i \in Nat
  BY LenProperties
<1>2. {j \in 1..i : items[j].typeID = t} = 1..i
  BY <1>1
<1>3. CountOf(items, t, i) = i
  <2>1. i \in Int /\ 1 \in Int /\ i >= 1
    BY <1>1
  <2>2. Cardinality(1..i) = i
    BY <2>1, FS_Interval
  <2> QED BY <1>2, <2>2 DEF CountOf
<1> QED BY <1>3 DEF ItemID

-----------------------------------------------------------------------------
(* What the events es of a transaction say of its effects                  *)

CreditsIn(es, id) == {i \in DOMAIN es : Credits(es[i], id)}
DebitsIn(es, id) == {i \in DOMAIN es : Debits(es[i], id)}
ValuesOf(es) ==
  [i \in DOMAIN es |-> IF es[i].event = "ValueTransfer" THEN es[i].value ELSE 0]

\* They announce a claim for a type that is created, and move units of created types.
Announced(es) ==
  /\ es \in Seq(Events) /\ es # <<>>
  /\ \A i \in DOMAIN es : es[i].event = "ValueTransfer" => Created(es[i].claim)'
  /\ \A t \in TypeIDs :
       Created(t)' => \/ Created(t)
                      \/ \E i \in DOMAIN es : es[i].event = "ClaimStored" /\ es[i].claim = t

\* They credit each new token, once, and no other; and none is debited before it is
\* minted.
MintsListed(es) ==
  \A id \in TokenIDs :
    /\ Minted(id) => Minted(id)'
    /\ Minted(id)' /\ ~Minted(id) => CreditsIn(es, id) # {}
    /\ \A i \in CreditsIn(es, id) : ~Minted(id) /\ Minted(id)' /\ CreditsIn(es, id) = {i}
    /\ id \notin credited' =>
         \A i \in DebitsIn(es, id) : Minted(id) \/ \E j \in CreditsIn(es, id) : j < i

\* They say what changes of the units of a type that was never merged.
UnitsListed(es) ==
  \A t \in TypeIDs \ merged' : \A id \in FractionIDs(t) :
    tokenValues'[id] + Total(ValuesOf(es), DebitsIn(es, id)) =
      tokenValues[id] + Total(ValuesOf(es), CreditsIn(es, id))

\* They say who a minted token goes to, unless it is in a batch.
OwnersListed(es) ==
  \A id \in TokenIDs \ (batched' \cup credited') :
    /\ owners'[id] # owners[id] => ~Minted(id) \/ \E i \in DOMAIN es : Reassigns(es[i], id)
    /\ \A i \in DOMAIN es :
         /\ Reassigns(es[i], id) /\ \A j \in DOMAIN es : i < j => ~Reassigns(es[j], id)
         /\ Minted(id) \/ \E j \in CreditsIn(es, id) : j < i
         => es[i].to = owners'[id]

\* The events from place k + 1 of es mint the items, with units taken from the token
\* from; before them only tokens that are not minted yet are passed on.
Delivers(es, k, from, items) ==
  /\ es \in Seq(Events) /\ k \in Nat /\ k + Len(items) <= Len(es)
  /\ \A i \in 1..Len(items) :
       es[k + i] = ValueTransfer(items[i].typeID, from, ItemID(items, i), items[i].units)
  /\ \A j \in DOMAIN es : /\ es[j].event = "ValueTransfer" => j - k \in 1..Len(items)
                          /\ es[j].event = "TransferSingle" => j <= k /\ ~Minted(es[j].id)

LEMMA DeliveredPlaces ==
  ASSUME TypeOK, NEW items \in Seq(ItemSet), RoomFor(items), NEW es, NEW k, NEW from \in Ends,
         Delivers(es, k, from, items)
  PROVE  /\ \A i \in 1..Len(items) : /\ k + i \in DOMAIN es
                                     /\ CreditsIn(es, ItemID(items, i)) = {k + i}
                                     /\ ValuesOf(es)[k + i] = items[i].units
         /\ \A id \in TokenIDs \ NewIDs(items) : CreditsIn(es, id) = {}
         /\ \A id \in TokenIDs : id # from => DebitsIn(es, id) = {}
         /\ DebitsIn(es, from) = {k + i : i \in 1..Len(items)}
<1>1. /\ Len(items) \in Nat /\ DOMAIN items = 1..Len(items)
      /\ Len(es) \in Nat /\ DOMAIN es = 1..Len(es) /\ k \in Nat
  BY LenProperties DEF Delivers
<1>2. ASSUME NEW i \in 1..Len(items)
      PROVE  /\ k + i \in DOMAIN es /\ i \in Nat
             /\ es[k + i].event = "ValueTransfer" /\ es[k + i].to = ItemID(items, i)
             /\ es[k + i].from = from /\ es[k + i].value = items[i].units
  <2>1. k + i \in 1..Len(es) /\ i \in Nat
    BY <1>1 DEF Delivers
  <2>2. es[k + i] = ValueTransfer(items[i].typeID, from, ItemID(items, i), items[i].units)
    BY DEF Delivers
  <2> QED BY <1>1, <2>1, <2>2 DEF ValueTransfer
<1>3. ASSUME NEW j \in DOMAIN es, es[j].event = "ValueTransfer"
      PROVE  \E i \in 1..Len(items) : j = k + i
  <2>1. j - k \in 1..Len(items) /\ j = k + (j - k)
    BY <1>1, <1>3 DEF Delivers
  <2> QED BY <2>1
<1>4. ASSUME NEW i \in 1..Len(items)
      PROVE  CreditsIn(es, ItemID(items, i)) = {k + i}
  <2>1. k + i \in CreditsIn(es, ItemID(items, i))
    BY <1>2 DEF CreditsIn, Credits
  <2>2. ASSUME NEW j \in CreditsIn(es, ItemID(items, i))
        PROVE  j = k + i
    <3>1. j \in DOMAIN es /\ es[j].event = "ValueTransfer" /\ es[j].to = ItemID(items, i)
      BY DEF CreditsIn, Credits
    <3>2. PICK l \in 1..Len(items) : j = k + l
      BY <1>3, <3>1
    <3>3. ItemID(items, l) = ItemID(items, i)
      BY <1>2, <3>1, <3>2
    <3>4. l = i
      BY <1>1, <3>3, ItemIDInjective
    <3> QED BY <3>2, <3>4
  <2> QED BY <2>1, <2>2
<1>5. ASSUME NEW id \in TokenIDs \ NewIDs(items), NEW j \in CreditsIn(es, id)
      PROVE  FALSE
  <2>1. j \in DOMAIN es /\ es[j].event = "ValueTransfer" /\ es[j].to = id
    BY DEF CreditsIn, Credits
  <2>2. PICK l \in 1..Len(items) : j = k + l
    BY <1>3, <2>1
  <2> QED BY <1>1, <1>2, <2>1, <2>2 DEF NewIDs
<1>6. ASSUME NEW id \in TokenIDs, id # from, NEW j \in DebitsIn(es, id)
      PROVE  FALSE
  <2>1. j \in DOMAIN es /\ es[j].event = "ValueTransfer" /\ es[j].from = id
    BY DEF DebitsIn, Debits
  <2>2. PICK l \in 1..Len(items) : j = k + l
    BY <1>3, <2>1
  <2> QED BY <1>2, <1>6, <2>1, <2>2
<1>7. DebitsIn(es, from) = {k + i : i \in 1..Len(items)}
  <2>1. ASSUME NEW i \in 1..Len(items)
        PROVE  k + i \in DebitsIn(es, from)
    BY <1>2 DEF DebitsIn, Debits
  <2>2. ASSUME NEW j \in DebitsIn(es, from)
        PROVE  \E i \in 1..Len(items) : j = k + i
    BY <1>3 DEF DebitsIn, Debits
  <2> QED BY <2>1, <2>2
<1>8. \A i \in 1..Len(items) : ValuesOf(es)[k + i] = items[i].units
  BY <1>2 DEF ValuesOf
<1> QED BY <1>2, <1>4, <1>5, <1>6, <1>7, <1>8

\* The units of a list of items, added up over the events that carry them.
LEMMA CarriedUnits ==
  ASSUME NEW items \in Seq(ItemSet), NEW es, NEW k \in Nat,
         \A i \in 1..Len(items) : ValuesOf(es)[k + i] = items[i].units
  PROVE  /\ Total(ValuesOf(es), {k + i : i \in 1..Len(items)}) =
              Total(UnitsAt(items), DOMAIN items)
         /\ Total(UnitsAt(items), DOMAIN items) \in Nat
<1> DEFINE I == 1..Len(items)
           h == [i \in I |-> k + i]
           D == {k + i : i \in I}
<1>1. /\ Len(items) \in Nat /\ DOMAIN items = I /\ k \in Nat
      /\ \A i \in I : i \in Nat /\ items[i] \in ItemSet
  BY LenProperties, ElementOfSeq
<1>2. IsFiniteSet(I)
  <2>1. 1 \in Int /\ Len(items) \in Int
    BY <1>1
  <2> QED BY <2>1, FS_Interval
<1>3. Summable(UnitsAt(items), I)
  <2>1. \A i \in I : UnitsAt(items)[i] \in Nat
    BY <1>1, MinterAssumption DEF UnitsAt, ItemSet
  <2> QED BY <1>2, <2>1 DEF Summable
<1>4. h \in Bijection(I, D)
  <2>1. /\ h \in [I -> D]
        /\ \A i, j \in I : h[i] = h[j] => i = j
        /\ \A x \in D : \E i \in I : h[i] = x
    BY <1>1
  <2> HIDE DEF h, D, I
  <2> QED BY <2>1, Fun_IsBij
<1>5. \A i \in I : ValuesOf(es)[h[i]] = UnitsAt(items)[i]
  BY <1>1 DEF UnitsAt
<1>6. Summable(ValuesOf(es), D)
  <2>1. IsFiniteSet(D)
    <3> HIDE DEF h, I, D
    <3> QED BY <1>2, <1>4, FS_Surjection DEF Bijection
  <2>2. ASSUME NEW x \in D
        PROVE  ValuesOf(es)[x] \in Nat
    <3>1. PICK i \in I : x = h[i]
      OBVIOUS
    <3> QED BY <1>3, <1>5, <3>1 DEF Summable
  <2> HIDE DEF D
  <2> QED BY <2>1, <2>2 DEF Summable
<1>7. Total(UnitsAt(items), I) = Total(ValuesOf(es), D)
  <2> HIDE DEF h, I, D
  <2> QED BY <1>4, <1>5, <1>6, TotalReindex
<1> QED BY <1>1, <1>3, <1>7, TotalIsNat

LEMMA DeliveredUnits ==
  ASSUME TypeOK, NEW items \in Seq(ItemSet), RoomFor(items), NEW es, NEW k, NEW from \in Ends,
         Delivers(es, k, from, items)
  PROVE  /\ Total(ValuesOf(es), DebitsIn(es, from)) = Total(UnitsAt(items), DOMAIN items)
         /\ Total(UnitsAt(items), DOMAIN items) \in Nat
<1>1. k \in Nat
  BY DEF Delivers
<1>2. /\ DebitsIn(es, from) = {k + i : i \in 1..Len(items)}
      /\ \A i \in 1..Len(items) : ValuesOf(es)[k + i] = items[i].units
  BY DeliveredPlaces
<1> QED BY <1>1, <1>2, CarriedUnits

\* A mint's events account for it: each new token gets its item's units, from the
\* token that is split or from none.
LEMMA MintAccounted ==
  ASSUME HolderInv, HolderInv', UnitsFound, UNCHANGED <<merged, batched, credited>>,
         NEW account \in Accounts, NEW items \in Seq(ItemSet), MintTo(account, items),
         NEW from \in Ends, NEW es, NEW k, Delivers(es, k, from, items),
         \A id \in TokenIDs : ~isBaseType(id) =>
           tokenValues'[id] =
             IF id = from THEN tokenValues[id] - Total(UnitsAt(items), DOMAIN items)
             ELSE MintedValues(items)[id],
         from \in TokenIDs => ~isBaseType(from) /\ (from \in credited \/ Minted(from))
  PROVE  MintsListed(es) /\ UnitsListed(es) /\ OwnersListed(es) /\ ValuesAtMinted'
<1>1. /\ TypeOK /\ RoomFor(items) /\ es \in Seq(Events) /\ k \in Nat
      /\ Len(items) \in Nat /\ DOMAIN items = 1..Len(items)
      /\ merged' = merged /\ batched' = batched /\ credited' = credited
  BY LenProperties DEF HolderInv, MintTo, Delivers
<1>2. ASSUME NEW id \in TokenIDs
      PROVE  /\ Minted(id) => Minted(id)'
             /\ id \in NewIDs(items) => ~Minted(id) /\ Minted(id)'
             /\ Minted(id)' /\ ~Minted(id) => id \in NewIDs(items)
  <2>1. id \in NewIDs(items) => ~Minted(id) /\ Minted(id)'
    BY MintTouchesFresh
  <2>2. Minted(id)' /\ ~Minted(id) => id \in NewIDs(items)
    BY <1>1, MintSkipsNone
  <2>3. maxIndex[getBaseType(id)] <= maxIndex'[getBaseType(id)]
    BY <1>1, MintToType, EndFacts
  <2>4. maxIndex[getBaseType(id)] \in Nat /\ maxIndex'[getBaseType(id)] \in Nat
    BY EndFacts, MinterAssumption DEF HolderInv, TypeOK
  <2>5. Minted(id) => Minted(id)'
    BY <2>3, <2>4 DEF Minted
  <2> QED BY <2>1, <2>2, <2>5
<1>3. ASSUME NEW id \in NewIDs(items)
      PROVE  \E i \in 1..Len(items) :
               /\ id = ItemID(items, i) /\ k + i \in DOMAIN es /\ i \in Nat
               /\ CreditsIn(es, id) = {k + i} /\ ValuesOf(es)[k + i] = items[i].units
               /\ items[i].units \in Nat
  <2>1. PICK i \in DOMAIN items : id = ItemID(items, i)
    BY DEF NewIDs
  <2>2. items[i] \in ItemSet
    BY <1>1, ElementOfSeq
  <2>3. items[i].units \in Nat /\ i \in Nat
    BY <1>1, <2>2, MinterAssumption DEF ItemSet
  <2>4. /\ k + i \in DOMAIN es /\ CreditsIn(es, ItemID(items, i)) = {k + i}
        /\ ValuesOf(es)[k + i] = items[i].units
    BY <1>1, DeliveredPlaces
  <2> QED BY <1>1, <2>1, <2>3, <2>4
<1>4. \A id \in TokenIDs \ NewIDs(items) : CreditsIn(es, id) = {}
  BY <1>1, DeliveredPlaces
<1>5. \A id \in TokenIDs : id # from => DebitsIn(es, id) = {}
  BY <1>1, DeliveredPlaces
<1>6. MintsListed(es)
  <2>1. ASSUME NEW id \in TokenIDs, NEW i \in CreditsIn(es, id)
        PROVE  ~Minted(id) /\ Minted(id)' /\ CreditsIn(es, id) = {i}
    <3>1. id \in NewIDs(items)
      BY <1>4, <2>1
    <3>2. CreditsIn(es, id) = {i}
      BY <1>3, <2>1, <3>1
    <3> QED BY <1>2, <3>1, <3>2
  <2>2. ASSUME NEW id \in TokenIDs, Minted(id)', ~Minted(id)
        PROVE  CreditsIn(es, id) # {}
    <3>1. id \in NewIDs(items)
      BY <1>2, <2>2
    <3> QED BY <1>3, <3>1
  <2>3. ASSUME NEW id \in TokenIDs, id \notin credited', NEW i \in DebitsIn(es, id)
        PROVE  Minted(id)
    BY <1>1, <1>5, <2>3
  <2> QED BY <1>2, <2>1, <2>2, <2>3 DEF MintsListed
<1>7. ASSUME NEW id \in TokenIDs, id \notin credited, ~isBaseType(id)
      PROVE  /\ tokenValues'[id] + Total(ValuesOf(es), DebitsIn(es, id)) =
                  tokenValues[id] + Total(ValuesOf(es), CreditsIn(es, id))
             /\ tokenValues'[id] # 0 => Minted(id)'
  <2>1. tokenValues[id] \in Nat /\ tokenValues'[id] \in Nat
    BY MinterAssumption DEF HolderInv, TypeOK
  <2>2. tokenValues[id] # 0 => Minted(id)
    BY <1>7 DEF UnitsFound, ValuesAtMinted
  <2>3. CASE id \in NewIDs(items)
    <3>1. PICK i \in 1..Len(items) :
            /\ id = ItemID(items, i) /\ k + i \in DOMAIN es /\ i \in Nat
            /\ CreditsIn(es, id) = {k + i} /\ ValuesOf(es)[k + i] = items[i].units
            /\ items[i].units \in Nat
      BY <1>3, <2>3
    <3>2. ~Minted(id) /\ Minted(id)'
      BY <1>2, <2>3
    <3>3. tokenValues[id] = 0 /\ id # from
      BY <1>7, <2>2, <3>2
    <3>4. tokenValues'[id] = items[i].units
      <4>1. MintedValues(items)[ItemID(items, i)] = items[i].units
        BY <1>1, MintedValueOf
      <4> QED BY <1>7, <3>1, <3>3, <4>1
    <3>5. Total(ValuesOf(es), CreditsIn(es, id)) = items[i].units
      <4>1. ValuesOf(es)[k + i] \in Nat
        BY <3>1
      <4>2. Total(ValuesOf(es), {k + i}) = ValuesOf(es)[k + i]
        BY <4>1, TotalSingleton
      <4> QED BY <3>1, <4>2
    <3>6. Total(ValuesOf(es), DebitsIn(es, id)) = 0
      BY <1>5, <3>3, TotalEmpty
    <3> QED BY <2>1, <3>1, <3>2, <3>3, <3>4, <3>5, <3>6
  <2>4. CASE id \notin NewIDs(items)
    <3>1. Total(ValuesOf(es), CreditsIn(es, id)) = 0
      BY <1>4, <2>4, TotalEmpty
    <3>2. CASE id = from
      <4>1. Minted(id)'
        BY <1>2, <1>7, <3>2
      <4>2. /\ tokenValues'[id] = tokenValues[id] - Total(UnitsAt(items), DOMAIN items)
            /\ Total(ValuesOf(es), DebitsIn(es, id)) = Total(UnitsAt(items), DOMAIN items)
            /\ Total(UnitsAt(items), DOMAIN items) \in Nat
        BY <1>1, <1>7, <3>2, DeliveredUnits
      <4> QED BY <2>1, <3>1, <4>1, <4>2
    <3>3. CASE id # from
      <4>1. tokenValues'[id] = tokenValues[id]
        BY <1>7, <2>4, <3>3 DEF MintedValues
      <4>2. Total(ValuesOf(es), DebitsIn(es, id)) = 0
        BY <1>5, <3>3, TotalEmpty
      <4> QED BY <1>2, <2>1, <2>2, <3>1, <4>1, <4>2
    <3> QED BY <3>2, <3>3
  <2> QED BY <2>3, <2>4
<1>8. UnitsListed(es)
  <2>1. ASSUME NEW t \in TypeIDs \ merged', NEW id \in FractionIDs(t)
        PROVE  id \in TokenIDs /\ id \notin credited /\ ~isBaseType(id)
    <3>1. id \in TokenIDs /\ getBaseType(id) = t /\ ~isBaseType(id)
      BY TokenIDsFinite DEF FractionIDs, getBaseType, isBaseType, getItemIndex
    <3> QED BY <1>1, <3>1 DEF UnitsFound, CreditedAreMerged
  <2> QED BY <1>7, <2>1 DEF UnitsListed
<1>9. OwnersListed(es)
  <2>1. ASSUME NEW id \in TokenIDs, owners'[id] # owners[id]
        PROVE  ~Minted(id)
    <3>1. id \in NewIDs(items)
      BY <2>1 DEF MintTo
    <3> QED BY <1>2, <3>1
  <2>2. ASSUME NEW id \in TokenIDs, NEW i \in DOMAIN es, Reassigns(es[i], id),
               Minted(id) \/ \E j \in CreditsIn(es, id) : j < i
        PROVE  FALSE
    <3>1. i <= k /\ ~Minted(id)
      BY <2>2 DEF Reassigns, Delivers
    <3>2. PICK j \in CreditsIn(es, id) : j < i
      BY <2>2, <3>1
    <3>3. id \in NewIDs(items)
      BY <1>4, <3>2
    <3>4. PICK l \in 1..Len(items) : CreditsIn(es, id) = {k + l} /\ l \in Nat
      BY <1>3, <3>3
    <3>5. j = k + l /\ l >= 1 /\ i \in Nat
      <4>1. DOMAIN es = 1..Len(es) /\ Len(es) \in Nat
        BY <1>1, LenProperties
      <4> QED BY <3>2, <3>4, <4>1
    <3> QED BY <1>1, <3>1, <3>2, <3>4, <3>5
  <2> QED BY <2>1, <2>2 DEF OwnersListed
<1>10. ValuesAtMinted'
  BY <1>1, <1>7 DEF ValuesAtMinted
<1> QED BY <1>6, <1>8, <1>9, <1>10

-----------------------------------------------------------------------------
(* Every transaction is accounted for by its events                        *)

\* A call that ends with its events es, or that waits between two parts of them.
EmitsInParts(es) ==
  \E receiver \in Contracts, call \in Nat, before, after \in Seq(Events) :
    /\ es = before \o after /\ before # <<>> /\ after # <<>> /\ NoSingles(after)
    /\ EmitAround(receiver, call, before, after)
    /\ \/ call = 0 /\ UNCHANGED calls
       \/ call = Len(calls) + 1 /\ DOMAIN calls' = 1..(Len(calls) + 1)
Emits(es) == EmitsInParts(es) \/ (Emit(es) /\ UNCHANGED calls)

\* A call for receiver waits at place call in calls, or has no place there.
MayWait(receiver, call) ==
  \/ UNCHANGED calls /\ (receiver \in Contracts => call = 0)
  \/ /\ receiver \in Contracts /\ call = Len(calls) + 1
     /\ DOMAIN calls' = 1..(Len(calls) + 1)

LEMMA AroundEmits ==
  ASSUME NEW receiver, NEW call \in Nat, NEW before \in Seq(Events), NEW after \in Seq(Events),
         before # <<>>, after # <<>>, NoSingles(after),
         EmitAround(receiver, call, before, after),
         MayWait(receiver, call)
  PROVE  Emits(before \o after)
BY DEF EmitAround, Emits, EmitsInParts, MayWait

Accounted(es) ==
  Announced(es) /\ MintsListed(es) /\ UnitsListed(es) /\ OwnersListed(es) /\ UnitsFound'

Ready == ReentrantInv /\ UnitsFound

LEMMA ReadyFacts ==
  ASSUME Ready
  PROVE  /\ HolderInv /\ TypeOK
         /\ ValuesAtMinted /\ CreditedAreMerged /\ MintedAreCreated
         /\ \A id \in TokenIDs : Held(id) => Minted(id)
         /\ \A id \in TokenIDs : Minted(id) => ~isBaseType(id) /\ Created(getBaseType(id))
         /\ \A t \in TypeIDs : maxIndex[t] \in Nat
         /\ \A id \in TokenIDs : tokenValues[id] \in 0..MaxUint /\ tokenValues[id] \in Nat
<1>1. /\ HolderInv /\ TypeOK
      /\ ValuesAtMinted /\ CreditedAreMerged /\ MintedAreCreated
      /\ \A id \in TokenIDs : Held(id) => Minted(id)
  BY DEF Ready, ReentrantInv, UnitsInv, HolderInv, OnlyMintedHeld, UnitsFound
<1>2. ASSUME NEW id \in TokenIDs, Minted(id)
      PROVE  ~isBaseType(id) /\ Created(getBaseType(id))
  <2>1. getBaseType(id) \in TypeIDs
    BY EndFacts
  <2>2. maxIndex[getBaseType(id)] # 0 /\ getItemIndex(id) # 0
    BY <1>1, <1>2, <2>1, MinterAssumption DEF TypeOK, Minted
  <2> QED BY <1>1, <2>1, <2>2 DEF MintedAreCreated, isBaseType
<1>3. \A t \in TypeIDs : maxIndex[t] \in Nat
  BY <1>1, MinterAssumption DEF TypeOK
<1>4. \A id \in TokenIDs : tokenValues[id] \in 0..MaxUint /\ tokenValues[id] \in Nat
  BY <1>1, MinterAssumption DEF TypeOK
<1> QED BY <1>1, <1>2, <1>3, <1>4

\* Minting tokens of created types only.
LEMMA MintKeepsCreated ==
  ASSUME TypeOK, MintedAreCreated, NEW account \in Accounts, NEW items \in Seq(ItemSet),
         MintTo(account, items), \A t \in TypeIDs : Created(t) => Created(t)',
         \A i \in 1..Len(items) : Created(items[i].typeID)'
  PROVE  MintedAreCreated'
<1>1. ASSUME NEW t \in TypeIDs, ~Created(t)'
      PROVE  maxIndex'[t] = 0
  <2>1. maxIndex[t] = 0
    BY <1>1 DEF MintedAreCreated
  <2>2. {i \in 1..Len(items) : items[i].typeID = t} = {}
    BY <1>1
  <2>3. CountOf(items, t, Len(items)) = 0
    BY <2>2, FS_EmptySet DEF CountOf
  <2>4. maxIndex'[t] = maxIndex[t] + CountOf(items, t, Len(items))
    BY DEF MintTo
  <2> QED BY <2>1, <2>3, <2>4
<1> QED BY <1>1 DEF MintedAreCreated

LEMMA MintReported ==
  ASSUME Ready, HolderInv', UNCHANGED <<merged, batched, credited>>,
         NEW account \in Accounts, NEW items \in Seq(ItemSet), MintTo(account, items),
         NEW from \in Ends, NEW es, NEW k, Delivers(es, k, from, items), es # <<>>,
         \A id \in TokenIDs : ~isBaseType(id) =>
           tokenValues'[id] =
             IF id = from THEN tokenValues[id] - Total(UnitsAt(items), DOMAIN items)
             ELSE MintedValues(items)[id],
         from \in TokenIDs => ~isBaseType(from) /\ (from \in credited \/ Minted(from)),
         \A t \in TypeIDs : Created(t) => Created(t)',
         \A i \in 1..Len(items) : Created(items[i].typeID)',
         \A t \in TypeIDs :
           Created(t)' => \/ Created(t)
                          \/ \E i \in DOMAIN es : es[i].event = "ClaimStored" /\ es[i].claim = t
  PROVE  Accounted(es)
<1>1. HolderInv /\ UnitsFound /\ TypeOK /\ MintedAreCreated /\ CreditedAreMerged
  BY ReadyFacts DEF Ready
<1>2. MintsListed(es) /\ UnitsListed(es) /\ OwnersListed(es) /\ ValuesAtMinted'
  BY <1>1, MintAccounted
<1>3. ASSUME NEW j \in DOMAIN es, es[j].event = "ValueTransfer"
      PROVE  Created(es[j].claim)'
  <2>1. j - k \in 1..Len(items) /\ k \in Nat /\ es \in Seq(Events)
    BY <1>3 DEF Delivers
  <2>2. PICK i \in 1..Len(items) : j = k + i
    <3>1. DOMAIN es = 1..Len(es) /\ Len(es) \in Nat
      BY <2>1, LenProperties
    <3>2. j = k + (j - k)
      BY <2>1, <3>1
    <3> QED BY <2>1, <3>2
  <2>3. es[k + i] = ValueTransfer(items[i].typeID, from, ItemID(items, i), items[i].units)
    BY DEF Delivers
  <2>4. es[j].claim = items[i].typeID
    BY <2>2, <2>3 DEF ValueTransfer
  <2> QED BY <2>2, <2>4
<1>4. Announced(es)
  BY <1>3 DEF Announced, Delivers
<1>5. MintedAreCreated'
  BY <1>1, MintKeepsCreated
<1>6. CreditedAreMerged'
  <2>1. merged' = merged /\ credited' = credited
    OBVIOUS
  <2>2. ASSUME NEW id \in credited
        PROVE  /\ id \in TokenIDs
               /\ getBaseType(id) \in merged /\ Created(getBaseType(id))'
    <3>1. id \in TokenIDs /\ getBaseType(id) \in merged /\ Created(getBaseType(id))
      BY <1>1 DEF CreditedAreMerged
    <3> QED BY <3>1, EndFacts
  <2> QED BY <2>1, <2>2 DEF CreditedAreMerged
<1> QED BY <1>2, <1>4, <1>5, <1>6 DEF Accounted, UnitsFound

\* The type to be created next.
LEMMA NextType ==
  ASSUME Ready, NEW account, NEW r, CreateType(account, r)
  PROVE  /\ NewType \in TypeIDs /\ ~Created(NewType) /\ maxIndex[NewType] = 0
         /\ \A t \in TypeIDs : Created(t)' <=> Created(t) \/ t = NewType
         /\ \A id \in TokenIDs : getBaseType(id) = NewType => ~Minted(id)
<1>1. /\ NewType \in TypeIDs /\ ~Created(NewType)
      /\ \A t \in TypeIDs : ~Created(t)' => ~Created(t) /\ t # NewType
  BY ReadyFacts, NewTypeIsFresh
<1>2. ASSUME NEW t \in TypeIDs, Created(t)'
      PROVE  Created(t) \/ t = NewType
  BY <1>2, ReadyFacts, MinterAssumption DEF CreateType, NewType, Created, TypeIDs, TypeOK
<1> QED BY <1>1, <1>2, ReadyFacts DEF MintedAreCreated

LEMMA SameTypes ==
  ASSUME UNCHANGED typeCounter
  PROVE  \A t : Created(t)' <=> Created(t)
BY DEF Created

LEMMA AppendDomain ==
  ASSUME NEW S, NEW q \in Seq(S), NEW x
  PROVE  DOMAIN Append(q, x) = 1..(Len(q) + 1)
<1>1. q \in Seq(S \cup {x}) /\ x \in S \cup {x}
  BY SeqMonotonic
<1> QED BY <1>1, AppendProperties, LenProperties

LEMMA TwoAndTwo ==
  ASSUME NEW a \in Events, NEW b \in Events, NEW c \in Events, NEW d \in Events
  PROVE  /\ <<a, b>> \o <<c, d>> = <<a, b, c, d>>
         /\ <<a, b>> \in Seq(Events) /\ <<a, b>> # <<>>
         /\ <<c, d>> \in Seq(Events) /\ <<c, d>> # <<>>
<1>1. PICK p, q, r : p = <<a, b>> /\ q = <<c, d>> /\ r = <<a, b, c, d>>
  OBVIOUS
<1>2. /\ p \in Seq(Events) /\ Len(p) = 2 /\ p[1] = a /\ p[2] = b
      /\ q \in Seq(Events) /\ Len(q) = 2 /\ q[1] = c /\ q[2] = d
      /\ r \in Seq(Events) /\ Len(r) = 4 /\ r[1] = a /\ r[2] = b /\ r[3] = c /\ r[4] = d
  BY <1>1
<1>3. /\ p \o q \in Seq(Events) /\ Len(p \o q) = Len(p) + Len(q)
      /\ \A i \in 1..(Len(p) + Len(q)) :
           (p \o q)[i] = IF i <= Len(p) THEN p[i] ELSE q[i - Len(p)]
  BY <1>2, ConcatProperties
<1>4. PICK s : s = p \o q
  OBVIOUS
<1>5. s \in Seq(Events) /\ Len(s) = 4 /\ s[1] = a /\ s[2] = b /\ s[3] = c /\ s[4] = d
  BY <1>2, <1>3, <1>4
<1>6. \A i \in 1..Len(s) : s[i] = r[i]
  BY <1>2, <1>5
<1>7. s = r
  BY <1>2, <1>5, <1>6, SeqEqual
<1> QED BY <1>1, <1>2, <1>4, <1>7, EmptySeq

LEMMA OneAndOne ==
  ASSUME NEW a \in Events, NEW b \in Events
  PROVE  /\ <<a>> \o <<b>> = <<a, b>>
         /\ <<a>> \in Seq(Events) /\ <<a>> # <<>>
         /\ <<b>> \in Seq(Events) /\ <<b>> # <<>>
<1>1. PICK p, q, r : p = <<a>> /\ q = <<b>> /\ r = <<a, b>>
  OBVIOUS
<1>2. /\ p \in Seq(Events) /\ Len(p) = 1 /\ p[1] = a
      /\ q \in Seq(Events) /\ Len(q) = 1 /\ q[1] = b
      /\ r \in Seq(Events) /\ Len(r) = 2 /\ r[1] = a /\ r[2] = b
  BY <1>1
<1>3. /\ p \o q \in Seq(Events) /\ Len(p \o q) = Len(p) + Len(q)
      /\ \A i \in 1..(Len(p) + Len(q)) :
           (p \o q)[i] = IF i <= Len(p) THEN p[i] ELSE q[i - Len(p)]
  BY <1>2, ConcatProperties
<1>4. PICK s : s = p \o q
  OBVIOUS
<1>5. s \in Seq(Events) /\ Len(s) = 2 /\ s[1] = a /\ s[2] = b
  BY <1>2, <1>3, <1>4
<1>6. \A i \in 1..Len(s) : s[i] = r[i]
  BY <1>2, <1>5
<1>7. s = r
  BY <1>2, <1>5, <1>6, SeqEqual
<1> QED BY <1>1, <1>2, <1>4, <1>7, EmptySeq

LEMMA FourEvents ==
  ASSUME NEW a \in Events, NEW b \in Events, NEW c \in Events, NEW d \in Events
  PROVE  LET es == <<a, b, c, d>>
         IN  /\ es \in Seq(Events) /\ es # <<>> /\ Len(es) = 4 /\ DOMAIN es = 1..4
             /\ es[1] = a /\ es[2] = b /\ es[3] = c /\ es[4] = d
OBVIOUS

LEMMA OneItem ==
  ASSUME NEW t \in TypeIDs, NEW units \in 0..MaxUint
  PROVE  LET items == <<Item(t, units)>>
         IN  /\ items \in Seq(ItemSet) /\ Len(items) = 1
             /\ items[1].typeID = t /\ items[1].units = units
BY DEF Item, ItemSet

\* The first token of a new type, whether or not its receiver is called back.
LEMMA NewTokenAccounted ==
  ASSUME Ready, HolderInv', NEW s \in Accounts, NEW units \in 0..MaxUint, NEW r,
         MintClaim(s, units, r), UNCHANGED <<merged, batched, credited>>,
         NEW call \in Nat, EmitNewToken(s, call, units), MayWait(s, call)
  PROVE  \E es : Emits(es) /\ Accounted(es)
<1> DEFINE items == <<Item(NewType, units)>>
           id == <<NewType, 1>>
<1>1. /\ MintTo(s, items) /\ CreateType(s, r)
      /\ tokenValues' = [MintedValues(items) EXCEPT ![BaseID(NewType)] = units]
  BY DEF MintClaim, MintNewType
<1>2. /\ NewType \in TypeIDs /\ maxIndex[NewType] = 0
      /\ \A t \in TypeIDs : Created(t)' <=> Created(t) \/ t = NewType
      /\ \A x \in TokenIDs : getBaseType(x) = NewType => ~Minted(x)
  BY <1>1, NextType
<1>3. /\ items \in Seq(ItemSet) /\ Len(items) = 1
      /\ items[1].typeID = NewType /\ items[1].units = units
  BY <1>2, OneItem
<1>4. TypeOK /\ RoomFor(items)
  BY <1>1, ReadyFacts DEF MintTo
<1>5. ItemID(items, 1) = id /\ id \in TokenIDs /\ getBaseType(id) = NewType
  <2>1. ItemID(items, 1) = <<NewType, maxIndex[NewType] + 1>>
    <3> HIDE DEF items
    <3>1. /\ items \in Seq(ItemSet) /\ 1 \in 1..Len(items)
          /\ \A i \in 1..Len(items) : items[i].typeID = NewType
      BY <1>3
    <3> QED BY <3>1, OneTypeIDs
  <2>2. maxIndex[NewType] + 1 = 1
    BY <1>2
  <2>3. ItemID(items, 1) = id
    BY <2>1, <2>2
  <2> HIDE DEF items, id
  <2>4. 1 \in 1..Len(items)
    BY <1>3
  <2> QED BY <1>3, <1>4, <2>3, <2>4, IDsOfItems
<1>6. PICK before, after :
        /\ before = <<TypeEvent, TransferSingle(s, id)>>
        /\ after = <<ValueTransfer(NewType, NoToken, id, units), ClaimStored(NewType, units)>>
  OBVIOUS
<1>7. EmitAround(s, call, before, after)
  BY <1>6 DEF EmitNewToken
<1> HIDE DEF items, id
<1>8. /\ TypeEvent \in Events /\ TransferSingle(s, id) \in Events
      /\ ValueTransfer(NewType, NoToken, id, units) \in Events
      /\ ClaimStored(NewType, units) \in Events
  <2>1. BaseID(NewType) \in TokenIDs /\ id \in Ends /\ NoToken \in Ends
    BY <1>2, <1>5, EndFacts
  <2>2. ValueTransfer(NewType, NoToken, id, units) \in Events
    BY <1>2, <1>5, <2>1, ValueTransferType
  <2> QED BY <1>2, <1>5, <2>1, <2>2, SingleEventTypes DEF TypeEvent
<1>9. PICK es : es = before \o after
  OBVIOUS
<1>10. /\ es = <<TypeEvent, TransferSingle(s, id), ValueTransfer(NewType, NoToken, id, units),
                 ClaimStored(NewType, units)>>
       /\ before \in Seq(Events) /\ after \in Seq(Events)
       /\ before # <<>> /\ after # <<>>
  BY <1>6, <1>8, <1>9, TwoAndTwo
<1>11. NoSingles(after)
  BY <1>6 DEF NoSingles, ValueTransfer, ClaimStored
<1>12. /\ es \in Seq(Events) /\ es # <<>> /\ Len(es) = 4 /\ DOMAIN es = 1..4
       /\ es[1] = TypeEvent /\ es[2] = TransferSingle(s, id)
       /\ es[3] = ValueTransfer(NewType, NoToken, id, units)
       /\ es[4] = ClaimStored(NewType, units)
  <2>1. PICK e3, e4 : /\ e3 = ValueTransfer(NewType, NoToken, id, units)
                      /\ e4 = ClaimStored(NewType, units)
    OBVIOUS
  <2>2. PICK e1, e2 : e1 = TypeEvent /\ e2 = TransferSingle(s, id)
    OBVIOUS
  <2>3. /\ es = <<e1, e2, e3, e4>>
        /\ e1 \in Events /\ e2 \in Events /\ e3 \in Events /\ e4 \in Events
    BY <1>8, <1>10, <2>1, <2>2
  <2> QED BY <2>1, <2>2, <2>3, FourEvents
<1>13. Emits(es)
  BY <1>7, <1>9, <1>10, <1>11, AroundEmits
<1>14. /\ es[1].event = "TransferSingle" /\ es[1].id = BaseID(NewType)
       /\ es[2].event = "TransferSingle" /\ es[2].id = id
       /\ es[3].event = "ValueTransfer"
       /\ es[4].event = "ClaimStored" /\ es[4].claim = NewType
  BY <1>12 DEF TypeEvent, TransferSingle, ValueTransfer, ClaimStored
<1>15. ~Minted(BaseID(NewType)) /\ ~Minted(id)
  BY <1>2, <1>5, EndFacts DEF BaseID, getBaseType
<1>16. Delivers(es, 2, NoToken, items)
  <2>1. \A i \in 1..Len(items) :
          es[2 + i] = ValueTransfer(items[i].typeID, NoToken, ItemID(items, i), items[i].units)
    BY <1>3, <1>5, <1>12
  <2>2. \A j \in 1..4 : /\ es[j].event = "ValueTransfer" => j - 2 \in 1..1
                        /\ es[j].event = "TransferSingle" => j <= 2 /\ ~Minted(es[j].id)
    BY <1>14, <1>15
  <2> QED BY <1>3, <1>12, <2>1, <2>2 DEF Delivers
<1>17. \A x \in TokenIDs : ~isBaseType(x) => tokenValues'[x] = MintedValues(items)[x]
  BY <1>1 DEF MintedValues, BaseID, isBaseType, getItemIndex
<1>18. Accounted(es)
  BY <1>1, <1>2, <1>3, <1>12, <1>14, <1>16, <1>17, EndFacts, MintReported
<1> QED BY <1>13, <1>18

LEMMA MintClaimAccounted ==
  ASSUME Ready, HolderInv', NEW s \in Accounts, NEW units \in 0..MaxUint,
         NEW r \in Policies, EmitMintClaim(s, units, r)
  PROVE  \E es : Emits(es) /\ Accounted(es)
<1>1. calls \in Seq(CallSet)
  BY DEF Ready, ReentrantInv, CallsOK
<1>2. Len(calls) \in Nat
  BY <1>1, LenProperties
<1>3. CASE s \notin Contracts /\ MintClaim(s, units, r) /\ UNCHANGED calls
  BY <1>2, <1>3, NewTokenAccounted DEF EmitMintClaim, MayWait
<1>4. CASE s \in Contracts /\ CallMintClaim(s, units, r)
  <2>1. /\ MintClaim(s, units, typeRestrictions[NewType])
        /\ calls' = Append(calls, Call(NewType, <<>>, r))
    BY <1>4 DEF CallMintClaim, CallReceiver
  <2>2. DOMAIN calls' = 1..(Len(calls) + 1)
    BY <1>1, <2>1, AppendDomain
  <2> QED BY <1>2, <1>4, <2>1, <2>2, NewTokenAccounted DEF EmitMintClaim, MayWait
<1> QED BY <1>3, <1>4 DEF EmitMintClaim

\* Claims are of listed types, which are created.
LEMMA ClaimedTypes ==
  ASSUME Ready, NEW s \in Accounts, NEW account \in Accounts, NEW items \in Seq(ItemSet),
         BatchMintClaimsFromAllowlists(s, account, items)
  PROVE  /\ typeCounter' = typeCounter /\ MintTo(account, items)
         /\ tokenValues' = MintedValues(items)
         /\ \A i \in 1..Len(items) : Created(items[i].typeID)
<1>1. /\ typeCounter' = typeCounter /\ MintTo(account, items)
      /\ tokenValues' = MintedValues(items)
      /\ ProcessClaims(s, items)
  BY DEF BatchMintClaimsFromAllowlists, typeVars
<1>2. ASSUME NEW i \in 1..Len(items)
      PROVE  Created(items[i].typeID)
  <2>1. items[i].typeID \in TypeIDs /\ i \in DOMAIN items
    <3>1. items[i] \in ItemSet
      BY ElementOfSeq
    <3> QED BY <3>1, LenProperties DEF ItemSet
  <2>2. merkleRoots[items[i].typeID] # NoRoot
    BY <1>1, <2>1 DEF ProcessClaims, ClaimValid, NoRoot
  <2> QED BY <2>1, <2>2 DEF Ready, ReentrantInv, AllowlistInv, FreshTypes
<1> QED BY <1>1, <1>2

LEMMA MintClaimFromAllowlistAccounted ==
  ASSUME Ready, HolderInv', NEW s \in Accounts, NEW account \in Accounts, NEW t \in TypeIDs,
         NEW units \in 0..MaxUint, EmitMintClaimFromAllowlist(s, account, t, units)
  PROVE  \E es : Emits(es) /\ Accounted(es)
<1> DEFINE items == <<Item(t, units)>>
           id == IDsOf(items)[1]
<1>1. items \in Seq(ItemSet) /\ Len(items) = 1 /\ items[1].typeID = t /\ items[1].units = units
  BY OneItem
<1>2. BatchMintClaimsFromAllowlists(s, account, items) /\ UNCHANGED <<merged, batched, credited>>
  BY DEF EmitMintClaimFromAllowlist, MintClaimFromAllowlist
<1>3. PICK before, after : /\ before = <<TransferSingle(account, id)>>
                           /\ after = <<ValueTransfer(t, NoToken, id, units)>>
  OBVIOUS
<1>4. EmitAround(account, 0, before, after) /\ MayWait(account, 0)
  BY <1>3 DEF EmitMintClaimFromAllowlist, MayWait
<1> HIDE DEF items
<1>5. /\ typeCounter' = typeCounter /\ MintTo(account, items)
      /\ tokenValues' = MintedValues(items)
      /\ \A i \in 1..Len(items) : Created(items[i].typeID)
  BY <1>1, <1>2, ClaimedTypes
<1>6. TypeOK /\ RoomFor(items)
  BY <1>5, ReadyFacts DEF MintTo
<1>7. id = ItemID(items, 1) /\ id \in TokenIDs /\ getBaseType(id) = t
  BY <1>1, <1>6, IDsOfItems
<1>8. ~Minted(id)
  <2>1. id \in NewIDs(items)
    <3>1. 1 \in DOMAIN items
      BY <1>1, LenProperties
    <3> QED BY <1>7, <3>1 DEF NewIDs
  <2> QED BY <1>1, <1>5, <1>7, <2>1, ReadyFacts, MintTouchesFresh
<1> HIDE DEF id
<1>9. TransferSingle(account, id) \in Events /\ ValueTransfer(t, NoToken, id, units) \in Events
  <2>1. id \in Ends /\ NoToken \in Ends
    BY <1>7, EndFacts
  <2> QED BY <1>7, <2>1, SingleEventTypes, ValueTransferType
<1>10. PICK es : es = before \o after
  OBVIOUS
<1>11. /\ es = <<TransferSingle(account, id), ValueTransfer(t, NoToken, id, units)>>
       /\ before \in Seq(Events) /\ after \in Seq(Events)
       /\ before # <<>> /\ after # <<>>
  BY <1>3, <1>9, <1>10, OneAndOne
<1>12. NoSingles(after)
  BY <1>3 DEF NoSingles, ValueTransfer
<1>13. Emits(es)
  BY <1>4, <1>10, <1>11, <1>12, AroundEmits
<1>14. /\ es \in Seq(Events) /\ es # <<>> /\ Len(es) = 2 /\ DOMAIN es = 1..2
       /\ es[1] = TransferSingle(account, id) /\ es[2] = ValueTransfer(t, NoToken, id, units)
  BY <1>9, <1>11
<1>15. /\ es[1].event = "TransferSingle" /\ es[1].id = id
       /\ es[2].event = "ValueTransfer"
  BY <1>14 DEF TransferSingle, ValueTransfer
<1>16. Delivers(es, 1, NoToken, items)
  <2>1. \A i \in 1..Len(items) :
          es[1 + i] = ValueTransfer(items[i].typeID, NoToken, ItemID(items, i), items[i].units)
    BY <1>1, <1>7, <1>14
  <2>2. \A j \in 1..2 : /\ es[j].event = "ValueTransfer" => j - 1 \in 1..1
                        /\ es[j].event = "TransferSingle" => j <= 1 /\ ~Minted(es[j].id)
    BY <1>8, <1>15
  <2> QED BY <1>1, <1>14, <2>1, <2>2 DEF Delivers
<1>17. Accounted(es)
  BY <1>1, <1>2, <1>5, <1>14, <1>16, EndFacts, SameTypes, MintReported
<1> QED BY <1>13, <1>17

\* The two parts that the events of a batch of new tokens are emitted in.
LEMMA BatchParts ==
  ASSUME TypeOK, NEW account \in Accounts, NEW from \in Ends, NEW items \in Seq(ItemSet),
         items # <<>>, RoomFor(items),
         \A i \in 1..Len(items) : from = NoToken \/ getBaseType(from) = items[i].typeID,
         NEW before, before = <<TransferBatch(account, IDsOf(items))>>,
         NEW after, after = BatchValueTransfer(from, IDsOf(items), items)
  PROVE  /\ TransferBatch(account, IDsOf(items)) \in Events
         /\ before \in Seq(Events) /\ before # <<>>
         /\ after \in Seq(Events) /\ after # <<>> /\ Len(after) = Len(items)
         /\ NoSingles(after)
<1>1. Len(items) \in Nat /\ DOMAIN items = 1..Len(items) /\ Len(items) # 0
  BY LenProperties, EmptySeq
<1>2. /\ IDsOf(items) \in Seq(TokenIDs)
      /\ \A i \in 1..Len(items) : /\ IDsOf(items)[i] \in TokenIDs
                                  /\ getBaseType(IDsOf(items)[i]) = items[i].typeID
  BY IDsOfItems
<1>3. TransferBatch(account, IDsOf(items)) \in Events
  BY <1>2, SingleEventTypes
<1>4. ASSUME NEW i \in 1..Len(items)
      PROVE  /\ ValueTransfer(items[i].typeID, from, IDsOf(items)[i], items[i].units) \in Events
             /\ ValueTransfer(items[i].typeID, from, IDsOf(items)[i],
                               items[i].units).event = "ValueTransfer"
  <2>1. items[i] \in ItemSet
    BY ElementOfSeq
  <2>2. /\ items[i].typeID \in TypeIDs /\ items[i].units \in 0..MaxUint
        /\ IDsOf(items)[i] \in Ends
    BY <1>2, <2>1, EndFacts DEF ItemSet
  <2>3. ValueTransfer(items[i].typeID, from, IDsOf(items)[i], items[i].units) \in Events
    BY <1>2, <2>2, ValueTransferType
  <2> QED BY <2>3 DEF ValueTransfer
<1>5. /\ after \in [1..Len(items) -> Events]
      /\ \A i \in 1..Len(items) : after[i].event = "ValueTransfer"
  BY <1>1, <1>4 DEF BatchValueTransfer
<1>6. after \in Seq(Events) /\ Len(after) = Len(items)
  BY <1>1, <1>5, IsASeq, LenProperties
<1>7. after # <<>>
  BY <1>1, <1>6
<1>8. NoSingles(after)
  BY <1>5 DEF NoSingles
<1>9. before \in Seq(Events) /\ before # <<>>
  BY <1>3
<1> QED BY <1>3, <1>6, <1>7, <1>8, <1>9

\* A batch of new tokens, from a token or from none.
LEMMA BatchDelivers ==
  ASSUME TypeOK, NEW account \in Accounts, NEW from \in Ends, NEW items \in Seq(ItemSet),
         RoomFor(items),
         \A i \in 1..Len(items) : from = NoToken \/ getBaseType(from) = items[i].typeID
  PROVE  LET es == BatchMinted(account, from, IDsOf(items), items)
         IN  Delivers(es, 1, from, items) /\ es # <<>> /\ es \in Seq(Events)
<1>1. /\ IDsOf(items) \in Seq(TokenIDs) /\ Len(IDsOf(items)) = Len(items)
      /\ \A i \in 1..Len(items) : /\ IDsOf(items)[i] = ItemID(items, i)
                                  /\ getBaseType(IDsOf(items)[i]) = items[i].typeID
  BY IDsOfItems
<1> DEFINE es == BatchMinted(account, from, IDsOf(items), items)
<1>2. /\ es \in Seq(Events) /\ Len(es) = Len(items) + 1
      /\ es[1] = TransferBatch(account, IDsOf(items))
      /\ \A i \in 1..Len(items) :
           es[i + 1] = ValueTransfer(items[i].typeID, from, IDsOf(items)[i], items[i].units)
  BY <1>1, BatchMintedShape
<1> HIDE DEF es
<1>3. Len(items) \in Nat /\ DOMAIN es = 1..(Len(items) + 1)
  BY <1>2, LenProperties
<1>4. ASSUME NEW i \in 1..Len(items)
      PROVE  es[1 + i] = ValueTransfer(items[i].typeID, from, ItemID(items, i), items[i].units)
  <2>1. 1 + i = i + 1
    BY <1>3
  <2> QED BY <1>1, <1>2, <2>1
<1>5. ASSUME NEW j \in DOMAIN es
      PROVE  /\ es[j].event = "ValueTransfer" => j - 1 \in 1..Len(items)
             /\ es[j].event # "TransferSingle"
  <2>1. CASE j = 1
    BY <1>2, <2>1 DEF TransferBatch
  <2>2. CASE j # 1
    <3>1. j - 1 \in 1..Len(items) /\ j = 1 + (j - 1)
      BY <1>3, <2>2
    <3>2. PICK i \in 1..Len(items) : i = j - 1 /\ j = 1 + i
      BY <3>1
    <3>3. es[j] = ValueTransfer(items[i].typeID, from, ItemID(items, i), items[i].units)
      BY <1>4, <3>2
    <3>4. es[j].event = "ValueTransfer"
      BY <3>3 DEF ValueTransfer
    <3> QED BY <3>1, <3>4
  <2> QED BY <2>1, <2>2
<1>6. es # <<>>
  BY <1>2, <1>3
<1>7. 1 + Len(items) <= Len(es)
  BY <1>2, <1>3
<1>8. Delivers(es, 1, from, items)
  BY <1>2, <1>4, <1>5, <1>7 DEF Delivers
<1> QED BY <1>2, <1>6, <1>8 DEF es

LEMMA BatchEmits ==
  ASSUME TypeOK, NEW account \in Accounts, NEW from \in Ends, NEW items \in Seq(ItemSet),
         items # <<>>, RoomFor(items),
         \A i \in 1..Len(items) : from = NoToken \/ getBaseType(from) = items[i].typeID,
         EmitBatchMinted(account, from, items)
  PROVE  Emits(BatchMinted(account, from, IDsOf(items), items))
<1>1. PICK before, after : /\ before = <<TransferBatch(account, IDsOf(items))>>
                           /\ after = BatchValueTransfer(from, IDsOf(items), items)
  OBVIOUS
<1>2. /\ before \in Seq(Events) /\ before # <<>>
      /\ after \in Seq(Events) /\ after # <<>> /\ NoSingles(after)
  BY <1>1, BatchParts
<1>3. EmitAround(account, 0, before, after) /\ MayWait(account, 0)
  BY <1>1 DEF EmitBatchMinted, MayWait
<1> QED BY <1>1, <1>2, <1>3, AroundEmits DEF BatchMinted

LEMMA BatchMintClaimsAccounted ==
  ASSUME Ready, HolderInv', NEW s \in Accounts, NEW account \in Accounts,
         NEW items \in Seq(ItemSet), items # <<>>, EmitBatchMintClaims(s, account, items)
  PROVE  \E es : Emits(es) /\ Accounted(es)
<1>1. BatchMintClaimsFromAllowlists(s, account, items) /\ UNCHANGED <<merged, batched, credited>>
  BY DEF EmitBatchMintClaims, EmitBatchMinted
<1>2. /\ typeCounter' = typeCounter /\ MintTo(account, items)
      /\ tokenValues' = MintedValues(items)
      /\ \A i \in 1..Len(items) : Created(items[i].typeID)
  BY <1>1, ClaimedTypes
<1>3. PICK es : es = BatchMinted(account, NoToken, IDsOf(items), items)
  OBVIOUS
<1>4. Emits(es)
  <2>1. RoomFor(items) /\ TypeOK /\ NoToken \in Ends
    BY <1>2, ReadyFacts, EndFacts DEF MintTo
  <2>2. EmitBatchMinted(account, NoToken, items)
    BY DEF EmitBatchMintClaims
  <2> QED BY <1>3, <2>1, <2>2, BatchEmits
<1>5. Delivers(es, 1, NoToken, items) /\ es # <<>>
  BY <1>2, <1>3, ReadyFacts, EndFacts, BatchDelivers DEF MintTo
<1>6. \A i \in 1..Len(items) : items[i].typeID \in TypeIDs
  <2>1. \A i \in 1..Len(items) : items[i] \in ItemSet
    BY ElementOfSeq
  <2> QED BY <2>1 DEF ItemSet
<1>7. Accounted(es)
  BY <1>1, <1>2, <1>5, <1>6, EndFacts, SameTypes, MintReported
<1> QED BY <1>4, <1>7

LEMMA SplitAccounted ==
  ASSUME Ready, HolderInv', NEW s, NEW account \in Accounts,
         NEW id \in TokenIDs, NEW values \in Seq(0..MaxUint), Len(values) >= 2,
         SplitTokenUnits(s, account, id, values), UNCHANGED <<merged, batched, credited>>
  PROVE  LET items == NewShares(getBaseType(id), values)
         IN  /\ Accounted(BatchMinted(account, id, IDsOf(items), items))
             /\ items \in Seq(ItemSet) /\ items # <<>> /\ RoomFor(items)
             /\ \A i \in 1..Len(items) : items[i].typeID = getBaseType(id)
<1> DEFINE t == getBaseType(id)
           items == NewShares(t, values)
<1>1. /\ ~isBaseType(id) /\ ValidSum(values) /\ tokenValues[id] = SumOf(values)
      /\ MintTo(account, items) /\ typeCounter' = typeCounter
      /\ tokenValues' = [MintedValues(items) EXCEPT ![id] = values[1]]
  BY DEF SplitTokenUnits, typeVars
<1>2. PICK es : es = BatchMinted(account, id, IDsOf(items), items)
  OBVIOUS
<1>3. t \in TypeIDs /\ id \in Ends
  BY EndFacts
<1>4. /\ items \in Seq(ItemSet) /\ Len(items) = Len(values) - 1
      /\ Len(values) \in Nat /\ DOMAIN values = 1..Len(values) /\ DOMAIN items = 1..Len(items)
  BY <1>3, NewSharesType, LenProperties
<1>5. \A i \in 1..Len(items) : items[i].typeID = t
  <2>1. ASSUME NEW i \in 1..(Len(values) - 1)
        PROVE  items[i].typeID = t
    BY DEF NewShares, Item
  <2> HIDE DEF items
  <2> QED BY <1>4, <2>1
<1>6. /\ 1 \in DOMAIN values /\ values[1] \in Nat /\ values[1] # 0
      /\ \A i \in 1..Len(values) : values[i] \in Nat
  <2>1. \A i \in 1..Len(values) : values[i] \in 0..MaxUint
    BY ElementOfSeq
  <2>2. 1 \in DOMAIN values
    BY <1>4
  <2>3. values[1] # 0
    BY <1>1, <2>2 DEF ValidSum
  <2> QED BY <1>4, <2>1, <2>2, <2>3, MinterAssumption
<1>7. tokenValues[id] # 0
  <2>1. Summable(values, DOMAIN values) /\ Summable(values, DOMAIN values \ {1})
    <3>1. DOMAIN values \in SUBSET (1..Len(values))
          /\ DOMAIN values \ {1} \in SUBSET (1..Len(values))
      BY <1>4
    <3> QED BY <3>1, ValuesOfSeqSummable
  <2>2. Total(values, DOMAIN values) = Total(values, DOMAIN values \ {1}) + values[1]
    BY <1>6, <2>1, TotalRemove
  <2>3. Total(values, DOMAIN values \ {1}) \in Nat
    BY <2>1, TotalIsNat
  <2> QED BY <1>1, <1>6, <2>2, <2>3 DEF SumOf
<1>8. /\ id \in credited \/ Minted(id)
      /\ Created(t)
  <2>1. id \in credited \/ Minted(id)
    BY <1>1, <1>7, ReadyFacts DEF ValuesAtMinted
  <2>2. id \in credited => Created(t)
    BY ReadyFacts DEF CreditedAreMerged
  <2>3. Minted(id) => Created(t)
    BY ReadyFacts
  <2> QED BY <2>1, <2>2, <2>3
<1>9. tokenValues[id] - Total(UnitsAt(items), DOMAIN items) = values[1]
  <2>1. UnitsFor(items, t) = SumOf(values) - values[1]
    BY <1>3, SharesSum
  <2>2. UnitsFor(items, t) = Total(UnitsAt(items), DOMAIN items)
    <3> HIDE DEF items, t
    <3> QED BY <1>4, <1>5, OneTypeUnits
  <2>3. SumOf(values) \in Nat
    BY <1>1, ReadyFacts
  <2> HIDE DEF items, t
  <2> QED BY <1>1, <1>6, <2>1, <2>2, <2>3
<1> HIDE DEF items
<1>10. Delivers(es, 1, id, items) /\ es # <<>>
  <2>1. TypeOK /\ RoomFor(items)
    BY <1>1, ReadyFacts DEF MintTo
  <2>2. \A i \in 1..Len(items) : id = NoToken \/ getBaseType(id) = items[i].typeID
    BY <1>5
  <2> QED BY <1>2, <1>3, <1>4, <2>1, <2>2, BatchDelivers
<1>11. ASSUME NEW x \in TokenIDs
       PROVE  tokenValues'[x] =
                IF x = id THEN tokenValues[x] - Total(UnitsAt(items), DOMAIN items)
                ELSE MintedValues(items)[x]
  <2>1. DOMAIN MintedValues(items) = TokenIDs
    BY DEF MintedValues
  <2>2. tokenValues'[x] = IF x = id THEN values[1] ELSE MintedValues(items)[x]
    BY <1>1, <2>1
  <2> QED BY <1>9, <2>2
<1>12. /\ \A u \in TypeIDs : Created(u) => Created(u)'
       /\ \A i \in 1..Len(items) : Created(items[i].typeID)'
       /\ \A u \in TypeIDs : Created(u)' => Created(u)
  BY <1>1, <1>5, <1>8, SameTypes
<1>13. Accounted(es)
  BY <1>1, <1>3, <1>4, <1>8, <1>10, <1>11, <1>12, MintReported
<1>14. items # <<>> /\ RoomFor(items)
  BY <1>1, <1>4, EmptySeq DEF MintTo
<1> QED BY <1>2, <1>4, <1>5, <1>13, <1>14 DEF items

LEMMA SplitFractionAccounted ==
  ASSUME Ready, HolderInv', NEW s \in Accounts, NEW account \in Accounts,
         NEW id \in TokenIDs, NEW values \in Seq(0..MaxUint), Len(values) >= 2,
         EmitSplitFraction(s, account, id, values)
  PROVE  \E es : Emits(es) /\ Accounted(es)
<1>1. PICK items : items = NewShares(getBaseType(id), values)
  OBVIOUS
<1>2. /\ SplitTokenUnits(s, account, id, values) /\ UNCHANGED <<merged, batched, credited>>
      /\ EmitBatchMinted(account, id, items)
  BY <1>1 DEF EmitSplitFraction, EmitBatchMinted, SplitFraction
<1>3. /\ Accounted(BatchMinted(account, id, IDsOf(items), items))
      /\ items \in Seq(ItemSet) /\ items # <<>> /\ RoomFor(items)
      /\ \A i \in 1..Len(items) : items[i].typeID = getBaseType(id)
  BY <1>1, <1>2, SplitAccounted
<1>4. TypeOK /\ id \in Ends
  BY ReadyFacts, EndFacts
<1>5. Emits(BatchMinted(account, id, IDsOf(items), items))
  BY <1>2, <1>3, <1>4, BatchEmits
<1> QED BY <1>3, <1>5

-----------------------------------------------------------------------------
(* The transactions that mint nothing                                      *)

\* No index moves, units move only where a merge is noted, and every change of an
\* owner is noted or announced.
LEMMA QuietAccounted ==
  ASSUME Ready, HolderInv', NEW es, Announced(es), maxIndex' = maxIndex,
         \A t \in TypeIDs : Created(t) => Created(t)',
         merged \subseteq merged', credited \subseteq credited',
         \A id \in TokenIDs : CreditsIn(es, id) = {},
         \A id \in TokenIDs \ credited' :
           /\ \A i \in DebitsIn(es, id) : Minted(id)
           /\ ~isBaseType(id) /\ tokenValues'[id] # 0 => tokenValues[id] # 0 \/ Minted(id),
         \A id \in TokenIDs : ~isBaseType(id) /\ getBaseType(id) \notin merged' =>
           tokenValues'[id] + Total(ValuesOf(es), DebitsIn(es, id)) = tokenValues[id],
         \A id \in TokenIDs \ (batched' \cup credited') :
           /\ owners'[id] # owners[id] => \E i \in DOMAIN es : Reassigns(es[i], id)
           /\ \A i \in DOMAIN es : Reassigns(es[i], id) /\ Minted(id) => es[i].to = owners'[id],
         \A id \in credited' \ credited :
           id \in TokenIDs /\ getBaseType(id) \in merged' /\ Created(getBaseType(id))'
  PROVE  Accounted(es)
<1>1. \A id : Minted(id)' <=> Minted(id)
  BY DEF Minted
<1>2. MintsListed(es)
  BY <1>1 DEF MintsListed
<1>3. UnitsListed(es)
  <2>1. ASSUME NEW t \in TypeIDs \ merged', NEW id \in FractionIDs(t)
        PROVE  tokenValues'[id] + Total(ValuesOf(es), DebitsIn(es, id)) =
                 tokenValues[id] + Total(ValuesOf(es), CreditsIn(es, id))
    <3>1. id \in TokenIDs /\ getBaseType(id) = t /\ ~isBaseType(id)
      BY TokenIDsFinite DEF FractionIDs, getBaseType, isBaseType, getItemIndex
    <3>2. Total(ValuesOf(es), CreditsIn(es, id)) = 0
      BY <3>1, TotalEmpty
    <3>3. tokenValues[id] \in Nat
      BY <3>1, ReadyFacts
    <3> QED BY <3>1, <3>2, <3>3
  <2> QED BY <2>1 DEF UnitsListed
<1>4. OwnersListed(es)
  BY DEF OwnersListed
<1>5. ValuesAtMinted'
  <2>1. ASSUME NEW id \in TokenIDs \ credited', ~isBaseType(id), tokenValues'[id] # 0
        PROVE  Minted(id)
    BY <2>1, ReadyFacts DEF ValuesAtMinted
  <2> QED BY <1>1, <2>1 DEF ValuesAtMinted
<1>6. CreditedAreMerged'
  <2>1. ASSUME NEW id \in credited
        PROVE  /\ id \in TokenIDs
               /\ getBaseType(id) \in merged' /\ Created(getBaseType(id))'
    <3>1. id \in TokenIDs /\ getBaseType(id) \in merged /\ Created(getBaseType(id))
      BY ReadyFacts DEF CreditedAreMerged
    <3> QED BY <3>1, EndFacts
  <2> QED BY <2>1 DEF CreditedAreMerged
<1>7. MintedAreCreated'
  BY ReadyFacts DEF MintedAreCreated
<1> QED BY <1>2, <1>3, <1>4, <1>5, <1>6, <1>7 DEF Accounted, UnitsFound

LEMMA NothingMoved ==
  ASSUME NEW es, \A i \in DOMAIN es : es[i].event # "ValueTransfer", NEW id
  PROVE  /\ CreditsIn(es, id) = {} /\ DebitsIn(es, id) = {}
         /\ Total(ValuesOf(es), DebitsIn(es, id)) = 0
<1>1. CreditsIn(es, id) = {} /\ DebitsIn(es, id) = {}
  BY DEF CreditsIn, DebitsIn, Credits, Debits
<1> QED BY <1>1, TotalEmpty

LEMMA CreateAllowlistAccounted ==
  ASSUME Ready, HolderInv', NEW account \in Accounts, NEW units \in 0..MaxUint,
         NEW root \in SUBSET Leaves, NEW r \in Policies, EmitCreateAllowlist(account, units, root, r)
  PROVE  \E es : Emits(es) /\ Accounted(es)
<1>1. /\ CreateAllowlist(account, units, root, r) /\ UNCHANGED <<merged, batched, credited>>
      /\ CreateType(account, r) /\ maxIndex' = maxIndex /\ owners' = owners
      /\ tokenValues' = [tokenValues EXCEPT ![BaseID(NewType)] = units]
  BY DEF EmitCreateAllowlist, CreateAllowlist
<1>2. /\ NewType \in TypeIDs
      /\ \A t \in TypeIDs : Created(t)' <=> Created(t) \/ t = NewType
      /\ \A x \in TokenIDs : getBaseType(x) = NewType => ~Minted(x)
  BY <1>1, NextType
<1>3. PICK es : es = <<TypeEvent, AllowlistCreated(NewType, root),
                       ClaimStored(NewType, units)>>
  OBVIOUS
<1>4. Emits(es)
  BY <1>3 DEF EmitCreateAllowlist, Emits
<1>5. /\ TypeEvent \in Events /\ AllowlistCreated(NewType, root) \in Events
      /\ ClaimStored(NewType, units) \in Events
  BY <1>2, EndFacts, SingleEventTypes DEF TypeEvent
<1>6. /\ es \in Seq(Events) /\ es # <<>> /\ DOMAIN es = 1..3
      /\ es[1] = TypeEvent /\ es[2] = AllowlistCreated(NewType, root)
      /\ es[3] = ClaimStored(NewType, units)
  BY <1>3, <1>5
<1>7. /\ es[1].event = "TransferSingle" /\ es[1].id = BaseID(NewType)
      /\ es[2].event = "AllowlistCreated"
      /\ es[3].event = "ClaimStored" /\ es[3].claim = NewType
  BY <1>6 DEF TypeEvent, TransferSingle, AllowlistCreated, ClaimStored
<1>8. \A i \in DOMAIN es : es[i].event # "ValueTransfer"
  BY <1>6, <1>7
<1>9. Announced(es)
  BY <1>2, <1>6, <1>7, <1>8 DEF Announced
<1>10. \A i \in DOMAIN es : \A id \in TokenIDs : Reassigns(es[i], id) => ~Minted(id)
  <2>1. ~Minted(BaseID(NewType))
    BY <1>2, EndFacts DEF BaseID, getBaseType
  <2> QED BY <1>6, <1>7, <2>1 DEF Reassigns
<1>11. \A id \in TokenIDs : ~isBaseType(id) =>
         tokenValues'[id] = tokenValues[id] /\ tokenValues[id] \in Nat
  <2>1. DOMAIN tokenValues = TokenIDs
    BY ReadyFacts DEF TypeOK
  <2> QED BY <1>1, <2>1, ReadyFacts DEF BaseID, isBaseType, getItemIndex
<1>12. merged' = merged /\ credited' = credited /\ batched' = batched
  BY <1>1
<1>13. /\ \A id \in TokenIDs : CreditsIn(es, id) = {} /\ DebitsIn(es, id) = {}
       /\ \A id \in TokenIDs : Total(ValuesOf(es), DebitsIn(es, id)) = 0
  BY <1>8, NothingMoved
<1>14. \A id \in TokenIDs : ~isBaseType(id) =>
         tokenValues'[id] + Total(ValuesOf(es), DebitsIn(es, id)) = tokenValues[id]
  BY <1>11, <1>13
<1>15. Accounted(es)
  BY <1>1, <1>2, <1>9, <1>10, <1>11, <1>12, <1>13, <1>14, QuietAccounted
<1> QED BY <1>4, <1>15

LEMMA MergeAccounted ==
  ASSUME Ready, HolderInv', NEW s \in Accounts, NEW account \in Accounts,
         NEW ids \in Seq(TokenIDs), Len(ids) >= 2, EmitMergeFractions(s, account, ids)
  PROVE  \E es : Emits(es) /\ Accounted(es)
<1> DEFINE t == getBaseType(Target(ids))
           list == SubSeq(ids, 1, Len(ids) - 1)
<1>1. /\ MergeFractions(s, account, ids)
      /\ merged' = merged \cup {t}
      /\ batched' = batched \cup Sources(ids)
      /\ credited' = credited \cup ({Target(ids)} \ {id \in TokenIDs : Minted(id)})
      /\ typeCounter' = typeCounter /\ maxIndex' = maxIndex
      /\ tokenValues' =
           [ClearedValues(ids) EXCEPT ![Target(ids)] = @ + MergedUnits(ids)]
      /\ owners' = [id \in TokenIDs |-> IF id \in Sources(ids) THEN NoAccount ELSE owners[id]]
  BY DEF EmitMergeFractions, MergeFractions, typeVars
<1>2. PICK es : es = <<TransferBatch(NoAccount, list)>>
  OBVIOUS
<1>3. Emits(es)
  BY <1>2 DEF EmitMergeFractions, Emits
<1>4. list \in Seq(TokenIDs)
  BY LenProperties, SubSeqProperties
<1> HIDE DEF list
<1>5. /\ es \in Seq(Events) /\ es # <<>> /\ DOMAIN es = 1..1
      /\ es[1].event = "TransferBatch"
  BY <1>2, <1>4, SingleEventTypes DEF TransferBatch
<1>6. /\ \A i \in DOMAIN es : es[i].event # "ValueTransfer"
      /\ \A i \in DOMAIN es, id \in TokenIDs : ~Reassigns(es[i], id)
  BY <1>5 DEF Reassigns
<1>7. /\ \A u : Created(u)' <=> Created(u)
      /\ Announced(es)
  BY <1>1, <1>5, <1>6, SameTypes DEF Announced
<1>8. /\ Target(ids) \in TokenIDs /\ Sources(ids) \subseteq TokenIDs
      /\ \A id \in Sources(ids) : getBaseType(id) = t /\ Minted(id)
      /\ Sources(ids) # {}
  <2>1. /\ Target(ids) \in TokenIDs /\ Sources(ids) \subseteq TokenIDs
        /\ \A id \in Sources(ids) : TimesMerged(ids, id) \in Nat \ {0}
    BY ReadyFacts, MergeType
  <2>2. ASSUME NEW id \in Sources(ids)
        PROVE  getBaseType(id) = t /\ Minted(id)
    <3>1. getBaseType(id) = t /\ balances[id][account] >= TimesMerged(ids, id)
      BY <1>1 DEF MergeFractions
    <3>2. balances[id][account] \in Nat /\ TimesMerged(ids, id) \in Nat \ {0} /\ id \in TokenIDs
      BY <2>1, ReadyFacts DEF TypeOK
    <3>3. Held(id)
      BY <3>1, <3>2 DEF Held, Holds
    <3> QED BY <3>1, <3>2, <3>3, ReadyFacts
  <2>3. ids[1] \in Sources(ids)
    BY LenProperties DEF Sources
  <2> QED BY <2>1, <2>2, <2>3
<1>9. Created(t)
  BY <1>8, ReadyFacts
<1>10. ASSUME NEW id \in TokenIDs, id # Target(ids)
       PROVE  tokenValues'[id] = IF id \in Sources(ids) THEN 0 ELSE tokenValues[id]
  BY <1>1, <1>10 DEF ClearedValues
<1>11. /\ \A id \in TokenIDs : CreditsIn(es, id) = {} /\ DebitsIn(es, id) = {}
       /\ \A id \in TokenIDs : Total(ValuesOf(es), DebitsIn(es, id)) = 0
  BY <1>6, NothingMoved
<1>12. ASSUME NEW id \in TokenIDs \ credited', ~isBaseType(id), tokenValues'[id] # 0
       PROVE  tokenValues[id] # 0 \/ Minted(id)
  BY <1>1, <1>10, <1>12
<1>13. ASSUME NEW id \in TokenIDs, ~isBaseType(id), getBaseType(id) \notin merged'
       PROVE  tokenValues'[id] + Total(ValuesOf(es), DebitsIn(es, id)) = tokenValues[id]
  <2>1. getBaseType(id) # t
    BY <1>1, <1>13
  <2>2. id # Target(ids) /\ id \notin Sources(ids)
    BY <1>8, <2>1
  <2> QED BY <1>10, <1>11, <2>2, ReadyFacts
<1>14. ASSUME NEW id \in TokenIDs \ (batched' \cup credited')
       PROVE  owners'[id] = owners[id]
  BY <1>1
<1>15. \A id \in credited' \ credited :
         id \in TokenIDs /\ getBaseType(id) \in merged' /\ Created(getBaseType(id))'
  BY <1>1, <1>7, <1>8, <1>9
<1> HIDE DEF t
<1>16. Accounted(es)
  BY <1>1, <1>6, <1>7, <1>11, <1>12, <1>13, <1>14, <1>15, QuietAccounted
<1> QED BY <1>3, <1>16

LEMMA BurnAccounted ==
  ASSUME Ready, HolderInv', NEW s \in Accounts, NEW account \in Accounts,
         NEW id \in TokenIDs, EmitBurnFraction(s, account, id)
  PROVE  \E es : Emits(es) /\ Accounted(es)
<1> DEFINE t == getBaseType(id)
<1>1. /\ BurnFraction(s, account, id) /\ UNCHANGED <<merged, batched, credited>>
      /\ balances[id][account] >= 1
      /\ tokenValues' = [tokenValues EXCEPT ![id] = 0]
      /\ owners' = [owners EXCEPT ![id] = NoAccount]
      /\ typeCounter' = typeCounter /\ maxIndex' = maxIndex
  BY DEF EmitBurnFraction, BurnFraction, typeVars
<1>2. Minted(id) /\ t \in TypeIDs /\ Created(t)
  <2>1. balances[id][account] \in Nat
    BY ReadyFacts DEF TypeOK
  <2>2. Held(id)
    BY <1>1, <2>1 DEF Held, Holds
  <2> QED BY <2>2, ReadyFacts, EndFacts
<1>3. PICK es : es = <<TransferSingle(NoAccount, id), ValueTransfer(t, id, NoToken, tokenValues[id])>>
  OBVIOUS
<1>4. Emits(es)
  BY <1>3 DEF EmitBurnFraction, Emits
<1>5. /\ TransferSingle(NoAccount, id) \in Events
      /\ ValueTransfer(t, id, NoToken, tokenValues[id]) \in Events
  <2>1. id \in Ends /\ NoToken \in Ends /\ tokenValues[id] \in 0..MaxUint
    BY EndFacts, ReadyFacts
  <2> QED BY <1>2, <2>1, SingleEventTypes, ValueTransferType
<1>6. /\ es \in Seq(Events) /\ es # <<>> /\ DOMAIN es = 1..2
      /\ es[1] = TransferSingle(NoAccount, id)
      /\ es[2] = ValueTransfer(t, id, NoToken, tokenValues[id])
  BY <1>3, <1>5
<1>7. /\ es[1].event = "TransferSingle" /\ es[1].id = id /\ es[1].to = NoAccount
      /\ es[2].event = "ValueTransfer" /\ es[2].claim = t /\ es[2].from = id
      /\ es[2].to = NoToken /\ es[2].value = tokenValues[id]
  BY <1>6 DEF TransferSingle, ValueTransfer
<1>8. /\ \A u : Created(u)' <=> Created(u)
      /\ Announced(es)
  BY <1>1, <1>2, <1>6, <1>7, SameTypes DEF Announced
<1>9. \A x \in TokenIDs : /\ CreditsIn(es, x) = {}
                          /\ DebitsIn(es, x) = IF x = id THEN {2} ELSE {}
  BY <1>6, <1>7, EndFacts DEF CreditsIn, DebitsIn, Credits, Debits
<1>10. ASSUME NEW x \in TokenIDs
       PROVE  /\ tokenValues'[x] = IF x = id THEN 0 ELSE tokenValues[x]
              /\ tokenValues[x] \in Nat
              /\ Total(ValuesOf(es), DebitsIn(es, x)) = IF x = id THEN tokenValues[id] ELSE 0
  <2>1. tokenValues[x] \in Nat /\ tokenValues[id] \in Nat /\ DOMAIN tokenValues = TokenIDs
    BY ReadyFacts DEF TypeOK
  <2>2. ValuesOf(es)[2] = tokenValues[id]
    BY <1>6, <1>7 DEF ValuesOf
  <2>3. Total(ValuesOf(es), {2}) = tokenValues[id]
    BY <2>1, <2>2, TotalSingleton
  <2>4. Total(ValuesOf(es), {}) = 0
    BY TotalEmpty
  <2> QED BY <1>1, <1>9, <2>1, <2>3, <2>4
<1>11. merged' = merged /\ credited' = credited /\ batched' = batched
  BY <1>1
<1>12. ASSUME NEW x \in TokenIDs
       PROVE  /\ owners'[x] # owners[x] => Reassigns(es[1], x)
              /\ \A i \in DOMAIN es : Reassigns(es[i], x) => es[i].to = owners'[x]
  <2>1. DOMAIN owners = TokenIDs
    BY ReadyFacts DEF TypeOK
  <2> QED BY <1>1, <1>6, <1>7, <2>1 DEF Reassigns
<1>13. ASSUME NEW x \in TokenIDs
       PROVE  tokenValues'[x] + Total(ValuesOf(es), DebitsIn(es, x)) = tokenValues[x]
  BY <1>10
<1>14. 1 \in DOMAIN es
  BY <1>6
<1> HIDE DEF t
<1>15. Accounted(es)
  BY <1>1, <1>2, <1>8, <1>9, <1>10, <1>11, <1>12, <1>13, <1>14, QuietAccounted
<1> QED BY <1>4, <1>15

\* A transfer or a burn of tokens moves no units.
LEMMA TransferAccounted ==
  ASSUME Ready, HolderInv', NEW to \in Accounts \cup {NoAccount},
         NEW batch \in Seq(Transfers), Len(batch) >= 1, RecordOwner(batch, to),
         UNCHANGED <<typeVars, maxIndex, tokenValues>>, EmitTransfer(batch, to)
  PROVE  \E es : Emits(es) /\ Accounted(es)
<1> DEFINE ids == [i \in DOMAIN batch |-> batch[i].id]
<1>1. /\ Len(batch) \in Nat /\ DOMAIN batch = 1..Len(batch) /\ 1 \in DOMAIN batch
      /\ \A i \in DOMAIN batch : batch[i].id \in TokenIDs
  <2>1. \A i \in 1..Len(batch) : batch[i] \in Transfers
    BY ElementOfSeq
  <2> QED BY <2>1, LenProperties DEF Transfers
<1>2. ids \in Seq(TokenIDs)
  <2>1. ids \in [1..Len(batch) -> TokenIDs]
    BY <1>1
  <2> HIDE DEF ids
  <2> QED BY <1>1, <2>1, IsASeq
<1>3. /\ typeCounter' = typeCounter /\ maxIndex' = maxIndex /\ tokenValues' = tokenValues
      /\ \A t : Created(t)' <=> Created(t)
  BY SameTypes DEF typeVars
<1>4. \A id \in TokenIDs : owners'[id] =
        IF \E i \in DOMAIN batch : batch[i].id = id THEN to ELSE owners[id]
  BY DEF RecordOwner
<1>5. ASSUME NEW es, es \in Seq(Events), es # <<>>,
             \A i \in DOMAIN es : es[i].event # "ValueTransfer",
             merged' = merged, credited' = credited,
             \A id \in TokenIDs \ batched' :
               /\ owners'[id] # owners[id] => \E i \in DOMAIN es : Reassigns(es[i], id)
               /\ \A i \in DOMAIN es : Reassigns(es[i], id) => es[i].to = owners'[id]
      PROVE  Accounted(es)
  <2>1. Announced(es)
    BY <1>3, <1>5 DEF Announced
  <2>2. \A id \in TokenIDs : /\ CreditsIn(es, id) = {} /\ DebitsIn(es, id) = {}
                             /\ Total(ValuesOf(es), DebitsIn(es, id)) = 0
    BY <1>5, NothingMoved
  <2>3. \A id \in TokenIDs :
          tokenValues'[id] + Total(ValuesOf(es), DebitsIn(es, id)) = tokenValues[id]
    BY <1>3, <2>2, ReadyFacts
  <2> QED BY <1>3, <1>5, <2>1, <2>2, <2>3, QuietAccounted
<1>6. CASE /\ Len(batch) = 1 /\ Emit(<<TransferSingle(to, ids[1])>>)
           /\ UNCHANGED <<calls, merged, batched, credited>>
  <2>1. PICK es : es = <<TransferSingle(to, ids[1])>>
    OBVIOUS
  <2>2. ids[1] = batch[1].id /\ batch[1].id \in TokenIDs
    BY <1>1
  <2> HIDE DEF ids
  <2>3. Emits(es)
    BY <1>6, <2>1 DEF Emits
  <2>4. /\ es \in Seq(Events) /\ es # <<>> /\ DOMAIN es = 1..1
        /\ es[1].event = "TransferSingle" /\ es[1].id = batch[1].id /\ es[1].to = to
    <3>1. TransferSingle(to, ids[1]) \in Events
      BY <2>2, SingleEventTypes
    <3> QED BY <2>1, <2>2, <3>1 DEF TransferSingle
  <2>5. DOMAIN batch = 1..1
    BY <1>1, <1>6
  <2>6. \A id \in TokenIDs : owners'[id] = IF batch[1].id = id THEN to ELSE owners[id]
    BY <1>4, <2>5
  <2>7. Accounted(es)
    BY <1>5, <1>6, <2>4, <2>6 DEF Reassigns
  <2> QED BY <2>3, <2>7
<1>7. CASE /\ Emit(<<TransferBatch(to, ids)>>)
           /\ batched' = batched \cup {ids[i] : i \in DOMAIN ids}
           /\ UNCHANGED <<calls, merged, credited>>
  <2>1. PICK es : es = <<TransferBatch(to, ids)>>
    OBVIOUS
  <2>2. \A i \in DOMAIN batch : batch[i].id \in batched'
    BY <1>7
  <2>3. Emits(es)
    BY <1>7, <2>1 DEF Emits
  <2> HIDE DEF ids
  <2>4. es \in Seq(Events) /\ es # <<>> /\ DOMAIN es = 1..1 /\ es[1].event = "TransferBatch"
    <3>1. TransferBatch(to, ids) \in Events
      BY <1>2, SingleEventTypes
    <3> QED BY <2>1, <3>1 DEF TransferBatch
  <2>5. Accounted(es)
    BY <1>4, <1>5, <1>7, <2>2, <2>4 DEF Reassigns
  <2> QED BY <2>3, <2>5
<1> QED BY <1>6, <1>7 DEF EmitTransfer

LEMMA Joined ==
  ASSUME NEW a \in Seq(Events), NEW b \in Seq(Events)
  PROVE  /\ a \o b \in Seq(Events) /\ Len(a \o b) = Len(a) + Len(b)
         /\ \A i \in 1..Len(a) : (a \o b)[i] = a[i]
         /\ \A i \in 1..Len(b) : (a \o b)[Len(a) + i] = b[i]
<1>1. Len(a) \in Nat /\ Len(b) \in Nat
  BY LenProperties
<1>2. /\ a \o b \in Seq(Events) /\ Len(a \o b) = Len(a) + Len(b)
      /\ \A i \in 1..(Len(a) + Len(b)) :
           (a \o b)[i] = IF i <= Len(a) THEN a[i] ELSE b[i - Len(a)]
  BY ConcatProperties
<1> DEFINE n == Len(a)
           m == Len(b)
           q == a \o b
<1> HIDE DEF n, m, q
<1>3. n \in Nat /\ m \in Nat /\ \A i \in 1..(n + m) : q[i] = IF i <= n THEN a[i] ELSE b[i - n]
  BY <1>1, <1>2 DEF n, m, q
<1>4. ASSUME NEW i \in 1..n
      PROVE  q[i] = a[i]
  BY <1>3
<1>5. ASSUME NEW i \in 1..m
      PROVE  q[n + i] = b[i]
  <2>1. n + i \in 1..(n + m) /\ ~(n + i <= n) /\ (n + i) - n = i
    BY <1>3
  <2> QED BY <1>3, <2>1
<1> QED BY <1>2, <1>4, <1>5 DEF n, m, q

\* The events of a claim that is minted in fractions: the claim's only token, with
\* all the units, and then its split.
FractionEvents(s, t, units, shares) ==
  <<TransferSingle(NoAccount, BaseID(t)), TransferSingle(s, <<t, 1>>),
    ValueTransfer(t, NoToken, <<t, 1>>, units)>>
    \o BatchMinted(s, <<t, 1>>, [i \in DOMAIN shares |-> <<t, i + 1>>], shares)
    \o <<ClaimStored(t, units)>>

LEMMA FractionEventsShape ==
  ASSUME NEW s \in Accounts, NEW t \in TypeIDs, NEW units \in 0..MaxUint,
         NEW shares \in Seq(ItemSet), \A i \in 1..Len(shares) : shares[i].typeID = t,
         Len(shares) + 1 <= MaxItems, NEW es, es = FractionEvents(s, t, units, shares)
  PROVE  /\ es \in Seq(Events) /\ Len(es) = Len(shares) + 5
         /\ es[1] = TransferSingle(NoAccount, BaseID(t))
         /\ es[2] = TransferSingle(s, <<t, 1>>)
         /\ es[3] = ValueTransfer(t, NoToken, <<t, 1>>, units)
         /\ es[4].event = "TransferBatch"
         /\ \A i \in 1..Len(shares) :
              es[4 + i] = ValueTransfer(t, <<t, 1>>, <<t, i + 1>>, shares[i].units)
         /\ es[Len(shares) + 5] = ClaimStored(t, units)
<1> DEFINE m == Len(shares)
           one == <<t, 1>>
           ids == [i \in DOMAIN shares |-> <<t, i + 1>>]
           a == <<TransferSingle(NoAccount, BaseID(t)), TransferSingle(s, one),
                  ValueTransfer(t, NoToken, one, units)>>
           b == BatchMinted(s, one, ids, shares)
           c == <<ClaimStored(t, units)>>
<1>1. m \in Nat /\ DOMAIN shares = 1..m
  BY LenProperties
<1>2. \A j \in 1..(m + 1) : <<t, j>> \in TokenIDs
  BY <1>1, MinterAssumption DEF TokenIDs
<1>3. one \in TokenIDs /\ one \in Ends /\ getBaseType(one) = t /\ BaseID(t) \in TokenIDs
  <2>1. 1 \in 1..(m + 1)
    BY <1>1
  <2>2. one \in TokenIDs
    BY <1>2, <2>1
  <2> QED BY <2>2, EndFacts DEF getBaseType
<1>4. ids \in Seq(TokenIDs) /\ Len(ids) = m /\ \A i \in 1..m : ids[i] = <<t, i + 1>>
  <2>1. ASSUME NEW i \in 1..m
        PROVE  <<t, i + 1>> \in TokenIDs
    <3>1. i + 1 \in 1..(m + 1)
      BY <1>1
    <3> QED BY <1>2, <3>1
  <2>2. ids \in [1..m -> TokenIDs] /\ \A i \in 1..m : ids[i] = <<t, i + 1>>
    BY <1>1, <2>1
  <2> HIDE DEF ids
  <2> QED BY <1>1, <2>2, IsASeq, LenProperties
<1>5. /\ TransferSingle(NoAccount, BaseID(t)) \in Events /\ TransferSingle(s, one) \in Events
      /\ ValueTransfer(t, NoToken, one, units) \in Events
      /\ ClaimStored(t, units) \in Events
  BY <1>3, EndFacts, SingleEventTypes, ValueTransferType
<1>6. /\ b \in Seq(Events) /\ Len(b) = m + 1 /\ b[1] = TransferBatch(s, ids)
      /\ \A i \in 1..m : b[i + 1] = ValueTransfer(t, one, <<t, i + 1>>, shares[i].units)
  <2>1. /\ Len(ids) = Len(shares) /\ ids \in Seq(TokenIDs) /\ one \in Ends
        /\ \A i \in 1..Len(shares) : /\ getBaseType(ids[i]) = shares[i].typeID
                                     /\ one = NoToken \/ getBaseType(one) = shares[i].typeID
    BY <1>3, <1>4 DEF getBaseType
  <2>2. /\ b \in Seq(Events) /\ Len(b) = Len(shares) + 1 /\ b[1] = TransferBatch(s, ids)
        /\ \A i \in 1..Len(shares) :
             b[i + 1] = ValueTransfer(shares[i].typeID, one, ids[i], shares[i].units)
    <3> HIDE DEF ids, one
    <3> QED BY <2>1, BatchMintedShape
  <2> QED BY <1>4, <2>2
<1>7. /\ a \in Seq(Events) /\ Len(a) = 3
      /\ a[1] = TransferSingle(NoAccount, BaseID(t)) /\ a[2] = TransferSingle(s, one)
      /\ a[3] = ValueTransfer(t, NoToken, one, units)
  <2> HIDE DEF one
  <2> QED BY <1>5
<1>8. c \in Seq(Events) /\ Len(c) = 1 /\ c[1] = ClaimStored(t, units)
  BY <1>5
<1>9. es = (a \o b) \o c
  BY DEF FractionEvents
<1> HIDE DEF a, b, c, ids, one
<1>10. /\ a \o b \in Seq(Events) /\ Len(a \o b) = m + 4
       /\ (a \o b)[1] = a[1] /\ (a \o b)[2] = a[2] /\ (a \o b)[3] = a[3]
       /\ \A i \in 1..(m + 1) : (a \o b)[3 + i] = b[i]
  <2>1. /\ a \o b \in Seq(Events) /\ Len(a \o b) = Len(a) + Len(b)
        /\ \A i \in 1..Len(a) : (a \o b)[i] = a[i]
        /\ \A i \in 1..Len(b) : (a \o b)[Len(a) + i] = b[i]
    BY <1>6, <1>7, Joined
  <2> QED BY <1>1, <1>6, <1>7, <2>1
<1>11. /\ es \in Seq(Events) /\ Len(es) = m + 5
       /\ \A i \in 1..(m + 4) : es[i] = (a \o b)[i]
       /\ es[(m + 4) + 1] = c[1]
  <2>1. /\ (a \o b) \o c \in Seq(Events) /\ Len((a \o b) \o c) = Len(a \o b) + Len(c)
        /\ \A i \in 1..Len(a \o b) : ((a \o b) \o c)[i] = (a \o b)[i]
        /\ \A i \in 1..Len(c) : ((a \o b) \o c)[Len(a \o b) + i] = c[i]
    BY <1>8, <1>10, Joined
  <2>2. 1 \in 1..Len(c)
    BY <1>8
  <2> QED BY <1>1, <1>8, <1>9, <1>10, <2>1, <2>2
<1>12. es[1] = a[1] /\ es[2] = a[2] /\ es[3] = a[3]
  <2>1. {1, 2, 3} \subseteq 1..(m + 4)
    BY <1>1
  <2> QED BY <1>10, <1>11, <2>1
<1>13. ASSUME NEW i \in 1..(m + 1)
       PROVE  es[3 + i] = b[i]
  <2>1. 3 + i \in 1..(m + 4)
    BY <1>1
  <2> QED BY <1>10, <1>11, <2>1
<1>14. es[4].event = "TransferBatch"
  <2>1. 1 \in 1..(m + 1) /\ 3 + 1 = 4
    BY <1>1
  <2>2. es[4] = b[1]
    BY <1>13, <2>1
  <2> QED BY <1>6, <2>2 DEF TransferBatch
<1>15. ASSUME NEW i \in 1..m
       PROVE  es[4 + i] = ValueTransfer(t, one, <<t, i + 1>>, shares[i].units)
  <2>1. i + 1 \in 1..(m + 1) /\ 3 + (i + 1) = 4 + i
    BY <1>1
  <2>2. es[3 + (i + 1)] = b[i + 1]
    BY <1>13, <2>1
  <2> QED BY <1>6, <2>1, <2>2
<1>16. es[m + 5] = ClaimStored(t, units)
  <2>1. (m + 4) + 1 = m + 5
    BY <1>1
  <2> QED BY <1>8, <1>11, <2>1
<1> QED BY <1>7, <1>11, <1>12, <1>14, <1>15, <1>16 DEF one

LEMMA FractionsAccounted ==
  ASSUME Ready, HolderInv', NEW s \in Accounts, NEW units \in 0..MaxUint, NEW r,
         NEW values \in Seq(0..MaxUint), MintClaimWithFractions(s, units, values, r),
         NEW t, t = NewType, UNCHANGED <<merged, batched, credited>>
  PROVE  Accounted(FractionEvents(s, t, units, NewShares(t, values)))
<1> DEFINE shares == NewShares(t, values)
           items == <<Item(t, values[1])>> \o shares
           m == Len(shares)
<1>1. /\ Len(values) >= 2 /\ SumOf(values) = units
      /\ MintTo(s, items) /\ CreateType(s, r)
      /\ tokenValues' = [MintedValues(items) EXCEPT ![BaseID(t)] = units]
  <2>1. /\ Len(values) \in 2..FractionLimit /\ SumOf(values) = units
        /\ MintNewType(s, units, items, r)
    BY DEF MintClaimWithFractions
  <2> HIDE DEF items
  <2> QED BY <2>1, MinterAssumption DEF MintNewType
<1>2. /\ t \in TypeIDs /\ ~Created(t) /\ maxIndex[t] = 0
      /\ \A u \in TypeIDs : Created(u)' <=> Created(u) \/ u = t
      /\ \A id \in TokenIDs : getBaseType(id) = t => ~Minted(id)
  BY <1>1, NextType
<1>3. /\ Len(values) \in Nat /\ values[1] \in 0..MaxUint /\ values[1] \in Nat
      /\ Item(t, values[1]) \in ItemSet
  <2>1. 1 \in 1..Len(values)
    BY <1>1, LenProperties
  <2>2. values[1] \in 0..MaxUint
    BY <2>1, ElementOfSeq
  <2> QED BY <1>2, <2>2, LenProperties, MinterAssumption DEF Item, ItemSet
<1>4. /\ shares \in Seq(ItemSet) /\ m = Len(values) - 1 /\ m \in Nat /\ m >= 1
      /\ DOMAIN shares = 1..m
      /\ \A i \in 1..m : shares[i].typeID = t /\ shares[i].units \in Nat
  <2>1. shares \in Seq(ItemSet) /\ m = Len(values) - 1
    BY <1>1, <1>2, NewSharesType
  <2>2. \A i \in 1..(Len(values) - 1) : shares[i].typeID = t
    BY DEF NewShares, Item
  <2> HIDE DEF shares
  <2>3. \A i \in 1..m : shares[i] \in ItemSet
    BY <2>1, ElementOfSeq
  <2> QED BY <1>1, <1>3, <2>1, <2>2, <2>3, LenProperties, MinterAssumption DEF ItemSet
<1> HIDE DEF shares
<1>5. /\ items \in Seq(ItemSet) /\ Len(items) = m + 1 /\ DOMAIN items = 1..(m + 1)
      /\ items[1] = Item(t, values[1])
      /\ \A i \in 1..m : items[i + 1] = shares[i]
  <2> DEFINE q == <<Item(t, values[1])>>
  <2>1. q \in Seq(ItemSet) /\ Len(q) = 1 /\ q[1] = Item(t, values[1])
    BY <1>3
  <2> HIDE DEF q
  <2>2. /\ q \o shares \in Seq(ItemSet)
        /\ Len(q \o shares) = Len(q) + Len(shares)
        /\ \A i \in 1..(Len(q) + Len(shares)) :
             (q \o shares)[i] = IF i <= Len(q) THEN q[i] ELSE shares[i - Len(q)]
    BY <1>4, <2>1, ConcatProperties
  <2>3. items = q \o shares
    BY DEF q
  <2> HIDE DEF items, m
  <2>4. /\ m = Len(shares) /\ Len(items) = m + 1
        /\ \A i \in 1..(m + 1) : items[i] = IF i <= 1 THEN q[i] ELSE shares[i - 1]
    BY <1>4, <2>1, <2>2, <2>3 DEF m
  <2>5. ASSUME NEW i \in 1..m
        PROVE  items[i + 1] = shares[i]
    <3>1. i + 1 \in 1..(m + 1) /\ ~(i + 1 <= 1) /\ (i + 1) - 1 = i
      BY <1>4
    <3> QED BY <2>4, <3>1
  <2>6. items[1] = q[1]
    BY <1>4, <2>4
  <2> QED BY <2>1, <2>2, <2>3, <2>4, <2>5, <2>6, LenProperties
<1> HIDE DEF items
<1>6. \A j \in 1..(m + 1) : items[j].typeID = t
  <2> TAKE j \in 1..(m + 1)
  <2>1. CASE j = 1
    BY <1>5, <2>1 DEF Item
  <2>2. CASE j # 1
    <3>1. j - 1 \in 1..m /\ j = (j - 1) + 1
      BY <1>4, <2>2
    <3>2. PICK i \in 1..m : j = i + 1
      BY <3>1
    <3> QED BY <1>4, <1>5, <3>2
  <2> QED BY <2>1, <2>2
<1>7. TypeOK /\ RoomFor(items)
  BY <1>1, ReadyFacts DEF MintTo
<1>8. \A j \in 1..(m + 1) : ItemID(items, j) = <<t, j>> /\ <<t, j>> \in TokenIDs
  <2> TAKE j \in 1..(m + 1)
  <2>1. ItemID(items, j) = <<t, maxIndex[t] + j>>
    <3>1. /\ items \in Seq(ItemSet) /\ j \in 1..Len(items)
          /\ \A i \in 1..Len(items) : items[i].typeID = t
      BY <1>5, <1>6
    <3> QED BY <3>1, OneTypeIDs
  <2>2. maxIndex[t] + j = j
    BY <1>2
  <2>3. ItemID(items, j) \in TokenIDs
    BY <1>5, <1>7, IDsOfItems
  <2> QED BY <2>1, <2>2, <2>3
<1>9. m + 1 <= MaxItems
  <2>1. m + 1 \in 1..(m + 1)
    BY <1>4
  <2>2. <<t, m + 1>> \in TokenIDs
    BY <1>8, <2>1
  <2> QED BY <2>2 DEF TokenIDs
<1>10. PICK es : es = FractionEvents(s, t, units, shares)
  OBVIOUS
<1>11. /\ es \in Seq(Events) /\ Len(es) = m + 5
       /\ es[1] = TransferSingle(NoAccount, BaseID(t))
       /\ es[2] = TransferSingle(s, <<t, 1>>)
       /\ es[3] = ValueTransfer(t, NoToken, <<t, 1>>, units)
       /\ es[4].event = "TransferBatch"
       /\ \A i \in 1..m : es[4 + i] = ValueTransfer(t, <<t, 1>>, <<t, i + 1>>, shares[i].units)
       /\ es[m + 5] = ClaimStored(t, units)
  <2>1. /\ \A i \in 1..Len(shares) : shares[i].typeID = t
        /\ Len(shares) + 1 <= MaxItems /\ t \in TypeIDs /\ shares \in Seq(ItemSet)
    BY <1>2, <1>4, <1>9
  <2> HIDE DEF m
  <2>2. /\ es \in Seq(Events) /\ Len(es) = Len(shares) + 5
        /\ es[1] = TransferSingle(NoAccount, BaseID(t))
        /\ es[2] = TransferSingle(s, <<t, 1>>)
        /\ es[3] = ValueTransfer(t, NoToken, <<t, 1>>, units)
        /\ es[4].event = "TransferBatch"
        /\ \A i \in 1..Len(shares) :
             es[4 + i] = ValueTransfer(t, <<t, 1>>, <<t, i + 1>>, shares[i].units)
        /\ es[Len(shares) + 5] = ClaimStored(t, units)
    <3>1. \A e : e = FractionEvents(s, t, units, shares) =>
            /\ e \in Seq(Events) /\ Len(e) = Len(shares) + 5
            /\ e[1] = TransferSingle(NoAccount, BaseID(t))
            /\ e[2] = TransferSingle(s, <<t, 1>>)
            /\ e[3] = ValueTransfer(t, NoToken, <<t, 1>>, units)
            /\ e[4].event = "TransferBatch"
            /\ \A i \in 1..Len(shares) :
                 e[4 + i] = ValueTransfer(t, <<t, 1>>, <<t, i + 1>>, shares[i].units)
            /\ e[Len(shares) + 5] = ClaimStored(t, units)
      BY <2>1, FractionEventsShape
    <3> QED BY <1>10, <3>1
  <2> QED BY <2>2 DEF m
<1> HIDE DEF m
<1>12. /\ DOMAIN es = 1..(m + 5) /\ es # <<>>
       /\ es[1].event = "TransferSingle" /\ es[1].id = BaseID(t)
       /\ es[2].event = "TransferSingle" /\ es[2].id = <<t, 1>>
       /\ es[3].event = "ValueTransfer" /\ es[3].claim = t /\ es[3].from = NoToken
       /\ es[3].to = <<t, 1>> /\ es[3].value = units
       /\ \A i \in 1..m : /\ es[4 + i].event = "ValueTransfer" /\ es[4 + i].claim = t
                          /\ es[4 + i].from = <<t, 1>> /\ es[4 + i].to = <<t, i + 1>>
                          /\ es[4 + i].value = shares[i].units
       /\ es[m + 5].event = "ClaimStored" /\ es[m + 5].claim = t
  <2>1. DOMAIN es = 1..Len(es) /\ Len(es) # 0
    BY <1>4, <1>11, LenProperties
  <2>2. es # <<>>
    BY <2>1
  <2>3. DOMAIN es = 1..(m + 5)
    BY <1>11, <2>1
  <2>4. \A i \in 1..m :
          LET e == ValueTransfer(t, <<t, 1>>, <<t, i + 1>>, shares[i].units)
          IN  /\ e.event = "ValueTransfer" /\ e.claim = t
              /\ e.from = <<t, 1>> /\ e.to = <<t, i + 1>> /\ e.value = shares[i].units
    BY DEF ValueTransfer
  <2>5. /\ es[1].event = "TransferSingle" /\ es[1].id = BaseID(t)
        /\ es[2].event = "TransferSingle" /\ es[2].id = <<t, 1>>
    BY <1>11 DEF TransferSingle
  <2>6. /\ es[3].event = "ValueTransfer" /\ es[3].claim = t /\ es[3].from = NoToken
        /\ es[3].to = <<t, 1>> /\ es[3].value = units
    BY <1>11 DEF ValueTransfer
  <2>7. es[m + 5].event = "ClaimStored" /\ es[m + 5].claim = t
    BY <1>11 DEF ClaimStored
  <2> QED BY <1>11, <2>2, <2>3, <2>4, <2>5, <2>6, <2>7
<1>13. ASSUME NEW j \in DOMAIN es
       PROVE  /\ es[j].event = "ValueTransfer" => j = 3 \/ \E i \in 1..m : j = 4 + i
              /\ es[j].event = "TransferSingle" => j = 1 \/ j = 2
  <2>1. j \in {1, 2, 3, 4, m + 5} \/ (j - 4 \in 1..m /\ j = 4 + (j - 4))
    BY <1>4, <1>12
  <2>2. j \in {1, 2, 3, 4, m + 5} \/ \E i \in 1..m : j = 4 + i
    BY <2>1
  <2> QED BY <1>11, <1>12, <2>2
<1>14. {1, 2, 3, 4, m + 5} \subseteq DOMAIN es /\ \A i \in 1..m : 4 + i \in DOMAIN es
  BY <1>4, <1>12
<1>15. NoToken # <<t, 1>> /\ <<t, 1>> \in TokenIDs /\ \A i \in 1..m : <<t, i + 1>> \in TokenIDs
  <2>1. 1 \in 1..(m + 1) /\ \A i \in 1..m : i + 1 \in 1..(m + 1)
    BY <1>4
  <2> QED BY <1>8, <2>1, EndFacts
<1>16. CreditsIn(es, <<t, 1>>) = {3}
  <2>1. \A i \in 1..m : <<t, i + 1>> # <<t, 1>>
    BY <1>4
  <2> QED BY <1>12, <1>13, <1>14, <2>1 DEF CreditsIn, Credits
<1>17. ASSUME NEW i \in 1..m
       PROVE  CreditsIn(es, <<t, i + 1>>) = {4 + i}
  <2>1. \A k \in 1..m : <<t, k + 1>> = <<t, i + 1>> => k = i
    BY <1>4
  <2>2. <<t, i + 1>> # <<t, 1>>
    BY <1>4
  <2> QED BY <1>12, <1>13, <1>14, <2>1, <2>2 DEF CreditsIn, Credits
<1>18. NewIDs(items) = {<<t, 1>>} \cup {<<t, i + 1>> : i \in 1..m}
  <2>1. \A j \in 1..(m + 1) : j = 1 \/ \E i \in 1..m : j = i + 1
    <3> TAKE j \in 1..(m + 1)
    <3>1. j = 1 \/ (j - 1 \in 1..m /\ j = (j - 1) + 1)
      BY <1>4
    <3> QED BY <3>1
  <2>2. 1 \in 1..(m + 1) /\ \A i \in 1..m : i + 1 \in 1..(m + 1)
    BY <1>4
  <2>3. NewIDs(items) = {<<t, j>> : j \in 1..(m + 1)}
    BY <1>5, <1>8 DEF NewIDs
  <2> QED BY <2>1, <2>2, <2>3
<1>19. \A id \in TokenIDs \ NewIDs(items) : CreditsIn(es, id) = {}
  <2>1. ASSUME NEW id \in TokenIDs, NEW j \in CreditsIn(es, id)
        PROVE  id \in NewIDs(items)
    <3>1. j \in DOMAIN es /\ es[j].event = "ValueTransfer" /\ es[j].to = id
      BY DEF CreditsIn, Credits
    <3>2. j = 3 \/ \E i \in 1..m : j = 4 + i
      BY <1>13, <3>1
    <3>3. CASE j = 3
      BY <1>12, <1>18, <3>1, <3>3
    <3>4. ASSUME NEW i \in 1..m, j = 4 + i
          PROVE  id \in NewIDs(items)
      <4>1. id = <<t, i + 1>>
        BY <1>12, <3>1, <3>4
      <4> QED BY <1>18, <4>1
    <3> QED BY <3>2, <3>3, <3>4
  <2> QED BY <2>1
<1>20. /\ DebitsIn(es, <<t, 1>>) = {4 + i : i \in 1..m}
       /\ \A id \in TokenIDs : id # <<t, 1>> => DebitsIn(es, id) = {}
  <2>1. ASSUME NEW id \in TokenIDs, NEW j \in DebitsIn(es, id)
        PROVE  id = <<t, 1>> /\ \E i \in 1..m : j = 4 + i
    <3>1. j \in DOMAIN es /\ es[j].event = "ValueTransfer" /\ es[j].from = id
      BY DEF DebitsIn, Debits
    <3>2. j = 3 \/ \E i \in 1..m : j = 4 + i
      BY <1>13, <3>1
    <3>3. j # 3
      BY <1>12, <3>1, EndFacts
    <3> QED BY <1>12, <3>1, <3>2, <3>3
  <2>2. \A i \in 1..m : 4 + i \in DebitsIn(es, <<t, 1>>)
    BY <1>12, <1>14 DEF DebitsIn, Debits
  <2> QED BY <1>15, <2>1, <2>2
<1>21. ASSUME NEW id \in TokenIDs
       PROVE  /\ Minted(id) => Minted(id)'
              /\ id \in NewIDs(items) => ~Minted(id) /\ Minted(id)'
              /\ Minted(id)' /\ ~Minted(id) => id \in NewIDs(items)
  <2>1. id \in NewIDs(items) => ~Minted(id) /\ Minted(id)'
    BY <1>1, <1>5, ReadyFacts, MintTouchesFresh
  <2>2. Minted(id)' /\ ~Minted(id) => id \in NewIDs(items)
    BY <1>1, <1>5, <1>7, MintSkipsNone
  <2>3. /\ maxIndex[getBaseType(id)] <= maxIndex'[getBaseType(id)]
        /\ maxIndex[getBaseType(id)] \in Nat /\ maxIndex'[getBaseType(id)] \in Nat
    <3>1. /\ maxIndex' \in [TypeIDs -> 0..MaxItems]
          /\ \A u \in TypeIDs : maxIndex[u] <= maxIndex'[u]
      BY <1>1, <1>5, <1>7, MintToType
    <3>2. getBaseType(id) \in TypeIDs
      BY EndFacts
    <3> QED BY <3>1, <3>2, ReadyFacts, MinterAssumption
  <2>4. Minted(id) => Minted(id)'
    BY <2>3 DEF Minted
  <2> QED BY <2>1, <2>2, <2>4
<1>22. MintsListed(es)
  <2>1. ASSUME NEW id \in NewIDs(items)
        PROVE  \E j : CreditsIn(es, id) = {j}
    BY <1>16, <1>17, <1>18
  <2>2. ASSUME NEW id \in TokenIDs, NEW j \in CreditsIn(es, id)
        PROVE  ~Minted(id) /\ Minted(id)' /\ CreditsIn(es, id) = {j}
    <3>1. id \in NewIDs(items)
      BY <1>19, <2>2
    <3> QED BY <1>21, <2>1, <2>2, <3>1
  <2>3. ASSUME NEW id \in TokenIDs, Minted(id)', ~Minted(id)
        PROVE  CreditsIn(es, id) # {}
    BY <1>21, <2>1, <2>3
  <2>4. ASSUME NEW id \in TokenIDs, NEW j \in DebitsIn(es, id)
        PROVE  \E k \in CreditsIn(es, id) : k < j
    <3>1. id = <<t, 1>>
      BY <1>20, <2>4
    <3>2. PICK i \in 1..m : j = 4 + i
      BY <1>20, <2>4, <3>1
    <3>3. 3 < j
      BY <1>4, <3>2
    <3> QED BY <1>16, <3>1, <3>3
  <2> QED BY <1>21, <2>2, <2>3, <2>4 DEF MintsListed
<1>23. ASSUME NEW id \in TokenIDs, ~isBaseType(id)
       PROVE  tokenValues'[id] = MintedValues(items)[id] /\ tokenValues[id] \in Nat
  <2>1. id # BaseID(t)
    BY <1>23 DEF BaseID, isBaseType, getItemIndex
  <2>2. DOMAIN MintedValues(items) = TokenIDs
    BY DEF MintedValues
  <2> QED BY <1>1, <2>1, <2>2, ReadyFacts
<1>24. ASSUME NEW j \in 1..(m + 1)
       PROVE  /\ tokenValues[<<t, j>>] = 0 /\ tokenValues'[<<t, j>>] = items[j].units
              /\ <<t, j>> \in TokenIDs
  <2>1. <<t, j>> \in TokenIDs /\ getBaseType(<<t, j>>) = t /\ ~isBaseType(<<t, j>>)
    BY <1>8 DEF getBaseType, isBaseType, getItemIndex
  <2>2. ~Minted(<<t, j>>) /\ <<t, j>> \notin credited
    BY <1>2, <2>1, ReadyFacts DEF CreditedAreMerged
  <2>3. tokenValues[<<t, j>>] = 0
    BY <2>1, <2>2, ReadyFacts DEF ValuesAtMinted
  <2>4. MintedValues(items)[ItemID(items, j)] = items[j].units
    BY <1>5, <1>7, MintedValueOf
  <2> QED BY <1>8, <1>23, <2>1, <2>3, <2>4
<1>25. /\ Total(ValuesOf(es), DebitsIn(es, <<t, 1>>)) = SumOf(values) - values[1]
       /\ Total(ValuesOf(es), DebitsIn(es, <<t, 1>>)) \in Nat
  <2>1. \A i \in 1..m : ValuesOf(es)[4 + i] = shares[i].units
    BY <1>12, <1>14 DEF ValuesOf
  <2>2. /\ Total(ValuesOf(es), {4 + i : i \in 1..m}) = Total(UnitsAt(shares), DOMAIN shares)
        /\ Total(UnitsAt(shares), DOMAIN shares) \in Nat
    <3>1. 4 \in Nat /\ \A i \in 1..Len(shares) : ValuesOf(es)[4 + i] = shares[i].units
      BY <2>1 DEF m
    <3>2. /\ Total(ValuesOf(es), {4 + i : i \in 1..Len(shares)}) =
               Total(UnitsAt(shares), DOMAIN shares)
          /\ Total(UnitsAt(shares), DOMAIN shares) \in Nat
      BY <1>4, <3>1, CarriedUnits
    <3> QED BY <3>2 DEF m
  <2>3. UnitsFor(shares, t) = Total(UnitsAt(shares), DOMAIN shares)
    BY <1>4, OneTypeUnits
  <2>4. UnitsFor(shares, t) = SumOf(values) - values[1]
    BY <1>1, <1>2, SharesSum DEF shares
  <2> QED BY <1>20, <2>2, <2>3, <2>4
<1>26. ASSUME NEW id \in TokenIDs, ~isBaseType(id)
       PROVE  /\ tokenValues'[id] + Total(ValuesOf(es), DebitsIn(es, id)) =
                   tokenValues[id] + Total(ValuesOf(es), CreditsIn(es, id))
              /\ tokenValues'[id] # 0 => tokenValues[id] # 0 \/ Minted(id)'
  <2>1. CASE id = <<t, 1>>
    <3>1. tokenValues[id] = 0 /\ tokenValues'[id] = values[1]
      <4>1. 1 \in 1..(m + 1)
        BY <1>4
      <4>2. items[1].units = values[1]
        BY <1>5 DEF Item
      <4> QED BY <1>24, <2>1, <4>1, <4>2
    <3>2. Total(ValuesOf(es), CreditsIn(es, id)) = units
      <4>1. ValuesOf(es)[3] = units /\ ValuesOf(es)[3] \in Nat
        BY <1>12, <1>14, MinterAssumption DEF ValuesOf
      <4>2. Total(ValuesOf(es), {3}) = ValuesOf(es)[3]
        BY <4>1, TotalSingleton
      <4> QED BY <1>16, <2>1, <4>1, <4>2
    <3>3. id \in NewIDs(items)
      BY <1>18, <2>1
    <3>4. units \in Nat
      BY MinterAssumption
    <3> QED BY <1>1, <1>3, <1>21, <1>25, <2>1, <3>1, <3>2, <3>3, <3>4
  <2>2. ASSUME NEW i \in 1..m, id = <<t, i + 1>>
        PROVE  /\ tokenValues'[id] + Total(ValuesOf(es), DebitsIn(es, id)) =
                    tokenValues[id] + Total(ValuesOf(es), CreditsIn(es, id))
               /\ Minted(id)'
    <3>1. i + 1 \in 1..(m + 1) /\ i + 1 # 1
      BY <1>4
    <3>2. tokenValues[id] = 0 /\ tokenValues'[id] = shares[i].units
      <4>1. tokenValues[<<t, i + 1>>] = 0 /\ tokenValues'[<<t, i + 1>>] = items[i + 1].units
        BY <1>24, <3>1
      <4> QED BY <1>5, <2>2, <4>1
    <3>3. Total(ValuesOf(es), CreditsIn(es, id)) = shares[i].units
      <4>1. ValuesOf(es)[4 + i] = shares[i].units /\ ValuesOf(es)[4 + i] \in Nat
        BY <1>4, <1>12, <1>14 DEF ValuesOf
      <4>2. Total(ValuesOf(es), {4 + i}) = ValuesOf(es)[4 + i]
        BY <4>1, TotalSingleton
      <4> QED BY <1>17, <2>2, <4>1, <4>2
    <3>4. Total(ValuesOf(es), DebitsIn(es, id)) = 0
      <4>1. id # <<t, 1>>
        BY <2>2, <3>1
      <4> QED BY <1>20, <4>1, TotalEmpty
    <3>5. id \in NewIDs(items)
      BY <1>18, <2>2
    <3> QED BY <1>4, <1>21, <3>2, <3>3, <3>4, <3>5
  <2>3. CASE id \notin NewIDs(items)
    <3>1. tokenValues'[id] = tokenValues[id] /\ tokenValues[id] \in Nat
      BY <1>23, <1>26, <2>3 DEF MintedValues
    <3>2. id # <<t, 1>>
      BY <1>18, <2>3
    <3>3. CreditsIn(es, id) = {} /\ DebitsIn(es, id) = {}
      BY <1>19, <1>20, <2>3, <3>2
    <3> QED BY <3>1, <3>3
  <2> QED BY <1>18, <2>1, <2>2, <2>3
<1>27. UnitsListed(es)
  <2>1. ASSUME NEW u \in TypeIDs, NEW id \in FractionIDs(u)
        PROVE  id \in TokenIDs /\ ~isBaseType(id)
    BY TokenIDsFinite DEF FractionIDs, isBaseType, getItemIndex
  <2> QED BY <1>26, <2>1 DEF UnitsListed
<1>28. OwnersListed(es)
  <2>1. ASSUME NEW id \in TokenIDs, owners'[id] # owners[id]
        PROVE  ~Minted(id)
    <3>1. id \in NewIDs(items)
      BY <1>1, <2>1 DEF MintTo
    <3> QED BY <1>21, <3>1
  <2>2. ASSUME NEW id \in TokenIDs, NEW i \in DOMAIN es, Reassigns(es[i], id),
               Minted(id) \/ \E j \in CreditsIn(es, id) : j < i
        PROVE  FALSE
    <3>1. i = 1 \/ i = 2
      BY <1>13, <2>2 DEF Reassigns
    <3>2. getBaseType(id) = t
      BY <1>12, <2>2, <3>1 DEF Reassigns, BaseID, getBaseType
    <3>3. ~Minted(id)
      BY <1>2, <3>2
    <3>4. PICK j \in CreditsIn(es, id) : j < i
      BY <2>2, <3>3
    <3>5. j = 3 \/ \E k \in 1..m : j = 4 + k
      BY <1>13, <3>4 DEF CreditsIn, Credits
    <3> QED BY <1>4, <3>1, <3>4, <3>5
  <2> QED BY <2>1, <2>2 DEF OwnersListed
<1>29. Announced(es)
  <2>1. \A i \in DOMAIN es : es[i].event = "ValueTransfer" => es[i].claim = t
    BY <1>12, <1>13
  <2>2. m + 5 \in DOMAIN es /\ es[m + 5].event = "ClaimStored" /\ es[m + 5].claim = t
    BY <1>12, <1>14
  <2> QED BY <1>2, <1>11, <1>12, <2>1, <2>2 DEF Announced
<1>30. UnitsFound'
  <2>1. merged' = merged /\ credited' = credited
    OBVIOUS
  <2>2. \A u \in TypeIDs : Created(u) => Created(u)'
    BY <1>2
  <2>3. ValuesAtMinted'
    <3>1. ASSUME NEW id \in TokenIDs \ credited, ~isBaseType(id), tokenValues'[id] # 0
          PROVE  Minted(id)'
      BY <1>21, <1>26, <3>1, ReadyFacts DEF ValuesAtMinted
    <3> QED BY <2>1, <3>1 DEF ValuesAtMinted
  <2>4. CreditedAreMerged'
    <3>1. ASSUME NEW id \in credited
          PROVE  id \in TokenIDs /\ getBaseType(id) \in merged /\ Created(getBaseType(id))'
      BY <2>2, ReadyFacts, EndFacts DEF CreditedAreMerged
    <3> QED BY <2>1, <3>1 DEF CreditedAreMerged
  <2>5. MintedAreCreated'
    <3>1. \A i \in 1..Len(items) : Created(items[i].typeID)'
      BY <1>2, <1>5, <1>6
    <3> QED BY <1>1, <1>5, <2>2, <3>1, ReadyFacts, MintKeepsCreated
  <2> QED BY <2>3, <2>4, <2>5 DEF UnitsFound
<1> QED BY <1>10, <1>22, <1>27, <1>28, <1>29, <1>30 DEF Accounted, shares

LEMMA MintClaimWithFractionsAccounted ==
  ASSUME Ready, HolderInv', NEW s \in Accounts, NEW units \in 0..MaxUint, NEW r \in Policies,
         NEW values \in Seq(0..MaxUint), EmitMintClaimWithFractions(s, units, values, r)
  PROVE  \E es : Emits(es) /\ Accounted(es)
<1>1. CASE /\ s \notin Contracts
           /\ MintClaimWithFractions(s, units, values, r)
           /\ Emit(FractionEvents(s, NewType, units, NewShares(NewType, values)))
           /\ UNCHANGED <<calls, merged, batched, credited>>
  BY <1>1, FractionsAccounted DEF Emits
<1>2. CASE /\ s \in Contracts /\ units = SumOf(values)
           /\ CallMintClaimWithFractions(s, values, r)
           /\ EmitNewToken(s, Len(calls) + 1, units)
           /\ UNCHANGED <<merged, batched, credited>>
  <2>1. calls \in Seq(CallSet)
    BY DEF Ready, ReentrantInv, CallsOK
  <2>2. Len(calls) + 1 \in Nat
    BY <2>1, LenProperties
  <2>3. /\ MintClaim(s, units, typeRestrictions[NewType])
        /\ calls' = Append(calls, Call(NewType, values, r))
    BY <1>2 DEF CallMintClaimWithFractions, CallReceiver
  <2>4. DOMAIN calls' = 1..(Len(calls) + 1)
    BY <2>1, <2>3, AppendDomain
  <2> QED BY <1>2, <2>2, <2>3, <2>4, NewTokenAccounted DEF MayWait
<1> QED BY <1>1, <1>2 DEF EmitMintClaimWithFractions, FractionEvents, TypeEvent

-----------------------------------------------------------------------------
(* A transaction is a step of the contract with its events                 *)

\* Case by case, with the types of the arguments.
LEMMA TransactCases ==
  ASSUME NEW s \in Accounts, Transact(s)
  PROVE  \/ \E units \in 0..MaxUint, r \in Policies : EmitMintClaim(s, units, r)
         \/ \E units \in 0..MaxUint, r \in Policies, values \in Seq(0..MaxUint) :
              /\ values \in SeqsBetween(0..MaxUint, 2, FractionLimit)
              /\ EmitMintClaimWithFractions(s, units, values, r)
         \/ \E account \in Accounts, units \in 0..MaxUint, root \in SUBSET Leaves, r \in Policies :
              root \in Allowlists /\ EmitCreateAllowlist(account, units, root, r)
         \/ \E account \in Accounts, t \in TypeIDs, units \in 0..MaxUint :
              EmitMintClaimFromAllowlist(s, account, t, units)
         \/ \E account \in Accounts, items \in Seq(ItemSet) :
              /\ items \in SeqsBetween(ItemSet, 1, MaxBatch) /\ items # <<>>
              /\ EmitBatchMintClaims(s, account, items)
         \/ \E account \in Accounts, id \in TokenIDs, values \in Seq(0..MaxUint) :
              /\ values \in SeqsBetween(0..MaxUint, 2, FractionLimit) /\ Len(values) >= 2
              /\ EmitSplitFraction(s, account, id, values)
         \/ \E account \in Accounts, ids \in Seq(TokenIDs) :
              /\ ids \in SeqsBetween(TokenIDs, 2, FractionLimit) /\ Len(ids) >= 2
              /\ EmitMergeFractions(s, account, ids)
         \/ \E account \in Accounts, id \in TokenIDs : EmitBurnFraction(s, account, id)
         \/ \E to \in Accounts \cup {NoAccount}, batch \in Seq(Transfers) :
              /\ batch \in SeqsBetween(Transfers, 1, MaxBatch) /\ Len(batch) >= 1
              /\ \/ \E from \in Accounts : to \in Accounts /\ SafeBatchTransferFrom(s, from, to, batch)
                 \/ to \in Accounts /\ SafeBatchTransferToSelf(s, to, batch)
                 \/ to = NoAccount /\ \E account \in Accounts : BurnBatch(s, account, batch)
              /\ EmitTransfer(batch, to)
<1>1. /\ \A values \in SeqsBetween(0..MaxUint, 2, FractionLimit) :
           values \in Seq(0..MaxUint) /\ Len(values) >= 2
      /\ \A ids \in SeqsBetween(TokenIDs, 2, FractionLimit) : ids \in Seq(TokenIDs) /\ Len(ids) >= 2
      /\ \A items \in SeqsBetween(ItemSet, 1, MaxBatch) :
           items \in Seq(ItemSet) /\ items # <<>>
      /\ \A batch \in SeqsBetween(Transfers, 1, MaxBatch) :
           batch \in Seq(Transfers) /\ Len(batch) >= 1
  <2>1. ASSUME NEW S, NEW lo \in Nat, NEW hi \in Nat, NEW q \in SeqsBetween(S, lo, hi)
        PROVE  q \in Seq(S) /\ Len(q) >= lo
    <3>1. q \in Seq(S) /\ Len(q) \in lo..hi
      BY SeqsBetweenType
    <3> QED BY <3>1
  <2>2. FractionLimit \in Nat /\ MaxBatch \in Nat /\ 1 \in Nat /\ 2 \in Nat
    BY MinterAssumption
  <2>3. ASSUME NEW values \in SeqsBetween(0..MaxUint, 2, FractionLimit)
        PROVE  values \in Seq(0..MaxUint) /\ Len(values) >= 2
    BY <2>1, <2>2
  <2>4. ASSUME NEW ids \in SeqsBetween(TokenIDs, 2, FractionLimit)
        PROVE  ids \in Seq(TokenIDs) /\ Len(ids) >= 2
    BY <2>1, <2>2
  <2>5. ASSUME NEW items \in SeqsBetween(ItemSet, 1, MaxBatch)
        PROVE  items \in Seq(ItemSet) /\ items # <<>>
    <3>1. items \in Seq(ItemSet) /\ Len(items) >= 1
      BY <2>1, <2>2
    <3> QED BY <3>1, EmptySeq
  <2>6. ASSUME NEW batch \in SeqsBetween(Transfers, 1, MaxBatch)
        PROVE  batch \in Seq(Transfers) /\ Len(batch) >= 1
    BY <2>1, <2>2
  <2> QED BY <2>3, <2>4, <2>5, <2>6
<1>2. \A root \in Allowlists : root \in SUBSET Leaves
  BY MinterAssumption
<1>3. ItemSet = [typeID : TypeIDs, units : 0..MaxUint]
  BY DEF ItemSet
<1>4. CASE \E units \in 0..MaxUint, r \in Policies :
             \E fractions \in SeqsBetween(0..MaxUint, 2, FractionLimit) :
               EmitMintClaimWithFractions(s, units, fractions, r)
  BY <1>1, <1>4
<1>5. CASE \E account \in Accounts, units \in 0..MaxUint, root \in Allowlists, r \in Policies :
             EmitCreateAllowlist(account, units, root, r)
  BY <1>2, <1>5
<1>6. CASE \E account \in Accounts, items \in SeqsBetween(ItemSet, 1, MaxBatch) :
             EmitBatchMintClaims(s, account, items)
  BY <1>1, <1>6
<1>7. CASE \E account \in Accounts, id \in TokenIDs,
              values \in SeqsBetween(0..MaxUint, 2, FractionLimit) :
             EmitSplitFraction(s, account, id, values)
  BY <1>1, <1>7
<1>8. CASE \E account \in Accounts, ids \in SeqsBetween(TokenIDs, 2, FractionLimit) :
             EmitMergeFractions(s, account, ids)
  BY <1>1, <1>8
<1>9. CASE \E from, to \in Accounts, batch \in SeqsBetween(Transfers, 1, MaxBatch) :
             \/ SafeBatchTransferFrom(s, from, to, batch) /\ EmitTransfer(batch, to)
             \/ /\ from = to
                /\ SafeBatchTransferToSelf(s, from, batch)
                /\ EmitTransfer(batch, to)
  BY <1>1, <1>9
<1>10. CASE \E account \in Accounts, batch \in SeqsBetween(Transfers, 1, MaxBatch) :
              BurnBatch(s, account, batch) /\ EmitTransfer(batch, NoAccount)
  BY <1>1, <1>10
<1> QED BY <1>3, <1>4, <1>5, <1>6, <1>7, <1>8, <1>9, <1>10 DEF Transact

LEMMA TransactIsNext ==
  ASSUME NEW s \in Accounts, Transact(s)
  PROVE  \/ NextBy(s) /\ UNCHANGED calls
         \/ /\ s \in Contracts
            /\ \E r \in Policies :
                 \/ \E units \in 0..MaxUint : CallMintClaim(s, units, r)
                 \/ \E fractions \in SeqsBetween(0..MaxUint, 2, FractionLimit) :
                      CallMintClaimWithFractions(s, fractions, r)
<1> DEFINE Alone == NextBy(s) /\ UNCHANGED calls
           Called == /\ s \in Contracts
                     /\ \E r \in Policies :
                          \/ \E units \in 0..MaxUint : CallMintClaim(s, units, r)
                          \/ \E fractions \in SeqsBetween(0..MaxUint, 2, FractionLimit) :
                               CallMintClaimWithFractions(s, fractions, r)
<1>1. ASSUME NEW units \in 0..MaxUint, NEW r \in Policies, EmitMintClaim(s, units, r)
      PROVE  Alone \/ Called
  BY <1>1 DEF EmitMintClaim, NextBy, MintBy
<1>2. ASSUME NEW units \in 0..MaxUint, NEW r \in Policies,
             NEW values \in SeqsBetween(0..MaxUint, 2, FractionLimit),
             EmitMintClaimWithFractions(s, units, values, r)
      PROVE  Alone \/ Called
  BY <1>2 DEF EmitMintClaimWithFractions, NextBy, MintBy
<1>3. ASSUME NEW account \in Accounts, NEW units \in 0..MaxUint, NEW root \in Allowlists,
             NEW r \in Policies, EmitCreateAllowlist(account, units, root, r)
      PROVE  Alone
  BY <1>3 DEF EmitCreateAllowlist, NextBy, MintBy
<1>4. ASSUME NEW account \in Accounts, NEW t \in TypeIDs, NEW units \in 0..MaxUint,
             MintClaimFromAllowlist(s, account, t, units), UNCHANGED calls
      PROVE  Alone
  BY <1>4 DEF NextBy, MintBy
<1>5. ASSUME NEW account \in Accounts, NEW items \in SeqsBetween(ItemSet, 1, MaxBatch),
             EmitBatchMintClaims(s, account, items)
      PROVE  Alone
  <2>1. BatchMintClaimsFromAllowlists(s, account, items) /\ UNCHANGED calls
    BY <1>5 DEF EmitBatchMintClaims, EmitBatchMinted
  <2>2. /\ items \in Seq(ItemSet) /\ Len(items) \in 1..MaxBatch
        /\ \A i \in 1..Len(items) : items[i] \in ItemSet
    BY SeqsBetweenType, MinterAssumption
  <2>3. CASE Len(items) = 1
    <3>1. items[1] \in ItemSet
      BY <2>2, <2>3
    <3>2. items = <<items[1]>>
      BY <2>2, <2>3
    <3>3. items[1] = Item(items[1].typeID, items[1].units)
      BY <3>1 DEF ItemSet, Item
    <3>4. MintClaimFromAllowlist(s, account, items[1].typeID, items[1].units)
      BY <2>1, <3>2, <3>3 DEF MintClaimFromAllowlist
    <3> QED BY <1>4, <2>1, <3>1, <3>4 DEF ItemSet
  <2>4. CASE Len(items) # 1
    <3>1. items \in SeqsBetween([typeID : TypeIDs, units : 0..MaxUint], 2, MaxBatch)
      <4>1. Len(items) \in 2..MaxBatch
        <5>1. PICK n : n = Len(items)
          OBVIOUS
        <5>2. n \in 1..MaxBatch /\ MaxBatch \in Nat /\ n # 1
          BY <2>2, <2>4, <5>1, MinterAssumption
        <5>3. n \in 2..MaxBatch
          BY <5>2
        <5> QED BY <5>1, <5>3
      <4>2. items \in [1..Len(items) -> ItemSet]
        BY <2>2
      <4> QED BY <4>1, <4>2 DEF SeqsBetween, ItemSet
    <3> QED BY <2>1, <3>1 DEF NextBy, MintBy
  <2> QED BY <2>3, <2>4
<1>6. ASSUME NEW account \in Accounts, NEW id \in TokenIDs,
             NEW values \in SeqsBetween(0..MaxUint, 2, FractionLimit),
             EmitSplitFraction(s, account, id, values)
      PROVE  Alone
  BY <1>6 DEF EmitSplitFraction, EmitBatchMinted, NextBy, UnitsBy
<1>7. ASSUME NEW account \in Accounts, NEW ids \in SeqsBetween(TokenIDs, 2, FractionLimit),
             EmitMergeFractions(s, account, ids)
      PROVE  Alone
  BY <1>7 DEF EmitMergeFractions, NextBy, UnitsBy
<1>8. ASSUME NEW account \in Accounts, NEW id \in TokenIDs, EmitBurnFraction(s, account, id)
      PROVE  Alone
  BY <1>8 DEF EmitBurnFraction, NextBy, UnitsBy
<1>9. ASSUME NEW from \in Accounts, NEW to \in Accounts,
             NEW batch \in SeqsBetween(Transfers, 1, MaxBatch),
             \/ SafeBatchTransferFrom(s, from, to, batch)
             \/ SafeBatchTransferToSelf(s, from, batch)
             \/ BurnBatch(s, from, batch),
             UNCHANGED calls
      PROVE  Alone
  BY <1>9 DEF NextBy, TokensBy
<1>10. ASSUME NEW account \in Accounts, NEW t \in TypeIDs, NEW units \in 0..MaxUint,
              EmitMintClaimFromAllowlist(s, account, t, units)
       PROVE  Alone
  BY <1>4, <1>10 DEF EmitMintClaimFromAllowlist
<1>11. ASSUME NEW to \in Accounts \cup {NoAccount},
              NEW batch \in SeqsBetween(Transfers, 1, MaxBatch),
              \/ \E from \in Accounts : to \in Accounts /\ SafeBatchTransferFrom(s, from, to, batch)
              \/ to \in Accounts /\ SafeBatchTransferToSelf(s, to, batch)
              \/ to = NoAccount /\ \E account \in Accounts : BurnBatch(s, account, batch),
              EmitTransfer(batch, to)
       PROVE  Alone
  <2>1. UNCHANGED calls
    BY <1>11 DEF EmitTransfer
  <2> QED BY <1>9, <1>11, <2>1
<1> QED BY TransactCases, <1>1, <1>2, <1>3, <1>5, <1>6, <1>7, <1>8, <1>10, <1>11

\* And so a step of the contract with callbacks.
LEMMA TransactReentrant ==
  ASSUME WaitingOK, CallsOK, NEW s \in Accounts, waiting = <<>> \/ s \in Contracts, Transact(s)
  PROVE  ReentrantNext
<1>1. waiting = <<>> => DOMAIN calls = {}
  <2>1. waiting = <<>> => DOMAIN waiting = {}
    OBVIOUS
  <2>2. \A k \in DOMAIN calls : \E i \in DOMAIN waiting : waiting[i].call = k
    BY DEF WaitingOK
  <2> QED BY <2>1, <2>2
<1>2. DOMAIN calls = {} => calls = <<>>
  <2>1. calls \in Seq(CallSet)
    BY DEF CallsOK
  <2>2. DOMAIN calls = {} => Len(calls) = 0
    BY <2>1, LenProperties
  <2> QED BY <2>1, <2>2, EmptySeq
<1>3. calls = <<>> \/ s \in Contracts
  BY <1>1, <1>2
<1> QED BY <1>3, TransactIsNext DEF ReentrantNext

LEMMA TransactAccounted ==
  ASSUME Ready, WaitingOK, NEW s \in Accounts, waiting = <<>> \/ s \in Contracts, Transact(s)
  PROVE  ReentrantInv' /\ \E es : Emits(es) /\ Accounted(es)
<1>1. ReentrantInv'
  BY TransactReentrant, ReentrantKeeps DEF Ready, ReentrantInv
<1>2. HolderInv'
  BY <1>1 DEF ReentrantInv, UnitsInv
<1>3. ASSUME NEW to \in Accounts \cup {NoAccount}, NEW batch \in Seq(Transfers), Len(batch) >= 1,
             \/ \E from \in Accounts : to \in Accounts /\ SafeBatchTransferFrom(s, from, to, batch)
             \/ to \in Accounts /\ SafeBatchTransferToSelf(s, to, batch)
             \/ to = NoAccount /\ \E account \in Accounts : BurnBatch(s, account, batch),
             EmitTransfer(batch, to)
      PROVE  \E es : Emits(es) /\ Accounted(es)
  <2>1. RecordOwner(batch, to) /\ UNCHANGED <<typeVars, maxIndex, tokenValues>>
    BY <1>3 DEF SafeBatchTransferFrom, SafeBatchTransferToSelf, BurnBatch
  <2> QED BY <1>2, <1>3, <2>1, TransferAccounted
<1>4. \E es : Emits(es) /\ Accounted(es)
  BY TransactCases, <1>2, <1>3, MintClaimAccounted, MintClaimWithFractionsAccounted,
     CreateAllowlistAccounted, MintClaimFromAllowlistAccounted, BatchMintClaimsAccounted,
     SplitFractionAccounted, MergeAccounted, BurnAccounted
<1> QED BY <1>1, <1>4

\* What has been noted of a token or a type stays noted.
LEMMA HistoryGrows ==
  ASSUME NEW s \in Accounts, Transact(s), merged \subseteq TypeIDs,
         batched \subseteq TokenIDs, credited \subseteq TokenIDs
  PROVE  /\ merged \subseteq merged' /\ merged' \subseteq TypeIDs
         /\ batched \subseteq batched' /\ batched' \subseteq TokenIDs
         /\ credited \subseteq credited' /\ credited' \subseteq TokenIDs
<1>1. ASSUME NEW account \in Accounts, NEW ids \in Seq(TokenIDs), Len(ids) >= 2,
             EmitMergeFractions(s, account, ids)
      PROVE  /\ merged \subseteq merged' /\ merged' \subseteq TypeIDs
             /\ batched \subseteq batched' /\ batched' \subseteq TokenIDs
             /\ credited \subseteq credited' /\ credited' \subseteq TokenIDs
  <2>1. Len(ids) \in 1..Len(ids) /\ 1..(Len(ids) - 1) \subseteq 1..Len(ids)
    BY <1>1, LenProperties
  <2>2. \A i \in 1..Len(ids) : ids[i] \in TokenIDs
    BY ElementOfSeq
  <2>3. Target(ids) \in TokenIDs /\ Sources(ids) \subseteq TokenIDs
    BY <2>1, <2>2 DEF Target, Sources
  <2>4. getBaseType(Target(ids)) \in TypeIDs
    BY <2>3, EndFacts
  <2> QED BY <1>1, <2>3, <2>4 DEF EmitMergeFractions
<1>2. ASSUME NEW to, NEW batch \in Seq(Transfers), EmitTransfer(batch, to)
      PROVE  /\ merged \subseteq merged' /\ merged' \subseteq TypeIDs
             /\ batched \subseteq batched' /\ batched' \subseteq TokenIDs
             /\ credited \subseteq credited' /\ credited' \subseteq TokenIDs
  <2>1. \A i \in DOMAIN batch : batch[i].id \in TokenIDs
    <3>1. DOMAIN batch = 1..Len(batch) /\ \A i \in 1..Len(batch) : batch[i] \in Transfers
      BY LenProperties, ElementOfSeq
    <3> QED BY <3>1 DEF Transfers
  <2>2. /\ merged' = merged /\ credited' = credited
        /\ batched' = batched \/ batched' = batched \cup {batch[i].id : i \in DOMAIN batch}
    BY <1>2 DEF EmitTransfer
  <2> QED BY <2>1, <2>2
<1>3. ASSUME UNCHANGED <<merged, batched, credited>>
      PROVE  /\ merged \subseteq merged' /\ merged' \subseteq TypeIDs
             /\ batched \subseteq batched' /\ batched' \subseteq TokenIDs
             /\ credited \subseteq credited' /\ credited' \subseteq TokenIDs
  BY <1>3
<1> QED BY TransactCases, <1>1, <1>2, <1>3
     DEF EmitMintClaim, EmitMintClaimWithFractions, EmitCreateAllowlist,
         EmitMintClaimFromAllowlist, EmitBatchMintClaims, EmitSplitFraction, EmitBatchMinted,
         EmitBurnFraction

-----------------------------------------------------------------------------
(* What each step does to the places of events                             *)

LEMMA BlocksAppended ==
  ASSUME NEW f \in Seq(BlockSet), NEW b \in BlockSet
  PROVE  /\ Append(f, b) \in Chains /\ Append(f, b) # <<>>
         /\ Len(Append(f, b)) = Len(f) + 1 /\ Len(f) \in Nat
         /\ \A k \in 1..Len(f) : Append(f, b)[k] = f[k]
         /\ Append(f, b)[Len(Append(f, b))] = b
<1>1. /\ Append(f, b) \in Seq(BlockSet) /\ Append(f, b) # <<>>
      /\ Len(Append(f, b)) = Len(f) + 1 /\ Len(f) \in Nat
      /\ \A k \in 1..Len(f) : Append(f, b)[k] = f[k]
      /\ Append(f, b)[Len(f) + 1] = b
  BY AppendProperties, LenProperties
<1> QED BY <1>1 DEF Chains

LEMMA ChainTyped ==
  ASSUME ChainOK, TypeOK
  PROVE  /\ Chain \in Chains /\ Chain # <<>> /\ Len(Chain) = Len(feed) + 1 /\ Len(feed) \in Nat
         /\ \A k \in 1..Len(feed) : Chain[k] = feed[k]
         /\ Chain[Len(Chain)].txs = block.txs
         /\ Chain[Len(Chain)].events = OpenEvents
         /\ Chain[Len(Chain)].owners = owners
         /\ IsFiniteSet(Places)
         /\ \A p \in Places : At(p) \in Events /\ p[1] \in 1..Len(Chain)
<1> DEFINE b == [txs |-> block.txs, events |-> OpenEvents, owners |-> owners]
<1>1. feed \in Seq(BlockSet) /\ b \in BlockSet
  <2>1. OpenEvents \in Seq(Events)
    BY ConcatProperties DEF ChainOK, OpenEvents
  <2> QED BY <2>1 DEF ChainOK, BlockSet, TypeOK
<1>2. Chain = Append(feed, b)
  BY DEF Chain
<1>3. b.txs = block.txs /\ b.events = OpenEvents /\ b.owners = owners
  OBVIOUS
<1> HIDE DEF b
<1>4. /\ Chain \in Chains /\ Chain # <<>> /\ Len(Chain) = Len(feed) + 1 /\ Len(feed) \in Nat
      /\ \A k \in 1..Len(feed) : Chain[k] = feed[k]
      /\ Chain[Len(Chain)] = b
  BY <1>1, <1>2, BlocksAppended
<1>5. IsFiniteSet(Places)
  BY <1>4, PlacesFinite DEF Places
<1>6. \A p \in Places : At(p) \in Events /\ p[1] \in 1..Len(Chain)
  BY <1>4, PlaceShape DEF Places, At
<1> QED BY <1>3, <1>4, <1>5, <1>6

\* The chain takes in the events es, in its last block: f says where a place has gone,
\* and g where the new events are. What they come before is no single transfer; and a
\* token they take units from before the event of its mint is noted as early.
Joins(f, g, es) ==
  /\ \A p \in Places : f[p] \in Places' /\ At(f[p])' = At(p) /\ f[p][1] = p[1]
  /\ \A i \in DOMAIN es : g[i] \in Places' /\ At(g[i])' = es[i] /\ g[i][1] = Len(Chain)
  /\ \A q \in Places' : (\E p \in Places : q = f[p]) \/ (\E i \in DOMAIN es : q = g[i])
  /\ \A p, q \in Places : (Before(f[p], f[q]) <=> Before(p, q)) /\ (f[p] = f[q] => p = q)
  /\ \A i, j \in DOMAIN es : (Before(g[i], g[j]) <=> i < j) /\ (g[i] = g[j] => i = j)
  /\ \A p \in Places, i \in DOMAIN es :
       /\ f[p] # g[i] /\ (Before(f[p], g[i]) <=> ~Before(g[i], f[p]))
       /\ Before(g[i], f[p]) => At(p).event # "TransferSingle"
       /\ \A id \in TokenIDs :
            Before(g[i], f[p]) /\ MintCredits(At(p), id) /\ Debits(es[i], id) => id \in early'
  /\ \A p \in Places : /\ p[1] # Len(Chain) => /\ p[1] < Len(Chain)
                                               /\ Chain'[p[1]].owners = Chain[p[1]].owners
                       /\ p[1] = Len(Chain) => Chain'[p[1]].owners = owners'
  /\ Chain'[Len(Chain)].owners = owners'

\* The open block takes them in after a and before z.
LEMMA InsertJoins ==
  ASSUME ChainOK, ChainOK', TypeOK, TypeOK', NEW es \in Seq(Events),
         NEW a \in Seq(Events), NEW z \in Seq(Events), NoSingles(z), feed' = feed,
         OpenEvents = a \o z, OpenEvents' = (a \o es) \o z,
         early' = early \cup Overtaken(es, z)
  PROVE  \E f, g : Joins(f, g, es)
<1>1. PICK c, d : c = Chain /\ d = Chain'
  OBVIOUS
<1>2. /\ c \in Chains /\ c # <<>> /\ Len(c) = Len(feed) + 1 /\ Len(feed) \in Nat
      /\ \A k \in 1..Len(feed) : c[k] = feed[k]
      /\ c[Len(c)].events = a \o z
      /\ \A p \in Places : p[1] \in 1..Len(c)
  BY <1>1, ChainTyped
<1>3. /\ d \in Chains /\ Len(d) = Len(feed) + 1
      /\ \A k \in 1..Len(feed) : d[k] = feed[k]
      /\ d[Len(d)].events = (a \o es) \o z
      /\ d[Len(d)].owners = owners'
  <2> DEFINE b == [txs |-> block'.txs, events |-> OpenEvents', owners |-> owners']
  <2>1. OpenEvents' \in Seq(Events)
    BY ConcatProperties
  <2>2. feed \in Seq(BlockSet) /\ b \in BlockSet
    BY <2>1 DEF ChainOK, BlockSet, TypeOK
  <2>3. d = Append(feed, b) /\ b.events = (a \o es) \o z /\ b.owners = owners'
    BY <1>1 DEF Chain
  <2> HIDE DEF b
  <2> QED BY <2>2, <2>3, BlocksAppended
<1>4. PICK m, n, r : m = Len(a) /\ n = Len(es) /\ r = Len(z)
  OBVIOUS
<1>5. PICK old, new : old = a \o z /\ new = (a \o es) \o z
  OBVIOUS
<1>6. /\ m \in Nat /\ n \in Nat /\ r \in Nat
      /\ Len(old) = m + r /\ Len(new) = m + n + r
      /\ \A i \in 1..m : old[i] = a[i] /\ new[i] = a[i]
      /\ \A i \in 1..n : new[m + i] = es[i]
      /\ \A i \in 1..r : old[m + i] = z[i] /\ new[m + n + i] = z[i]
  <2>1. m \in Nat /\ n \in Nat /\ r \in Nat
    BY <1>4, LenProperties
  <2>2. PICK y : y = a \o es
    OBVIOUS
  <2>3. /\ y \in Seq(Events) /\ Len(y) = m + n
        /\ \A i \in 1..m : y[i] = a[i]
        /\ \A i \in 1..n : y[m + i] = es[i]
    BY <1>4, <2>2, Joined
  <2>4. /\ Len(new) = (m + n) + r
        /\ \A i \in 1..(m + n) : new[i] = y[i]
        /\ \A i \in 1..r : new[(m + n) + i] = z[i]
    BY <1>4, <1>5, <2>2, <2>3, Joined
  <2>5. /\ Len(old) = m + r
        /\ \A i \in 1..m : old[i] = a[i]
        /\ \A i \in 1..r : old[m + i] = z[i]
    BY <1>4, <1>5, Joined
  <2>6. /\ \A i \in 1..m : i \in 1..(m + n)
        /\ \A i \in 1..n : m + i \in 1..(m + n)
    BY <2>1
  <2> QED BY <2>1, <2>3, <2>4, <2>5, <2>6
<1>7. Inserts(c, d, m, es)
  <2>1. \A k \in 1..Len(c) : k # Len(c) => d[k] = c[k]
    <3> DEFINE l == Len(feed)
    <3>1. l \in Nat /\ Len(c) = l + 1
      BY <1>2
    <3> HIDE DEF l
    <3>2. \A k \in 1..(l + 1) : k # l + 1 => k \in 1..l
      BY <3>1
    <3>3. \A k \in 1..Len(c) : k # Len(c) => k \in 1..Len(feed)
      BY <3>1, <3>2 DEF l
    <3>4. \A k \in 1..Len(feed) : d[k] = c[k]
      BY <1>2, <1>3
    <3>5. ASSUME NEW k \in 1..Len(c), k # Len(c)
          PROVE  d[k] = c[k]
      BY <3>3, <3>4, <3>5
    <3> QED BY <3>5
  <2>2. \A i \in (m + 1)..Len(old) : new[i + n] = old[i]
    <3>1. ASSUME NEW i \in (m + 1)..Len(old)
          PROVE  i - m \in 1..r /\ i = m + (i - m) /\ i + n = m + n + (i - m)
      BY <1>6
    <3>2. ASSUME NEW i \in (m + 1)..Len(old)
          PROVE  new[i + n] = old[i]
      <4>1. PICK j \in 1..r : i = m + j /\ i + n = m + n + j
        BY <3>1
      <4> QED BY <1>6, <4>1
    <3> QED BY <3>2
  <2>3. m \in 0..Len(old) /\ Len(new) = Len(old) + n
    BY <1>6
  <2>4. /\ \A i \in 1..m : new[i] = old[i]
        /\ \A i \in 1..n : new[m + i] = es[i]
    BY <1>6
  <2> QED BY <1>2, <1>3, <1>4, <1>5, <2>1, <2>2, <2>3, <2>4 DEF Inserts
<1>8. Places = PlacesIn(c) /\ Places' = PlacesIn(d)
  BY <1>1 DEF Places
<1>9. /\ \A p : At(p) = EventAt(c, p)
      /\ \A p : At(p)' = EventAt(d, p)
  BY <1>1 DEF At
<1>10. PICK f, g : Shifted(c, d, m, es, f, g)
  BY <1>2, <1>3, <1>6, <1>7, Inserted
<1>11. /\ \A p \in Places : f[p] \in Places' /\ EventAt(d, f[p]) = EventAt(c, p) /\ f[p][1] = p[1]
       /\ \A i \in DOMAIN es : g[i] \in Places' /\ EventAt(d, g[i]) = es[i]
       /\ \A q \in Places' : (\E p \in Places : q = f[p]) \/ (\E i \in DOMAIN es : q = g[i])
       /\ \A p, q \in Places : (Before(f[p], f[q]) <=> Before(p, q)) /\ (f[p] = f[q] => p = q)
       /\ \A i, j \in DOMAIN es : (Before(g[i], g[j]) <=> i < j) /\ (g[i] = g[j] => i = j)
       /\ \A p \in Places, i \in DOMAIN es :
            /\ f[p] # g[i]
            /\ Before(f[p], g[i]) <=> ~(p[1] = Len(c) /\ p[2] > m)
            /\ Before(g[i], f[p]) <=> p[1] = Len(c) /\ p[2] > m
  BY <1>8, <1>10 DEF Shifted
<1>12. \A i \in DOMAIN es : g[i][1] = Len(c)
  BY <1>10 DEF Shifted
<1>13. ASSUME NEW p \in Places, p[1] = Len(c), p[2] > m
       PROVE  \E j \in DOMAIN z : At(p) = z[j]
  <2>1. p[2] \in 1..Len(old)
    BY <1>2, <1>5, <1>8, <1>13, PlaceShape
  <2>2. p[2] - m \in 1..r /\ p[2] = m + (p[2] - m)
    BY <1>6, <1>13, <2>1
  <2>3. At(p) = old[p[2]]
    BY <1>2, <1>5, <1>9, <1>13 DEF EventAt
  <2>4. DOMAIN z = 1..r
    BY <1>4, LenProperties
  <2>5. PICK j \in 1..r : p[2] = m + j
    BY <2>2
  <2>6. At(p) = z[j]
    BY <1>6, <2>3, <2>5
  <2> QED BY <2>4, <2>6
<1>14. ASSUME NEW p \in Places, NEW i \in DOMAIN es, Before(g[i], f[p])
       PROVE  /\ At(p).event # "TransferSingle"
              /\ \A id \in TokenIDs : MintCredits(At(p), id) /\ Debits(es[i], id) => id \in early'
  <2>1. PICK j \in DOMAIN z : At(p) = z[j]
    BY <1>11, <1>13, <1>14
  <2>2. ASSUME NEW id \in TokenIDs, MintCredits(At(p), id), Debits(es[i], id)
        PROVE  id \in Overtaken(es, z)
    BY <2>1, <2>2 DEF Overtaken, MintCredits, Credits, Debits
  <2> QED BY <2>1, <2>2 DEF NoSingles
<1>15. ASSUME NEW p \in Places
       PROVE  /\ p[1] # Len(c) => p[1] < Len(c) /\ d[p[1]].owners = c[p[1]].owners
              /\ p[1] = Len(c) => d[p[1]].owners = owners'
  <2>1. p[1] \in 1..Len(c) /\ Len(c) \in Nat
    BY <1>2
  <2>2. p[1] # Len(c) => p[1] \in 1..Len(feed) /\ p[1] < Len(c)
    BY <1>2, <2>1
  <2> QED BY <1>2, <1>3, <2>1, <2>2
<1>16. d[Len(c)].owners = owners'
  BY <1>2, <1>3
<1>17. Joins(f, g, es)
  <2>1. /\ \A p \in Places : f[p] \in Places' /\ At(f[p])' = At(p) /\ f[p][1] = p[1]
        /\ \A i \in DOMAIN es : g[i] \in Places' /\ At(g[i])' = es[i] /\ g[i][1] = Len(c)
    BY <1>9, <1>11, <1>12
  <2>2. \A p \in Places, i \in DOMAIN es :
          f[p] # g[i] /\ (Before(f[p], g[i]) <=> ~Before(g[i], f[p]))
    BY <1>11
  <2> QED BY <1>1, <1>11, <1>14, <1>15, <1>16, <2>1, <2>2 DEF Joins
<1> QED BY <1>17

\* The sequence s is a followed by b.
Joint(s, a, b) == s = a \o b

LEMMA Reassociated ==
  ASSUME NEW a \in Seq(Events), NEW b \in Seq(Events), NEW c \in Seq(Events),
         NEW ab, NEW bc, NEW s, Joint(ab, a, b), Joint(bc, b, c), Joint(s, a, bc)
  PROVE  Joint(s, ab, c)
<1>1. (a \o b) \o c = a \o (b \o c)
  BY ConcatAssociative
<1> QED BY <1>1 DEF Joint

LEMMA Regrouped ==
  ASSUME NEW a \in Seq(Events), NEW b \in Seq(Events), NEW c \in Seq(Events),
         NEW d \in Seq(Events), NEW ab, NEW bc, NEW cd, NEW abc, NEW s,
         Joint(ab, a, b), Joint(bc, b, c), Joint(cd, c, d), Joint(abc, a, bc), Joint(s, ab, cd)
  PROVE  Joint(s, abc, d)
<1>1. ab = a \o b
  BY DEF Joint
<1>2. ab \in Seq(Events)
  BY <1>1, ConcatProperties
<1>3. PICK x : x = ab \o c
  OBVIOUS
<1>4. x = a \o (b \o c)
  BY <1>1, <1>3, ConcatAssociative
<1>5. x = abc
  BY <1>4 DEF Joint
<1>6. x \o d = ab \o (c \o d)
  BY <1>2, <1>3, ConcatAssociative
<1>7. s = ab \o (c \o d)
  BY DEF Joint
<1> QED BY <1>5, <1>6, <1>7 DEF Joint

\* A call that waits between two parts of its events.
Waits(call, before, after) ==
  /\ feed' = feed
  /\ block' = [txs |-> block.txs + 1, events |-> block.events \o before]
  /\ waiting' = Append(waiting, Waiting(call, Len(unemitted)))
  /\ unemitted' = after \o unemitted

LEMMA WaitKeepsChain ==
  ASSUME ChainOK, calls \in Seq(CallSet), NEW call \in Nat,
         NEW before \in Seq(Events), NEW after \in Seq(Events),
         before # <<>>, after # <<>>, NoSingles(after), Waits(call, before, after),
         \/ call = 0 /\ UNCHANGED calls
         \/ call = Len(calls) + 1 /\ DOMAIN calls' = 1..(Len(calls) + 1)
  PROVE  ChainOK'
<1>1. PICK w, u, v : w = waiting /\ u = unemitted /\ v = unemitted'
  OBVIOUS
<1>2. /\ feed' = feed
      /\ block' = [txs |-> block.txs + 1, events |-> block.events \o before]
      /\ waiting' = Append(waiting, Waiting(call, Len(unemitted)))
      /\ unemitted' = after \o unemitted
  BY DEF Waits
<1>3. PICK l, k, b : l = Len(w) /\ k = Len(u) /\ b = block.events \o before
  OBVIOUS
<1>4. /\ w \in Seq([call : Nat, left : Nat]) /\ u \in Seq(Events) /\ NoSingles(u)
      /\ w = <<>> => u = <<>>
      /\ w # <<>> => w[1].left = 0
      /\ \A i \in DOMAIN w : w[i].left < IF i = l THEN k ELSE w[i + 1].left
      /\ block.txs \in Nat /\ block.events \in Seq(Events)
  BY <1>1, <1>3 DEF ChainOK, WaitingOK
<1>5. l \in Nat /\ k \in Nat /\ DOMAIN w = 1..l
  BY <1>3, <1>4, LenProperties
<1>6. /\ v = after \o u /\ v \in Seq(Events) /\ Len(v) > k
      /\ \A i \in 1..Len(v) : \/ i \in 1..Len(after) /\ v[i] = after[i]
                              \/ i - Len(after) \in 1..k /\ v[i] = u[i - Len(after)]
  <2>1. PICK m : m = Len(after)
    OBVIOUS
  <2>2. m \in Nat /\ m # 0
    BY <2>1, LenProperties, EmptySeq
  <2>3. v = after \o u
    BY <1>1, <1>2
  <2>4. /\ v \in Seq(Events) /\ Len(v) = m + k
        /\ \A i \in 1..m : v[i] = after[i]
        /\ \A i \in 1..k : v[m + i] = u[i]
    BY <1>3, <1>4, <2>1, <2>3, Joined
  <2>5. ASSUME NEW i \in 1..Len(v)
        PROVE  i \in 1..m \/ (i - m \in 1..k /\ i = m + (i - m))
    BY <1>5, <2>2, <2>4
  <2>6. ASSUME NEW i \in 1..Len(v)
        PROVE  \/ i \in 1..m /\ v[i] = after[i]
               \/ i - m \in 1..k /\ v[i] = u[i - m]
    <3>1. CASE i \in 1..m
      BY <2>4, <3>1
    <3>2. CASE i - m \in 1..k /\ i = m + (i - m)
      BY <2>4, <3>2
    <3> QED BY <2>5, <3>1, <3>2
  <2>7. Len(v) > k
    BY <1>5, <2>2, <2>4
  <2> QED BY <2>1, <2>3, <2>4, <2>6, <2>7
<1>7. NoSingles(v)
  <2>1. /\ DOMAIN v = 1..Len(v) /\ DOMAIN after = 1..Len(after) /\ DOMAIN u = 1..k
    BY <1>3, <1>4, <1>6, LenProperties
  <2> QED BY <1>4, <1>6, <2>1 DEF NoSingles
<1>8. PICK x : x = Waiting(call, k)
  OBVIOUS
<1>9. x \in [call : Nat, left : Nat] /\ x.call = call /\ x.left = k
  BY <1>5, <1>8 DEF Waiting
<1>10. PICK n : n = waiting'
  OBVIOUS
<1>11. /\ n = Append(w, x) /\ n \in Seq([call : Nat, left : Nat]) /\ n # <<>> /\ Len(n) = l + 1
       /\ \A i \in 1..l : n[i] = w[i]
       /\ n[l + 1] = x /\ DOMAIN n = 1..(l + 1)
  <2>1. n = Append(w, x)
    BY <1>1, <1>3, <1>8, <1>10, <1>2
  <2>2. PICK S : S = [call : Nat, left : Nat]
    OBVIOUS
  <2>3. w \in Seq(S) /\ x \in S
    BY <1>4, <1>9, <2>2
  <2>4. /\ n \in Seq(S) /\ n # <<>> /\ Len(n) = l + 1
        /\ \A i \in 1..l : n[i] = w[i]
        /\ n[l + 1] = x
    BY <1>3, <2>1, <2>3, AppendProperties
  <2>5. /\ n \in Seq([call : Nat, left : Nat]) /\ n # <<>> /\ Len(n) = l + 1
        /\ \A i \in 1..l : n[i] = w[i]
        /\ n[l + 1] = x
    BY <2>2, <2>4
  <2>6. DOMAIN n = 1..(l + 1)
    BY <2>5, LenProperties
  <2> QED BY <2>1, <2>5, <2>6
<1>12. n[1].left = 0
  <2>1. CASE w = <<>>
    <3>1. l = 0 /\ k = 0
      BY <1>3, <1>4, <2>1, EmptySeq
    <3> QED BY <1>9, <1>11, <3>1
  <2>2. CASE w # <<>>
    <3>1. l # 0
      BY <1>3, <1>4, <2>2, EmptySeq
    <3>2. 1 \in 1..l
      BY <1>5, <3>1
    <3> QED BY <1>4, <1>11, <2>2, <3>2
  <2> QED BY <2>1, <2>2
<1>13. ASSUME NEW i \in DOMAIN n
       PROVE  n[i].left < IF i = Len(n) THEN Len(v) ELSE n[i + 1].left
  <2>1. CASE i = l + 1
    BY <1>5, <1>6, <1>9, <1>11, <2>1
  <2>2. CASE i = l
    <3>1. i \in 1..l /\ i # Len(n)
      BY <1>5, <1>11, <2>2
    <3> QED BY <1>4, <1>5, <1>9, <1>11, <2>2, <3>1
  <2>3. CASE i # l + 1 /\ i # l
    <3>1. i \in 1..(l + 1) /\ Len(n) = l + 1
      BY <1>11
    <3>2. i \in 1..l /\ i + 1 \in 1..l /\ i # Len(n)
      BY <1>5, <2>3, <3>1
    <3> QED BY <1>4, <1>5, <1>11, <2>3, <3>2
  <2> QED BY <2>1, <2>2, <2>3
<1>14. ASSUME NEW j \in DOMAIN calls'
       PROVE  \E i \in DOMAIN n : n[i].call = j
  <2>1. CASE j \in DOMAIN calls
    <3>1. PICK i \in 1..l : w[i].call = j
      BY <1>1, <1>5, <2>1 DEF ChainOK, WaitingOK
    <3>2. i \in DOMAIN n /\ n[i].call = j
      BY <1>5, <1>11, <3>1
    <3> QED BY <3>2
  <2>2. CASE j \notin DOMAIN calls
    <3>1. Len(calls) \in Nat /\ DOMAIN calls = 1..Len(calls)
      BY LenProperties
    <3>2. j = call
      <4>1. DOMAIN calls' = 1..(Len(calls) + 1) /\ call = Len(calls) + 1
        BY <2>2
      <4>2. PICK m : m = Len(calls)
        OBVIOUS
      <4>3. j \in 1..(m + 1) /\ j \notin 1..m /\ m \in Nat /\ call = m + 1
        BY <2>2, <3>1, <4>1, <4>2
      <4> QED BY <4>3
    <3>3. l + 1 \in DOMAIN n
      BY <1>5, <1>11
    <3> QED BY <1>9, <1>11, <3>2, <3>3
  <2> QED BY <2>1, <2>2
<1>15. b \in Seq(Events) /\ b # <<>>
  <2>1. PICK e : e = block.events
    OBVIOUS
  <2>2. b = e \o before /\ e \in Seq(Events)
    BY <1>3, <1>4, <2>1
  <2>3. b \in Seq(Events) /\ Len(b) = Len(e) + Len(before)
    BY <2>2, Joined
  <2>4. Len(e) \in Nat /\ Len(before) \in Nat /\ Len(before) # 0
    BY <2>2, LenProperties, EmptySeq
  <2>5. Len(b) # 0
    BY <2>3, <2>4
  <2> QED BY <2>3, <2>5, EmptySeq
<1>16. WaitingOK'
  <2>1. block'.txs > 0
    BY <1>4, <1>2
  <2> QED BY <1>1, <1>10, <1>11, <1>12, <1>13, <1>14, <2>1 DEF WaitingOK
<1>17. block' \in [txs : Nat, events : Seq(Events)] /\ block'.txs # 0 /\ block'.events # <<>>
  <2>1. block' = [txs |-> block.txs + 1, events |-> b]
    BY <1>3, <1>2
  <2>2. block.txs + 1 \in Nat \ {0}
    BY <1>4
  <2> QED BY <1>15, <2>1, <2>2
<1> QED BY <1>1, <1>2, <1>6, <1>7, <1>16, <1>17 DEF ChainOK

LEMMA EmitKeepsChain ==
  ASSUME ChainOK, NEW es \in Seq(Events), es # <<>>, Emit(es), UNCHANGED calls
  PROVE  ChainOK'
<1>1. /\ feed' = feed /\ waiting' = waiting /\ unemitted' = unemitted
      /\ block' = [txs |-> block.txs + 1, events |-> block.events \o es]
      /\ block.txs \in Nat /\ block.events \in Seq(Events)
  BY DEF Emit, ChainOK
<1>2. block.events \o es \in Seq(Events) /\ block.events \o es # <<>>
  <2>1. PICK b : b = block.events \o es
    OBVIOUS
  <2>2. /\ b \in Seq(Events) /\ Len(b) = Len(block.events) + Len(es)
        /\ Len(block.events) \in Nat /\ Len(es) \in Nat /\ Len(es) # 0
    BY <1>1, <2>1, ConcatProperties, LenProperties, EmptySeq
  <2> QED BY <2>1, <2>2, EmptySeq
<1>3. /\ block' \in [txs : Nat, events : Seq(Events)]
      /\ block'.txs # 0 /\ block'.txs > 0 /\ block'.events # <<>>
  BY <1>1, <1>2
<1>4. WaitingOK'
  BY <1>1, <1>3 DEF ChainOK, WaitingOK
<1> QED BY <1>1, <1>3, <1>4 DEF ChainOK

\* What a call adds to what is still to be indexed.
LEMMA EmitJoins ==
  ASSUME ChainOK, TypeOK, TypeOK', CallsOK, NEW es \in Seq(Events), es # <<>>, Emits(es)
  PROVE  /\ ChainOK' /\ \E f, g : Joins(f, g, es)
         /\ early \subseteq early' /\ early' \subseteq early \cup TokenIDs
         /\ UNCHANGED storeVars
<1>1. CASE Emit(es) /\ UNCHANGED calls
  <2>1. /\ feed' = feed /\ unemitted' = unemitted
        /\ block' = [txs |-> block.txs + 1, events |-> block.events \o es]
        /\ early' = early \cup Overtaken(es, unemitted)
        /\ UNCHANGED storeVars
    BY <1>1 DEF Emit
  <2>2. ChainOK'
    BY <1>1, EmitKeepsChain
  <2>3. PICK a, z : a = block.events /\ z = unemitted
    OBVIOUS
  <2>4. a \in Seq(Events) /\ z \in Seq(Events) /\ NoSingles(z)
    BY <2>3 DEF ChainOK
  <2>5. OpenEvents = a \o z /\ OpenEvents' = (a \o es) \o z
    BY <2>1, <2>3 DEF OpenEvents
  <2>6. \E f, g : Joins(f, g, es)
    BY <2>1, <2>2, <2>3, <2>4, <2>5, InsertJoins
  <2> QED BY <2>1, <2>2, <2>6 DEF Overtaken
<1>2. CASE EmitsInParts(es)
  <2>1. PICK receiver \in Contracts, call \in Nat, before, after \in Seq(Events) :
               /\ es = before \o after /\ before # <<>> /\ after # <<>> /\ NoSingles(after)
               /\ EmitAround(receiver, call, before, after)
               /\ \/ call = 0 /\ UNCHANGED calls
                  \/ call = Len(calls) + 1 /\ DOMAIN calls' = 1..(Len(calls) + 1)
    BY <1>2 DEF EmitsInParts
  <2>2. /\ Waits(call, before, after) /\ UNCHANGED storeVars
        /\ early' = early \cup Overtaken(es, unemitted)
    BY <2>1 DEF EmitAround, Waits
  <2>3. ChainOK'
    BY <2>1, <2>2, WaitKeepsChain DEF CallsOK
  <2>4. PICK a, z : a = block.events /\ z = unemitted
    OBVIOUS
  <2>5. a \in Seq(Events) /\ z \in Seq(Events) /\ NoSingles(z)
    BY <2>4 DEF ChainOK
  <2>6. feed' = feed /\ OpenEvents' = (a \o before) \o (after \o z)
    BY <2>2, <2>4 DEF OpenEvents, Waits
  <2>7. OpenEvents = a \o z /\ OpenEvents' = (a \o es) \o z
    <3>1. PICK u, v, w, s : u = a \o before /\ v = after \o z /\ w = a \o es /\ s = u \o v
      OBVIOUS
    <3>2. /\ Joint(u, a, before) /\ Joint(v, after, z) /\ Joint(w, a, es) /\ Joint(s, u, v)
          /\ Joint(es, before, after)
      BY <2>1, <3>1 DEF Joint
    <3>3. Joint(s, w, z)
      BY <2>5, <3>2, Regrouped
    <3>4. OpenEvents' = w \o z
      BY <2>6, <3>1, <3>3 DEF Joint
    <3> QED BY <2>4, <3>1, <3>4 DEF OpenEvents
  <2>8. \E f, g : Joins(f, g, es)
    BY <2>2, <2>3, <2>4, <2>5, <2>6, <2>7, InsertJoins
  <2> QED BY <2>2, <2>3, <2>8 DEF Overtaken
<1> QED BY <1>1, <1>2 DEF Emits

LEMMA HeadAndTail ==
  ASSUME NEW s \in Seq(Events), s # <<>>, NEW a, a = <<Head(s)>>, NEW b, b = Tail(s)
  PROVE  s = a \o b
<1>1. PICK n : n = Len(s)
  OBVIOUS
<1>2. n \in Nat /\ n # 0
  BY <1>1, LenProperties, EmptySeq
<1>3. /\ a \in Seq(Events) /\ Len(a) = 1 /\ a[1] = s[1]
      /\ b \in Seq(Events) /\ Len(b) = n - 1
      /\ \A i \in 1..(n - 1) : b[i] = s[i + 1]
  <2>1. /\ Head(s) \in Events /\ Head(s) = s[1]
        /\ b \in Seq(Events) /\ Len(b) = n - 1
        /\ \A i \in 1..Len(b) : b[i] = s[i + 1]
    BY <1>1, HeadTailProperties
  <2> QED BY <2>1
<1>4. PICK t : t = a \o b
  OBVIOUS
<1>5. /\ t \in Seq(Events) /\ Len(t) = 1 + (n - 1)
      /\ \A i \in 1..1 : t[i] = a[i]
      /\ \A i \in 1..(n - 1) : t[1 + i] = b[i]
  BY <1>3, <1>4, Joined
<1>6. ASSUME NEW i \in 1..n
      PROVE  s[i] = t[i]
  <2>1. CASE i = 1
    BY <1>3, <1>5, <2>1
  <2>2. CASE i # 1
    <3>1. PICK j \in 1..(n - 1) : i = 1 + j /\ i = j + 1
      <4>1. i - 1 \in 1..(n - 1) /\ i = 1 + (i - 1) /\ i = (i - 1) + 1
        BY <1>2, <2>2
      <4> QED BY <4>1
    <3> QED BY <1>3, <1>5, <3>1
  <2> QED BY <2>1, <2>2
<1>7. Len(s) = Len(t)
  BY <1>1, <1>2, <1>5
<1>8. s = t
  BY <1>1, <1>5, <1>6, <1>7, SeqEqual
<1> QED BY <1>4, <1>8

\* A mint that splits its first token when its callback has returned: it emits the
\* event of that, announces the batch, and waits with what that moves.
Resumes(batch, transfers) ==
  /\ waiting # <<>> /\ feed' = feed /\ waiting' = waiting /\ DOMAIN calls' = DOMAIN calls
  /\ block' = [block EXCEPT !.events = @ \o <<Head(unemitted), batch>>]
  /\ unemitted' = transfers \o Tail(unemitted)
  /\ early' = early \cup Overtaken(<<batch>> \o transfers, Tail(unemitted))

LEMMA SomeUnemitted ==
  ASSUME ChainOK, waiting # <<>>
  PROVE  /\ unemitted # <<>> /\ unemitted \in Seq(Events) /\ NoSingles(unemitted)
         /\ Len(waiting) \in DOMAIN waiting
         /\ waiting[Len(waiting)].left \in Nat /\ waiting[Len(waiting)].left < Len(unemitted)
<1>1. waiting \in Seq([call : Nat, left : Nat]) /\ unemitted \in Seq(Events)
  BY DEF ChainOK, WaitingOK
<1>2. PICK l : l = Len(waiting)
  OBVIOUS
<1>3. l \in 1..l /\ DOMAIN waiting = 1..l
  BY <1>1, <1>2, LenProperties, EmptySeq
<1>4. waiting[l].left \in Nat
  <2>1. waiting[l] \in [call : Nat, left : Nat]
    BY <1>1, <1>2, <1>3, ElementOfSeq
  <2> QED BY <2>1
<1>5. waiting[l].left < Len(unemitted)
  BY <1>2, <1>3 DEF ChainOK, WaitingOK
<1>6. unemitted # <<>>
  <2>1. Len(unemitted) # 0
    BY <1>1, <1>4, <1>5, LenProperties
  <2> QED BY <1>1, <2>1, EmptySeq
<1> QED BY <1>1, <1>2, <1>3, <1>4, <1>5, <1>6 DEF ChainOK

LEMMA ResumeKeepsChain ==
  ASSUME ChainOK, NEW batch \in Events, NEW transfers \in Seq(Events), transfers # <<>>,
         NoSingles(transfers), Resumes(batch, transfers)
  PROVE  ChainOK'
<1>1. PICK u, v, h, T : u = unemitted /\ v = unemitted' /\ h = Head(u) /\ T = Tail(u)
  OBVIOUS
<1>2. u # <<>> /\ u \in Seq(Events) /\ NoSingles(u) /\ waiting # <<>>
  BY <1>1, SomeUnemitted DEF Resumes
<1>3. PICK k, n, m : k = Len(u) /\ n = Len(transfers) /\ m = Len(T)
  OBVIOUS
<1>4. /\ k \in Nat /\ n \in Nat /\ n # 0 /\ m \in Nat /\ m = k - 1
      /\ h \in Events /\ T \in Seq(Events)
      /\ \A i \in 1..m : i + 1 \in 1..k /\ T[i] = u[i + 1]
      /\ DOMAIN u = 1..k /\ DOMAIN transfers = 1..n /\ DOMAIN T = 1..m
  <2>1. h \in Events /\ T \in Seq(Events) /\ m = k - 1 /\ k \in Nat
        /\ \A i \in 1..m : T[i] = u[i + 1]
    BY <1>1, <1>2, <1>3, HeadTailProperties, LenProperties
  <2>2. n \in Nat /\ n # 0 /\ m \in Nat
    BY <1>3, <2>1, LenProperties, EmptySeq
  <2>3. \A i \in 1..m : i + 1 \in 1..k
    BY <2>1, <2>2
  <2>4. DOMAIN u = 1..k /\ DOMAIN transfers = 1..n /\ DOMAIN T = 1..m
    BY <1>2, <1>3, <2>1, LenProperties
  <2> QED BY <2>1, <2>2, <2>3, <2>4
<1>5. v = transfers \o T
  BY <1>1 DEF Resumes
<1>6. /\ v \in Seq(Events) /\ Len(v) = n + m
      /\ \A i \in 1..n : v[i] = transfers[i]
      /\ \A i \in 1..m : v[n + i] = T[i]
  <2>1. T \in Seq(Events)
    BY <1>4
  <2>2. /\ v \in Seq(Events) /\ Len(v) = Len(transfers) + Len(T)
        /\ \A i \in 1..Len(transfers) : v[i] = transfers[i]
        /\ \A i \in 1..Len(T) : v[Len(transfers) + i] = T[i]
    BY <1>5, <2>1, Joined
  <2> QED BY <1>3, <2>2
<1>7. NoSingles(v)
  <2>1. ASSUME NEW i \in DOMAIN v
        PROVE  v[i].event # "TransferSingle"
    <3>1. i \in 1..(n + m)
      BY <1>6, LenProperties
    <3>2. CASE i \in 1..n
      BY <1>4, <1>6, <3>2 DEF NoSingles
    <3>3. CASE i \notin 1..n
      <4>1. PICK j \in 1..m : i = n + j
        <5>1. i - n \in 1..m /\ i = n + (i - n)
          BY <1>4, <3>1, <3>3
        <5> QED BY <5>1
      <4>2. v[i] = u[j + 1] /\ j + 1 \in DOMAIN u
        BY <1>4, <1>6, <4>1
      <4> QED BY <1>2, <4>2 DEF NoSingles
    <3> QED BY <3>2, <3>3
  <2> QED BY <2>1 DEF NoSingles
<1>8. Len(v) >= k /\ Len(v) \in Nat
  BY <1>4, <1>6
<1>9. /\ block.txs \in Nat /\ block.txs > 0 /\ block.events \in Seq(Events)
      /\ block \in [txs : Nat, events : Seq(Events)]
  BY <1>2 DEF ChainOK, WaitingOK
<1>10. PICK b, e, p : b = e \o p /\ e = block.events /\ p = <<h, batch>>
  OBVIOUS
<1>11. p \in Seq(Events) /\ Len(p) = 2
  BY <1>4, <1>10
<1>12. b \in Seq(Events) /\ b # <<>>
  <2>1. b \in Seq(Events) /\ Len(b) = Len(e) + 2 /\ Len(e) \in Nat
    BY <1>9, <1>10, <1>11, Joined, LenProperties
  <2>2. Len(b) # 0
    BY <2>1
  <2> QED BY <2>1, <2>2, EmptySeq
<1>13. block' = [block EXCEPT !.events = b]
  BY <1>1, <1>10 DEF Resumes
<1>14. /\ block' \in [txs : Nat, events : Seq(Events)]
       /\ block'.txs = block.txs /\ block'.txs # 0 /\ block'.events # <<>>
  BY <1>9, <1>12, <1>13
<1>15. WaitingOK'
  <2>1. PICK w, l : w = waiting /\ l = Len(w)
    OBVIOUS
  <2>2. /\ w \in Seq([call : Nat, left : Nat]) /\ w # <<>> /\ w[1].left = 0
        /\ \A i \in DOMAIN w : w[i].left < IF i = l THEN k ELSE w[i + 1].left
        /\ \A j \in DOMAIN calls : \E i \in DOMAIN w : w[i].call = j
    BY <1>1, <1>2, <1>3, <2>1 DEF ChainOK, WaitingOK
  <2>3. l \in DOMAIN w /\ w[l].left \in Nat
    BY <1>2, <2>1, SomeUnemitted
  <2>4. \A i \in DOMAIN w : w[i].left < IF i = l THEN Len(v) ELSE w[i + 1].left
    <3>1. ASSUME NEW i \in DOMAIN w
          PROVE  w[i].left < IF i = l THEN Len(v) ELSE w[i + 1].left
      <4>1. CASE i = l
        <5>1. w[l].left < k
          BY <2>2, <2>3
        <5> QED BY <1>4, <1>8, <2>3, <4>1, <5>1
      <4>2. CASE i # l
        BY <2>2, <4>2
      <4> QED BY <4>1, <4>2
    <3> QED BY <3>1
  <2> QED BY <1>1, <1>9, <1>14, <2>1, <2>2, <2>4 DEF Resumes, WaitingOK
<1> QED BY <1>1, <1>6, <1>7, <1>14, <1>15 DEF ChainOK, Resumes

LEMMA ResumeJoins ==
  ASSUME ChainOK, TypeOK, TypeOK', NEW batch \in Events, NEW transfers \in Seq(Events),
         transfers # <<>>, NoSingles(transfers), Resumes(batch, transfers)
  PROVE  /\ ChainOK' /\ \E f, g : Joins(f, g, <<batch>> \o transfers)
         /\ early \subseteq early' /\ early' \subseteq early \cup TokenIDs
<1>1. PICK e, h, T : e = block.events /\ h = Head(unemitted) /\ T = Tail(unemitted)
  OBVIOUS
<1>2. unemitted # <<>> /\ unemitted \in Seq(Events) /\ NoSingles(unemitted)
  BY SomeUnemitted DEF Resumes
<1>3. h \in Events /\ T \in Seq(Events) /\ e \in Seq(Events)
  BY <1>1, <1>2, HeadTailProperties DEF ChainOK
<1>4. NoSingles(T)
  <2>1. PICK k, m : k = Len(unemitted) /\ m = Len(T)
    OBVIOUS
  <2>2. /\ k \in Nat /\ m \in Nat /\ m = k - 1 /\ DOMAIN T = 1..m /\ DOMAIN unemitted = 1..k
        /\ \A i \in 1..m : T[i] = unemitted[i + 1]
    BY <1>1, <1>2, <1>3, <2>1, HeadTailProperties, LenProperties
  <2>3. \A i \in 1..m : i + 1 \in 1..k
    BY <2>2
  <2> QED BY <1>2, <2>2, <2>3 DEF NoSingles
<1>5. PICK first, one, p, a, x, y, es, w, s, ab :
        /\ first = <<h>> /\ one = <<batch>> /\ p = <<h, batch>> /\ a = e \o first
        /\ x = e \o p /\ y = transfers \o T /\ es = one \o transfers /\ w = a \o es
        /\ s = x \o y /\ ab = a \o one
  OBVIOUS
<1>6. first \in Seq(Events) /\ one \in Seq(Events) /\ a \in Seq(Events) /\ es \in Seq(Events)
  <2>1. first \in Seq(Events) /\ one \in Seq(Events)
    BY <1>3, <1>5
  <2> QED BY <1>3, <1>5, <2>1, Joined
<1>7. p = first \o one
  BY <1>3, <1>5, OneAndOne
<1>8. x = ab
  <2>1. ab = e \o (first \o one)
    BY <1>3, <1>5, <1>6, ConcatAssociative
  <2> QED BY <1>5, <1>7, <2>1
<1>9. Joint(s, w, T)
  <2>1. /\ Joint(ab, a, one) /\ Joint(es, one, transfers) /\ Joint(y, transfers, T)
        /\ Joint(w, a, es) /\ Joint(s, ab, y)
    BY <1>5, <1>8 DEF Joint
  <2> QED BY <1>3, <1>6, <2>1, Regrouped
<1>10. OpenEvents' = (a \o es) \o T
  <2>1. block'.events = x /\ unemitted' = y
    <3>1. block \in [txs : Nat, events : Seq(Events)]
      BY DEF ChainOK
    <3> QED BY <1>1, <1>5, <3>1 DEF Resumes
  <2>2. OpenEvents' = s
    BY <1>5, <2>1 DEF OpenEvents
  <2> QED BY <1>5, <1>9, <2>2 DEF Joint
<1>11. OpenEvents = a \o T
  <2>1. unemitted = first \o T
    <3>1. first = <<Head(unemitted)>>
      BY <1>1, <1>5
    <3>2. PICK u : u = unemitted
      OBVIOUS
    <3>3. u \in Seq(Events) /\ u # <<>> /\ first = <<Head(u)>> /\ T = Tail(u)
      BY <1>1, <1>2, <3>1, <3>2
    <3>4. u = first \o T
      BY <3>3, HeadAndTail
    <3> QED BY <3>2, <3>4
  <2>2. PICK u, o : u = unemitted /\ o = OpenEvents
    OBVIOUS
  <2>3. Joint(a, e, first) /\ Joint(u, first, T) /\ Joint(o, e, u)
    BY <1>1, <1>5, <2>1, <2>2 DEF Joint, OpenEvents
  <2>4. Joint(o, a, T)
    BY <1>3, <1>6, <2>3, Reassociated
  <2> QED BY <2>2, <2>4 DEF Joint
<1>12. ChainOK'
  BY ResumeKeepsChain
<1>13. early' = early \cup Overtaken(es, T)
  BY <1>1, <1>5 DEF Resumes
<1>14. \E f, g : Joins(f, g, es)
  <2>1. feed' = feed
    BY DEF Resumes
  <2> QED BY <1>3, <1>4, <1>6, <1>10, <1>11, <1>12, <1>13, <2>1, InsertJoins
<1> QED BY <1>5, <1>12, <1>13, <1>14 DEF Overtaken

\* The innermost callback returns: what was still to be emitted has been.
LEMMA RestKeepsChain ==
  ASSUME ChainOK, CallsOK, ReturnFromCallback
  PROVE  ChainOK' /\ Chain' = Chain
<1>1. PICK u, w, k, l : u = unemitted /\ w = waiting /\ k = Len(u) /\ l = Len(w)
  OBVIOUS
<1>2. PICK r, n : r = w[l].left /\ n = k - r
  OBVIOUS
<1>3. /\ w \in Seq([call : Nat, left : Nat]) /\ w # <<>> /\ w[1].left = 0
      /\ \A i \in DOMAIN w : w[i].left < IF i = l THEN k ELSE w[i + 1].left
      /\ u \in Seq(Events) /\ NoSingles(u) /\ r \in Nat /\ r < k /\ l \in DOMAIN w
  <2>1. waiting # <<>>
    BY DEF ReturnFromCallback, EmitRest
  <2> QED BY <1>1, <1>2, <2>1, SomeUnemitted DEF ChainOK, WaitingOK
<1>4. /\ l \in Nat /\ l # 0 /\ k \in Nat /\ n \in 1..k /\ k - n = r
      /\ DOMAIN w = 1..l /\ DOMAIN u = 1..k
  <2>1. l \in Nat /\ l # 0 /\ k \in Nat /\ DOMAIN w = 1..l /\ DOMAIN u = 1..k
    BY <1>1, <1>3, LenProperties, EmptySeq
  <2> QED BY <1>2, <1>3, <2>1
<1>5. /\ block' = [block EXCEPT !.events = @ \o SubSeq(u, 1, n)]
      /\ unemitted' = SubSeq(u, n + 1, k)
      /\ waiting' = SubSeq(w, 1, l - 1)
      /\ feed' = feed /\ owners' = owners
      /\ \/ w[l].call = 0 /\ calls' = calls
         \/ w[l].call = Len(calls) /\ calls # <<>> /\ calls' = Outer
  BY <1>1, <1>2 DEF ReturnFromCallback, EmitRest, InCallback, ReturnToStore, tokenVars,
     reentrantVars, vars
<1>6. PICK p, v, x : p = SubSeq(u, 1, n) /\ v = SubSeq(u, n + 1, k) /\ x = SubSeq(w, 1, l - 1)
  OBVIOUS
<1>7. /\ p \in Seq(Events) /\ v \in Seq(Events) /\ Len(v) = r
      /\ \A i \in 1..r : v[i] = u[n + i]
  <2>1. \A i \in 1..k : u[i] \in Events
    BY <1>1, <1>3, ElementOfSeq
  <2>2. /\ 1 \in Int /\ n \in Int /\ n + 1 \in Int /\ k \in Int
        /\ \A i \in 1..n : u[i] \in Events
        /\ \A i \in (n + 1)..k : u[i] \in Events
    BY <1>4, <2>1
  <2>3. p \in Seq(Events)
    BY <1>6, <2>2, SubSeqProperties
  <2>4. /\ v \in Seq(Events) /\ Len(v) = IF n + 1 <= k THEN k - (n + 1) + 1 ELSE 0
        /\ \A i \in 1..(k - (n + 1) + 1) : v[i] = u[(n + 1) + i - 1]
    BY <1>6, <2>2, SubSeqProperties
  <2>5. k - (n + 1) + 1 = r /\ (~(n + 1 <= k) => r = 0)
    BY <1>3, <1>4
  <2>6. \A i \in 1..r : (n + 1) + i - 1 = n + i
    BY <1>3, <1>4
  <2> QED BY <2>3, <2>4, <2>5, <2>6
<1>8. u = p \o v
  <2>1. /\ 1 \in 1..(Len(u) + 1) /\ n \in (1 - 1)..Len(u) /\ k \in n..Len(u)
    BY <1>1, <1>4
  <2>2. SubSeq(u, 1, n) \o SubSeq(u, n + 1, k) = SubSeq(u, 1, k)
    BY <1>3, <2>1, ConcatAdjacentSubSeq
  <2>3. SubSeq(u, 1, k) = u
    BY <1>1, <1>3, SubSeqFull
  <2> QED BY <1>6, <2>2, <2>3
<1>9. NoSingles(v)
  <2>1. DOMAIN v = 1..r /\ \A i \in 1..r : n + i \in 1..k
    BY <1>3, <1>4, <1>7, LenProperties
  <2> QED BY <1>3, <1>4, <1>7, <2>1 DEF NoSingles
<1>10. /\ x \in Seq([call : Nat, left : Nat]) /\ Len(x) = l - 1 /\ DOMAIN x = 1..(l - 1)
       /\ \A i \in 1..(l - 1) : x[i] = w[i]
  <2>1. \A i \in 1..l : w[i] \in [call : Nat, left : Nat]
    BY <1>1, <1>3, ElementOfSeq
  <2>2. 1 \in Int /\ l - 1 \in Int /\ \A i \in 1..(l - 1) : w[i] \in [call : Nat, left : Nat]
    BY <1>4, <2>1
  <2>3. /\ x \in Seq([call : Nat, left : Nat])
        /\ Len(x) = IF 1 <= l - 1 THEN (l - 1) - 1 + 1 ELSE 0
        /\ \A i \in 1..((l - 1) - 1 + 1) : x[i] = w[1 + i - 1]
    BY <1>6, <2>2, SubSeqProperties
  <2>4. /\ Len(x) = l - 1
        /\ (l - 1) - 1 + 1 = l - 1 /\ \A i \in 1..(l - 1) : 1 + i - 1 = i
    BY <1>4, <2>3
  <2>5. DOMAIN x = 1..Len(x)
    BY <2>3, LenProperties
  <2> QED BY <2>3, <2>4, <2>5
<1>11. /\ block.txs \in Nat /\ block.txs > 0 /\ block.events \in Seq(Events)
       /\ block.events # <<>> /\ block \in [txs : Nat, events : Seq(Events)]
  <2>1. block.txs > 0
    BY <1>1, <1>3 DEF ChainOK, WaitingOK
  <2> QED BY <2>1 DEF ChainOK
<1>12. PICK e, b : e = block.events /\ b = e \o p
  OBVIOUS
<1>13. b \in Seq(Events) /\ b # <<>>
  <2>1. e \in Seq(Events) /\ e # <<>>
    BY <1>11, <1>12
  <2>2. b \in Seq(Events) /\ Len(b) = Len(e) + Len(p)
    BY <1>7, <1>12, <2>1, Joined
  <2>3. Len(e) \in Nat /\ Len(e) # 0 /\ Len(p) \in Nat
    BY <1>7, <2>1, LenProperties, EmptySeq
  <2>4. Len(b) # 0
    BY <2>2, <2>3
  <2> QED BY <2>2, <2>4, EmptySeq
<1>14. block' = [block EXCEPT !.events = b]
  BY <1>5, <1>6, <1>12
<1>15. /\ block' \in [txs : Nat, events : Seq(Events)] /\ block'.events = b
       /\ block'.txs = block.txs /\ block'.txs # 0 /\ block'.events # <<>>
  BY <1>11, <1>13, <1>14
<1>16. WaitingOK'
  <2>1. waiting' = x /\ unemitted' = v
    BY <1>5, <1>6
  <2>2. x = <<>> => v = <<>>
    <3>1. ASSUME x = <<>>
          PROVE  v = <<>>
      <4>1. l = 1
        BY <1>4, <1>10, <3>1, EmptySeq
      <4>2. Len(v) = 0
        BY <1>2, <1>3, <1>7, <4>1
      <4> QED BY <1>7, <4>2, EmptySeq
    <3> QED BY <3>1
  <2>3. x # <<>> => x[1].left = 0
    <3>1. ASSUME x # <<>>
          PROVE  x[1].left = 0
      <4>1. l - 1 # 0
        BY <1>10, <3>1, EmptySeq
      <4>2. 1 \in 1..(l - 1)
        BY <1>4, <4>1
      <4> QED BY <1>3, <1>10, <4>2
    <3> QED BY <3>1
  <2>4. ASSUME NEW i \in DOMAIN x
        PROVE  x[i].left < IF i = Len(x) THEN Len(v) ELSE x[i + 1].left
    <3>1. /\ i \in 1..(l - 1) /\ i \in 1..l /\ i # l
          /\ i # l - 1 => i + 1 \in 1..(l - 1)
          /\ i = l - 1 => i + 1 = l
      <4>1. i \in 1..(l - 1)
        BY <1>10
      <4> QED BY <1>4, <4>1
    <3>2. w[i].left < w[i + 1].left
      BY <1>3, <1>4, <3>1
    <3>3. CASE i = l - 1
      BY <1>2, <1>7, <1>10, <3>1, <3>2, <3>3
    <3>4. CASE i # l - 1
      BY <1>10, <3>1, <3>2, <3>4
    <3> QED BY <3>3, <3>4
  <2>5. ASSUME NEW j \in DOMAIN calls'
        PROVE  \E i \in DOMAIN x : x[i].call = j
    <3>1. PICK m : m = Len(calls)
      OBVIOUS
    <3>2. m \in Nat /\ DOMAIN calls = 1..m
      BY <3>1, LenProperties DEF CallsOK
    <3>3. j \in 1..m /\ j # w[l].call
      <4>1. CASE w[l].call = 0 /\ calls' = calls
        BY <3>2, <4>1
      <4>2. CASE w[l].call = Len(calls) /\ calls # <<>> /\ calls' = Outer
        <5>1. /\ \A i \in 1..m : calls[i] \in CallSet
              /\ 1 \in Int /\ m - 1 \in Int
          BY <3>1, <3>2, ElementOfSeq DEF CallsOK
        <5>2. \A i \in 1..(m - 1) : calls[i] \in CallSet
          BY <3>2, <5>1
        <5>3. /\ SubSeq(calls, 1, m - 1) \in Seq(CallSet)
              /\ Len(SubSeq(calls, 1, m - 1)) = IF 1 <= m - 1 THEN (m - 1) - 1 + 1 ELSE 0
          BY <5>1, <5>2, SubSeqProperties
        <5>4. calls' = SubSeq(calls, 1, m - 1)
          BY <3>1, <4>2 DEF Outer
        <5>5. DOMAIN calls' = 1..Len(calls')
          BY <5>3, <5>4, LenProperties
        <5>6. Len(calls') = IF 1 <= m - 1 THEN (m - 1) - 1 + 1 ELSE 0
          BY <5>3, <5>4
        <5> QED BY <3>1, <3>2, <4>2, <5>5, <5>6
      <4> QED BY <1>5, <4>1, <4>2
    <3>4. PICK i \in 1..l : w[i].call = j
      BY <1>1, <1>4, <3>2, <3>3 DEF ChainOK, WaitingOK
    <3>5. i \in 1..(l - 1)
      BY <1>4, <3>3, <3>4
    <3> QED BY <1>10, <3>4, <3>5
  <2>6. x # <<>> => block'.txs > 0
    BY <1>11, <1>15
  <2> QED BY <1>10, <2>1, <2>2, <2>3, <2>4, <2>5, <2>6 DEF WaitingOK
<1>17. ChainOK'
  BY <1>5, <1>6, <1>7, <1>9, <1>15, <1>16 DEF ChainOK
<1>18. Chain' = Chain
  <2>1. PICK o, s : o = OpenEvents /\ s = b \o v
    OBVIOUS
  <2>2. Joint(b, e, p) /\ Joint(u, p, v) /\ Joint(o, e, u)
    BY <1>1, <1>8, <1>12, <2>1 DEF Joint, OpenEvents
  <2>3. e \in Seq(Events)
    BY <1>11, <1>12
  <2>4. Joint(o, b, v)
    BY <1>7, <2>2, <2>3, Reassociated
  <2>5. OpenEvents' = OpenEvents
    BY <1>5, <1>6, <1>15, <2>1, <2>4 DEF OpenEvents, Joint
  <2> QED BY <1>5, <1>15, <2>5 DEF Chain
<1> QED BY <1>17, <1>18

LEMMA SealKeepsPlaces ==
  ASSUME ChainOK, TypeOK, TypeOK', SealBlock
  PROVE  /\ ChainOK' /\ Places' = Places
         /\ \A p \in Places : At(p)' = At(p) /\ Chain'[p[1]] = Chain[p[1]]
<1> DEFINE b == [txs |-> block.txs, events |-> block.events, owners |-> owners]
           n == [txs |-> 0, events |-> <<>>, owners |-> owners]
<1>1. /\ feed' = Append(feed, b) /\ block' = [txs |-> 0, events |-> <<>>] /\ owners' = owners
      /\ block.txs > 0 /\ waiting = <<>> /\ waiting' = waiting /\ unemitted' = unemitted
      /\ calls' = calls
  BY DEF SealBlock, EmptyBlock, reentrantVars, vars, tokenVars
<1>2. b \in BlockSet /\ n \in BlockSet /\ feed \in Seq(BlockSet)
  BY EmptySeq DEF ChainOK, BlockSet, TypeOK
<1>3. b.txs > 0 /\ b.events # <<>>
  BY <1>1 DEF ChainOK
<1>4. PICK c : c = Chain
  OBVIOUS
<1>5. PICK d : d = Append(c, n)
  OBVIOUS
<1>6. unemitted = <<>> /\ OpenEvents = block.events /\ OpenEvents' = <<>>
  <2>1. unemitted = <<>>
    BY <1>1 DEF ChainOK, WaitingOK
  <2>2. block.events \in Seq(Events) /\ <<>> \in Seq(Events)
    BY EmptySeq DEF ChainOK
  <2>3. block.events \o <<>> = block.events /\ <<>> \o <<>> = <<>>
    BY <2>2, ConcatEmptySeq
  <2> QED BY <1>1, <2>1, <2>3 DEF OpenEvents
<1>7. c = Append(feed, b)
  BY <1>4, <1>6 DEF Chain
<1>8. Chain' = d
  BY <1>1, <1>5, <1>7, <1>6 DEF Chain
<1>9. n.events = <<>>
  OBVIOUS
<1> HIDE DEF b, n
<1>10. /\ c \in Chains /\ Len(c) = Len(feed) + 1 /\ Len(feed) \in Nat
       /\ \A k \in 1..Len(feed) : c[k] = feed[k]
       /\ c[Len(c)] = b
  BY <1>2, <1>7, BlocksAppended
<1>11. /\ d \in Chains /\ Len(d) = Len(c) + 1
       /\ \A k \in 1..Len(c) : d[k] = c[k]
       /\ d[Len(d)] = n
  BY <1>2, <1>5, <1>10, BlocksAppended DEF Chains
<1>12. Seals(c, d)
  BY <1>9, <1>11 DEF Seals
<1>13. /\ PlacesIn(d) = PlacesIn(c)
       /\ \A p \in PlacesIn(c) : EventAt(d, p) = EventAt(c, p) /\ d[p[1]] = c[p[1]]
  BY <1>10, <1>11, <1>12, Sealed
<1>14. /\ Places' = Places
       /\ \A p \in Places : At(p)' = At(p) /\ Chain'[p[1]] = Chain[p[1]]
  BY <1>4, <1>8, <1>13 DEF Places, At
<1>15. \A k \in DOMAIN c : c[k].txs > 0 /\ c[k].events # <<>>
  <2>1. DOMAIN c = 1..Len(c) /\ DOMAIN feed = 1..Len(feed)
    BY <1>2, <1>10, LenProperties DEF Chains
  <2>2. ASSUME NEW k \in 1..Len(c)
        PROVE  c[k].txs > 0 /\ c[k].events # <<>>
    <3>1. CASE k = Len(c)
      BY <1>3, <1>10, <3>1
    <3>2. CASE k # Len(c)
      <4>1. k \in 1..Len(feed)
        BY <1>10, <3>2
      <4> QED BY <1>10, <2>1, <4>1 DEF ChainOK
    <3> QED BY <3>1, <3>2
  <2> QED BY <2>1, <2>2
<1>16. ChainOK'
  <2>1. feed' = c
    BY <1>1, <1>7
  <2>2. block' \in [txs : Nat, events : Seq(Events)]
    BY <1>1, EmptySeq
  <2>3. WaitingOK'
    BY <1>1, <1>6 DEF ChainOK, WaitingOK
  <2>4. unemitted' \in Seq(Events) /\ NoSingles(unemitted')
    BY <1>1 DEF ChainOK
  <2> QED BY <1>1, <1>10, <1>15, <2>1, <2>2, <2>3, <2>4 DEF ChainOK, Chains
<1> QED BY <1>14, <1>16

\* The event e, first in the chain c, has been taken from it; o were the owners at the
\* end of its block.
Takes(c, e, o) ==
  /\ FirstPlace \in Places /\ At(FirstPlace) = e /\ e \in Events
  /\ Chain[FirstPlace[1]].owners = o
  /\ \A p \in Places : ~Before(p, FirstPlace) /\ ~(p[1] < FirstPlace[1])
  /\ \A p \in Places' : /\ PlaceBefore(c, p) \in Places \ {FirstPlace}
                        /\ Before(FirstPlace, PlaceBefore(c, p))
                        /\ At(p)' = At(PlaceBefore(c, p))
                        /\ Chain'[p[1]].owners = Chain[PlaceBefore(c, p)[1]].owners
  /\ \A p \in Places \ {FirstPlace} : \E q \in Places' : p = PlaceBefore(c, q)
  /\ \A p, q \in Places' :
       /\ Before(PlaceBefore(c, p), PlaceBefore(c, q)) <=> Before(p, q)
       /\ PlaceBefore(c, p)[1] < PlaceBefore(c, q)[1] <=> p[1] < q[1]
       /\ PlaceBefore(c, p) = PlaceBefore(c, q) => p = q

LEMMA IndexTakes ==
  ASSUME ChainOK, TypeOK, TypeOK', IndexEvent, NEW c, c = Chain
  PROVE  /\ ChainOK'
         /\ \E e, o : /\ Takes(c, e, o) /\ Handle(e, o)
                      /\ o \in [TokenIDs -> Accounts \cup {NoAccount}]
<1>1. /\ feed \in Seq(BlockSet) /\ feed # <<>>
      /\ block' = block /\ owners' = owners /\ OpenEvents' = OpenEvents
      /\ waiting' = waiting /\ unemitted' = unemitted /\ calls' = calls
      /\ Handle(Head(Head(feed).events), Head(feed).owners)
      /\ feed' = IF Len(Head(feed).events) = 1 THEN Tail(feed)
                 ELSE [feed EXCEPT ![1].events = Tail(@)]
  BY DEF IndexEvent, ChainOK, OpenEvents, reentrantVars, vars, tokenVars
<1>2. /\ Len(feed) \in Nat /\ 1 \in 1..Len(feed) /\ DOMAIN feed = 1..Len(feed)
      /\ Head(feed) = feed[1]
      /\ feed[1] \in BlockSet
  <2>1. Len(feed) \in Nat /\ 1 \in 1..Len(feed) /\ DOMAIN feed = 1..Len(feed)
    BY <1>1, LenProperties, EmptySeq
  <2> QED BY <1>1, <2>1, ElementOfSeq
<1> DEFINE b == [txs |-> block.txs, events |-> OpenEvents, owners |-> owners]
           es == feed[1].events
<1>3. /\ es \in Seq(Events) /\ es # <<>> /\ feed[1].txs \in Nat /\ feed[1].txs > 0
      /\ feed[1].owners \in [TokenIDs -> Accounts \cup {NoAccount}]
      /\ Tail(es) \in Seq(Events) /\ Len(Tail(es)) = Len(es) - 1 /\ Len(es) \in Nat
      /\ b \in BlockSet
  <2>1. /\ es \in Seq(Events) /\ es # <<>> /\ feed[1].txs \in Nat /\ feed[1].txs > 0
        /\ feed[1].owners \in [TokenIDs -> Accounts \cup {NoAccount}]
    BY <1>2 DEF ChainOK, BlockSet
  <2>2. b \in BlockSet
    <3>1. OpenEvents \in Seq(Events)
      BY ConcatProperties DEF ChainOK, OpenEvents
    <3> QED BY <3>1 DEF ChainOK, BlockSet, TypeOK
  <2> QED BY <2>1, <2>2, HeadTailProperties, LenProperties
<1>4. /\ c \in Chains /\ c # <<>> /\ Len(c) = Len(feed) + 1
      /\ \A k \in 1..Len(feed) : c[k] = feed[k]
      /\ c[Len(c)] = b
  <2>1. c = Append(feed, b)
    BY DEF Chain
  <2> HIDE DEF b
  <2> QED BY <1>1, <1>3, <2>1, BlocksAppended
<1>5. PICK f : f = feed'
  OBVIOUS
<1>6. PICK d : d = Append(f, b)
  OBVIOUS
<1>7. Chain' = d
  BY <1>1, <1>5, <1>6 DEF Chain
<1> HIDE DEF b, es
<1> DEFINE fine == /\ f \in Seq(BlockSet) /\ d \in Chains /\ Advances(c, d)
                   /\ \A k \in DOMAIN f : f[k].txs > 0 /\ f[k].events # <<>>
<1>8. ASSUME Len(es) = 1
      PROVE  fine
  <2>1. /\ f = Tail(feed) /\ f \in Seq(BlockSet) /\ Len(f) = Len(feed) - 1
        /\ \A k \in 1..Len(f) : f[k] = feed[k + 1]
    <3>1. f = Tail(feed)
      BY <1>1, <1>2, <1>5, <1>8 DEF es
    <3> QED BY <1>1, <3>1, HeadTailProperties
  <2>2. /\ d \in Chains /\ Len(d) = Len(f) + 1
        /\ \A k \in 1..Len(f) : d[k] = f[k]
        /\ d[Len(d)] = b
    BY <1>3, <1>6, <2>1, BlocksAppended
  <2>3. ASSUME NEW k \in 1..Len(d)
        PROVE  d[k] = c[k + 1]
    <3>1. CASE k = Len(d)
      <4>1. k + 1 = Len(c)
        BY <1>2, <1>4, <2>1, <2>2, <3>1
      <4> QED BY <1>4, <2>2, <3>1, <4>1
    <3>2. CASE k # Len(d)
      <4>1. k \in 1..Len(f) /\ k + 1 \in 1..Len(feed)
        <5>1. PICK n : n = Len(feed)
          OBVIOUS
        <5>2. n \in Nat /\ 1 \in 1..n
          BY <1>2, <5>1
        <5>3. Len(f) = n - 1 /\ Len(d) = n
          BY <2>1, <2>2, <5>1, <5>2
        <5>4. k \in 1..n /\ k # n
          BY <3>2, <5>3
        <5>5. k \in 1..(n - 1) /\ k + 1 \in 1..n
          BY <5>2, <5>4
        <5> QED BY <5>1, <5>3, <5>5
      <4> QED BY <1>4, <2>1, <2>2, <4>1
    <3> QED BY <3>1, <3>2
  <2>4. Len(d) = Len(c) - 1
    BY <1>2, <1>4, <2>1, <2>2
  <2>5. Advances(c, d)
    BY <1>2, <1>3, <1>4, <1>8, <2>3, <2>4 DEF Advances, es
  <2>6. \A k \in DOMAIN f : f[k].txs > 0 /\ f[k].events # <<>>
    <3>1. DOMAIN f = 1..Len(f) /\ \A k \in 1..Len(f) : k + 1 \in 1..Len(feed)
      BY <1>2, <2>1, LenProperties
    <3> QED BY <1>2, <2>1, <3>1 DEF ChainOK
  <2> QED BY <2>1, <2>2, <2>5, <2>6
<1>9. ASSUME Len(es) # 1
      PROVE  fine
  <2>1. f = [feed EXCEPT ![1].events = Tail(@)]
    BY <1>1, <1>2, <1>5, <1>9 DEF es
  <2>2. PICK x : x = [feed[1] EXCEPT !.events = Tail(@)]
    OBVIOUS
  <2>3. /\ x.txs = feed[1].txs /\ x.events = Tail(es) /\ x.owners = feed[1].owners
        /\ x \in BlockSet
    BY <1>2, <1>3, <2>2 DEF BlockSet, es
  <2>4. /\ f = [feed EXCEPT ![1] = x]
    BY <1>2, <2>1, <2>2
  <2>5. f \in Seq(BlockSet) /\ Len(f) = Len(feed) /\ DOMAIN f = 1..Len(feed)
    BY <1>1, <1>2, <2>3, <2>4, ExceptSeq, LenProperties
  <2>6. f[1] = x /\ \A k \in 1..Len(feed) : k # 1 => f[k] = feed[k]
    BY <1>2, <2>4
  <2>7. /\ d \in Chains /\ Len(d) = Len(f) + 1
        /\ \A k \in 1..Len(f) : d[k] = f[k]
        /\ d[Len(d)] = b
    BY <1>3, <1>6, <2>5, BlocksAppended
  <2>8. Len(d) = Len(c) /\ Len(d) \in Nat
    BY <1>2, <1>4, <2>5, <2>7
  <2>9. ASSUME NEW k \in 2..Len(d)
        PROVE  d[k] = c[k]
    <3>1. CASE k = Len(d)
      BY <1>4, <2>7, <2>8, <3>1
    <3>2. CASE k # Len(d)
      <4>1. Len(d) = Len(feed) + 1
        BY <2>5, <2>7
      <4>2. k \in 1..Len(feed) /\ k # 1
        BY <1>2, <3>2, <4>1
      <4> QED BY <1>4, <2>5, <2>6, <2>7, <4>2
    <3> QED BY <3>1, <3>2
  <2>10. d[1] = [c[1] EXCEPT !.events = Tail(@)] /\ c[1] = feed[1]
    BY <1>2, <1>4, <2>2, <2>5, <2>6, <2>7
  <2>11. Advances(c, d)
    BY <1>3, <1>4, <1>9, <2>8, <2>9, <2>10 DEF Advances, es
  <2>12. Tail(es) # <<>>
    <3>1. PICK z : z = Tail(es)
      OBVIOUS
    <3>2. Len(z) # 0
      BY <1>3, <1>9, <3>1
    <3>3. z # <<>>
      BY <3>2, EmptySeq
    <3> QED BY <3>1, <3>3
  <2>13. \A k \in DOMAIN f : f[k].txs > 0 /\ f[k].events # <<>>
    BY <1>2, <1>3, <2>3, <2>5, <2>6, <2>12 DEF ChainOK
  <2> QED BY <2>5, <2>7, <2>11, <2>13
<1>10. fine
  BY <1>8, <1>9
<1> HIDE DEF b
<1>11. ChainOK'
  <2>1. WaitingOK'
    BY <1>1 DEF ChainOK, WaitingOK
  <2> QED BY <1>1, <1>5, <1>10, <2>1 DEF ChainOK
<1>12. PICK e : e = Head(es)
  OBVIOUS
<1>13. PICK o : o = feed[1].owners
  OBVIOUS
<1>14. c[1] = feed[1] /\ e = Head(c[1].events) /\ c[1].owners = o
  BY <1>2, <1>4, <1>12, <1>13 DEF es
<1>15. e \in Events
  BY <1>3, <1>12, HeadTailProperties
<1>16. Handle(e, o)
  BY <1>1, <1>2, <1>12, <1>13 DEF es
<1>17. Takes(c, e, o)
  <2>1. c \in Chains /\ d \in Chains /\ Advances(c, d)
    BY <1>4, <1>10
  <2>2. /\ FirstPlace \in PlacesIn(c)
        /\ EventAt(c, FirstPlace) = Head(c[1].events)
        /\ \A p \in PlacesIn(c) : ~Before(p, FirstPlace)
        /\ \A p \in PlacesIn(d) : /\ PlaceBefore(c, p) \in PlacesIn(c) \ {FirstPlace}
                                   /\ Before(FirstPlace, PlaceBefore(c, p))
                                   /\ EventAt(c, PlaceBefore(c, p)) = EventAt(d, p)
                                   /\ c[PlaceBefore(c, p)[1]].owners = d[p[1]].owners
        /\ \A p \in PlacesIn(c) \ {FirstPlace} :
             \E q \in PlacesIn(d) : p = PlaceBefore(c, q)
        /\ \A p, q \in PlacesIn(d) :
             /\ Before(PlaceBefore(c, p), PlaceBefore(c, q)) <=> Before(p, q)
             /\ PlaceBefore(c, p)[1] < PlaceBefore(c, q)[1] <=> p[1] < q[1]
             /\ PlaceBefore(c, p) = PlaceBefore(c, q) => p = q
    BY <2>1, Advanced
  <2>3. Places = PlacesIn(c) /\ Places' = PlacesIn(d)
    BY <1>7 DEF Places
  <2>4. /\ \A p : At(p) = EventAt(c, p)
        /\ \A p : At(p)' = EventAt(d, p)
    BY <1>7 DEF At
  <2>5. FirstPlace[1] = 1
    BY DEF FirstPlace
  <2>6. \A p \in Places : ~(p[1] < FirstPlace[1])
    <3>1. \A p \in Places : p[1] \in 1..Len(c)
      BY ChainTyped
    <3> QED BY <2>5, <3>1
  <2> QED BY <1>7, <1>14, <1>15, <2>2, <2>3, <2>4, <2>5, <2>6 DEF Takes
<1> QED BY <1>3, <1>11, <1>13, <1>16, <1>17

-----------------------------------------------------------------------------
(* A transaction adds its events to those still to be indexed              *)

\* What a transaction leaves as it is.
Keeps ==
  /\ claims' = claims /\ allowlists' = allowlists /\ claimTokens' = claimTokens
  /\ \A t \in TypeIDs : Created(t) => Created(t)'
  /\ merged \subseteq merged' /\ merged' \subseteq TypeIDs
  /\ batched \subseteq batched' /\ batched' \subseteq TokenIDs
  /\ credited \subseteq credited' /\ credited' \subseteq TokenIDs
  /\ early \subseteq early' /\ early' \subseteq TokenIDs

LEMMA KeepsShown ==
  ASSUME Keeps
  PROVE  \A id : (Indexed(id)' <=> Indexed(id)) /\ indexedUnits(id)' = indexedUnits(id)
BY DEF Keeps, Indexed, indexedUnits

LEMMA EmitClaims ==
  ASSUME ClaimsComing, OnlyCreated, \A p \in Places : At(p) \in Events,
         NEW es, Announced(es), NEW f, NEW g, Joins(f, g, es), Keeps
  PROVE  ClaimsComing' /\ OnlyCreated'
<1>1. /\ \A p \in Places : f[p] \in Places' /\ At(f[p])' = At(p)
      /\ \A i \in DOMAIN es : g[i] \in Places' /\ At(g[i])' = es[i]
      /\ \A q \in Places' : (\E p \in Places : q = f[p]) \/ (\E i \in DOMAIN es : q = g[i])
  BY DEF Joins
<1>2. ASSUME NEW t \in TypeIDs, Created(t)'
      PROVE  Stored(t)'
  <2>1. CASE Created(t)
    <3>1. CASE claims[t] # NoEntity
      BY <3>1 DEF Keeps, Stored
    <3>2. CASE claims[t] = NoEntity
      <4>1. PICK p \in Places : At(p).event = "ClaimStored" /\ At(p).claim = t
        BY <2>1, <3>2 DEF ClaimsComing, Stored
      <4> QED BY <1>1, <4>1 DEF Stored
    <3> QED BY <3>1, <3>2
  <2>2. CASE ~Created(t)
    <3>1. PICK i \in DOMAIN es : es[i].event = "ClaimStored" /\ es[i].claim = t
      BY <1>2, <2>2 DEF Announced
    <3> QED BY <1>1, <3>1 DEF Stored
  <2> QED BY <2>1, <2>2
<1>3. ASSUME NEW p \in Places', At(p)'.event = "ValueTransfer"
      PROVE  Created(At(p).claim)'
  <2>1. CASE \E x \in Places : p = f[x]
    <3>1. PICK x \in Places : p = f[x]
      BY <2>1
    <3>2. PICK e : e = At(x)
      OBVIOUS
    <3>3. e \in Events /\ e.event = "ValueTransfer" /\ At(p)' = e
      BY <1>1, <1>3, <3>2, <3>1
    <3>4. e.claim \in TypeIDs
      BY <3>3, EventKinds DEF ValueTransferEvents
    <3>5. Created(e.claim)
      BY <3>2, <3>3 DEF OnlyCreated
    <3>6. Created(e.claim)'
      BY <3>4, <3>5 DEF Keeps
    <3> QED BY <3>3, <3>6 DEF Created
  <2>2. CASE \E i \in DOMAIN es : p = g[i]
    <3>1. PICK i \in DOMAIN es : p = g[i]
      BY <2>2
    <3>2. PICK e : e = es[i]
      OBVIOUS
    <3>3. At(p)' = e
      BY <1>1, <3>1, <3>2
    <3>4. Created(e.claim)'
      BY <1>3, <3>2, <3>3 DEF Announced
    <3> QED BY <3>3, <3>4 DEF Created
  <2> QED BY <1>1, <2>1, <2>2
<1>4. ASSUME NEW id \in TokenIDs, Indexed(id)'
      PROVE  claimTokens'[id].claim = getBaseType(id) /\ Created(getBaseType(id))'
  <2>1. Indexed(id)
    BY <1>4, KeepsShown
  <2>2. getBaseType(id) \in TypeIDs
    BY EndFacts
  <2>3. claimTokens[id].claim = getBaseType(id) /\ Created(getBaseType(id))
    BY <2>1 DEF OnlyCreated
  <2> QED BY <2>2, <2>3 DEF Keeps
<1> QED BY <1>2, <1>3, <1>4 DEF ClaimsComing, OnlyCreated

LEMMA EmitMints ==
  ASSUME MintedIsComing, ComesFirst, NEW es \in Seq(Events), MintsListed(es),
         NEW f, NEW g, Joins(f, g, es), Keeps
  PROVE  MintedIsComing' /\ ComesFirst'
<1>1. /\ \A p \in Places : f[p] \in Places' /\ At(f[p])' = At(p)
      /\ \A i \in DOMAIN es : g[i] \in Places' /\ At(g[i])' = es[i]
      /\ \A q \in Places' : (\E p \in Places : q = f[p]) \/ (\E i \in DOMAIN es : q = g[i])
      /\ \A p, q \in Places : Before(f[p], f[q]) <=> Before(p, q)
      /\ \A i, j \in DOMAIN es : Before(g[i], g[j]) <=> i < j
  BY DEF Joins
<1>2. \A id : Indexed(id)' <=> Indexed(id)
  BY KeepsShown
<1>3. ASSUME NEW id \in TokenIDs
      PROVE  /\ Minted(id) => Minted(id)'
             /\ Minted(id)' /\ ~Minted(id) => CreditsIn(es, id) # {}
             /\ \A i \in CreditsIn(es, id) :
                  ~Minted(id) /\ Minted(id)' /\ CreditsIn(es, id) = {i}
             /\ id \notin credited' =>
                  \A i \in DebitsIn(es, id) : Minted(id) \/ \E j \in CreditsIn(es, id) : j < i
  BY DEF MintsListed
<1>4. ASSUME NEW id \in TokenIDs, Minted(id)'
      PROVE  Indexed(id)' \/ Coming(id)'
  <2>1. CASE Minted(id)
    <3>1. CASE Indexed(id)
      BY <1>2, <3>1
    <3>2. CASE ~Indexed(id)
      <4>1. PICK p \in Places : Credits(At(p), id)
        BY <2>1, <3>2 DEF MintedIsComing, Coming
      <4> QED BY <1>1, <4>1 DEF Coming, Credits
    <3> QED BY <3>1, <3>2
  <2>2. CASE ~Minted(id)
    <3>1. PICK i \in DOMAIN es : Credits(es[i], id)
      BY <1>3, <1>4, <2>2 DEF CreditsIn
    <3> QED BY <1>1, <3>1 DEF Coming, Credits
  <2> QED BY <2>1, <2>2
<1>5. ASSUME NEW id \in TokenIDs \ credited'
      PROVE  /\ Indexed(id)' => Minted(id)'
             /\ \A p \in Places' : Touches(At(p), id)' => Minted(id)'
             /\ \A p \in Places' : Credits(At(p), id)' => ~Debits(At(p), id)'
             /\ id \notin early' =>
                  \A p \in Places' : MintCredits(At(p), id)' =>
                    /\ ~Indexed(id)'
                    /\ \A q \in Places' : Touches(At(q), id)' => p = q \/ Before(p, q)
  <2>1. id \in TokenIDs \ credited
    BY DEF Keeps
  <2>2. /\ Indexed(id) => Minted(id)
        /\ \A p \in Places : Touches(At(p), id) => Minted(id)
        /\ \A p \in Places : Credits(At(p), id) => ~Debits(At(p), id)
    BY <2>1 DEF ComesFirst
  <2>3. Indexed(id)' => Minted(id)'
    BY <1>2, <1>3, <2>2
  <2>4. ASSUME NEW i \in DOMAIN es, Credits(es[i], id)
        PROVE  /\ ~Minted(id) /\ Minted(id)'
               /\ \A j \in DOMAIN es : Credits(es[j], id) => i = j
               /\ \A p \in Places : ~Touches(At(p), id)
    <3>1. i \in CreditsIn(es, id)
      BY <2>4 DEF CreditsIn
    <3>2. ~Minted(id) /\ Minted(id)' /\ CreditsIn(es, id) = {i}
      BY <1>3, <3>1
    <3> QED BY <2>2, <3>1, <3>2 DEF CreditsIn
  <2>5. ASSUME NEW i \in DOMAIN es, Debits(es[i], id)
        PROVE  Minted(id) \/ \E j \in DOMAIN es : Credits(es[j], id) /\ j < i
    <3>1. i \in DebitsIn(es, id)
      BY <2>5 DEF DebitsIn
    <3> QED BY <1>3, <3>1 DEF CreditsIn
  <2>6. ASSUME NEW p \in Places', Touches(At(p), id)'
        PROVE  Minted(id)' /\ (Credits(At(p), id)' => ~Debits(At(p), id)')
    <3>1. CASE \E x \in Places : p = f[x]
      <4>1. PICK x \in Places : p = f[x]
        BY <3>1
      <4>2. Touches(At(x), id)
        BY <1>1, <2>6, <4>1 DEF Touches, Credits, Debits
      <4>3. (Credits(At(x), id) => ~Debits(At(x), id)) /\ At(p)' = At(x)
        BY <1>1, <2>2, <4>1
      <4> QED BY <1>3, <2>2, <4>2, <4>3 DEF Credits, Debits
    <3>2. CASE \E i \in DOMAIN es : p = g[i]
      <4>1. PICK i \in DOMAIN es : p = g[i]
        BY <3>2
      <4>2. Credits(es[i], id) \/ Debits(es[i], id)
        BY <1>1, <2>6, <4>1 DEF Touches, Credits, Debits
      <4>3. Credits(es[i], id) => ~Debits(es[i], id)
        <5>1. SUFFICES ASSUME Credits(es[i], id), Debits(es[i], id)
                       PROVE  FALSE
          OBVIOUS
        <5>2. PICK j \in DOMAIN es : Credits(es[j], id) /\ j < i
          BY <2>4, <2>5, <5>1
        <5>3. i = j /\ DOMAIN es = 1..Len(es)
          BY <2>4, <5>1, <5>2, LenProperties
        <5> QED BY <5>2, <5>3
      <4>4. At(p)' = es[i]
        BY <1>1, <4>1
      <4> QED BY <1>3, <2>4, <2>5, <4>2, <4>3, <4>4 DEF Credits, Debits
    <3> QED BY <1>1, <3>1, <3>2
  <2>7. ASSUME id \notin early', NEW p \in Places', MintCredits(At(p), id)'
        PROVE  /\ ~Indexed(id)'
               /\ \A q \in Places' : Touches(At(q), id)' => p = q \/ Before(p, q)
    <3>1. CASE \E x \in Places : p = f[x]
      <4>1. PICK x \in Places : p = f[x]
        BY <3>1
      <4>2. MintCredits(At(x), id) /\ Touches(At(x), id)
        BY <1>1, <2>7, <4>1 DEF MintCredits, Touches, Credits
      <4>3. id \notin early
        BY <2>7 DEF Keeps
      <4>4. ~Indexed(id) /\ \A y \in Places : Touches(At(y), id) => x = y \/ Before(x, y)
        BY <2>1, <4>2, <4>3 DEF ComesFirst
      <4>5. ASSUME NEW q \in Places', Touches(At(q), id)'
            PROVE  p = q \/ Before(p, q)
        <5>1. CASE \E y \in Places : q = f[y]
          <6>1. PICK y \in Places : q = f[y]
            BY <5>1
          <6>2. Touches(At(y), id)
            BY <1>1, <4>5, <6>1 DEF Touches, Credits, Debits
          <6> QED BY <1>1, <4>1, <4>4, <6>1, <6>2
        <5>2. CASE \E j \in DOMAIN es : q = g[j]
          <6>1. PICK j \in DOMAIN es : q = g[j]
            BY <5>2
          <6>2. Credits(es[j], id) \/ Debits(es[j], id)
            BY <1>1, <4>5, <6>1 DEF Touches, Credits, Debits
          <6>3. Debits(es[j], id)
            BY <2>4, <4>2, <6>2
          <6>4. ~Before(g[j], f[x])
            BY <2>7, <4>2, <6>3 DEF Joins
          <6>5. Before(f[x], g[j])
            BY <6>4 DEF Joins
          <6> QED BY <4>1, <6>1, <6>5
        <5> QED BY <1>1, <5>1, <5>2
      <4> QED BY <1>2, <4>4, <4>5
    <3>2. CASE \E i \in DOMAIN es : p = g[i]
      <4>1. PICK i \in DOMAIN es : p = g[i]
        BY <3>2
      <4>2. Credits(es[i], id)
        BY <1>1, <2>7, <4>1 DEF MintCredits, Credits
      <4>3. ~Minted(id) /\ ~Indexed(id)
        BY <2>2, <2>4, <4>2
      <4>4. ASSUME NEW q \in Places', Touches(At(q), id)'
            PROVE  p = q \/ Before(p, q)
        <5>1. CASE \E y \in Places : q = f[y]
          <6>1. PICK y \in Places : q = f[y]
            BY <5>1
          <6>2. Touches(At(y), id)
            BY <1>1, <4>4, <6>1 DEF Touches, Credits, Debits
          <6> QED BY <2>4, <4>2, <6>2
        <5>2. CASE \E j \in DOMAIN es : q = g[j]
          <6>1. PICK j \in DOMAIN es : q = g[j]
            BY <5>2
          <6>2. Credits(es[j], id) \/ Debits(es[j], id)
            BY <1>1, <4>4, <6>1 DEF Touches, Credits, Debits
          <6>3. CASE Credits(es[j], id)
            BY <2>4, <4>1, <4>2, <6>1, <6>3
          <6>4. CASE Debits(es[j], id)
            <7>1. PICK k \in DOMAIN es : Credits(es[k], id) /\ k < j
              BY <2>5, <4>3, <6>4
            <7>2. i < j
              BY <2>4, <4>2, <7>1
            <7> QED BY <1>1, <4>1, <6>1, <7>2
          <6> QED BY <6>2, <6>3, <6>4
        <5> QED BY <1>1, <5>1, <5>2
      <4> QED BY <1>2, <4>3, <4>4
    <3> QED BY <1>1, <3>1, <3>2
  <2>8. \A p \in Places' : Credits(At(p), id)' => Touches(At(p), id)'
    BY DEF Touches
  <2> QED BY <2>3, <2>6, <2>7, <2>8
<1> QED BY <1>4, <1>5 DEF MintedIsComing, ComesFirst

\* A sum over a set that another set lists without repetition.
LEMMA ListedTotal ==
  ASSUME NEW I, NEW u, Summable(u, I), NEW N, NEW h \in Bijection(I, N), NEW w,
         \A i \in I : w[h[i]] = u[i]
  PROVE  Summable(w, N) /\ Total(w, N) = Total(u, I)
<1>1. IsFiniteSet(N)
  BY FS_Surjection DEF Summable, Bijection
<1>2. ASSUME NEW x \in N
      PROVE  w[x] \in Nat
  <2>1. PICK i \in I : h[i] = x
    BY DEF Bijection, Surjection
  <2> QED BY <2>1 DEF Summable
<1>3. Summable(w, N)
  BY <1>1, <1>2 DEF Summable
<1> QED BY <1>3, TotalReindex

LEMMA EventValues ==
  ASSUME NEW e \in Events
  PROVE  (IF e.event = "ValueTransfer" THEN e.value ELSE 0) \in Nat
BY EventKinds, MinterAssumption DEF ValueTransferEvents

LEMMA PlacesSummable ==
  ASSUME IsFiniteSet(Places), \A p \in Places : At(p) \in Events, NEW K \in SUBSET Places
  PROVE  Summable(ValueAt, K)
<1>1. IsFiniteSet(K)
  BY FS_Subset
<1>2. ASSUME NEW p \in K
      PROVE  ValueAt[p] \in Nat
  <2>1. PICK e : e = At(p)
    OBVIOUS
  <2>2. e \in Events /\ p \in Places
    BY <2>1
  <2>3. ValueAt[p] = IF e.event = "ValueTransfer" THEN e.value ELSE 0
    BY <2>1, <2>2 DEF ValueAt
  <2> QED BY <2>2, <2>3, EventValues
<1> QED BY <1>1, <1>2 DEF Summable

LEMMA EmitTotals ==
  ASSUME IsFiniteSet(Places), \A p \in Places : At(p) \in Events,
         NEW es \in Seq(Events), NEW f, NEW g, Joins(f, g, es),
         NEW K \in SUBSET Places, NEW I \in SUBSET DOMAIN es
  PROVE  /\ Total(ValueAt', {f[p] : p \in K} \cup {g[i] : i \in I}) =
              Total(ValueAt, K) + Total(ValuesOf(es), I)
         /\ Total(ValueAt, K) \in Nat /\ Total(ValuesOf(es), I) \in Nat
<1>1. /\ \A p \in Places : f[p] \in Places' /\ At(f[p])' = At(p)
      /\ \A i \in DOMAIN es : g[i] \in Places' /\ At(g[i])' = es[i]
      /\ \A p, q \in Places : f[p] = f[q] => p = q
      /\ \A i, j \in DOMAIN es : g[i] = g[j] => i = j
      /\ \A p \in Places, i \in DOMAIN es : f[p] # g[i]
  BY DEF Joins
<1>2. PICK v, w, u : v = ValueAt /\ w = ValueAt' /\ u = ValuesOf(es)
  OBVIOUS
<1>3. ASSUME NEW p \in K
      PROVE  w[f[p]] = v[p]
  <2>1. p \in Places /\ f[p] \in Places' /\ At(f[p])' = At(p)
    BY <1>1
  <2> QED BY <1>2, <2>1 DEF ValueAt
<1>4. ASSUME NEW i \in I
      PROVE  w[g[i]] = u[i]
  <2>1. /\ g[i] \in Places' /\ At(g[i])' = es[i]
        /\ u[i] = IF es[i].event = "ValueTransfer" THEN es[i].value ELSE 0
    BY <1>1, <1>2 DEF ValuesOf
  <2> QED BY <1>2, <2>1 DEF ValueAt
<1>5. Summable(v, K)
  BY <1>2, PlacesSummable
<1>6. Summable(u, I)
  <2>1. DOMAIN es = 1..Len(es) /\ Len(es) \in Int /\ 1 \in Int
    BY LenProperties
  <2>2. IsFiniteSet(I)
    BY <2>1, FS_Interval, FS_Subset
  <2>3. ASSUME NEW i \in I
        PROVE  u[i] \in Nat
    <3>1. es[i] \in Events /\ i \in DOMAIN es
      BY <2>1, ElementOfSeq
    <3> QED BY <1>2, <3>1, EventValues DEF ValuesOf
  <2> QED BY <2>2, <2>3 DEF Summable
<1> DEFINE M == {f[p] : p \in K}
           N == {g[i] : i \in I}
           m == [p \in K |-> f[p]]
           n == [i \in I |-> g[i]]
<1>7. m \in Bijection(K, M)
  <2>1. /\ m \in [K -> M]
        /\ \A p, q \in K : m[p] = m[q] => p = q
        /\ \A x \in M : \E p \in K : m[p] = x
    BY <1>1
  <2> HIDE DEF m, M
  <2> QED BY <2>1, Fun_IsBij
<1>8. n \in Bijection(I, N)
  <2>1. /\ n \in [I -> N]
        /\ \A i, j \in I : n[i] = n[j] => i = j
        /\ \A x \in N : \E i \in I : n[i] = x
    BY <1>1
  <2> HIDE DEF n, N
  <2> QED BY <2>1, Fun_IsBij
<1>9. (\A p \in K : w[m[p]] = v[p]) /\ (\A i \in I : w[n[i]] = u[i])
  BY <1>3, <1>4
<1>10. M \cap N = {}
  BY <1>1
<1>11. {f[p] : p \in K} \cup {g[i] : i \in I} = M \cup N
  OBVIOUS
<1> HIDE DEF m, M, n, N
<1>12. Summable(w, M) /\ Total(w, M) = Total(v, K)
  BY <1>5, <1>7, <1>9, ListedTotal
<1>13. Summable(w, N) /\ Total(w, N) = Total(u, I)
  BY <1>6, <1>8, <1>9, ListedTotal
<1>14. Total(w, M \cup N) = Total(w, M) + Total(w, N)
  BY <1>10, <1>12, <1>13, TotalUnion
<1>15. Total(v, K) \in Nat /\ Total(u, I) \in Nat
  BY <1>5, <1>6, TotalIsNat
<1> QED BY <1>2, <1>11, <1>12, <1>13, <1>14, <1>15

LEMMA EmitUnits ==
  ASSUME IsFiniteSet(Places), \A p \in Places : At(p) \in Events,
         SubgraphTypeOK, TypeOK', UnitsAddUp,
         NEW es \in Seq(Events), UnitsListed(es), NEW f, NEW g, Joins(f, g, es), Keeps
  PROVE  UnitsAddUp'
<1>1. /\ \A p \in Places : f[p] \in Places' /\ At(f[p])' = At(p)
      /\ \A i \in DOMAIN es : g[i] \in Places' /\ At(g[i])' = es[i]
      /\ \A q \in Places' : (\E p \in Places : q = f[p]) \/ (\E i \in DOMAIN es : q = g[i])
  BY DEF Joins
<1>2. ASSUME NEW t \in TypeIDs \ merged', NEW id \in FractionIDs(t) \ early'
      PROVE  indexedUnits(id)' + Incoming(id)' = tokenValues'[id] + Outgoing(id)'
  <2>1. id \in TokenIDs /\ t \in TypeIDs \ merged /\ id \in FractionIDs(t) \ early
    BY <1>2, TokenIDsFinite DEF FractionIDs, Keeps
  <2>2. indexedUnits(id) + Incoming(id) = tokenValues[id] + Outgoing(id)
    BY <2>1 DEF UnitsAddUp
  <2>3. tokenValues'[id] + Total(ValuesOf(es), DebitsIn(es, id)) =
          tokenValues[id] + Total(ValuesOf(es), CreditsIn(es, id))
    BY <1>2 DEF UnitsListed
  <2>4. /\ tokenValues[id] \in Int /\ tokenValues'[id] \in Int
        /\ indexedUnits(id) \in Int /\ indexedUnits(id)' = indexedUnits(id)
    <3>1. tokenValues[id] \in Int /\ tokenValues'[id] \in Int
      BY <2>1, MinterAssumption DEF SubgraphTypeOK, TypeOK
    <3>2. claimTokens[id] \in ClaimToken \cup {NoEntity}
      BY <2>1 DEF SubgraphTypeOK
    <3>3. indexedUnits(id) \in Int
      BY <3>2 DEF indexedUnits, Indexed, ClaimToken
    <3> QED BY <3>1, <3>3, KeepsShown
  <2>5. Incoming(id)' = Incoming(id) + Total(ValuesOf(es), CreditsIn(es, id))
        /\ Incoming(id) \in Nat /\ Total(ValuesOf(es), CreditsIn(es, id)) \in Nat
    <3>1. PICK K : K = {p \in Places : Credits(At(p), id)}
      OBVIOUS
    <3>2. PICK I : I = CreditsIn(es, id)
      OBVIOUS
    <3>3. K \in SUBSET Places /\ I \in SUBSET DOMAIN es
      BY <3>1, <3>2 DEF CreditsIn
    <3>4. {p \in Places' : Credits(At(p)', id)} = {f[p] : p \in K} \cup {g[i] : i \in I}
      <4>1. \A q \in Places' : Credits(At(q)', id) => (\E p \in K : q = f[p]) \/ (\E i \in I : q = g[i])
        BY <1>1, <3>1, <3>2 DEF CreditsIn
      <4>2. \A p \in K : f[p] \in Places' /\ Credits(At(f[p])', id)
        BY <1>1, <3>1
      <4>3. \A i \in I : g[i] \in Places' /\ Credits(At(g[i])', id)
        BY <1>1, <3>2 DEF CreditsIn
      <4> QED BY <4>1, <4>2, <4>3
    <3>5. Incoming(id)' = Total(ValueAt', {p \in Places' : Credits(At(p)', id)})
      BY DEF Incoming
    <3>6. /\ Total(ValueAt', {f[p] : p \in K} \cup {g[i] : i \in I}) =
               Total(ValueAt, K) + Total(ValuesOf(es), I)
          /\ Total(ValueAt, K) \in Nat /\ Total(ValuesOf(es), I) \in Nat
      BY <3>3, EmitTotals
    <3> QED BY <3>1, <3>2, <3>4, <3>5, <3>6 DEF Incoming
  <2>6. Outgoing(id)' = Outgoing(id) + Total(ValuesOf(es), DebitsIn(es, id))
        /\ Outgoing(id) \in Nat /\ Total(ValuesOf(es), DebitsIn(es, id)) \in Nat
    <3>1. PICK K : K = {p \in Places : Debits(At(p), id)}
      OBVIOUS
    <3>2. PICK I : I = DebitsIn(es, id)
      OBVIOUS
    <3>3. K \in SUBSET Places /\ I \in SUBSET DOMAIN es
      BY <3>1, <3>2 DEF DebitsIn
    <3>4. {p \in Places' : Debits(At(p)', id)} = {f[p] : p \in K} \cup {g[i] : i \in I}
      <4>1. \A q \in Places' : Debits(At(q)', id) => (\E p \in K : q = f[p]) \/ (\E i \in I : q = g[i])
        BY <1>1, <3>1, <3>2 DEF DebitsIn
      <4>2. \A p \in K : f[p] \in Places' /\ Debits(At(f[p])', id)
        BY <1>1, <3>1
      <4>3. \A i \in I : g[i] \in Places' /\ Debits(At(g[i])', id)
        BY <1>1, <3>2 DEF DebitsIn
      <4> QED BY <4>1, <4>2, <4>3
    <3>5. Outgoing(id)' = Total(ValueAt', {p \in Places' : Debits(At(p)', id)})
      BY DEF Outgoing
    <3>6. /\ Total(ValueAt', {f[p] : p \in K} \cup {g[i] : i \in I}) =
               Total(ValueAt, K) + Total(ValuesOf(es), I)
          /\ Total(ValueAt, K) \in Nat /\ Total(ValuesOf(es), I) \in Nat
      BY <3>3, EmitTotals
    <3> QED BY <3>1, <3>2, <3>4, <3>5, <3>6 DEF Outgoing
  <2>7. PICK u, x, y, a, b, m, n :
          /\ u = indexedUnits(id) /\ x = tokenValues[id] /\ y = tokenValues'[id]
          /\ a = Incoming(id) /\ b = Outgoing(id)
          /\ m = Total(ValuesOf(es), CreditsIn(es, id))
          /\ n = Total(ValuesOf(es), DebitsIn(es, id))
    OBVIOUS
  <2>8. u + (a + m) = y + (b + n)
    <3>1. u + a = x + b /\ y + n = x + m
      BY <2>2, <2>3, <2>7
    <3>2. /\ u \in Int /\ x \in Int /\ y \in Int
          /\ a \in Int /\ b \in Int /\ m \in Int /\ n \in Int
      BY <2>4, <2>5, <2>6, <2>7
    <3> QED BY <3>1, <3>2
  <2> QED BY <2>4, <2>5, <2>6, <2>7, <2>8
<1> QED BY <1>2 DEF UnitsAddUp

LEMMA EmitOwners ==
  ASSUME ComesFirst, OwnersFollow, NEW es \in Seq(Events), MintsListed(es),
         OwnersListed(es), NEW f, NEW g, Joins(f, g, es), Keeps
  PROVE  OwnersFollow'
<1>1. /\ \A p \in Places : f[p] \in Places' /\ At(f[p])' = At(p) /\ f[p][1] = p[1]
      /\ \A i \in DOMAIN es : g[i] \in Places' /\ At(g[i])' = es[i] /\ g[i][1] = Len(Chain)
      /\ \A q \in Places' : (\E p \in Places : q = f[p]) \/ (\E i \in DOMAIN es : q = g[i])
      /\ \A p, q \in Places : Before(f[p], f[q]) <=> Before(p, q)
      /\ \A i, j \in DOMAIN es : Before(g[i], g[j]) <=> i < j
  BY DEF Joins
<1>2. \A p \in Places, i \in DOMAIN es :
        At(p).event = "TransferSingle" => ~Before(g[i], f[p]) /\ Before(f[p], g[i])
  BY DEF Joins
<1>3. /\ \A p \in Places : /\ p[1] # Len(Chain) => /\ p[1] < Len(Chain)
                                                   /\ Chain'[p[1]].owners = Chain[p[1]].owners
                           /\ p[1] = Len(Chain) => Chain'[p[1]].owners = owners'
      /\ Chain'[Len(Chain)].owners = owners'
  BY DEF Joins
<1>4. ASSUME NEW id \in TokenIDs \ (batched' \cup credited')
      PROVE  /\ (Indexed(id)' /\ \A p \in Places' : ~Reassigns(At(p), id)') =>
                  claimTokens'[id].owner = owners'[id]
             /\ \A p \in Places' :
                  /\ LastFor(p, id)'
                  /\ Indexed(id)' \/ \E q \in Places' : Before(q, p) /\ Touches(At(q), id)'
                  => At(p)'.to = owners'[id]
             /\ \A p \in Places' :
                  /\ Touches(At(p), id)'
                  /\ \A q \in Places' : p[1] < q[1] => ~Reassigns(At(q), id)'
                  => Chain'[p[1]].owners[id] = owners'[id]
  <2>1. id \in TokenIDs \ (batched \cup credited) /\ id \notin credited'
    BY DEF Keeps
  <2>2. /\ Indexed(id) => Minted(id)
        /\ \A p \in Places : Touches(At(p), id) => Minted(id)
    BY <2>1 DEF ComesFirst
  <2>3. Minted(id) /\ (\A i \in DOMAIN es : ~Reassigns(es[i], id)) => owners'[id] = owners[id]
    BY DEF OwnersListed
  <2>4. ASSUME NEW i \in DOMAIN es, Reassigns(es[i], id),
               \A j \in DOMAIN es : i < j => ~Reassigns(es[j], id),
               Minted(id) \/ \E j \in CreditsIn(es, id) : j < i
        PROVE  es[i].to = owners'[id]
    BY <2>4 DEF OwnersListed
  <2>5. Indexed(id)' <=> Indexed(id)
    BY KeepsShown
  <2>6. ASSUME Indexed(id)', \A p \in Places' : ~Reassigns(At(p), id)'
        PROVE  claimTokens'[id].owner = owners'[id]
    <3>1. \A i \in DOMAIN es : ~Reassigns(es[i], id)
      BY <1>1, <2>6 DEF Reassigns
    <3>2. \A p \in Places : ~Reassigns(At(p), id)
      BY <1>1, <2>6 DEF Reassigns
    <3>3. claimTokens[id].owner = owners[id] /\ owners'[id] = owners[id]
      BY <2>1, <2>2, <2>3, <2>5, <2>6, <3>1, <3>2 DEF OwnersFollow
    <3> QED BY <3>3 DEF Keeps
  <2>7. ASSUME NEW p \in Places', LastFor(p, id)',
               Indexed(id) \/ \E q \in Places' : Before(q, p) /\ Touches(At(q), id)'
        PROVE  At(p)'.to = owners'[id]
    <3>1. /\ Reassigns(At(p), id)'
          /\ \A q \in Places' : Before(p, q) => ~Reassigns(At(q), id)'
      BY <2>7 DEF LastFor
    <3>2. CASE \E x \in Places : p = f[x]
      <4>1. PICK x \in Places : p = f[x]
        BY <3>2
      <4>2. Reassigns(At(x), id) /\ At(x).event = "TransferSingle"
        BY <1>1, <3>1, <4>1 DEF Reassigns
      <4>3. \A i \in DOMAIN es : ~Reassigns(es[i], id)
        <5>1. \A i \in DOMAIN es : g[i] \in Places' /\ Before(p, g[i]) /\ At(g[i])' = es[i]
          BY <1>1, <1>2, <4>1, <4>2
        <5> QED BY <3>1, <5>1 DEF Reassigns
      <4>4. LastFor(x, id)
        <5>1. ASSUME NEW y \in Places, Before(x, y)
              PROVE  ~Reassigns(At(y), id)
          <6>1. f[y] \in Places' /\ Before(p, f[y]) /\ At(f[y])' = At(y)
            BY <1>1, <4>1, <5>1
          <6> QED BY <3>1, <6>1 DEF Reassigns
        <5> QED BY <4>2, <5>1 DEF LastFor
      <4>5. Indexed(id) \/ \E y \in Places : Before(y, x) /\ Touches(At(y), id)
        <5>1. ASSUME NEW q \in Places', Before(q, p), Touches(At(q), id)'
              PROVE  \E y \in Places : Before(y, x) /\ Touches(At(y), id)
          <6>1. \A i \in DOMAIN es : q # g[i]
            BY <1>2, <4>1, <4>2, <5>1
          <6>2. PICK y \in Places : q = f[y]
            BY <1>1, <6>1
          <6>3. Before(y, x) /\ At(q)' = At(y)
            BY <1>1, <4>1, <5>1, <6>2
          <6> QED BY <5>1, <6>3 DEF Touches, Credits, Debits
        <5> QED BY <2>7, <5>1
      <4>6. At(x).to = owners[id] /\ Minted(id)
        BY <2>1, <2>2, <4>4, <4>5 DEF OwnersFollow
      <4> QED BY <1>1, <2>3, <4>1, <4>3, <4>6
    <3>3. CASE \E i \in DOMAIN es : p = g[i]
      <4>1. PICK i \in DOMAIN es : p = g[i]
        BY <3>3
      <4>2. Reassigns(es[i], id)
        BY <1>1, <3>1, <4>1 DEF Reassigns
      <4>3. ASSUME NEW j \in DOMAIN es, i < j
            PROVE  ~Reassigns(es[j], id)
        <5>1. g[j] \in Places' /\ Before(p, g[j])
          BY <1>1, <4>1, <4>3
        <5> QED BY <1>1, <3>1, <5>1 DEF Reassigns
      <4>4. Minted(id) \/ \E j \in CreditsIn(es, id) : j < i
        <5>1. ASSUME NEW q \in Places', Before(q, p), Touches(At(q), id)'
              PROVE  Minted(id) \/ \E j \in CreditsIn(es, id) : j < i
          <6>1. CASE \E y \in Places : q = f[y]
            BY <1>1, <2>2, <5>1, <6>1 DEF Touches, Credits, Debits
          <6>2. CASE \E j \in DOMAIN es : q = g[j]
            <7>1. PICK j \in DOMAIN es : q = g[j]
              BY <6>2
            <7>2. j < i
              BY <1>1, <4>1, <5>1, <7>1
            <7>3. j \in CreditsIn(es, id) \/ j \in DebitsIn(es, id)
              BY <1>1, <5>1, <7>1 DEF CreditsIn, DebitsIn, Touches, Credits, Debits
            <7>4. CASE j \in CreditsIn(es, id)
              BY <7>2, <7>4
            <7>5. CASE j \in DebitsIn(es, id)
              <8>1. Minted(id) \/ \E k \in CreditsIn(es, id) : k < j
                BY <2>1, <7>5 DEF MintsListed
              <8>2. \A k \in CreditsIn(es, id) : k < j => k < i
                <9>1. DOMAIN es = 1..Len(es) /\ CreditsIn(es, id) \subseteq DOMAIN es
                  BY LenProperties DEF CreditsIn
                <9> QED BY <7>2, <9>1
              <8> QED BY <8>1, <8>2
            <7> QED BY <7>3, <7>4, <7>5
          <6> QED BY <1>1, <5>1, <6>1, <6>2
        <5> QED BY <2>2, <2>7, <5>1
      <4>5. es[i].to = owners'[id]
        BY <2>4, <4>2, <4>3, <4>4
      <4> QED BY <1>1, <4>1, <4>5
    <3> QED BY <1>1, <2>7, <3>2, <3>3
  <2>8. ASSUME NEW p \in Places', Touches(At(p), id)',
               \A q \in Places' : p[1] < q[1] => ~Reassigns(At(q), id)'
        PROVE  Chain'[p[1]].owners[id] = owners'[id]
    <3>1. CASE p[1] = Len(Chain)
      BY <1>3, <3>1
    <3>2. CASE p[1] # Len(Chain)
      <4>1. PICK x \in Places : p = f[x]
        BY <1>1, <2>8, <3>2
      <4>2. x[1] = p[1] /\ p[1] < Len(Chain) /\ Chain'[p[1]].owners = Chain[x[1]].owners
        BY <1>1, <1>3, <3>2, <4>1
      <4>3. \A i \in DOMAIN es : ~Reassigns(es[i], id)
        BY <1>1, <2>8, <4>2 DEF Reassigns
      <4>4. \A q \in Places : x[1] < q[1] => ~Reassigns(At(q), id)
        BY <1>1, <2>8, <4>2 DEF Reassigns
      <4>5. Touches(At(x), id)
        BY <1>1, <2>8, <4>1 DEF Touches, Credits, Debits
      <4>6. Chain[x[1]].owners[id] = owners[id]
        BY <2>1, <4>4, <4>5 DEF OwnersFollow
      <4>7. owners'[id] = owners[id]
        BY <2>2, <2>3, <4>3, <4>5
      <4> QED BY <4>2, <4>6, <4>7
    <3> QED BY <3>1, <3>2
  <2> QED BY <2>5, <2>6, <2>7, <2>8
<1> QED BY <1>4 DEF OwnersFollow

-----------------------------------------------------------------------------
(* Sealing the open block and ending a callback leave the events where     *)
(* they are                                                                *)

\* What is still to be indexed accounts for what the store does not show.
Pending ==
  /\ ClaimsComing /\ OnlyCreated
  /\ MintedIsComing /\ ComesFirst
  /\ UnitsAddUp /\ OwnersFollow

LEMMA PendingStays ==
  ASSUME Pending, UNCHANGED <<owners, tokenValues, maxIndex, typeCounter>>,
         UNCHANGED <<storeVars, historyVars>>, Places' = Places,
         \A p \in Places : At(p)' = At(p) /\ Chain'[p[1]] = Chain[p[1]]
  PROVE  Pending'
<1>1. /\ claims' = claims /\ claimTokens' = claimTokens
      /\ merged' = merged /\ batched' = batched /\ credited' = credited
      /\ early' = early
      /\ owners' = owners /\ tokenValues' = tokenValues
      /\ maxIndex' = maxIndex /\ typeCounter' = typeCounter
  BY DEF storeVars, historyVars
<1>2. /\ \A t : Created(t)' <=> Created(t)
      /\ \A id : /\ Minted(id)' <=> Minted(id)
                 /\ Indexed(id)' <=> Indexed(id)
                 /\ indexedUnits(id)' = indexedUnits(id)
  BY <1>1 DEF Created, Minted, Indexed, indexedUnits
<1>3. ClaimsComing' /\ OnlyCreated'
  <2>1. ASSUME NEW t \in TypeIDs, Created(t)
        PROVE  Stored(t)'
    <3>1. CASE claims[t] # NoEntity
      BY <1>1, <3>1 DEF Stored
    <3>2. CASE claims[t] = NoEntity
      <4>1. PICK p \in Places : At(p).event = "ClaimStored" /\ At(p).claim = t
        BY <2>1, <3>2 DEF Pending, ClaimsComing, Stored
      <4> QED BY <4>1 DEF Stored
    <3> QED BY <3>1, <3>2
  <2>2. ASSUME NEW p \in Places', At(p)'.event = "ValueTransfer"
        PROVE  Created(At(p).claim)'
    <3>1. Created(At(p).claim) /\ At(p)' = At(p)
      BY <2>2 DEF Pending, OnlyCreated
    <3> QED BY <1>1, <3>1 DEF Created
  <2>3. ASSUME NEW id \in TokenIDs, Indexed(id)'
        PROVE  claimTokens'[id].claim = getBaseType(id) /\ Created(getBaseType(id))'
    BY <1>1, <1>2, <2>3 DEF Pending, OnlyCreated
  <2> QED BY <1>2, <2>1, <2>2, <2>3 DEF ClaimsComing, OnlyCreated
<1>4. \A p \in Places : \A id : /\ Credits(At(p), id)' <=> Credits(At(p), id)
                                /\ Debits(At(p), id)' <=> Debits(At(p), id)
                                /\ Touches(At(p), id)' <=> Touches(At(p), id)
                                /\ MintCredits(At(p), id)' <=> MintCredits(At(p), id)
                                /\ Reassigns(At(p), id)' <=> Reassigns(At(p), id)
  BY DEF Credits, Debits, Touches, MintCredits, Reassigns
<1>5. MintedIsComing' /\ ComesFirst'
  <2>1. MintedIsComing'
    BY <1>2, <1>4 DEF Pending, MintedIsComing, Coming
  <2>2. ComesFirst'
    BY <1>1, <1>2, <1>4 DEF Pending, ComesFirst
  <2> QED BY <2>1, <2>2
<1>6. UnitsAddUp'
  <2>1. ValueAt' = ValueAt
    BY DEF ValueAt
  <2>2. ASSUME NEW id
        PROVE  Incoming(id)' = Incoming(id) /\ Outgoing(id)' = Outgoing(id)
    <3>1. /\ {p \in Places' : Credits(At(p), id)'} = {p \in Places : Credits(At(p), id)}
          /\ {p \in Places' : Debits(At(p), id)'} = {p \in Places : Debits(At(p), id)}
      BY <1>4
    <3> QED BY <2>1, <3>1 DEF Incoming, Outgoing
  <2> QED BY <1>1, <1>2, <2>2 DEF Pending, UnitsAddUp
<1>7. OwnersFollow'
  <2>1. \A p \in Places : \A id : LastFor(p, id)' <=> LastFor(p, id)
    BY <1>4 DEF LastFor
  <2> QED BY <1>1, <1>2, <1>4, <2>1 DEF Pending, OwnersFollow
<1> QED BY <1>3, <1>5, <1>6, <1>7 DEF Pending

-----------------------------------------------------------------------------
(* The event handled leaves its mark in the store                          *)

\* What a handler does to the entity of a token.
LEMMA HandledTransfer ==
  ASSUME SubgraphTypeOK, NEW e \in ValueTransferEvents,
         NEW o \in [TokenIDs -> Accounts \cup {NoAccount}], handleValueTransfer(e, o)
  PROVE  /\ claims' = claims /\ allowlists' = allowlists
         /\ claimTokens' \in [Ends -> ClaimToken \cup {NoEntity}]
         /\ \A id \in Ends : id \notin {e.from, e.to} => claimTokens'[id] = claimTokens[id]
         /\ \A id \in {e.from, e.to} :
              /\ Indexed(id)'
              /\ claimTokens'[id].claim = IF Indexed(id) THEN claimTokens[id].claim ELSE e.claim
              /\ id # NoToken => claimTokens'[id].owner =
                                   IF Indexed(id) THEN claimTokens[id].owner ELSE o[id]
         /\ e.to # NoToken => indexedUnits(e.to)' =
              IF e.from = NoToken THEN e.value ELSE indexedUnits(e.to) + e.value
         /\ e.from # NoToken /\ e.from # e.to =>
              indexedUnits(e.from)' = indexedUnits(e.from) - e.value
<1> DEFINE from == getOrCreateClaimToken(e.claim, e.from, o)
           to == getOrCreateClaimToken(e.claim, e.to, o)
           debited == [from EXCEPT !.units = IF e.from = NoToken THEN @ ELSE @ - e.value]
           paid == [to EXCEPT !.units = IF e.to = NoToken THEN @
                                        ELSE IF e.from = NoToken THEN e.value ELSE @ + e.value]
<1>1. /\ e.claim \in TypeIDs /\ e.from \in Ends /\ e.to \in Ends /\ e.value \in Int
  BY MinterAssumption DEF ValueTransferEvents
<1>2. /\ claims' = claims /\ allowlists' = allowlists
      /\ claimTokens' = [claimTokens EXCEPT ![e.from] = debited, ![e.to] = paid]
  BY DEF handleValueTransfer
<1>3. claimTokens \in [Ends -> ClaimToken \cup {NoEntity}]
  BY DEF SubgraphTypeOK, Ends
<1>4. ASSUME NEW id \in Ends, NEW x, x = getOrCreateClaimToken(e.claim, id, o)
      PROVE  /\ x \in ClaimToken
             /\ x.claim = IF Indexed(id) THEN claimTokens[id].claim ELSE e.claim
             /\ id # NoToken =>
                  x.owner = IF Indexed(id) THEN claimTokens[id].owner ELSE o[id]
             /\ x.units = indexedUnits(id)
  <2>1. CASE Indexed(id)
    <3>1. x = claimTokens[id] /\ x \in ClaimToken
      BY <1>3, <1>4, <2>1 DEF getOrCreateClaimToken, Indexed
    <3> QED BY <2>1, <3>1 DEF indexedUnits
  <2>2. CASE ~Indexed(id)
    <3>1. x = [owner |-> IF id = NoToken THEN NoAccount ELSE o[id],
               claim |-> e.claim, units |-> 0]
      BY <1>4, <2>2 DEF getOrCreateClaimToken, Indexed
    <3>2. (IF id = NoToken THEN NoAccount ELSE o[id]) \in Accounts \cup {NoAccount}
      BY DEF Ends
    <3>3. x \in ClaimToken
      BY <1>1, <3>1, <3>2 DEF ClaimToken
    <3> QED BY <2>2, <3>1, <3>3 DEF indexedUnits
  <2> QED BY <2>1, <2>2
<1>5. PICK x : x = from
  OBVIOUS
<1>6. PICK y : y = to
  OBVIOUS
<1>7. /\ x \in ClaimToken
      /\ x.claim = IF Indexed(e.from) THEN claimTokens[e.from].claim ELSE e.claim
      /\ e.from # NoToken =>
           x.owner = IF Indexed(e.from) THEN claimTokens[e.from].owner ELSE o[e.from]
      /\ x.units = indexedUnits(e.from)
  BY <1>1, <1>4, <1>5
<1>8. /\ y \in ClaimToken
      /\ y.claim = IF Indexed(e.to) THEN claimTokens[e.to].claim ELSE e.claim
      /\ e.to # NoToken =>
           y.owner = IF Indexed(e.to) THEN claimTokens[e.to].owner ELSE o[e.to]
      /\ y.units = indexedUnits(e.to)
  BY <1>1, <1>4, <1>6
<1>9. PICK d : d = debited
  OBVIOUS
<1>10. PICK p : p = paid
  OBVIOUS
<1>11. /\ d \in ClaimToken /\ d.claim = x.claim /\ d.owner = x.owner
       /\ e.from # NoToken => d.units = x.units - e.value
  BY <1>1, <1>5, <1>7, <1>9 DEF ClaimToken
<1>12. /\ p \in ClaimToken /\ p.claim = y.claim /\ p.owner = y.owner
       /\ e.to # NoToken => p.units = IF e.from = NoToken THEN e.value ELSE y.units + e.value
  BY <1>1, <1>6, <1>8, <1>10 DEF ClaimToken
<1>13. claimTokens' = [claimTokens EXCEPT ![e.from] = d, ![e.to] = p]
  BY <1>2, <1>9, <1>10
<1> HIDE DEF from, to, debited, paid
<1>14. /\ claimTokens' \in [Ends -> ClaimToken \cup {NoEntity}]
       /\ \A id \in Ends : id \notin {e.from, e.to} => claimTokens'[id] = claimTokens[id]
       /\ claimTokens'[e.to] = p
       /\ e.from # e.to => claimTokens'[e.from] = d
  BY <1>1, <1>3, <1>11, <1>12, <1>13
<1>15. d # NoEntity /\ p # NoEntity
  BY <1>11, <1>12, SubgraphAssumption
<1>16. ASSUME NEW id \in {e.from, e.to}
       PROVE  /\ Indexed(id)'
              /\ claimTokens'[id].claim = IF Indexed(id) THEN claimTokens[id].claim ELSE e.claim
              /\ id # NoToken => claimTokens'[id].owner =
                                   IF Indexed(id) THEN claimTokens[id].owner ELSE o[id]
  <2>1. CASE id = e.to
    BY <1>8, <1>12, <1>14, <1>15, <2>1 DEF Indexed
  <2>2. CASE id = e.from /\ e.from # e.to
    BY <1>7, <1>11, <1>14, <1>15, <2>2 DEF Indexed
  <2> QED BY <2>1, <2>2
<1>17. e.to # NoToken => indexedUnits(e.to)' =
         IF e.from = NoToken THEN e.value ELSE indexedUnits(e.to) + e.value
  BY <1>8, <1>12, <1>14, <1>15 DEF indexedUnits, Indexed
<1>18. e.from # NoToken /\ e.from # e.to =>
         indexedUnits(e.from)' = indexedUnits(e.from) - e.value
  BY <1>7, <1>11, <1>14, <1>15 DEF indexedUnits, Indexed
<1> QED BY <1>2, <1>14, <1>16, <1>17, <1>18

\* What any handler does to the entities of tokens.
LEMMA HandledTokens ==
  ASSUME SubgraphTypeOK, NEW e \in Events, NEW o \in [TokenIDs -> Accounts \cup {NoAccount}],
         Handle(e, o)
  PROVE  /\ claimTokens' \in [Ends -> ClaimToken \cup {NoEntity}]
         /\ \A id \in TokenIDs :
              /\ Indexed(id) => /\ Indexed(id)'
                                /\ claimTokens'[id].claim = claimTokens[id].claim
                                /\ claimTokens'[id].owner =
                                     IF Reassigns(e, id) THEN e.to ELSE claimTokens[id].owner
              /\ Indexed(id)' /\ ~Indexed(id) =>
                   /\ Credits(e, id) \/ Debits(e, id)
                   /\ claimTokens'[id].claim = e.claim
                   /\ claimTokens'[id].owner = o[id]
              /\ Credits(e, id) \/ Debits(e, id) => Indexed(id)'
              /\ Credits(e, id) => indexedUnits(id)' =
                   IF MintCredits(e, id) THEN e.value ELSE indexedUnits(id) + e.value
              /\ Debits(e, id) /\ ~Credits(e, id) =>
                   indexedUnits(id)' = indexedUnits(id) - e.value
              /\ ~Credits(e, id) /\ ~Debits(e, id) => indexedUnits(id)' = indexedUnits(id)
<1>1. claimTokens \in [Ends -> ClaimToken \cup {NoEntity}]
  BY DEF SubgraphTypeOK, Ends
<1>2. CASE e.event \in {"ClaimStored", "AllowlistCreated", "TransferBatch"}
  <2>1. claimTokens' = claimTokens
    BY <1>2 DEF Handle, handleClaimStored, handleAllowlistCreated, handleTransferBatch,
                storeVars
  <2>2. \A id : ~Credits(e, id) /\ ~Debits(e, id) /\ ~Reassigns(e, id)
    BY <1>2 DEF Credits, Debits, Reassigns
  <2> QED BY <1>1, <2>1, <2>2 DEF Indexed, indexedUnits
<1>3. CASE e.event = "TransferSingle"
  <2>1. \A id : /\ ~Credits(e, id) /\ ~Debits(e, id)
                /\ Reassigns(e, id) <=> e.id = id
    BY <1>3 DEF Credits, Debits, Reassigns
  <2>2. e.to \in Accounts \cup {NoAccount} /\ e.id \in Ends
    BY <1>3, EventKinds DEF TransferSingleEvents, Ends
  <2>3. claimTokens' = IF claimTokens[e.id] = NoEntity THEN claimTokens
                       ELSE [claimTokens EXCEPT ![e.id].owner = e.to]
    BY <1>3 DEF Handle, handleTransferSingle
  <2>4. CASE claimTokens[e.id] = NoEntity
    BY <1>1, <2>1, <2>3, <2>4 DEF Indexed, indexedUnits
  <2>5. CASE claimTokens[e.id] # NoEntity
    <3>1. PICK x : x = [claimTokens[e.id] EXCEPT !.owner = e.to]
      OBVIOUS
    <3>2. claimTokens[e.id] \in ClaimToken
      BY <1>1, <2>2, <2>5
    <3>3. /\ x \in ClaimToken /\ x.owner = e.to
          /\ x.claim = claimTokens[e.id].claim /\ x.units = claimTokens[e.id].units
      BY <2>2, <3>1, <3>2 DEF ClaimToken
    <3>4. claimTokens' = [claimTokens EXCEPT ![e.id] = x]
      BY <1>1, <2>2, <2>3, <2>5, <3>1
    <3>5. x # NoEntity
      BY <3>3, SubgraphAssumption
    <3>6. /\ claimTokens' \in [Ends -> ClaimToken \cup {NoEntity}]
          /\ claimTokens'[e.id] = x
          /\ \A id \in Ends : id # e.id => claimTokens'[id] = claimTokens[id]
      BY <1>1, <2>2, <3>3, <3>4
    <3>7. ASSUME NEW id \in TokenIDs
          PROVE  /\ Indexed(id)' <=> Indexed(id)
                 /\ Indexed(id) => /\ claimTokens'[id].claim = claimTokens[id].claim
                                   /\ claimTokens'[id].owner =
                                        IF Reassigns(e, id) THEN e.to ELSE claimTokens[id].owner
                 /\ indexedUnits(id)' = indexedUnits(id)
      <4>1. CASE id = e.id
        BY <2>1, <2>5, <3>3, <3>5, <3>6, <4>1 DEF Indexed, indexedUnits
      <4>2. CASE id # e.id
        <5>1. claimTokens'[id] = claimTokens[id]
          BY <3>6, <4>2 DEF Ends
        <5> QED BY <2>1, <4>2, <5>1 DEF Indexed, indexedUnits
      <4> QED BY <4>1, <4>2
    <3> QED BY <2>1, <3>6, <3>7
  <2> QED BY <2>4, <2>5
<1>4. CASE e.event = "ValueTransfer"
  <2>1. handleValueTransfer(e, o) /\ e \in ValueTransferEvents
    BY <1>4, EventKinds DEF Handle
  <2>2. \A id : /\ Credits(e, id) <=> e.to = id
                /\ Debits(e, id) <=> e.from = id
                /\ MintCredits(e, id) <=> e.to = id /\ e.from = NoToken
                /\ ~Reassigns(e, id)
    BY <1>4 DEF Credits, Debits, MintCredits, Reassigns
  <2>3. /\ claimTokens' \in [Ends -> ClaimToken \cup {NoEntity}]
        /\ \A id \in Ends : id \notin {e.from, e.to} => claimTokens'[id] = claimTokens[id]
        /\ \A id \in {e.from, e.to} :
             /\ Indexed(id)'
             /\ claimTokens'[id].claim = IF Indexed(id) THEN claimTokens[id].claim ELSE e.claim
             /\ id # NoToken => claimTokens'[id].owner =
                                  IF Indexed(id) THEN claimTokens[id].owner ELSE o[id]
        /\ e.to # NoToken => indexedUnits(e.to)' =
             IF e.from = NoToken THEN e.value ELSE indexedUnits(e.to) + e.value
        /\ e.from # NoToken /\ e.from # e.to =>
             indexedUnits(e.from)' = indexedUnits(e.from) - e.value
    BY <2>1, HandledTransfer
  <2>4. ASSUME NEW id \in TokenIDs
        PROVE  id \in Ends /\ id # NoToken
    BY <2>4, EndFacts
  <2>5. ASSUME NEW id \in TokenIDs, id \notin {e.from, e.to}
        PROVE  /\ claimTokens'[id] = claimTokens[id]
               /\ Indexed(id)' <=> Indexed(id)
               /\ indexedUnits(id)' = indexedUnits(id)
    <3>1. claimTokens'[id] = claimTokens[id]
      BY <2>3, <2>4, <2>5
    <3> QED BY <3>1 DEF Indexed, indexedUnits
  <2> QED BY <2>2, <2>3, <2>4, <2>5
<1> QED BY <1>2, <1>3, <1>4, EventKinds

LEMMA HandledClaims ==
  ASSUME SubgraphTypeOK, NEW e \in Events, NEW o, Handle(e, o)
  PROVE  /\ claims' \in [TypeIDs -> Claim \cup {NoEntity}]
         /\ allowlists' \in [TypeIDs -> (SUBSET Leaves) \cup {NoEntity}]
         /\ \A t \in TypeIDs : claims[t] # NoEntity => claims'[t] # NoEntity
         /\ e.event = "ClaimStored" => claims'[e.claim] # NoEntity
<1>1. /\ claims \in [TypeIDs -> Claim \cup {NoEntity}]
      /\ allowlists \in [TypeIDs -> (SUBSET Leaves) \cup {NoEntity}]
  BY DEF SubgraphTypeOK
<1>2. CASE e.event = "ClaimStored"
  <2>1. PICK x : x = [totalUnits |-> e.units]
    OBVIOUS
  <2>2. claims' = [claims EXCEPT ![e.claim] = x] /\ allowlists' = allowlists
    BY <1>2, <2>1 DEF Handle, handleClaimStored
  <2>3. x \in Claim /\ e.claim \in TypeIDs
    BY <1>2, <2>1, EventKinds DEF ClaimStoredEvents, Claim
  <2>4. x # NoEntity
    BY <2>3, SubgraphAssumption
  <2> QED BY <1>1, <2>2, <2>3, <2>4
<1>3. CASE e.event = "AllowlistCreated"
  <2>1. /\ claims' = claims
        /\ allowlists' = [allowlists EXCEPT ![e.claim] = IF @ = NoEntity THEN e.root ELSE @]
    BY <1>3 DEF Handle, handleAllowlistCreated
  <2>2. e.root \in SUBSET Leaves
    BY <1>3, EventKinds DEF AllowlistCreatedEvents
  <2> QED BY <1>1, <1>3, <2>1, <2>2
<1>4. CASE e.event \in {"TransferSingle", "TransferBatch", "ValueTransfer"}
  <2>1. claims' = claims /\ allowlists' = allowlists
    BY <1>4 DEF Handle, handleTransferSingle, handleTransferBatch, handleValueTransfer,
                storeVars
  <2> QED BY <1>1, <1>4, <2>1
<1> QED BY <1>2, <1>3, <1>4, EventKinds

LEMMA IndexClaims ==
  ASSUME SubgraphTypeOK, ClaimsComing, OnlyCreated, UNCHANGED vars,
         NEW c, NEW e, NEW o \in [TokenIDs -> Accounts \cup {NoAccount}],
         Takes(c, e, o), Handle(e, o)
  PROVE  ClaimsComing' /\ OnlyCreated'
<1>1. /\ FirstPlace \in Places /\ At(FirstPlace) = e /\ e \in Events
      /\ \A p \in Places' : /\ PlaceBefore(c, p) \in Places
                            /\ At(p)' = At(PlaceBefore(c, p))
      /\ \A p \in Places \ {FirstPlace} : \E q \in Places' : p = PlaceBefore(c, q)
  BY DEF Takes
<1>2. typeCounter' = typeCounter
  BY DEF vars, typeVars
<1>3. ASSUME NEW t \in TypeIDs, Created(t)
      PROVE  Stored(t)'
  <2>1. CASE claims[t] # NoEntity
    BY <1>1, <2>1, HandledClaims DEF Stored
  <2>2. CASE claims[t] = NoEntity
    <3>1. PICK p \in Places : At(p).event = "ClaimStored" /\ At(p).claim = t
      BY <1>3, <2>2 DEF ClaimsComing, Stored
    <3>2. CASE p = FirstPlace
      BY <1>1, <3>1, <3>2, HandledClaims DEF Stored
    <3>3. CASE p # FirstPlace
      <4>1. PICK q \in Places' : p = PlaceBefore(c, q)
        BY <1>1, <3>3
      <4>2. At(q)' = At(p)
        BY <1>1, <4>1
      <4> QED BY <3>1, <4>1, <4>2 DEF Stored
    <3> QED BY <3>2, <3>3
  <2> QED BY <2>1, <2>2
<1>4. ASSUME NEW p \in Places', At(p)'.event = "ValueTransfer"
      PROVE  Created(At(p).claim)'
  <2>1. PICK q : q = PlaceBefore(c, p)
    OBVIOUS
  <2>2. q \in Places /\ At(p)' = At(q)
    BY <1>1, <2>1
  <2>3. Created(At(q).claim)
    BY <1>4, <2>2 DEF OnlyCreated
  <2> QED BY <1>2, <2>2, <2>3 DEF Created
<1>5. ASSUME NEW id \in TokenIDs, Indexed(id)'
      PROVE  claimTokens'[id].claim = getBaseType(id) /\ Created(getBaseType(id))'
  <2>1. claimTokens'[id].claim = getBaseType(id) /\ Created(getBaseType(id))
    <3>1. CASE Indexed(id)
      <4>1. claimTokens'[id].claim = claimTokens[id].claim
        BY <1>1, <3>1, HandledTokens
      <4> QED BY <3>1, <4>1 DEF OnlyCreated
    <3>2. CASE ~Indexed(id)
      <4>1. (Credits(e, id) \/ Debits(e, id)) /\ claimTokens'[id].claim = e.claim
        BY <1>1, <1>5, <3>2, HandledTokens
      <4>2. e.event = "ValueTransfer" /\ id \in {e.from, e.to} /\ id # NoToken
        BY <4>1, EndFacts DEF Credits, Debits
      <4>3. e \in ValueTransferEvents
        BY <1>1, <4>2, EventKinds
      <4>4. getBaseType(id) = e.claim
        BY <4>2, <4>3 DEF ValueTransferEvents
      <4>5. Created(e.claim)
        BY <1>1, <4>2 DEF OnlyCreated
      <4> QED BY <4>1, <4>4, <4>5
    <3> QED BY <3>1, <3>2
  <2> QED BY <1>2, <2>1 DEF Created
<1>6. \A t \in TypeIDs : Created(t)' => Created(t)
  BY <1>2 DEF Created
<1> QED BY <1>3, <1>4, <1>5, <1>6 DEF ClaimsComing, OnlyCreated

LEMMA IndexMints ==
  ASSUME SubgraphTypeOK, MintedIsComing, ComesFirst, UNCHANGED <<vars, historyVars>>,
         NEW c, NEW e, NEW o \in [TokenIDs -> Accounts \cup {NoAccount}],
         Takes(c, e, o), Handle(e, o)
  PROVE  MintedIsComing' /\ ComesFirst'
<1>1. /\ FirstPlace \in Places /\ At(FirstPlace) = e /\ e \in Events
      /\ \A p \in Places : ~Before(p, FirstPlace)
      /\ \A p \in Places' : /\ PlaceBefore(c, p) \in Places \ {FirstPlace}
                            /\ At(p)' = At(PlaceBefore(c, p))
      /\ \A p \in Places \ {FirstPlace} : \E q \in Places' : p = PlaceBefore(c, q)
      /\ \A p, q \in Places' :
           /\ Before(PlaceBefore(c, p), PlaceBefore(c, q)) <=> Before(p, q)
           /\ PlaceBefore(c, p) = PlaceBefore(c, q) => p = q
  BY DEF Takes
<1>2. (\A id : Minted(id)' <=> Minted(id)) /\ credited' = credited /\ early' = early
  BY DEF vars, tokenVars, historyVars, Minted
<1>3. ASSUME NEW id \in TokenIDs
      PROVE  /\ Indexed(id) => Indexed(id)'
             /\ Indexed(id)' /\ ~Indexed(id) => Touches(e, id)
             /\ Credits(e, id) => Indexed(id)'
  BY <1>1, HandledTokens DEF Touches
<1>4. ASSUME NEW id \in TokenIDs, Minted(id), ~Indexed(id)'
      PROVE  Coming(id)'
  <2>1. PICK p \in Places : Credits(At(p), id)
    BY <1>3, <1>4 DEF MintedIsComing, Coming
  <2>2. p # FirstPlace
    BY <1>1, <1>3, <1>4, <2>1
  <2>3. PICK q \in Places' : p = PlaceBefore(c, q)
    BY <1>1, <2>2
  <2>4. At(q)' = At(p)
    BY <1>1, <2>3
  <2> QED BY <2>1, <2>3, <2>4 DEF Coming, Credits
<1>5. ASSUME NEW id \in TokenIDs \ credited
      PROVE  /\ Indexed(id)' => Minted(id)'
             /\ \A p \in Places' : Touches(At(p), id)' => Minted(id)'
             /\ \A p \in Places' : Credits(At(p), id)' => ~Debits(At(p), id)'
             /\ id \notin early =>
                  \A p \in Places' : MintCredits(At(p), id)' =>
                    /\ ~Indexed(id)'
                    /\ \A q \in Places' : Touches(At(q), id)' => p = q \/ Before(p, q)
  <2>1. /\ Indexed(id) => Minted(id)
        /\ \A p \in Places : Touches(At(p), id) => Minted(id)
        /\ \A p \in Places : Credits(At(p), id) => ~Debits(At(p), id)
    BY DEF ComesFirst
  <2>2. Indexed(id)' => Minted(id)'
    BY <1>1, <1>2, <1>3, <2>1
  <2>3. ASSUME NEW p \in Places'
        PROVE  /\ Touches(At(p), id)' => Minted(id)'
               /\ Credits(At(p), id)' => ~Debits(At(p), id)'
    <3>1. PICK x : x = PlaceBefore(c, p)
      OBVIOUS
    <3>2. x \in Places /\ At(p)' = At(x)
      BY <1>1, <3>1
    <3> QED BY <1>2, <2>1, <3>2 DEF Touches, Credits, Debits
  <2>4. ASSUME id \notin early, NEW p \in Places', MintCredits(At(p), id)'
        PROVE  /\ ~Indexed(id)'
               /\ \A q \in Places' : Touches(At(q), id)' => p = q \/ Before(p, q)
    <3>1. PICK x : x = PlaceBefore(c, p)
      OBVIOUS
    <3>2. x \in Places /\ x # FirstPlace /\ MintCredits(At(x), id)
      BY <1>1, <2>4, <3>1 DEF MintCredits, Credits
    <3>3. ~Indexed(id) /\ \A y \in Places : Touches(At(y), id) => x = y \/ Before(x, y)
      BY <2>4, <3>2 DEF ComesFirst
    <3>4. ~Touches(e, id)
      BY <1>1, <3>2, <3>3
    <3>5. ASSUME NEW q \in Places', Touches(At(q), id)'
          PROVE  p = q \/ Before(p, q)
      <4>1. PICK y : y = PlaceBefore(c, q)
        OBVIOUS
      <4>2. y \in Places /\ Touches(At(y), id)
        BY <1>1, <3>5, <4>1 DEF Touches, Credits, Debits
      <4>3. x = y \/ Before(x, y)
        BY <3>3, <4>2
      <4> QED BY <1>1, <3>1, <4>1, <4>3
    <3> QED BY <1>3, <3>3, <3>4, <3>5
  <2> QED BY <2>2, <2>3, <2>4
<1> QED BY <1>2, <1>4, <1>5 DEF MintedIsComing, ComesFirst

LEMMA IndexTotals ==
  ASSUME IsFiniteSet(Places), \A p \in Places : At(p) \in Events,
         NEW c, NEW e, NEW o, Takes(c, e, o),
         NEW K \in SUBSET Places, NEW L,
         L = {q \in Places' : PlaceBefore(c, q) \in K}
  PROVE  /\ Total(ValueAt, K) = Total(ValueAt', L)
              + (IF FirstPlace \in K /\ e.event = "ValueTransfer" THEN e.value ELSE 0)
         /\ Total(ValueAt, K) \in Nat /\ Total(ValueAt', L) \in Nat
<1>1. /\ FirstPlace \in Places /\ At(FirstPlace) = e /\ e \in Events
      /\ \A p \in Places' : /\ PlaceBefore(c, p) \in Places \ {FirstPlace}
                            /\ At(p)' = At(PlaceBefore(c, p))
      /\ \A p \in Places \ {FirstPlace} : \E q \in Places' : p = PlaceBefore(c, q)
      /\ \A p, q \in Places' : PlaceBefore(c, p) = PlaceBefore(c, q) => p = q
  BY DEF Takes
<1>2. PICK v, w : v = ValueAt /\ w = ValueAt'
  OBVIOUS
<1> DEFINE R == K \ {FirstPlace}
           h == [q \in L |-> PlaceBefore(c, q)]
<1>3. h \in Bijection(L, R)
  <2>1. /\ h \in [L -> R]
        /\ \A p, q \in L : h[p] = h[q] => p = q
        /\ \A x \in R : \E q \in L : h[q] = x
    BY <1>1
  <2> HIDE DEF h, R
  <2> QED BY <2>1, Fun_IsBij
<1>4. ASSUME NEW q \in L
      PROVE  w[q] = v[h[q]]
  <2>1. PICK x : x = PlaceBefore(c, q)
    OBVIOUS
  <2>2. q \in Places' /\ x \in Places /\ At(q)' = At(x) /\ h[q] = x
    BY <1>1, <2>1
  <2>3. w[q] = v[x]
    BY <1>2, <2>2 DEF ValueAt
  <2> QED BY <2>2, <2>3
<1>5. Summable(v, K) /\ Summable(v, R)
  <2>1. R \in SUBSET Places
    OBVIOUS
  <2> HIDE DEF R
  <2> QED BY <1>2, <2>1, PlacesSummable
<1>6. v[FirstPlace] = IF e.event = "ValueTransfer" THEN e.value ELSE 0
  BY <1>1, <1>2 DEF ValueAt
<1> HIDE DEF h
<1>7. Total(w, L) = Total(v, R)
  <2> HIDE DEF R
  <2> QED BY <1>3, <1>4, <1>5, TotalReindex
<1>8. Total(v, K) \in Nat /\ Total(v, R) \in Nat
  <2> HIDE DEF R
  <2> QED BY <1>5, TotalIsNat
<1>9. Total(v, K) = Total(v, R) + (IF FirstPlace \in K THEN v[FirstPlace] ELSE 0)
  <2>1. CASE FirstPlace \in K
    BY <1>5, <2>1, TotalRemove
  <2>2. CASE FirstPlace \notin K
    <3>1. R = K
      BY <2>2
    <3> HIDE DEF R
    <3> QED BY <1>8, <2>2, <3>1
  <2> QED BY <2>1, <2>2
<1> HIDE DEF R
<1>10. (IF FirstPlace \in K THEN v[FirstPlace] ELSE 0) =
         (IF FirstPlace \in K /\ e.event = "ValueTransfer" THEN e.value ELSE 0)
  BY <1>6
<1> QED BY <1>2, <1>7, <1>8, <1>9, <1>10

LEMMA IndexUnits ==
  ASSUME SubgraphTypeOK, IsFiniteSet(Places), \A p \in Places : At(p) \in Events,
         UnitsFound, ComesFirst, UnitsAddUp, UNCHANGED <<vars, historyVars>>,
         NEW c, NEW e, NEW o \in [TokenIDs -> Accounts \cup {NoAccount}],
         Takes(c, e, o), Handle(e, o)
  PROVE  UnitsAddUp'
<1>1. /\ FirstPlace \in Places /\ At(FirstPlace) = e /\ e \in Events
      /\ \A p \in Places' : /\ PlaceBefore(c, p) \in Places
                            /\ At(p)' = At(PlaceBefore(c, p))
  BY DEF Takes
<1>2. tokenValues' = tokenValues /\ merged' = merged /\ early' = early
  BY DEF vars, tokenVars, historyVars
<1>3. ASSUME NEW K \in SUBSET Places, NEW L, L = {q \in Places' : PlaceBefore(c, q) \in K}
      PROVE  /\ Total(ValueAt, K) = Total(ValueAt', L)
                  + (IF FirstPlace \in K /\ e.event = "ValueTransfer" THEN e.value ELSE 0)
             /\ Total(ValueAt, K) \in Nat /\ Total(ValueAt', L) \in Nat
  <2>1. PICK v : v = IF FirstPlace \in K /\ e.event = "ValueTransfer" THEN e.value ELSE 0
    OBVIOUS
  <2>2. Total(ValueAt, K) \in Nat
    BY <1>3, IndexTotals
  <2>3. Total(ValueAt', L) \in Nat
    BY <1>3, IndexTotals
  <2>4. Total(ValueAt, K) = Total(ValueAt', L) + v
    BY <1>3, <2>1, IndexTotals
  <2> QED BY <2>1, <2>2, <2>3, <2>4
<1>4. ASSUME NEW t \in TypeIDs \ merged, NEW id \in FractionIDs(t) \ early
      PROVE  indexedUnits(id)' + Incoming(id)' = tokenValues[id] + Outgoing(id)'
  <2>1. /\ id \in TokenIDs \ credited /\ id \notin early
        /\ indexedUnits(id) + Incoming(id) = tokenValues[id] + Outgoing(id)
    <3>1. id \in TokenIDs /\ getBaseType(id) = t
      BY TokenIDsFinite DEF FractionIDs, getBaseType
    <3> QED BY <3>1 DEF UnitsAddUp, UnitsFound, CreditedAreMerged
  <2>2. indexedUnits(id) \in Int /\ tokenValues[id] \in Int
    <3>1. tokenValues[id] \in Int
      BY <2>1, MinterAssumption DEF SubgraphTypeOK, TypeOK
    <3>2. claimTokens[id] \in ClaimToken \cup {NoEntity}
      BY <2>1 DEF SubgraphTypeOK
    <3> QED BY <3>1, <3>2 DEF indexedUnits, Indexed, ClaimToken
  <2>3. /\ Incoming(id) = Incoming(id)' + (IF Credits(e, id) THEN e.value ELSE 0)
        /\ Incoming(id) \in Nat /\ Incoming(id)' \in Nat
    <3>1. PICK K : K = {p \in Places : Credits(At(p), id)}
      OBVIOUS
    <3>2. PICK L : L = {q \in Places' : PlaceBefore(c, q) \in K}
      OBVIOUS
    <3>3. K \in SUBSET Places
      BY <3>1
    <3>4. L = {q \in Places' : Credits(At(q)', id)}
      BY <1>1, <3>1, <3>2
    <3>5. /\ Total(ValueAt, K) = Total(ValueAt', L)
               + (IF FirstPlace \in K /\ e.event = "ValueTransfer" THEN e.value ELSE 0)
          /\ Total(ValueAt, K) \in Nat /\ Total(ValueAt', L) \in Nat
      BY <1>3, <3>2, <3>3
    <3>6. FirstPlace \in K /\ e.event = "ValueTransfer" <=> Credits(e, id)
      BY <1>1, <3>1 DEF Credits
    <3>7. Incoming(id) = Total(ValueAt, K) /\ Incoming(id)' = Total(ValueAt', L)
      BY <3>1, <3>4 DEF Incoming
    <3> QED BY <3>5, <3>6, <3>7
  <2>4. /\ Outgoing(id) = Outgoing(id)' + (IF Debits(e, id) THEN e.value ELSE 0)
        /\ Outgoing(id) \in Nat /\ Outgoing(id)' \in Nat
    <3>1. PICK K : K = {p \in Places : Debits(At(p), id)}
      OBVIOUS
    <3>2. PICK L : L = {q \in Places' : PlaceBefore(c, q) \in K}
      OBVIOUS
    <3>3. K \in SUBSET Places
      BY <3>1
    <3>4. L = {q \in Places' : Debits(At(q)', id)}
      BY <1>1, <3>1, <3>2
    <3>5. /\ Total(ValueAt, K) = Total(ValueAt', L)
               + (IF FirstPlace \in K /\ e.event = "ValueTransfer" THEN e.value ELSE 0)
          /\ Total(ValueAt, K) \in Nat /\ Total(ValueAt', L) \in Nat
      BY <1>3, <3>2, <3>3
    <3>6. FirstPlace \in K /\ e.event = "ValueTransfer" <=> Debits(e, id)
      BY <1>1, <3>1 DEF Debits
    <3>7. Outgoing(id) = Total(ValueAt, K) /\ Outgoing(id)' = Total(ValueAt', L)
      BY <3>1, <3>4 DEF Outgoing
    <3> QED BY <3>5, <3>6, <3>7
  <2>5. /\ Credits(e, id) => indexedUnits(id)' =
                               IF MintCredits(e, id) THEN e.value ELSE indexedUnits(id) + e.value
        /\ Debits(e, id) /\ ~Credits(e, id) => indexedUnits(id)' = indexedUnits(id) - e.value
        /\ ~Credits(e, id) /\ ~Debits(e, id) => indexedUnits(id)' = indexedUnits(id)
    BY <1>1, <2>1, HandledTokens
  <2>6. PICK u, w, x, a, b, m, n :
          /\ u = indexedUnits(id) /\ w = indexedUnits(id)' /\ x = tokenValues[id]
          /\ a = Incoming(id) /\ b = Outgoing(id)
          /\ m = Incoming(id)' /\ n = Outgoing(id)'
    OBVIOUS
  <2>7. /\ u \in Int /\ x \in Int /\ a \in Int /\ b \in Int /\ m \in Int /\ n \in Int
        /\ u + a = x + b
    BY <2>1, <2>2, <2>3, <2>4, <2>6
  <2>8. w + m = x + n
    <3>1. CASE Credits(e, id)
      <4>1. ~Debits(e, id)
        BY <1>1, <2>1, <3>1 DEF ComesFirst
      <4>2. MintCredits(e, id) => ~Indexed(id)
        BY <1>1, <2>1 DEF ComesFirst
      <4>3. MintCredits(e, id) => u = 0
        BY <2>6, <4>2 DEF indexedUnits
      <4>4. PICK v \in Int : v = e.value
        BY <1>1, <3>1, EventKinds, MinterAssumption DEF Credits, ValueTransferEvents
      <4>5. /\ w = IF MintCredits(e, id) THEN v ELSE u + v
            /\ a = m + v /\ b = n + 0
        BY <2>3, <2>4, <2>5, <2>6, <3>1, <4>1, <4>4
      <4>6. w = u + v
        BY <2>7, <4>3, <4>5
      <4> QED BY <2>7, <4>5, <4>6
    <3>2. CASE ~Credits(e, id) /\ Debits(e, id)
      <4>1. w = u - e.value /\ a = m + 0 /\ b = n + e.value
        BY <2>3, <2>4, <2>5, <2>6, <3>2
      <4>2. e.value \in Int
        BY <1>1, <3>2, EventKinds, MinterAssumption DEF Debits, ValueTransferEvents
      <4>3. PICK v \in Int : v = e.value
        BY <4>2
      <4>4. w = u - v /\ a = m /\ b = n + v
        BY <2>7, <4>1, <4>3
      <4> QED BY <2>7, <4>4
    <3>3. CASE ~Credits(e, id) /\ ~Debits(e, id)
      <4>1. w = u /\ a = m + 0 /\ b = n + 0
        BY <2>3, <2>4, <2>5, <2>6, <3>3
      <4> QED BY <2>7, <4>1
    <3> QED BY <3>1, <3>2, <3>3
  <2> QED BY <2>6, <2>8
<1> QED BY <1>2, <1>4 DEF UnitsAddUp

LEMMA IndexOwners ==
  ASSUME SubgraphTypeOK, ComesFirst, OwnersFollow, UNCHANGED <<vars, historyVars>>,
         NEW c, NEW e, NEW o \in [TokenIDs -> Accounts \cup {NoAccount}],
         Takes(c, e, o), Handle(e, o)
  PROVE  OwnersFollow'
<1>1. /\ FirstPlace \in Places /\ At(FirstPlace) = e /\ e \in Events
      /\ Chain[FirstPlace[1]].owners = o
      /\ \A p \in Places : ~Before(p, FirstPlace) /\ ~(p[1] < FirstPlace[1])
      /\ \A p \in Places' : /\ PlaceBefore(c, p) \in Places \ {FirstPlace}
                            /\ Before(FirstPlace, PlaceBefore(c, p))
                            /\ At(p)' = At(PlaceBefore(c, p))
                            /\ Chain'[p[1]].owners = Chain[PlaceBefore(c, p)[1]].owners
      /\ \A p \in Places \ {FirstPlace} : \E q \in Places' : p = PlaceBefore(c, q)
      /\ \A p, q \in Places' :
           /\ Before(PlaceBefore(c, p), PlaceBefore(c, q)) <=> Before(p, q)
           /\ PlaceBefore(c, p)[1] < PlaceBefore(c, q)[1] <=> p[1] < q[1]
  BY DEF Takes
<1>2. owners' = owners /\ batched' = batched /\ credited' = credited
  BY DEF vars, tokenVars, historyVars
<1>3. ASSUME NEW id \in TokenIDs \ (batched \cup credited)
      PROVE  /\ (Indexed(id)' /\ \A p \in Places' : ~Reassigns(At(p), id)') =>
                  claimTokens'[id].owner = owners[id]
             /\ \A p \in Places' :
                  /\ LastFor(p, id)'
                  /\ Indexed(id)' \/ \E q \in Places' : Before(q, p) /\ Touches(At(q), id)'
                  => At(p)'.to = owners[id]
             /\ \A p \in Places' :
                  /\ Touches(At(p), id)'
                  /\ \A q \in Places' : p[1] < q[1] => ~Reassigns(At(q), id)'
                  => Chain'[p[1]].owners[id] = owners[id]
  <2>1. /\ Indexed(id) => claimTokens'[id].owner =
                            IF Reassigns(e, id) THEN e.to ELSE claimTokens[id].owner
        /\ Indexed(id)' /\ ~Indexed(id) => Touches(e, id) /\ claimTokens'[id].owner = o[id]
    BY <1>1, HandledTokens DEF Touches
  <2>2. Indexed(id)' /\ ~Indexed(id) => Touches(e, id)
    BY <2>1
  <2>3. /\ (Indexed(id) /\ \A p \in Places : ~Reassigns(At(p), id)) =>
             claimTokens[id].owner = owners[id]
        /\ \A p \in Places :
             /\ LastFor(p, id)
             /\ Indexed(id) \/ \E q \in Places : Before(q, p) /\ Touches(At(q), id)
             => At(p).to = owners[id]
        /\ \A p \in Places :
             /\ Touches(At(p), id)
             /\ \A q \in Places : p[1] < q[1] => ~Reassigns(At(q), id)
             => Chain[p[1]].owners[id] = owners[id]
    BY DEF OwnersFollow
  <2>4. ASSUME NEW p \in Places \ {FirstPlace}
        PROVE  \E q \in Places' : p = PlaceBefore(c, q) /\ At(q)' = At(p)
    BY <1>1
  <2>5. ASSUME Indexed(id)', \A p \in Places' : ~Reassigns(At(p), id)'
        PROVE  claimTokens'[id].owner = owners[id]
    <3>1. \A p \in Places \ {FirstPlace} : ~Reassigns(At(p), id)
      BY <2>4, <2>5 DEF Reassigns
    <3>2. CASE Indexed(id) /\ Reassigns(e, id)
      <4>1. LastFor(FirstPlace, id)
        BY <1>1, <3>1, <3>2 DEF LastFor
      <4>2. e.to = owners[id]
        BY <1>1, <2>3, <3>2, <4>1
      <4> QED BY <2>1, <3>2, <4>2
    <3>3. CASE Indexed(id) /\ ~Reassigns(e, id)
      BY <1>1, <2>1, <2>3, <3>1, <3>3
    <3>4. CASE ~Indexed(id)
      <4>1. Touches(e, id) /\ claimTokens'[id].owner = o[id]
        BY <2>1, <2>2, <2>5, <3>4
      <4>2. \A q \in Places : FirstPlace[1] < q[1] => ~Reassigns(At(q), id)
        BY <1>1, <3>1
      <4>3. Chain[FirstPlace[1]].owners[id] = owners[id]
        BY <1>1, <2>3, <4>1, <4>2
      <4> QED BY <1>1, <4>1, <4>3
    <3> QED BY <3>2, <3>3, <3>4
  <2>6. ASSUME NEW p \in Places', LastFor(p, id)',
               Indexed(id)' \/ \E q \in Places' : Before(q, p) /\ Touches(At(q), id)'
        PROVE  At(p)'.to = owners[id]
    <3>1. /\ Reassigns(At(p), id)'
          /\ \A q \in Places' : Before(p, q) => ~Reassigns(At(q), id)'
      BY <2>6 DEF LastFor
    <3>2. PICK x : x = PlaceBefore(c, p)
      OBVIOUS
    <3>3. x \in Places /\ Before(FirstPlace, x) /\ At(p)' = At(x)
      BY <1>1, <3>2
    <3>4. ASSUME NEW y \in Places, Before(x, y)
          PROVE  ~Reassigns(At(y), id)
      <4>1. y # FirstPlace
        BY <1>1, <3>3, <3>4
      <4>2. PICK q \in Places' : y = PlaceBefore(c, q) /\ At(q)' = At(y)
        BY <2>4, <4>1
      <4>3. Before(p, q)
        BY <1>1, <3>2, <3>4, <4>2
      <4> QED BY <3>1, <4>2, <4>3 DEF Reassigns
    <3>5. LastFor(x, id)
      BY <3>1, <3>3, <3>4 DEF LastFor, Reassigns
    <3>6. Indexed(id) \/ \E y \in Places : Before(y, x) /\ Touches(At(y), id)
      <4>1. CASE Indexed(id)'
        BY <1>1, <2>2, <3>3, <4>1
      <4>2. CASE \E q \in Places' : Before(q, p) /\ Touches(At(q), id)'
        <5>1. PICK q \in Places' : Before(q, p) /\ Touches(At(q), id)'
          BY <4>2
        <5>2. PICK y : y = PlaceBefore(c, q)
          OBVIOUS
        <5>3. y \in Places /\ Before(y, x) /\ Touches(At(y), id)
          BY <1>1, <3>2, <5>1, <5>2 DEF Touches, Credits, Debits
        <5> QED BY <5>3
      <4> QED BY <2>6, <4>1, <4>2
    <3> QED BY <2>3, <3>3, <3>5, <3>6
  <2>7. ASSUME NEW p \in Places', Touches(At(p), id)',
               \A q \in Places' : p[1] < q[1] => ~Reassigns(At(q), id)'
        PROVE  Chain'[p[1]].owners[id] = owners[id]
    <3>1. PICK x : x = PlaceBefore(c, p)
      OBVIOUS
    <3>2. /\ x \in Places /\ Touches(At(x), id)
          /\ Chain'[p[1]].owners = Chain[x[1]].owners
      BY <1>1, <2>7, <3>1 DEF Touches, Credits, Debits
    <3>3. ASSUME NEW y \in Places, x[1] < y[1]
          PROVE  ~Reassigns(At(y), id)
      <4>1. y # FirstPlace
        BY <1>1, <3>2, <3>3
      <4>2. PICK q \in Places' : y = PlaceBefore(c, q) /\ At(q)' = At(y)
        BY <2>4, <4>1
      <4>3. p[1] < q[1]
        BY <1>1, <3>1, <3>3, <4>2
      <4> QED BY <2>7, <4>2, <4>3 DEF Reassigns
    <3> QED BY <2>3, <3>2, <3>3
  <2> QED BY <2>5, <2>6, <2>7
<1> QED BY <1>2, <1>3 DEF OwnersFollow

-----------------------------------------------------------------------------
(* Counting the transactions whose block is not indexed                    *)

TxsOf(f) == [i \in DOMAIN f |-> f[i].txs]
TxsIn(f) == Total(TxsOf(f), DOMAIN f)

LEMMA FeedSum ==
  ASSUME NEW f \in Seq(BlockSet)
  PROVE  /\ DOMAIN f = 1..Len(f) /\ Len(f) \in Nat
         /\ Summable(TxsOf(f), DOMAIN f) /\ TxsIn(f) \in Nat
         /\ \A i \in DOMAIN f : TxsOf(f)[i] = f[i].txs /\ f[i].txs \in Nat
<1>1. DOMAIN f = 1..Len(f) /\ Len(f) \in Nat /\ Len(f) \in Int /\ 1 \in Int
  BY LenProperties
<1>2. \A i \in DOMAIN f : TxsOf(f)[i] = f[i].txs /\ f[i].txs \in Nat
  <2>1. \A i \in DOMAIN f : f[i] \in BlockSet
    BY <1>1, ElementOfSeq
  <2> QED BY <2>1 DEF TxsOf, BlockSet
<1>3. IsFiniteSet(DOMAIN f)
  BY <1>1, FS_Interval
<1>4. Summable(TxsOf(f), DOMAIN f)
  BY <1>2, <1>3 DEF Summable
<1> QED BY <1>1, <1>2, <1>4, TotalIsNat DEF TxsIn

LEMMA FeedGrows ==
  ASSUME NEW f \in Seq(BlockSet), NEW b \in BlockSet
  PROVE  TxsIn(Append(f, b)) = TxsIn(f) + b.txs
<1>1. PICK d : d = Append(f, b)
  OBVIOUS
<1>2. /\ d \in Seq(BlockSet) /\ Len(d) = Len(f) + 1
      /\ \A k \in 1..Len(f) : d[k] = f[k]
      /\ d[Len(d)] = b
  BY <1>1, BlocksAppended, AppendProperties
<1>3. PICK n \in Nat : n = Len(f)
  BY FeedSum
<1>4. DOMAIN f = 1..n /\ DOMAIN d = 1..(n + 1) /\ Len(d) = n + 1
  BY <1>2, <1>3, FeedSum
<1>5. n + 1 \in DOMAIN d /\ (DOMAIN d) \ {n + 1} = 1..n
  BY <1>4
<1>6. Total(TxsOf(d), DOMAIN d) = Total(TxsOf(d), 1..n) + TxsOf(d)[n + 1]
  <2>1. Summable(TxsOf(d), DOMAIN d) /\ n + 1 \in DOMAIN d
    BY <1>2, <1>5, FeedSum
  <2>2. Total(TxsOf(d), DOMAIN d) = Total(TxsOf(d), (DOMAIN d) \ {n + 1}) + TxsOf(d)[n + 1]
    BY <2>1, TotalRemove
  <2> QED BY <1>5, <2>2
<1>7. Total(TxsOf(d), 1..n) = Total(TxsOf(f), 1..n)
  <2>1. ASSUME NEW k \in 1..n
        PROVE  TxsOf(d)[k] = TxsOf(f)[k]
    <3>1. k \in DOMAIN f /\ k \in DOMAIN d /\ d[k] = f[k]
      BY <1>2, <1>3, <1>4
    <3> QED BY <1>2, <3>1, FeedSum
  <2> QED BY <2>1, TotalSame
<1>8. TxsOf(d)[n + 1] = b.txs
  BY <1>2, <1>4, <1>5, FeedSum
<1> QED BY <1>1, <1>4, <1>6, <1>7, <1>8 DEF TxsIn

LEMMA FeedShrinks ==
  ASSUME NEW f \in Seq(BlockSet), f # <<>>
  PROVE  TxsIn(f) = TxsIn(Tail(f)) + f[1].txs
<1>1. PICK d : d = Tail(f)
  OBVIOUS
<1>2. PICK n \in Nat : n = Len(f)
  BY FeedSum
<1>3. /\ d \in Seq(BlockSet) /\ Len(d) = n - 1 /\ n >= 1
      /\ \A k \in 1..Len(d) : d[k] = f[k + 1]
  BY <1>1, <1>2, HeadTailProperties, EmptySeq, FeedSum
<1>4. DOMAIN f = 1..n /\ DOMAIN d = 1..(n - 1)
  BY <1>2, <1>3, FeedSum
<1>5. 1 \in DOMAIN f /\ (DOMAIN f) \ {1} = 2..n
  BY <1>3, <1>4
<1>6. Total(TxsOf(f), DOMAIN f) = Total(TxsOf(f), 2..n) + TxsOf(f)[1]
  <2>1. Summable(TxsOf(f), DOMAIN f) /\ 1 \in DOMAIN f
    BY <1>5, FeedSum
  <2>2. Total(TxsOf(f), DOMAIN f) = Total(TxsOf(f), (DOMAIN f) \ {1}) + TxsOf(f)[1]
    BY <2>1, TotalRemove
  <2> QED BY <1>5, <2>2
<1> DEFINE I == 1..(n - 1)
           S == 2..n
           h == [k \in I |-> k + 1]
<1>7. h \in Bijection(I, S)
  <2>1. \A x \in S : x - 1 \in I /\ (x - 1) + 1 = x
    BY <1>3
  <2>2. /\ h \in [I -> S]
        /\ \A i, j \in I : h[i] = h[j] => i = j
        /\ \A x \in S : \E i \in I : h[i] = x
    BY <1>3, <2>1
  <2> HIDE DEF h, I, S
  <2> QED BY <2>2, Fun_IsBij
<1>8. \A k \in I : TxsOf(d)[k] = TxsOf(f)[h[k]]
  <2>1. ASSUME NEW k \in I
        PROVE  TxsOf(d)[k] = TxsOf(f)[h[k]]
    <3>1. k \in DOMAIN d /\ k + 1 \in DOMAIN f /\ d[k] = f[k + 1]
      BY <1>3, <1>4
    <3> QED BY <1>3, <3>1, FeedSum
  <2> QED BY <2>1
<1>9. Summable(TxsOf(f), S)
  <2>1. S \subseteq DOMAIN f
    BY <1>4
  <2>2. Summable(TxsOf(f), DOMAIN f)
    BY FeedSum
  <2> QED BY <2>1, <2>2, FS_Subset DEF Summable
<1>10. Total(TxsOf(d), I) = Total(TxsOf(f), S)
  <2> HIDE DEF h, I, S
  <2> QED BY <1>7, <1>8, <1>9, TotalReindex
<1>11. TxsOf(f)[1] = f[1].txs
  BY <1>5, FeedSum
<1> QED BY <1>1, <1>4, <1>6, <1>10, <1>11 DEF TxsIn

LEMMA AheadCounts ==
  ASSUME ChainOK
  PROVE  /\ Ahead = block.txs + TxsIn(feed)
         /\ block.txs \in Nat /\ TxsIn(feed) \in Nat
BY FeedSum DEF ChainOK, Ahead, TxsIn, TxsOf

\* Nothing is ahead only when no event is left to index.
LEMMA NothingPending ==
  ASSUME ChainOK, TypeOK, CaughtUp
  PROVE  Places = {}
<1>1. block.txs = 0 /\ TxsIn(feed) = 0
  BY AheadCounts DEF CaughtUp
<1>2. feed = <<>>
  <2>1. SUFFICES ASSUME feed # <<>>
                 PROVE  FALSE
    OBVIOUS
  <2>2. feed \in Seq(BlockSet) /\ 1 \in DOMAIN feed /\ Tail(feed) \in Seq(BlockSet)
    <3>1. feed \in Seq(BlockSet)
      BY DEF ChainOK
    <3> QED BY <2>1, <3>1, FeedSum, EmptySeq, HeadTailProperties
  <2>3. feed[1].txs > 0 /\ feed[1].txs \in Nat
    BY <2>2, FeedSum DEF ChainOK
  <2>4. TxsIn(Tail(feed)) \in Nat
    BY <2>2, FeedSum
  <2>5. TxsIn(feed) = TxsIn(Tail(feed)) + feed[1].txs
    BY <2>1, <2>2, FeedShrinks
  <2> QED BY <1>1, <2>3, <2>4, <2>5
<1>3. OpenEvents = <<>>
  <2>1. block.events = <<>>
    BY <1>1 DEF ChainOK
  <2>2. unemitted = <<>>
    BY <1>1 DEF ChainOK, WaitingOK
  <2> QED BY <2>1, <2>2 DEF OpenEvents
<1>4. Len(Chain) = 1 /\ Chain[1].events = <<>> /\ Chain \in Chains
  <2>1. Len(feed) = 0
    BY <1>2, EmptySeq
  <2>2. Len(Chain) = 1
    BY <2>1, ChainTyped
  <2> QED BY <1>3, <2>2, ChainTyped
<1>5. ASSUME NEW p \in Places
      PROVE  FALSE
  <2>1. p[1] \in 1..Len(Chain) /\ p[2] \in 1..Len(Chain[p[1]].events)
    BY <1>4, PlaceShape DEF Places
  <2>2. p[1] = 1
    BY <1>4, <2>1
  <2>3. Len(Chain[1].events) = 0
    BY <1>4, EmptySeq
  <2> QED BY <2>1, <2>2, <2>3
<1> QED BY <1>5

LEMMA AheadIsBounded ==
  ASSUME ChainOK, Ahead <= MaxAhead, TypeOK,
         \/ (\E es : Emits(es)) \/ SealBlock \/ IndexEvent
         \/ feed' = feed /\ block'.txs = block.txs
  PROVE  Ahead' <= MaxAhead
<1>1. /\ feed \in Seq(BlockSet) /\ block.txs \in Nat
      /\ Ahead = block.txs + TxsIn(feed) /\ TxsIn(feed) \in Nat
  BY AheadCounts DEF ChainOK
<1>2. Ahead' = block'.txs + TxsIn(feed')
  BY DEF Ahead, TxsIn, TxsOf
<1>3. MaxAhead \in Nat
  BY SubgraphAssumption
<1>4. ASSUME NEW es, Emits(es)
      PROVE  Ahead' <= MaxAhead
  <2>1. feed' = feed /\ block'.txs = block.txs + 1 /\ Ahead < MaxAhead
    <3>1. CASE Emit(es)
      BY <3>1 DEF Emit
    <3>2. CASE EmitsInParts(es)
      <4>1. PICK receiver \in Contracts, call \in Nat, before \in Seq(Events),
                 after \in Seq(Events) : EmitAround(receiver, call, before, after)
        BY <3>2 DEF EmitsInParts
      <4>2. /\ Ahead < MaxAhead /\ UNCHANGED <<feed, storeVars>>
            /\ block' = [txs |-> block.txs + 1, events |-> block.events \o before]
        BY <4>1, Zenon DEF EmitAround
      <4> QED BY <4>2
    <3> QED BY <1>4, <3>1, <3>2 DEF Emits
  <2>2. Ahead' = (block.txs + 1) + TxsIn(feed)
    BY <1>2, <2>1
  <2> QED BY <1>1, <1>3, <2>1, <2>2
<1>5. ASSUME SealBlock
      PROVE  Ahead' <= MaxAhead
  <2>1. PICK b : b = [txs |-> block.txs, events |-> block.events, owners |-> owners]
    OBVIOUS
  <2>2. b \in BlockSet /\ b.txs = block.txs
    BY <2>1 DEF ChainOK, BlockSet, TypeOK
  <2>3. feed' = Append(feed, b) /\ block'.txs = 0
    BY <1>5, <2>1 DEF SealBlock, EmptyBlock
  <2>4. TxsIn(feed') = TxsIn(feed) + block.txs
    BY <1>1, <2>2, <2>3, FeedGrows
  <2>5. Ahead' = 0 + (TxsIn(feed) + block.txs)
    BY <1>2, <2>3, <2>4
  <2> QED BY <1>1, <1>3, <2>5
<1>6. ASSUME IndexEvent
      PROVE  Ahead' <= MaxAhead
  <2>1. /\ feed # <<>> /\ block' = block
        /\ feed' = IF Len(Head(feed).events) = 1 THEN Tail(feed)
                   ELSE [feed EXCEPT ![1].events = Tail(@)]
    BY <1>6 DEF IndexEvent
  <2>2. 1 \in DOMAIN feed /\ Tail(feed) \in Seq(BlockSet)
    BY <1>1, <2>1, FeedSum, EmptySeq, HeadTailProperties
  <2>3. ASSUME feed' = Tail(feed)
        PROVE  TxsIn(feed') <= TxsIn(feed)
    <3>1. TxsIn(feed) = TxsIn(Tail(feed)) + feed[1].txs
      BY <1>1, <2>1, FeedShrinks
    <3>2. TxsIn(Tail(feed)) \in Nat /\ feed[1].txs \in Nat
      BY <1>1, <2>2, FeedSum
    <3> QED BY <1>1, <2>3, <3>1, <3>2
  <2>4. ASSUME feed' = [feed EXCEPT ![1].events = Tail(@)]
        PROVE  TxsIn(feed') = TxsIn(feed)
    <3>1. DOMAIN feed' = DOMAIN feed
      BY <2>4
    <3>2. \A i \in DOMAIN feed : TxsOf(feed')[i] = TxsOf(feed)[i]
      <4>1. feed[1] \in BlockSet
        BY <1>1, <2>2, ElementOfSeq, FeedSum
      <4>2. ASSUME NEW i \in DOMAIN feed
            PROVE  feed'[i].txs = feed[i].txs
        <5>1. CASE i = 1
          BY <2>2, <2>4, <4>1, <5>1 DEF BlockSet
        <5>2. CASE i # 1
          BY <2>4, <5>2
        <5> QED BY <5>1, <5>2
      <4> QED BY <3>1, <4>2 DEF TxsOf
    <3> QED BY <3>1, <3>2, TotalSame DEF TxsIn
  <2>5. TxsIn(feed') \in Int
    <3>1. CASE feed' = Tail(feed)
      <4>1. TxsIn(Tail(feed)) \in Nat
        BY <2>2, FeedSum
      <4> QED BY <3>1, <4>1
    <3>2. CASE feed' = [feed EXCEPT ![1].events = Tail(@)]
      BY <1>1, <2>4, <3>2
    <3> QED BY <2>1, <3>1, <3>2
  <2>6. TxsIn(feed') <= TxsIn(feed)
    BY <1>1, <2>1, <2>3, <2>4, <2>5
  <2>7. Ahead' = block.txs + TxsIn(feed')
    BY <1>2, <2>1
  <2> QED BY <1>1, <1>3, <2>5, <2>6, <2>7
<1>7. ASSUME feed' = feed, block'.txs = block.txs
      PROVE  Ahead' <= MaxAhead
  BY <1>1, <1>2, <1>7
<1> QED BY <1>4, <1>5, <1>6, <1>7

-----------------------------------------------------------------------------
(* The invariant                                                           *)

SubgraphInv == Ready /\ SubgraphTypeOK /\ ChainOK /\ Pending

LEMMA SubgraphStart == SubgraphInit => SubgraphInv
<1> SUFFICES ASSUME SubgraphInit PROVE SubgraphInv
  OBVIOUS
<1>1. /\ Init /\ calls = <<>> /\ block = [txs |-> 0, events |-> <<>>] /\ feed = <<>>
      /\ waiting = <<>> /\ unemitted = <<>>
      /\ claims = [t \in TypeIDs |-> NoEntity]
      /\ allowlists = [t \in TypeIDs |-> NoEntity]
      /\ claimTokens = [id \in TokenIDs \cup {NoToken} |-> NoEntity]
      /\ merged = {} /\ batched = {} /\ credited = {} /\ early = {}
  BY DEF SubgraphInit, EmptyBlock, ReentrantInit
<1>2. UnitsInv /\ AllowlistInv /\ TypeOK /\ CallsOK
  BY <1>1, UnitsInit, AllowlistInit DEF AllowlistInv, CallsOK
<1>3. /\ typeCounter = 0 /\ maxIndex = [t \in TypeIDs |-> 0]
      /\ tokenValues = [id \in TokenIDs |-> 0]
  BY <1>1 DEF Init, InitialStorage
<1>4. \A t \in TypeIDs : ~Created(t)
  BY <1>3, MinterAssumption DEF Created, TypeIDs
<1>5. \A id \in TokenIDs : ~Minted(id) /\ ~Indexed(id)
  <2>1. ASSUME NEW id \in TokenIDs
        PROVE  ~Minted(id) /\ ~Indexed(id)
    <3>1. maxIndex[getBaseType(id)] = 0
      BY <1>3, EndFacts
    <3> QED BY <1>1, <3>1 DEF Minted, Indexed
  <2> QED BY <2>1
<1>6. UnitsFound
  BY <1>1, <1>3, <1>4 DEF UnitsFound, ValuesAtMinted, CreditedAreMerged, MintedAreCreated
<1>7. ChainOK
  <2>1. WaitingOK
    BY <1>1 DEF WaitingOK
  <2> QED BY <1>1, <2>1, EmptySeq DEF ChainOK, NoSingles
<1>8. CaughtUp
  <2>1. TxsIn(feed) = 0
    <3>1. DOMAIN feed = {}
      BY <1>1
    <3> QED BY <3>1, TotalEmpty DEF TxsIn
  <2> QED BY <1>1, <1>7, <2>1, AheadCounts DEF CaughtUp
<1>9. Places = {}
  BY <1>2, <1>7, <1>8, NothingPending
<1>10. SubgraphTypeOK
  BY <1>1, <1>2, <1>8, SubgraphAssumption DEF SubgraphTypeOK, CaughtUp
<1>11. Pending
  <2>1. ClaimsComing /\ OnlyCreated
    BY <1>4, <1>5, <1>9 DEF ClaimsComing, OnlyCreated
  <2>2. MintedIsComing /\ ComesFirst
    BY <1>5, <1>9 DEF MintedIsComing, ComesFirst
  <2>3. UnitsAddUp
    <3>1. ASSUME NEW t \in TypeIDs \ merged, NEW id \in FractionIDs(t) \ early
          PROVE  indexedUnits(id) + Incoming(id) = tokenValues[id] + Outgoing(id)
      <4>1. id \in TokenIDs
        BY TokenIDsFinite DEF FractionIDs
      <4>2. indexedUnits(id) = 0 /\ tokenValues[id] = 0
        BY <1>3, <1>5, <4>1 DEF indexedUnits
      <4>3. /\ {p \in Places : Credits(At(p), id)} = {}
            /\ {p \in Places : Debits(At(p), id)} = {}
        BY <1>9
      <4>4. Incoming(id) = 0 /\ Outgoing(id) = 0
        BY <4>3, TotalEmpty DEF Incoming, Outgoing
      <4> QED BY <4>2, <4>4
    <3> QED BY <3>1 DEF UnitsAddUp
  <2>4. OwnersFollow
    BY <1>5, <1>9 DEF OwnersFollow
  <2> QED BY <2>1, <2>2, <2>3, <2>4 DEF Pending
<1> QED BY <1>2, <1>6, <1>7, <1>10, <1>11 DEF SubgraphInv, Ready, ReentrantInv

LEMMA TransactKeeps ==
  ASSUME SubgraphTypeOK, NEW s \in Accounts, Transact(s),
         UNCHANGED storeVars, early \subseteq early', early' \subseteq early \cup TokenIDs
  PROVE  Keeps
<1>1. ASSUME NEW t \in TypeIDs, Created(t)
      PROVE  Created(t)'
  <2>1. CASE NextBy(s)
    BY <1>1, <2>1, CreatedStep DEF SubgraphTypeOK, Fixed
  <2>2. CASE ~NextBy(s)
    <3>1. typeCounter' = typeCounter + 1
      BY <2>2, TransactIsNext DEF CallMintClaim, CallMintClaimWithFractions, CallReceiver,
                                  MintClaim, MintNewType, CreateType, NewType
    <3>2. t \in Nat /\ typeCounter \in Nat
      BY MinterAssumption DEF TypeIDs, SubgraphTypeOK, TypeOK
    <3> QED BY <1>1, <3>1, <3>2 DEF Created
  <2> QED BY <2>1, <2>2
<1>2. /\ merged \subseteq merged' /\ merged' \subseteq TypeIDs
      /\ batched \subseteq batched' /\ batched' \subseteq TokenIDs
      /\ credited \subseteq credited' /\ credited' \subseteq TokenIDs
  BY HistoryGrows DEF SubgraphTypeOK
<1> QED BY <1>1, <1>2 DEF Keeps, SubgraphTypeOK, storeVars

\* What a call emits accounts for what it does.
LEMMA JoinKeepsPending ==
  ASSUME SubgraphInv, TypeOK', NEW es, Accounted(es),
         NEW f, NEW g, Joins(f, g, es), Keeps
  PROVE  Pending'
<1>1. SubgraphTypeOK /\ ChainOK /\ TypeOK
  BY DEF SubgraphInv, SubgraphTypeOK
<1>2. Announced(es) /\ MintsListed(es) /\ UnitsListed(es) /\ OwnersListed(es)
      /\ es \in Seq(Events)
  BY DEF Accounted, Announced
<1>3. IsFiniteSet(Places) /\ \A p \in Places : At(p) \in Events
  BY <1>1, ChainTyped
<1>4. /\ ClaimsComing /\ OnlyCreated /\ MintedIsComing /\ ComesFirst
      /\ UnitsAddUp /\ OwnersFollow
  BY DEF SubgraphInv, Pending
<1>5. ClaimsComing' /\ OnlyCreated'
  BY <1>2, <1>3, <1>4, EmitClaims
<1>6. MintedIsComing' /\ ComesFirst'
  BY <1>2, <1>4, EmitMints
<1>7. UnitsAddUp'
  BY <1>1, <1>2, <1>3, <1>4, EmitUnits
<1>8. OwnersFollow'
  BY <1>2, <1>4, EmitOwners
<1> QED BY <1>5, <1>6, <1>7, <1>8 DEF Pending

LEMMA TransactKeepsInv ==
  ASSUME SubgraphInv, NEW s \in Accounts, waiting = <<>> \/ s \in Contracts, Transact(s)
  PROVE  SubgraphInv'
<1>1. Ready /\ SubgraphTypeOK /\ ChainOK /\ TypeOK /\ WaitingOK /\ CallsOK
  BY DEF SubgraphInv, SubgraphTypeOK, ChainOK, Ready, ReentrantInv
<1>2. ReentrantInv' /\ \E es : Emits(es) /\ Accounted(es)
  BY <1>1, TransactAccounted
<1>3. PICK es : Emits(es) /\ Accounted(es)
  BY <1>2
<1>4. TypeOK' /\ UnitsFound'
  BY <1>2, <1>3 DEF ReentrantInv, UnitsInv, HolderInv, Accounted
<1>5. es \in Seq(Events) /\ es # <<>>
  BY <1>3 DEF Accounted, Announced
<1>6. /\ ChainOK' /\ \E f, g : Joins(f, g, es)
      /\ early \subseteq early' /\ early' \subseteq early \cup TokenIDs
      /\ UNCHANGED storeVars
  BY <1>1, <1>3, <1>4, <1>5, EmitJoins
<1>7. Keeps
  BY <1>1, <1>6, TransactKeeps
<1>8. Pending'
  BY <1>3, <1>4, <1>6, <1>7, JoinKeepsPending
<1>9. Ahead' <= MaxAhead
  BY <1>1, <1>3, AheadIsBounded DEF SubgraphTypeOK
<1>10. SubgraphTypeOK'
  BY <1>1, <1>4, <1>6, <1>7, <1>9 DEF SubgraphTypeOK, Keeps, ChainOK, WaitingOK
<1> QED BY <1>2, <1>4, <1>6, <1>8, <1>10 DEF SubgraphInv, Ready

\* The mint that goes on after its first callback splits its token and creates no type.
LEMMA ReturnFacts ==
  ASSUME Ready, ReturnAndSplit
  PROVE  LET t == Innermost.claimID
         IN  /\ Splits(t, Innermost.fractions) /\ ReentrantNext
             /\ \A u : Created(u)' <=> Created(u)
             /\ DOMAIN calls' = DOMAIN calls
<1>1. TypeOK /\ CallsOK /\ ReturnToSplit
  BY DEF Ready, ReentrantInv, UnitsInv, HolderInv, ReturnAndSplit
<1>2. Splits(Innermost.claimID, Innermost.fractions)
  BY <1>1, ReturnSplits
<1>3. typeCounter' = typeCounter
  BY <1>2 DEF Splits, SplitTokenUnits, typeVars
<1>4. DOMAIN calls' = DOMAIN calls
  <2>1. calls \in Seq(CallSet) /\ calls' \in Seq(CallSet) /\ Len(calls') = Len(calls)
    BY <1>1, <1>2 DEF Splits, CallsOK
  <2> QED BY <2>1, LenProperties
<1> QED BY <1>1, <1>2, <1>3, <1>4 DEF ReentrantNext, Created

LEMMA ReturnKeepsInv ==
  ASSUME SubgraphInv, ReturnAndSplit
  PROVE  SubgraphInv'
<1> DEFINE t == Innermost.claimID
           id == <<t, maxIndex[t]>>
           values == Innermost.fractions
<1>1. Ready /\ SubgraphTypeOK /\ ChainOK /\ TypeOK /\ ReentrantInv
  BY DEF SubgraphInv, SubgraphTypeOK, Ready
<1>2. Splits(t, values) /\ ReentrantNext /\ DOMAIN calls' = DOMAIN calls
      /\ \A u : Created(u)' <=> Created(u)
  BY <1>1, ReturnFacts
<1>3. ReentrantInv' /\ HolderInv' /\ TypeOK'
  BY <1>1, <1>2, ReentrantKeeps DEF ReentrantInv, UnitsInv, HolderInv
<1>4. /\ creators[t] \in Accounts /\ id \in TokenIDs
      /\ values \in Seq(0..MaxUint) /\ Len(values) >= 2
      /\ SplitTokenUnits(creators[t], creators[t], id, values)
  BY <1>2 DEF Splits
<1>5. getBaseType(id) = t
  BY DEF getBaseType
<1>6. PICK items : items = NewShares(t, values)
  OBVIOUS
<1>7. PICK batch, transfers : /\ batch = TransferBatch(creators[t], IDsOf(items))
                              /\ transfers = BatchValueTransfer(id, IDsOf(items), items)
  OBVIOUS
<1>8. UNCHANGED <<storeVars, merged, batched, credited, feed, waiting>>
  BY DEF ReturnAndSplit
<1>9. /\ Accounted(<<batch>> \o transfers)
      /\ items \in Seq(ItemSet) /\ items # <<>> /\ RoomFor(items)
      /\ \A i \in 1..Len(items) : items[i].typeID = t
  <2>1. UNCHANGED <<merged, batched, credited>>
    BY <1>8
  <2> HIDE DEF t, id, values
  <2> QED BY <1>1, <1>3, <1>4, <1>5, <1>6, <1>7, <2>1, SplitAccounted DEF BatchMinted
<1>10. Resumes(batch, transfers)
  BY <1>2, <1>6, <1>7 DEF ReturnAndSplit, Resumes
<1> HIDE DEF t, values
<1>11. /\ batch \in Events /\ transfers \in Seq(Events) /\ transfers # <<>>
       /\ NoSingles(transfers)
  <2>1. id \in Ends /\ \A i \in 1..Len(items) : getBaseType(id) = items[i].typeID
    BY <1>4, <1>5, <1>9, EndFacts
  <2>2. PICK account \in Accounts, from \in Ends : account = creators[t] /\ from = id
    BY <1>4, <2>1
  <2> HIDE DEF id
  <2> QED BY <1>1, <1>7, <1>9, <2>1, <2>2, BatchParts
<1>12. /\ ChainOK' /\ \E f, g : Joins(f, g, <<batch>> \o transfers)
       /\ early \subseteq early' /\ early' \subseteq early \cup TokenIDs
  BY <1>1, <1>3, <1>10, <1>11, ResumeJoins
<1>13. Keeps
  BY <1>1, <1>2, <1>8, <1>12 DEF Keeps, SubgraphTypeOK, storeVars
<1>14. Pending'
  BY <1>3, <1>9, <1>12, <1>13, JoinKeepsPending
<1>15. Ahead' <= MaxAhead
  <2>1. block'.txs = block.txs
    BY <1>1, <1>10 DEF Resumes, ChainOK
  <2> QED BY <1>1, <1>8, <2>1, AheadIsBounded DEF SubgraphTypeOK
<1>16. SubgraphTypeOK'
  BY <1>1, <1>3, <1>8, <1>12, <1>13, <1>15 DEF SubgraphTypeOK, Keeps, ChainOK, WaitingOK
<1>17. UnitsFound'
  BY <1>9 DEF Accounted
<1> QED BY <1>3, <1>12, <1>14, <1>16, <1>17 DEF SubgraphInv, Ready

\* The state of the contract stays as it is.
LEMMA ContractStays ==
  ASSUME Ready, TypeOK, UNCHANGED vars, UNCHANGED calls, UNCHANGED historyVars
  PROVE  Ready' /\ TypeOK'
<1>1. CallsOK'
  BY DEF Ready, ReentrantInv, CallsOK, Created, vars, typeVars
<1> USE DEF vars, typeVars, tokenVars, allowlistVars, adminVars
<1>2. TypeOK'
  BY DEF TypeOK
<1>3. UnitsInv'
  BY <1>2 DEF Ready, ReentrantInv, UnitsInv, HolderInv, SingleHolder, OnlyMintedHeld,
     UnitsBacked, Held, Holds, Minted, Circulating
<1>4. AllowlistInv'
  BY <1>2, ClaimsUntouched DEF Ready, ReentrantInv
<1>5. UnitsFound'
  BY DEF Ready, UnitsFound, ValuesAtMinted, CreditedAreMerged, MintedAreCreated, Minted,
     Created, historyVars
<1> QED BY <1>1, <1>2, <1>3, <1>4, <1>5 DEF Ready, ReentrantInv

\* A callback ends with what was counted of it all along.
LEMMA RestKeepsInv ==
  ASSUME SubgraphInv, ReturnFromCallback
  PROVE  SubgraphInv'
<1>1. Ready /\ SubgraphTypeOK /\ ChainOK /\ TypeOK /\ Pending /\ ReentrantInv /\ CallsOK
  BY DEF SubgraphInv, SubgraphTypeOK, Ready, ReentrantInv
<1>2. UNCHANGED feed /\ UNCHANGED storeVars /\ UNCHANGED historyVars
  BY DEF ReturnFromCallback, EmitRest
<1>3. (UNCHANGED vars /\ UNCHANGED calls) \/ ReturnToStore
  BY DEF ReturnFromCallback, reentrantVars
<1>4. UNCHANGED <<owners, tokenValues, maxIndex, typeCounter>>
  BY <1>3 DEF vars, typeVars, tokenVars, ReturnToStore
<1>5. UnitsFound'
  BY <1>1, <1>2, <1>4 DEF Ready, UnitsFound, ValuesAtMinted, CreditedAreMerged,
     MintedAreCreated, Minted, Created, historyVars
<1>6. ReentrantInv'
  <2>1. CASE UNCHANGED vars /\ UNCHANGED calls
    BY <1>1, <1>2, <2>1, ContractStays DEF Ready
  <2>2. CASE ReturnToStore
    BY <1>1, <2>2, ReentrantKeeps DEF ReentrantNext
  <2> QED BY <1>3, <2>1, <2>2
<1>7. TypeOK'
  BY <1>6 DEF ReentrantInv, UnitsInv, HolderInv
<1>8. ChainOK' /\ Chain' = Chain
  BY <1>1, RestKeepsChain
<1>9. Places' = Places /\ \A p \in Places : At(p)' = At(p) /\ Chain'[p[1]] = Chain[p[1]]
  BY <1>8 DEF Places, At
<1>10. Pending'
  BY <1>1, <1>2, <1>4, <1>9, PendingStays
<1>11. Ahead' <= MaxAhead
  <2>1. block'.txs = block.txs
    BY <1>1 DEF ReturnFromCallback, EmitRest, ChainOK
  <2> QED BY <1>1, <1>2, <2>1, AheadIsBounded DEF SubgraphTypeOK
<1>12. SubgraphTypeOK'
  BY <1>1, <1>2, <1>7, <1>8, <1>11 DEF SubgraphTypeOK, storeVars, historyVars, ChainOK,
     WaitingOK
<1> QED BY <1>5, <1>6, <1>8, <1>10, <1>12 DEF SubgraphInv, Ready

LEMMA SealKeepsInv ==
  ASSUME SubgraphInv, SealBlock
  PROVE  SubgraphInv'
<1>1. Ready /\ SubgraphTypeOK /\ ChainOK /\ TypeOK /\ Pending
  BY DEF SubgraphInv, SubgraphTypeOK
<1>2. /\ UNCHANGED vars /\ UNCHANGED calls /\ UNCHANGED waiting
      /\ UNCHANGED storeVars /\ UNCHANGED historyVars
      /\ UNCHANGED <<owners, tokenValues, maxIndex, typeCounter>>
  BY DEF SealBlock, reentrantVars, vars, typeVars, tokenVars
<1>3. Ready' /\ TypeOK'
  BY <1>1, <1>2, ContractStays
<1>4. /\ ChainOK' /\ Places' = Places
      /\ \A p \in Places : At(p)' = At(p) /\ Chain'[p[1]] = Chain[p[1]]
  BY <1>1, <1>3, SealKeepsPlaces
<1>5. Pending'
  BY <1>1, <1>2, <1>4, PendingStays
<1>6. Ahead' <= MaxAhead
  BY <1>1, AheadIsBounded DEF SubgraphTypeOK
<1>7. SubgraphTypeOK'
  BY <1>1, <1>2, <1>3, <1>6 DEF SubgraphTypeOK, storeVars, historyVars
<1> QED BY <1>3, <1>4, <1>5, <1>7 DEF SubgraphInv

LEMMA IndexKeepsInv ==
  ASSUME SubgraphInv, IndexEvent
  PROVE  SubgraphInv'
<1>1. Ready /\ SubgraphTypeOK /\ ChainOK /\ TypeOK /\ UnitsFound
  BY DEF SubgraphInv, SubgraphTypeOK, Ready
<1>2. /\ ClaimsComing /\ OnlyCreated /\ MintedIsComing /\ ComesFirst
      /\ UnitsAddUp /\ OwnersFollow
  BY DEF SubgraphInv, Pending
<1>3. /\ UNCHANGED vars /\ UNCHANGED calls /\ UNCHANGED waiting /\ UNCHANGED historyVars
      /\ UNCHANGED <<vars, historyVars>>
  BY DEF IndexEvent, reentrantVars
<1>4. Ready' /\ TypeOK'
  BY <1>1, <1>3, ContractStays
<1>5. PICK c : c = Chain
  OBVIOUS
<1>6. /\ ChainOK'
      /\ \E e, o : /\ Takes(c, e, o) /\ Handle(e, o)
                   /\ o \in [TokenIDs -> Accounts \cup {NoAccount}]
  BY <1>1, <1>4, <1>5, IndexTakes
<1>7. PICK e, o : /\ Takes(c, e, o) /\ Handle(e, o)
                  /\ o \in [TokenIDs -> Accounts \cup {NoAccount}]
  BY <1>6
<1>8. IsFiniteSet(Places) /\ \A p \in Places : At(p) \in Events
  BY <1>1, ChainTyped
<1>9. Pending'
  <2>1. ClaimsComing' /\ OnlyCreated'
    BY <1>1, <1>2, <1>3, <1>7, IndexClaims
  <2>2. MintedIsComing' /\ ComesFirst'
    BY <1>1, <1>2, <1>3, <1>7, IndexMints
  <2>3. UnitsAddUp'
    BY <1>1, <1>2, <1>3, <1>7, <1>8, IndexUnits
  <2>4. OwnersFollow'
    BY <1>1, <1>2, <1>3, <1>7, IndexOwners
  <2> QED BY <2>1, <2>2, <2>3, <2>4 DEF Pending
<1>10. Ahead' <= MaxAhead
  BY <1>1, AheadIsBounded DEF SubgraphTypeOK
<1>11. e \in Events
  BY <1>7 DEF Takes
<1>12. /\ claimTokens' \in [Ends -> ClaimToken \cup {NoEntity}]
       /\ claims' \in [TypeIDs -> Claim \cup {NoEntity}]
       /\ allowlists' \in [TypeIDs -> (SUBSET Leaves) \cup {NoEntity}]
  BY <1>1, <1>7, <1>11, HandledTokens, HandledClaims
<1>13. SubgraphTypeOK'
  BY <1>1, <1>3, <1>4, <1>10, <1>12 DEF SubgraphTypeOK, historyVars, Ends
<1> QED BY <1>4, <1>6, <1>9, <1>13 DEF SubgraphInv

LEMMA StutterKeepsInv ==
  ASSUME SubgraphInv, UNCHANGED subgraphVars
  PROVE  SubgraphInv'
<1>1. Ready /\ SubgraphTypeOK /\ ChainOK /\ TypeOK /\ Pending
  BY DEF SubgraphInv, SubgraphTypeOK
<1>2. /\ UNCHANGED vars /\ UNCHANGED calls /\ UNCHANGED storeVars /\ UNCHANGED historyVars
      /\ UNCHANGED <<owners, tokenValues, maxIndex, typeCounter>>
      /\ feed' = feed /\ block' = block /\ waiting' = waiting /\ unemitted' = unemitted
  BY DEF subgraphVars, reentrantVars, chainVars, vars, typeVars, tokenVars
<1>3. Ready' /\ TypeOK'
  BY <1>1, <1>2, ContractStays
<1>4. ChainOK'
  BY <1>1, <1>2 DEF ChainOK, WaitingOK
<1>5. /\ Places' = Places
      /\ \A p \in Places : At(p)' = At(p) /\ Chain'[p[1]] = Chain[p[1]]
  <2>1. Chain' = Chain
    BY <1>2 DEF Chain, OpenEvents
  <2> QED BY <2>1 DEF Places, At
<1>6. Pending'
  BY <1>1, <1>2, <1>5, PendingStays
<1>7. Ahead' = Ahead
  BY <1>2 DEF Ahead
<1>8. SubgraphTypeOK'
  BY <1>1, <1>2, <1>3, <1>7 DEF SubgraphTypeOK, storeVars, historyVars
<1> QED BY <1>3, <1>4, <1>6, <1>8 DEF SubgraphInv

\* What the subgraph will show once it has caught up never comes apart from what
\* the contract holds.
THEOREM SubgraphInvariant == SubgraphSpec => []SubgraphInv
<1>1. SubgraphInv /\ [SubgraphNext]_subgraphVars => SubgraphInv'
  BY TransactKeepsInv, ReturnKeepsInv, RestKeepsInv, SealKeepsInv, IndexKeepsInv,
     StutterKeepsInv DEF SubgraphNext
<1> QED BY <1>1, SubgraphStart, PTL DEF SubgraphSpec

\* The store, the blocks and the history only ever hold what their types say, and
\* no more transactions are ahead than the bound allows.
THEOREM SubgraphTypeCorrect == SubgraphSpec => []SubgraphTypeOK
<1>1. SubgraphInv => SubgraphTypeOK
  BY DEF SubgraphInv
<1> QED BY <1>1, SubgraphInvariant, PTL

\* Once it has caught up, every ClaimToken belongs to the indexed Claim of its type.
THEOREM TokensBelongToClaims == SubgraphSpec => []TokensHaveClaims
<1>1. SubgraphInv => TokensHaveClaims
  <2>1. SUFFICES ASSUME SubgraphInv, CaughtUp, NEW id \in TokenIDs, Indexed(id)
                 PROVE  /\ claimTokens[id].claim = getBaseType(id)
                        /\ claims[getBaseType(id)] # NoEntity
    BY DEF TokensHaveClaims
  <2>2. Places = {}
    BY <2>1, NothingPending DEF SubgraphInv, SubgraphTypeOK
  <2>3. getBaseType(id) \in TypeIDs
    BY EndFacts
  <2> QED BY <2>1, <2>2, <2>3 DEF SubgraphInv, Pending, OnlyCreated, ClaimsComing, Stored
<1> QED BY <1>1, SubgraphInvariant, PTL

\* Once it has caught up, the subgraph shows the contract's units for the tokens of
\* every type that was never merged, however calls were nested in callbacks: but not
\* for a token that gave units before the event of its own mint.
THEOREM UnitsAreIndexed == SubgraphSpec => []UnitsIndexed
<1>1. SubgraphInv => UnitsIndexed
  <2>1. SUFFICES ASSUME SubgraphInv, CaughtUp,
                        NEW t \in TypeIDs \ merged, NEW id \in FractionIDs(t) \ early
                 PROVE  indexedUnits(id) = tokenValues[id]
    BY DEF UnitsIndexed
  <2>2. Places = {}
    BY <2>1, NothingPending DEF SubgraphInv, SubgraphTypeOK
  <2>3. Incoming(id) = 0 /\ Outgoing(id) = 0
    <3>1. /\ {p \in Places : Credits(At(p), id)} = {}
          /\ {p \in Places : Debits(At(p), id)} = {}
      BY <2>2
    <3> QED BY <3>1, TotalEmpty DEF Incoming, Outgoing
  <2>4. indexedUnits(id) + Incoming(id) = tokenValues[id] + Outgoing(id)
    BY <2>1 DEF SubgraphInv, Pending, UnitsAddUp
  <2>5. indexedUnits(id) \in Int /\ tokenValues[id] \in Int
    <3>1. id \in TokenIDs
      BY TokenIDsFinite DEF FractionIDs
    <3>2. tokenValues[id] \in Int
      BY <2>1, <3>1, MinterAssumption DEF SubgraphInv, SubgraphTypeOK, TypeOK
    <3>3. claimTokens[id] \in ClaimToken \cup {NoEntity}
      BY <2>1, <3>1 DEF SubgraphInv, SubgraphTypeOK
    <3> QED BY <3>2, <3>3 DEF indexedUnits, Indexed, ClaimToken
  <2> QED BY <2>3, <2>4, <2>5
<1> QED BY <1>1, SubgraphInvariant, PTL

\* Once it has caught up, the subgraph shows the contract's owner of every token that
\* no batch has moved and no merge has credited early.
THEOREM OwnersAreIndexed == SubgraphSpec => []OwnersIndexed
<1>1. SubgraphInv => OwnersIndexed
  <2>1. SUFFICES ASSUME SubgraphInv, CaughtUp,
                        NEW id \in TokenIDs \ (batched \cup credited), Indexed(id)
                 PROVE  claimTokens[id].owner = owners[id]
    BY DEF OwnersIndexed
  <2>2. Places = {}
    BY <2>1, NothingPending DEF SubgraphInv, SubgraphTypeOK
  <2> QED BY <2>1, <2>2 DEF SubgraphInv, Pending, OwnersFollow
<1> QED BY <1>1, SubgraphInvariant, PTL

\* What the contract does beside its subgraph, it does by its own specification: every
\* theorem about the contract holds here as well.
THEOREM SubgraphUsesMinter == SubgraphSpec => ReentrantSpec
<1>1. SubgraphInit => ReentrantInit
  BY DEF SubgraphInit
<1>2. SubgraphInv /\ [SubgraphNext]_subgraphVars => [ReentrantNext]_reentrantVars
  <2>1. SUFFICES ASSUME SubgraphInv, [SubgraphNext]_subgraphVars
                 PROVE  [ReentrantNext]_reentrantVars
    OBVIOUS
  <2>2. WaitingOK /\ CallsOK
    BY <2>1 DEF SubgraphInv, ChainOK, Ready, ReentrantInv
  <2>3. ASSUME NEW s \in Accounts, waiting = <<>> \/ s \in Contracts, Transact(s)
        PROVE  ReentrantNext
    BY <2>2, <2>3, TransactReentrant
  <2>4. ASSUME ReturnAndSplit \/ ReturnFromCallback \/ SealBlock \/ IndexEvent
        PROVE  ReentrantNext \/ UNCHANGED reentrantVars
    BY <2>4 DEF ReturnAndSplit, ReturnFromCallback, SealBlock, IndexEvent, ReentrantNext
  <2>5. UNCHANGED subgraphVars => UNCHANGED reentrantVars
    BY DEF subgraphVars
  <2> QED BY <2>1, <2>3, <2>4, <2>5 DEF SubgraphNext
<1> QED BY <1>1, <1>2, SubgraphInvariant, PTL DEF SubgraphSpec, ReentrantSpec

=============================================================================
