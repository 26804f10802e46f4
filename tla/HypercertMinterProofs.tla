------------------------ MODULE HypercertMinterProofs ------------------------
(***************************************************************************)
(* Proofs about HypercertMinter for every number of accounts, types,       *)
(* tokens and units: what each transaction does, that every variable keeps *)
(* its type, who may hold a token and how a token changes hands.           *)
(*                                                                         *)
(* First come facts about Total that all proofs cite: it is a natural,     *)
(* bounds its terms, depends on the terms only, splits over disjoint       *)
(* unions and does not change when its terms are reindexed; and what is    *)
(* needed of SetToSeq, which lists a finite set.                           *)
(***************************************************************************)
EXTENDS HypercertMinter, SequencesExt, FunctionTheorems, FiniteSetTheorems,
        SequenceTheorems, TLAPS

-----------------------------------------------------------------------------
(* Sums and lists                                                          *)

\* f gives a natural to every element of the finite set S.
Summable(f, S) == IsFiniteSet(S) /\ \A x \in S : f[x] \in Nat

LEMMA UnitsOverMember ==
  ASSUME NEW f, NEW S, NEW p
  PROVE  p \in UnitsOver(f, S) <=>
           \E x \in S : \E k \in 1..f[x] : p = <<x, k>>
BY DEF UnitsOver

LEMMA UnitsOverFinite ==
  ASSUME NEW f, NEW S, Summable(f, S)
  PROVE  IsFiniteSet(UnitsOver(f, S))
<1> DEFINE units == {{x} \X (1..f[x]) : x \in S}
           g == [x \in S |-> {x} \X (1..f[x])]
<1>1. g \in Surjection(S, units)
  BY DEF Surjection
<1>2. IsFiniteSet(units)
  <2> HIDE DEF units, g
  <2> QED BY <1>1, FS_Surjection DEF Summable
<1>3. ASSUME NEW u \in units
      PROVE  IsFiniteSet(u)
  <2>1. PICK x \in S : u = {x} \X (1..f[x])
    BY <1>3
  <2>2. IsFiniteSet({x})
    BY FS_Singleton
  <2>3. IsFiniteSet(1..f[x])
    BY FS_Interval DEF Summable
  <2> QED BY <2>1, <2>2, <2>3, FS_Product
<1> QED
  <2> HIDE DEF units
  <2>1. IsFiniteSet(UNION units)
    BY <1>2, <1>3, FS_UNION
  <2> QED BY <2>1 DEF UnitsOver, units

\* A sum of naturals over a finite set is a natural.
THEOREM TotalIsNat ==
  ASSUME NEW f, NEW S, Summable(f, S)
  PROVE  Total(f, S) \in Nat
BY UnitsOverFinite, FS_CardinalityType DEF Total

\* The sum over one element is its term.
THEOREM TotalSingleton ==
  ASSUME NEW f, NEW x, f[x] \in Nat
  PROVE  Total(f, {x}) = f[x]
<1> DEFINE A == {x}
           n == f[x]
           B == 1..n
<1>1. UnitsOver(f, {x}) = A \X B
  BY DEF UnitsOver
<1>2. IsFiniteSet(A) /\ Cardinality(A) = 1
  BY FS_Singleton
<1>3. IsFiniteSet(B) /\ Cardinality(B) = n
  BY FS_Interval
<1>4. Cardinality(A \X B) = n
  <2> HIDE DEF A, B, n
  <2>1. Cardinality(A \X B) = Cardinality(A) * Cardinality(B)
    BY <1>2, <1>3, FS_Product
  <2>2. n \in Nat
    BY DEF n
  <2> QED BY <1>2, <1>3, <2>1, <2>2
<1> QED BY <1>1, <1>4 DEF Total

\* The sum over no element is zero.
THEOREM TotalEmpty ==
  ASSUME NEW f
  PROVE  Total(f, {}) = 0
<1>1. UnitsOver(f, {}) = {}
  BY DEF UnitsOver
<1> QED BY <1>1, FS_EmptySet DEF Total

\* The sum over a disjoint union is the sum of the sums.
THEOREM TotalUnion ==
  ASSUME NEW f, NEW S, NEW T, Summable(f, S), Summable(f, T), S \cap T = {}
  PROVE  Total(f, S \cup T) = Total(f, S) + Total(f, T)
<1>1. UnitsOver(f, S \cup T) = UnitsOver(f, S) \cup UnitsOver(f, T)
  BY DEF UnitsOver
<1>2. UnitsOver(f, S) \cap UnitsOver(f, T) = {}
  <2>1. ASSUME NEW p \in UnitsOver(f, S), p \in UnitsOver(f, T)
        PROVE  FALSE
    <3>1. PICK x \in S : \E k \in 1..f[x] : p = <<x, k>>
      BY UnitsOverMember
    <3>2. PICK y \in T : \E k \in 1..f[y] : p = <<y, k>>
      BY <2>1, UnitsOverMember
    <3> QED BY <3>1, <3>2
  <2> QED BY <2>1
<1>3. IsFiniteSet(UnitsOver(f, S)) /\ IsFiniteSet(UnitsOver(f, T))
  BY UnitsOverFinite
<1>4. /\ Cardinality(UnitsOver(f, S)) \in Nat
      /\ Cardinality(UnitsOver(f, T)) \in Nat
  BY <1>3, FS_CardinalityType
<1>5. Cardinality(UnitsOver(f, S) \cap UnitsOver(f, T)) = 0
  BY <1>2, FS_EmptySet
<1>6. Cardinality(UnitsOver(f, S) \cup UnitsOver(f, T)) =
        Cardinality(UnitsOver(f, S)) + Cardinality(UnitsOver(f, T))
          - Cardinality(UnitsOver(f, S) \cap UnitsOver(f, T))
  BY <1>3, FS_Union
<1> DEFINE a == Total(f, S)
           b == Total(f, T)
<1>7. a \in Nat /\ b \in Nat
  BY <1>4 DEF Total
<1>8. Total(f, S \cup T) = a + b - 0
  BY <1>1, <1>5, <1>6 DEF Total
<1> HIDE DEF a, b
<1>9. a + b - 0 = a + b
  BY <1>7
<1> QED BY <1>8, <1>9 DEF a, b

\* The sum over a set is one of its terms and the sum over the others.
THEOREM TotalRemove ==
  ASSUME NEW f, NEW S, Summable(f, S), NEW x \in S
  PROVE  Total(f, S) = Total(f, S \ {x}) + f[x]
<1>1. Summable(f, S \ {x}) /\ Summable(f, {x})
  BY FS_RemoveElement, FS_Singleton DEF Summable
<1>2. S = (S \ {x}) \cup {x} /\ (S \ {x}) \cap {x} = {}
  OBVIOUS
<1>3. Total(f, (S \ {x}) \cup {x}) = Total(f, S \ {x}) + Total(f, {x})
  BY <1>1, <1>2, TotalUnion
<1> QED BY <1>2, <1>3, TotalSingleton DEF Summable

\* A sum depends only on its terms.
THEOREM TotalSame ==
  ASSUME NEW f, NEW g, NEW S, \A x \in S : f[x] = g[x]
  PROVE  Total(f, S) = Total(g, S)
<1>1. UnitsOver(f, S) = UnitsOver(g, S)
  <2>1. {{x} \X (1..f[x]) : x \in S} = {{x} \X (1..g[x]) : x \in S}
    OBVIOUS
  <2> QED BY <2>1 DEF UnitsOver
<1> QED BY <1>1 DEF Total

\* A sum grows with its terms and with its index set.
THEOREM TotalMonotone ==
  ASSUME NEW f, NEW g, NEW S, NEW T, Summable(g, T), S \subseteq T,
         \A x \in S : f[x] \in Nat /\ f[x] <= g[x]
  PROVE  Total(f, S) <= Total(g, T)
<1>1. UnitsOver(f, S) \subseteq UnitsOver(g, T)
  <2> SUFFICES ASSUME NEW p \in UnitsOver(f, S)
               PROVE  p \in UnitsOver(g, T)
    OBVIOUS
  <2>1. PICK x \in S : \E k \in 1..f[x] : p = <<x, k>>
    BY UnitsOverMember
  <2>2. PICK k \in 1..f[x] : p = <<x, k>>
    BY <2>1
  <2>3. x \in T /\ k \in 1..g[x]
    BY DEF Summable
  <2> QED BY <2>2, <2>3, UnitsOverMember
<1> QED BY <1>1, UnitsOverFinite, FS_Subset DEF Total

\* The terms of a sum may be listed in another order: h renames the indices.
THEOREM TotalReindex ==
  ASSUME NEW f, NEW S, Summable(f, S), NEW I, NEW g,
         NEW h \in Bijection(I, S), \A i \in I : g[i] = f[h[i]]
  PROVE  Total(g, I) = Total(f, S) /\ Summable(g, I)
<1> DEFINE F == UnitsOver(f, S)
           G == UnitsOver(g, I)
           r == [p \in G |-> <<h[p[1]], p[2]>>]
<1>1. /\ h \in [I -> S]
      /\ \A i, j \in I : h[i] = h[j] => i = j
      /\ \A x \in S : \E i \in I : h[i] = x
  BY Fun_IsBij DEF Bijection, Injection, Surjection, IsInjective
<1>2. ASSUME NEW p \in G
      PROVE  /\ p[1] \in I /\ p[2] \in 1..f[h[p[1]]] /\ p = <<p[1], p[2]>>
             /\ r[p] \in F
  <2>1. PICK i \in I : \E k \in 1..g[i] : p = <<i, k>>
    BY <1>2, UnitsOverMember
  <2>2. PICK k \in 1..g[i] : p = <<i, k>>
    BY <2>1
  <2>3. h[i] \in S /\ k \in 1..f[h[i]]
    BY <1>1, <2>2
  <2>4. r[p] = <<h[i], k>>
    BY <2>2
  <2>5. r[p] \in F
    BY <2>3, <2>4, UnitsOverMember
  <2> QED BY <2>2, <2>3, <2>5
<1>3. r \in [G -> F]
  BY <1>2
<1>4. ASSUME NEW p \in G, NEW q \in G, r[p] = r[q]
      PROVE  p = q
  <2>1. r[p] = <<h[p[1]], p[2]>> /\ r[q] = <<h[q[1]], q[2]>>
    OBVIOUS
  <2>2. h[p[1]] = h[q[1]] /\ p[2] = q[2]
    BY <1>4, <2>1
  <2>3. p[1] = q[1]
    BY <1>1, <1>2, <2>2
  <2>4. p = <<p[1], p[2]>> /\ q = <<q[1], q[2]>>
    BY <1>2
  <2> QED BY <2>2, <2>3, <2>4
<1>5. ASSUME NEW u \in F
      PROVE  \E p \in G : r[p] = u
  <2>1. PICK x \in S : \E k \in 1..f[x] : u = <<x, k>>
    BY UnitsOverMember
  <2>2. PICK k \in 1..f[x] : u = <<x, k>>
    BY <2>1
  <2>3. PICK i \in I : h[i] = x
    BY <1>1
  <2>4. <<i, k>> \in G
    BY <2>2, <2>3, UnitsOverMember
  <2>5. r[<<i, k>>] = u
    BY <2>2, <2>3, <2>4
  <2> QED BY <2>4, <2>5
<1>6. r \in Bijection(G, F)
  BY <1>3, <1>4, <1>5 DEF Bijection, Injection, Surjection, IsInjective
<1>7. IsFiniteSet(F)
  BY UnitsOverFinite
<1>8. IsFiniteSet(G) /\ Cardinality(G) = Cardinality(F)
  <2> HIDE DEF r, F, G
  <2>1. r \in Injection(G, F) /\ r \in Surjection(G, F)
    BY <1>6 DEF Bijection
  <2> QED BY <1>7, <2>1, FS_Injection
<1>9. IsFiniteSet(I)
  <2>1. h \in Injection(I, S)
    BY DEF Bijection
  <2> QED BY <2>1, FS_Injection DEF Summable
<1>10. \A i \in I : g[i] \in Nat
  BY <1>1 DEF Summable
<1> QED BY <1>8, <1>9, <1>10 DEF Total, Summable

-----------------------------------------------------------------------------
(* Listing a set                                                           *)

\* SetToSeq lists every element of a finite set, once.
THEOREM SetToSeqLists ==
  ASSUME NEW S, IsFiniteSet(S)
  PROVE  /\ Cardinality(S) \in Nat
         /\ SetToSeq(S) \in [1..Cardinality(S) -> S]
         /\ SetToSeq(S) \in Bijection(1..Cardinality(S), S)
<1> DEFINE n == Cardinality(S)
           q == SetToSeq(S)
<1>1. n \in Nat /\ \E f \in Bijection(1..n, S) : TRUE
  BY FS_CardinalityType, Fun_ExistsBij
<1>2. \E f \in [1..n -> S] : IsInjective(f)
  BY <1>1 DEF Bijection, Injection
<1>3. q \in [1..n -> S] /\ IsInjective(q)
  BY <1>2 DEF SetToSeq
<1>4. IsFiniteSet(1..n) /\ Cardinality(1..n) = n
  BY <1>1, FS_Interval
<1> HIDE DEF q
<1>5. q \in Injection(1..n, S)
  BY <1>3 DEF Injection
<1>6. q \in Surjection(1..n, S)
  BY <1>4, <1>5, FS_Injection
<1>7. n \in Nat /\ q \in [1..n -> S] /\ q \in Bijection(1..n, S)
  BY <1>1, <1>3, <1>5, <1>6 DEF Bijection
<1> QED BY <1>7 DEF q

-----------------------------------------------------------------------------
(* Items                                                                   *)

ItemSet == [typeID : TypeIDs, units : 0..MaxUint]

-----------------------------------------------------------------------------
(* Sequences and items                                                     *)

LEMMA SeqsBetweenType ==
  ASSUME NEW S, NEW lo \in Nat, NEW hi \in Nat, NEW q \in SeqsBetween(S, lo, hi)
  PROVE  /\ q \in Seq(S)
         /\ Len(q) \in lo..hi
         /\ DOMAIN q = 1..Len(q)
         /\ \A i \in 1..Len(q) : q[i] \in S
<1>1. PICK n \in lo..hi : q \in [1..n -> S]
  BY DEF SeqsBetween
<1>2. n \in Nat /\ Len(q) = n /\ q \in Seq(S)
  BY <1>1, IsASeq
<1> QED BY <1>1, <1>2

LEMMA CountOfBounds ==
  ASSUME NEW items, NEW t, NEW n \in Nat
  PROVE  /\ CountOf(items, t, n) \in Nat
         /\ \A m \in 0..n : CountOf(items, t, m) <= CountOf(items, t, n)
         /\ \A i \in 1..n : items[i].typeID = t => CountOf(items, t, n) >= 1
<1> DEFINE upTo(m) == {i \in 1..m : items[i].typeID = t}
<1>1. \A m \in 0..n : /\ upTo(m) \subseteq upTo(n)
                      /\ IsFiniteSet(upTo(m))
                      /\ Cardinality(upTo(m)) \in Nat
  <2> TAKE m \in 0..n
  <2>1. IsFiniteSet(1..m)
    BY FS_Interval
  <2>2. upTo(m) \subseteq 1..m
    OBVIOUS
  <2>3. IsFiniteSet(upTo(m))
    BY <2>1, <2>2, FS_Subset
  <2> QED BY <2>3, FS_CardinalityType
<1>2. IsFiniteSet(upTo(n)) /\ Cardinality(upTo(n)) \in Nat
  BY <1>1
<1>3. \A m \in 0..n : Cardinality(upTo(m)) <= Cardinality(upTo(n))
  BY <1>1, <1>2, FS_Subset
<1>4. ASSUME NEW i \in 1..n, items[i].typeID = t
      PROVE  Cardinality(upTo(n)) >= 1
  <2>1. i \in upTo(n)
    BY <1>4
  <2>2. Cardinality(upTo(n)) # 0
    BY <2>1, <1>2, FS_EmptySet
  <2> QED BY <2>2, <1>2
<1> QED BY <1>2, <1>3, <1>4 DEF CountOf

\* What minting needs to know of a list of items.
LEMMA ItemIDFresh ==
  ASSUME TypeOK, NEW items \in Seq(ItemSet), RoomFor(items),
         NEW i \in 1..Len(items)
  PROVE  LET t == items[i].typeID
             k == getItemIndex(ItemID(items, i))
         IN  /\ t \in TypeIDs
             /\ ItemID(items, i) \in TokenIDs
             /\ getBaseType(ItemID(items, i)) = t
             /\ k \in Nat
             /\ maxIndex[t] < k
             /\ k <= maxIndex[t] + CountOf(items, t, Len(items))
<1> DEFINE t == items[i].typeID
           k == maxIndex[t] + CountOf(items, t, i)
<1>1. t \in TypeIDs
  <2>1. items[i] \in ItemSet
    BY ElementOfSeq
  <2> QED BY <2>1 DEF ItemSet
<1>2. ItemID(items, i) = <<t, k>>
  BY DEF ItemID
<1>3. Len(items) \in Nat
  BY LenProperties
<1>4. /\ CountOf(items, t, i) \in Nat
      /\ CountOf(items, t, i) >= 1
  BY <1>3, CountOfBounds
<1>5. /\ CountOf(items, t, Len(items)) \in Nat
      /\ CountOf(items, t, i) <= CountOf(items, t, Len(items))
  BY <1>3, CountOfBounds
<1>6. maxIndex[t] \in 0..MaxItems
  BY <1>1 DEF TypeOK
<1>7. maxIndex[t] + CountOf(items, t, Len(items)) <= MaxItems
  BY <1>1 DEF RoomFor
<1>8. /\ k \in Nat /\ k <= MaxItems
      /\ maxIndex[t] < k
      /\ k <= maxIndex[t] + CountOf(items, t, Len(items))
  BY <1>4, <1>5, <1>6, <1>7, MinterAssumption
<1> HIDE DEF t, k
<1>9. <<t, k>> \in TokenIDs
  BY <1>1, <1>8, MinterAssumption DEF TokenIDs
<1> QED BY <1>1, <1>2, <1>8, <1>9 DEF t, getBaseType, getItemIndex

LEMMA MintToType ==
  ASSUME TypeOK, NEW account \in Accounts, NEW items \in Seq(ItemSet),
         MintTo(account, items)
  PROVE  /\ maxIndex' \in [TypeIDs -> 0..MaxItems]
         /\ \A t \in TypeIDs : maxIndex[t] <= maxIndex'[t]
         /\ balances' \in [TokenIDs -> [Accounts -> Nat]]
         /\ owners' \in [TokenIDs -> Accounts \cup {NoAccount}]
         /\ MintedValues(items) \in [TokenIDs -> 0..MaxUint]
<1>1. Len(items) \in Nat /\ DOMAIN items = 1..Len(items)
  BY LenProperties
<1>2. \A t \in TypeIDs : CountOf(items, t, Len(items)) \in Nat
  BY <1>1, CountOfBounds
<1>3. \A t \in TypeIDs : maxIndex[t] + CountOf(items, t, Len(items)) \in 0..MaxItems
  BY <1>2, MinterAssumption DEF MintTo, RoomFor, TypeOK
<1>4. maxIndex' \in [TypeIDs -> 0..MaxItems]
  BY <1>3 DEF MintTo
<1>5. \A t \in TypeIDs : maxIndex[t] <= maxIndex'[t]
  BY <1>2 DEF MintTo, TypeOK
<1>6. balances' \in [TokenIDs -> [Accounts -> Nat]]
  BY DEF MintTo, TypeOK
<1>7. owners' \in [TokenIDs -> Accounts \cup {NoAccount}]
  BY DEF MintTo, TypeOK
<1>8. ASSUME NEW id \in TokenIDs
      PROVE  MintedValues(items)[id] \in 0..MaxUint
  <2>1. CASE id \in NewIDs(items)
    <3> DEFINE j == CHOOSE i \in DOMAIN items : ItemID(items, i) = id
    <3>1. \E i \in DOMAIN items : ItemID(items, i) = id
      BY <2>1 DEF NewIDs
    <3>2. j \in 1..Len(items)
      BY <3>1, <1>1
    <3>3. items[j] \in ItemSet
      <4> HIDE DEF j
      <4> QED BY <3>2, ElementOfSeq
    <3> QED BY <2>1, <3>3 DEF MintedValues, ItemSet
  <2>2. CASE id \notin NewIDs(items)
    BY <2>2 DEF MintedValues, TypeOK
  <2> QED BY <2>1, <2>2
<1>9. MintedValues(items) \in [TokenIDs -> 0..MaxUint]
  BY <1>8 DEF MintedValues
<1> QED BY <1>4, <1>5, <1>6, <1>7, <1>9

LEMMA NewSharesType ==
  ASSUME NEW t \in TypeIDs, NEW values \in Seq(0..MaxUint), Len(values) >= 2
  PROVE  /\ NewShares(t, values) \in Seq(ItemSet)
         /\ Len(NewShares(t, values)) = Len(values) - 1
<1>1. Len(values) \in Nat /\ Len(values) - 1 \in Nat
  BY LenProperties
<1>2. \A i \in 1..Len(values) : values[i] \in 0..MaxUint
  BY ElementOfSeq
<1>3. \A j \in 1..(Len(values) - 1) :
        Item(t, IF j = 1 THEN values[Len(values)] ELSE values[j]) \in ItemSet
  BY <1>1, <1>2 DEF Item, ItemSet
<1>4. NewShares(t, values) \in [1..(Len(values) - 1) -> ItemSet]
  BY <1>3 DEF NewShares
<1> QED BY <1>1, <1>4, IsASeq, LenProperties

\* The positions of a list of items that belong to type t.
Positions(items, t) == {i \in DOMAIN items : items[i].typeID = t}
UnitsAt(items) == [i \in DOMAIN items |-> items[i].units]

LEMMA PositionsSummable ==
  ASSUME NEW items \in Seq(ItemSet), NEW t
  PROVE  /\ Summable(UnitsAt(items), Positions(items, t))
         /\ UnitsFor(items, t) = Total(UnitsAt(items), Positions(items, t))
         /\ UnitsFor(items, t) \in Nat
<1>1. Len(items) \in Nat /\ DOMAIN items = 1..Len(items)
  BY LenProperties
<1>2. IsFiniteSet(Positions(items, t))
  <2>1. IsFiniteSet(1..Len(items))
    BY <1>1, FS_Interval
  <2>2. Positions(items, t) \subseteq 1..Len(items)
    BY <1>1 DEF Positions
  <2> QED BY <2>1, <2>2, FS_Subset
<1>3. \A i \in Positions(items, t) : UnitsAt(items)[i] \in Nat
  <2> TAKE i \in Positions(items, t)
  <2>1. i \in 1..Len(items)
    BY <1>1 DEF Positions
  <2>2. items[i] \in ItemSet
    BY <2>1, ElementOfSeq
  <2> QED BY <1>1, <2>1, <2>2, MinterAssumption DEF UnitsAt, ItemSet
<1>4. Summable(UnitsAt(items), Positions(items, t))
  BY <1>2, <1>3 DEF Summable
<1>5. UnitsFor(items, t) = Total(UnitsAt(items), Positions(items, t))
  BY DEF UnitsFor, UnitsAt, Positions
<1> QED BY <1>4, <1>5, TotalIsNat

\* Items of one type add all their units to it and none to another.
LEMMA OneTypeUnits ==
  ASSUME NEW items \in Seq(ItemSet), NEW t,
         \A i \in DOMAIN items : items[i].typeID = t
  PROVE  \A u : UnitsFor(items, u) =
                  IF u = t THEN Total(UnitsAt(items), DOMAIN items) ELSE 0
<1> TAKE u
<1>1. Positions(items, u) = IF u = t THEN DOMAIN items ELSE {}
  BY DEF Positions
<1> QED BY <1>1, PositionsSummable, TotalEmpty

LEMMA ValuesOfSeqSummable ==
  ASSUME NEW values \in Seq(0..MaxUint), NEW S \in SUBSET (1..Len(values))
  PROVE  Summable(values, S)
<1>1. Len(values) \in Nat
  BY LenProperties
<1>2. IsFiniteSet(S)
  <2>1. IsFiniteSet(1..Len(values))
    BY <1>1, FS_Interval
  <2> QED BY <2>1, FS_Subset
<1>3. \A i \in S : values[i] \in Nat
  BY ElementOfSeq, MinterAssumption
<1> QED BY <1>2, <1>3 DEF Summable

\* The shares of a split that become new tokens, and the one that stays with
\* the original, add up to the whole.
LEMMA SharesSum ==
  ASSUME NEW t \in TypeIDs, NEW values \in Seq(0..MaxUint), Len(values) >= 2
  PROVE  \A u : UnitsFor(NewShares(t, values), u) =
                  IF u = t THEN SumOf(values) - values[1] ELSE 0
<1> DEFINE items == NewShares(t, values)
           n == Len(values)
           I == 1..(n - 1)
           S == (1..n) \ {1}
           h == [j \in I |-> IF j = 1 THEN n ELSE j]
<1>1. /\ items \in Seq(ItemSet) /\ DOMAIN items = I
      /\ n \in Nat /\ n >= 2 /\ DOMAIN values = 1..n
  BY NewSharesType, LenProperties
<1>2. \A j \in I : /\ items[j].typeID = t
                    /\ items[j].units = IF j = 1 THEN values[n] ELSE values[j]
  BY <1>1 DEF NewShares, Item
<1>3. h \in Bijection(I, S)
  <2>1. h \in [I -> S]
    BY <1>1
  <2>2. \A j, k \in I : h[j] = h[k] => j = k
    BY <1>1
  <2>3. \A m \in S : \E j \in I : h[j] = m
    <3> TAKE m \in S
    <3>1. CASE m = n
      <4>1. 1 \in I /\ h[1] = n
        BY <1>1
      <4> QED BY <3>1, <4>1
    <3>2. CASE m # n
      <4>1. m \in I /\ m # 1
        <5> HIDE DEF n, h
        <5> QED BY <1>1, <3>2
      <4>2. h[m] = m
        BY <4>1
      <4> QED BY <4>1, <4>2
    <3> QED BY <3>1, <3>2
  <2> HIDE DEF h, I, S
  <2> QED BY <2>1, <2>2, <2>3 DEF Bijection, Injection, Surjection, IsInjective
<1>4. Summable(values, S) /\ Summable(values, 1..n)
  BY ValuesOfSeqSummable
<1>5. \A j \in I : UnitsAt(items)[j] = values[h[j]]
  BY <1>1, <1>2 DEF UnitsAt
<1>6. Total(UnitsAt(items), I) = Total(values, S)
  <2> HIDE DEF h, I, S, items, n
  <2> QED BY <1>3, <1>4, <1>5, TotalReindex
<1>7. Total(values, 1..n) = Total(values, S) + values[1]
  BY <1>1, <1>4, TotalRemove
<1>8. SumOf(values) = Total(values, 1..n)
  BY <1>1 DEF SumOf
<1>9. Total(values, S) \in Nat /\ values[1] \in Nat
  BY <1>1, <1>4, TotalIsNat DEF Summable
<1> HIDE DEF items, I, S, n
<1>10. Total(UnitsAt(items), DOMAIN items) = SumOf(values) - values[1]
  BY <1>1, <1>6, <1>7, <1>8, <1>9
<1>11. \A u : UnitsFor(items, u) =
                 IF u = t THEN SumOf(values) - values[1] ELSE 0
  <2>1. \A i \in DOMAIN items : items[i].typeID = t
    BY <1>1, <1>2
  <2>2. \A u : UnitsFor(items, u) =
                 IF u = t THEN Total(UnitsAt(items), DOMAIN items) ELSE 0
    BY <1>1, <2>1, OneTypeUnits
  <2> QED BY <1>10, <2>2
<1> QED BY <1>11 DEF items

\* The one item of a claim minted whole.
LEMMA WholeClaim ==
  ASSUME NEW t \in TypeIDs, NEW units \in 0..MaxUint
  PROVE  /\ <<Item(t, units)>> \in Seq(ItemSet)
         /\ \A u : UnitsFor(<<Item(t, units)>>, u) = IF u = t THEN units ELSE 0
<1> DEFINE items == <<Item(t, units)>>
<1>1. Item(t, units) \in ItemSet /\ Item(t, units).typeID = t
      /\ Item(t, units).units = units
  BY DEF Item, ItemSet
<1>2. /\ items \in Seq(ItemSet) /\ DOMAIN items = {1}
      /\ items[1] = Item(t, units)
  BY <1>1
<1>3. UnitsAt(items)[1] = units /\ units \in Nat
  BY <1>1, <1>2, MinterAssumption DEF UnitsAt
<1> HIDE DEF items
<1>4. Total(UnitsAt(items), DOMAIN items) = units
  BY <1>2, <1>3, TotalSingleton
<1>5. \A i \in DOMAIN items : items[i].typeID = t
  BY <1>1, <1>2
<1>6. \A u : UnitsFor(items, u) = IF u = t THEN units ELSE 0
  BY <1>2, <1>4, <1>5, OneTypeUnits
<1> QED BY <1>2, <1>6 DEF items

\* The items of a claim minted in fractions.
LEMMA FirstItems ==
  ASSUME NEW t \in TypeIDs, NEW values \in Seq(0..MaxUint), Len(values) >= 2
  PROVE  LET items == <<Item(t, values[1])>> \o NewShares(t, values)
         IN  /\ items \in Seq(ItemSet)
             /\ \A u : UnitsFor(items, u) = IF u = t THEN SumOf(values) ELSE 0
<1> DEFINE items == <<Item(t, values[1])>> \o NewShares(t, values)
           n == Len(values)
           I == 1..n
           h == [j \in I |-> IF j = 1 THEN 1 ELSE IF j = 2 THEN n ELSE j - 1]
<1>0. /\ n \in Nat /\ n >= 2 /\ DOMAIN values = I
      /\ \A j \in I : values[j] \in 0..MaxUint
  BY LenProperties, ElementOfSeq
<1>1. <<Item(t, values[1])>> \in Seq(ItemSet) /\ Len(<<Item(t, values[1])>>) = 1
  <2>1. values[1] \in 0..MaxUint
    BY <1>0
  <2> QED BY <2>1 DEF Item, ItemSet
<1>2. /\ NewShares(t, values) \in Seq(ItemSet)
      /\ Len(NewShares(t, values)) = n - 1
      /\ \A j \in 1..(n - 1) : NewShares(t, values)[j] =
            Item(t, IF j = 1 THEN values[n] ELSE values[j])
  <2>1. /\ NewShares(t, values) \in Seq(ItemSet)
        /\ Len(NewShares(t, values)) = n - 1
    BY NewSharesType
  <2> QED BY <2>1 DEF NewShares
<1>3. items \in Seq(ItemSet) /\ Len(items) = n /\ DOMAIN items = I
  <2>1. items \in Seq(ItemSet) /\ Len(items) = 1 + (n - 1)
    BY <1>1, <1>2, ConcatProperties
  <2> HIDE DEF items, n
  <2>2. Len(items) = n
    BY <1>0, <2>1
  <2> QED BY <2>1, <2>2, LenProperties
<1>4. \A j \in I : items[j] = Item(t, values[h[j]])
  <2> TAKE j \in I
  <2>1. items[j] = IF j <= 1 THEN Item(t, values[1])
                             ELSE NewShares(t, values)[j - 1]
    <3>1. j \in 1..(1 + (n - 1))
      BY <1>0
    <3> HIDE DEF n, h
    <3> QED BY <1>1, <1>2, <3>1, ConcatProperties
  <2>2. CASE j = 1
    BY <1>0, <2>1, <2>2
  <2>3. CASE j # 1
    <3>1. j \in Nat /\ j >= 2 /\ j - 1 \in 1..(n - 1) /\ ~(j <= 1)
      <4> HIDE DEF n, h
      <4> QED BY <1>0, <2>3
    <3>2. items[j] = Item(t, IF j - 1 = 1 THEN values[n] ELSE values[j - 1])
      <4> HIDE DEF items, n, h
      <4> QED BY <1>2, <2>1, <3>1
    <3>3. values[h[j]] = IF j - 1 = 1 THEN values[n] ELSE values[j - 1]
      BY <2>3, <3>1
    <3> QED BY <3>2, <3>3
  <2> QED BY <2>2, <2>3
<1>5. h \in Bijection(I, I)
  <2>1. h \in [I -> I]
    BY <1>0
  <2>2. \A j, k \in I : h[j] = h[k] => j = k
    BY <1>0
  <2>3. \A m \in I : \E j \in I : h[j] = m
    <3> TAKE m \in I
    <3>1. CASE m = 1
      BY <1>0, <3>1
    <3>2. CASE m = n /\ m # 1
      <4>1. 2 \in I /\ h[2] = n
        BY <1>0
      <4> QED BY <3>2, <4>1
    <3>3. CASE m # n /\ m # 1
      <4>1. m + 1 \in I /\ m + 1 # 1 /\ m + 1 # 2 /\ (m + 1) - 1 = m
        <5> HIDE DEF n, h
        <5> QED BY <1>0, <3>3
      <4>2. h[m + 1] = m
        BY <4>1
      <4> QED BY <4>1, <4>2
    <3> QED BY <3>1, <3>2, <3>3
  <2> HIDE DEF h, I
  <2> QED BY <2>1, <2>2, <2>3 DEF Bijection, Injection, Surjection, IsInjective
<1>6. /\ \A j \in I : UnitsAt(items)[j] = values[h[j]]
      /\ \A j \in DOMAIN items : items[j].typeID = t
  <2> HIDE DEF h, I, items
  <2> QED BY <1>3, <1>4 DEF UnitsAt, Item
<1>7. Summable(values, I)
  BY ValuesOfSeqSummable
<1>8. Total(UnitsAt(items), I) = SumOf(values)
  <2> HIDE DEF h, I, items
  <2>1. Total(UnitsAt(items), I) = Total(values, I)
    BY <1>5, <1>6, <1>7, TotalReindex
  <2> QED BY <1>0, <2>1 DEF SumOf
<1> HIDE DEF items, I
<1>9. \A u : UnitsFor(items, u) = IF u = t THEN SumOf(values) ELSE 0
  BY <1>3, <1>6, <1>8, OneTypeUnits
<1> QED BY <1>3, <1>9 DEF items

-----------------------------------------------------------------------------
(* The transactions, with the types of their arguments                     *)

\* Every step is one of these; the invariants are proved case by case.
LEMMA StepCases ==
  ASSUME NEW s \in Accounts, NextBy(s)
  PROVE  \/ \E units \in 0..MaxUint, r \in TransferRestrictions,
               items \in Seq(ItemSet) :
              /\ MintNewType(s, units, items, r)
              /\ \A t : UnitsFor(items, t) = IF t = NewType THEN units ELSE 0
         \/ \E account \in Accounts \cup {NoAccount}, units \in 0..MaxUint,
               root \in SUBSET Leaves, r \in TransferRestrictions :
              CreateAllowlist(account, units, root, r)
         \/ \E account \in Accounts, items \in Seq(ItemSet) :
              BatchMintClaimsFromAllowlists(s, account, items)
         \/ \E account \in Accounts, id \in TokenIDs, values \in Seq(0..MaxUint) :
              Len(values) >= 2 /\ SplitFraction(s, account, id, values)
         \/ \E account \in Accounts, ids \in Seq(TokenIDs) :
              Len(ids) >= 2 /\ MergeFractions(s, account, ids)
         \/ \E account \in Accounts, id \in TokenIDs : BurnFraction(s, account, id)
         \/ \E from, to \in Accounts, batch \in Seq(Transfers) :
              SafeBatchTransferFrom(s, from, to, batch)
         \/ \E from \in Accounts, batch \in Seq(Transfers) :
              SafeBatchTransferToSelf(s, from, batch)
         \/ \E account \in Accounts, batch \in Seq(Transfers) :
              BurnBatch(s, account, batch)
         \/ \E operator \in Accounts, approved \in BOOLEAN :
              SetApprovalForAll(s, operator, approved)
         \/ \E value \in BOOLEAN : SetPaused(s, value)
         \/ \E newOwner \in Accounts \cup {NoAccount} :
              TransferOwnership(s, newOwner)
<1> USE MinterAssumption
<1>1. ASSUME NEW units \in 0..MaxUint, NEW r \in Policies, MintClaim(s, units, r)
      PROVE  \E items \in Seq(ItemSet), p \in TransferRestrictions :
               /\ MintNewType(s, units, items, p)
               /\ \A t : UnitsFor(items, t) = IF t = NewType THEN units ELSE 0
  <2>1. NewType \in TypeIDs
    BY <1>1 DEF MintClaim, MintNewType, CreateType
  <2> QED BY <1>1, <2>1, WholeClaim DEF MintClaim
<1>2. ASSUME NEW units \in 0..MaxUint, NEW r \in Policies,
             NEW fractions \in SeqsBetween(0..MaxUint, 2, FractionLimit),
             MintClaimWithFractions(s, units, fractions, r)
      PROVE  \E items \in Seq(ItemSet), p \in TransferRestrictions :
               /\ MintNewType(s, units, items, p)
               /\ \A t : UnitsFor(items, t) = IF t = NewType THEN units ELSE 0
  <2> DEFINE items == <<Item(NewType, fractions[1])>> \o NewShares(NewType, fractions)
  <2>1. NewType \in TypeIDs
    BY <1>2 DEF MintClaimWithFractions, MintNewType, CreateType
  <2>2. fractions \in Seq(0..MaxUint) /\ Len(fractions) >= 2
    BY SeqsBetweenType
  <2>3. items \in Seq(ItemSet)
        /\ \A t : UnitsFor(items, t) = IF t = NewType THEN SumOf(fractions) ELSE 0
    BY <2>1, <2>2, FirstItems
  <2>4. MintNewType(s, units, items, r) /\ SumOf(fractions) = units
    BY <1>2 DEF MintClaimWithFractions
  <2> HIDE DEF items
  <2> QED BY <2>3, <2>4
<1>3. ASSUME NEW account \in Accounts, NEW t \in TypeIDs, NEW units \in 0..MaxUint,
             MintClaimFromAllowlist(s, account, t, units)
      PROVE  \E items \in Seq(ItemSet) :
               BatchMintClaimsFromAllowlists(s, account, items)
  <2>1. <<Item(t, units)>> \in Seq(ItemSet)
    BY DEF Item, ItemSet
  <2> QED BY <1>3, <2>1 DEF MintClaimFromAllowlist
<1>4. \A items \in SeqsBetween([typeID : TypeIDs, units : 0..MaxUint], 2, MaxBatch) :
        items \in Seq(ItemSet)
  BY SeqsBetweenType DEF ItemSet
<1>5. \A values \in SeqsBetween(0..MaxUint, 2, FractionLimit) :
        values \in Seq(0..MaxUint) /\ Len(values) >= 2
  BY SeqsBetweenType
<1>6. \A ids \in SeqsBetween(TokenIDs, 2, FractionLimit) :
        ids \in Seq(TokenIDs) /\ Len(ids) >= 2
  BY SeqsBetweenType
<1>7. \A batch \in SeqsBetween(Transfers, 1, MaxBatch) : batch \in Seq(Transfers)
  BY SeqsBetweenType
<1>8. CASE MintBy(s)
  <2>1. CASE \E units \in 0..MaxUint, r \in Policies : MintClaim(s, units, r)
    BY <2>1, <1>1
  <2>2. CASE \E units \in 0..MaxUint, r \in Policies :
               \E fractions \in SeqsBetween(0..MaxUint, 2, FractionLimit) :
                 MintClaimWithFractions(s, units, fractions, r)
    <3>1. PICK units \in 0..MaxUint, r \in Policies,
               fractions \in SeqsBetween(0..MaxUint, 2, FractionLimit) :
            MintClaimWithFractions(s, units, fractions, r)
      BY <2>2
    <3>2. \E items \in Seq(ItemSet), p \in TransferRestrictions :
            /\ MintNewType(s, units, items, p)
            /\ \A t : UnitsFor(items, t) = IF t = NewType THEN units ELSE 0
      BY <3>1, <1>2
    <3> QED BY <3>2
  <2>3. CASE \E account \in Accounts \cup {NoAccount}, units \in 0..MaxUint,
               root \in Allowlists, r \in Policies :
               CreateAllowlist(account, units, root, r)
    BY <2>3
  <2>4. CASE \E account \in Accounts, t \in TypeIDs, units \in 0..MaxUint :
               MintClaimFromAllowlist(s, account, t, units)
    BY <2>4, <1>3
  <2>5. CASE \E account \in Accounts,
               items \in SeqsBetween([typeID : TypeIDs, units : 0..MaxUint],
                                     2, MaxBatch) :
               BatchMintClaimsFromAllowlists(s, account, items)
    BY <2>5, <1>4
  <2> QED BY <1>8, <2>1, <2>2, <2>3, <2>4, <2>5 DEF MintBy
<1>9. CASE UnitsBy(s)
  BY <1>9, <1>5, <1>6 DEF UnitsBy
<1>10. CASE TokensBy(s)
  BY <1>10, <1>7 DEF TokensBy
<1>11. CASE AdminBy(s)
  BY <1>11 DEF AdminBy, Pause, Unpause
<1> QED BY <1>8, <1>9, <1>10, <1>11 DEF NextBy

-----------------------------------------------------------------------------
(* Type correctness                                                        *)

\* A batch moves a natural amount of each token.
LEMMA MovedType ==
  ASSUME NEW batch \in Seq(Transfers), NEW id
  PROVE  Moved(batch, id) \in Nat
<1> DEFINE amounts == [i \in DOMAIN batch |-> batch[i].amount]
           entries == {i \in DOMAIN batch : batch[i].id = id}
<1>1. Len(batch) \in Nat /\ DOMAIN batch = 1..Len(batch)
  BY LenProperties
<1>2. IsFiniteSet(entries)
  <2>1. IsFiniteSet(1..Len(batch))
    BY <1>1, FS_Interval
  <2> QED BY <1>1, <2>1, FS_Subset
<1>3. \A i \in entries : amounts[i] \in Nat
  <2> TAKE i \in entries
  <2>1. batch[i] \in Transfers
    BY <1>1, ElementOfSeq
  <2> QED BY <2>1, MinterAssumption DEF Transfers
<1>4. Summable(amounts, entries)
  BY <1>2, <1>3 DEF Summable
<1> QED BY <1>4, TotalIsNat DEF Moved

\* The sources of a merge add up to a natural number of units, and each is
\* burned a natural number of times, at least once.
LEMMA MergeType ==
  ASSUME TypeOK, NEW ids \in Seq(TokenIDs), Len(ids) >= 2
  PROVE  /\ MergedUnits(ids) \in Nat
         /\ Target(ids) \in TokenIDs
         /\ Sources(ids) \subseteq TokenIDs
         /\ \A id \in Sources(ids) : TimesMerged(ids, id) \in Nat \ {0}
<1> DEFINE n == Len(ids) - 1
<1>1. /\ Len(ids) \in Nat /\ DOMAIN ids = 1..Len(ids)
      /\ n \in Nat /\ 1..n \subseteq 1..Len(ids)
      /\ Len(ids) \in 1..Len(ids)
  BY LenProperties
<1>2. \A i \in 1..Len(ids) : ids[i] \in TokenIDs
  BY ElementOfSeq
<1>3. IsFiniteSet(1..n)
  BY <1>1, FS_Interval
<1>4. Summable([i \in DOMAIN ids |-> tokenValues[ids[i]]], 1..n)
  BY <1>1, <1>2, <1>3 DEF Summable, TypeOK
<1>5. \A id \in Sources(ids) : TimesMerged(ids, id) \in Nat \ {0}
  <2> TAKE id \in Sources(ids)
  <2> DEFINE at == {i \in 1..n : ids[i] = id}
  <2>1. IsFiniteSet(at)
    BY <1>3, FS_Subset
  <2>2. at # {}
    BY DEF Sources
  <2>3. Cardinality(at) \in Nat \ {0}
    BY <2>1, <2>2, FS_CardinalityType, FS_EmptySet
  <2> QED BY <2>3 DEF TimesMerged
<1> QED BY <1>1, <1>2, <1>4, <1>5, TotalIsNat DEF MergedUnits, Target, Sources

\* Minting a new type, for whomever and with whatever policy, keeps the types.
LEMMA MintNewTypeType ==
  ASSUME TypeOK, NEW s \in Accounts, NEW units \in 0..MaxUint,
         NEW r \in TransferRestrictions, NEW items \in Seq(ItemSet),
         MintNewType(s, units, items, r)
  PROVE  TypeOK'
<1> USE MinterAssumption
<1> USE DEF typeVars, tokenVars, allowlistVars, adminVars
<1>1. /\ CreateType(s, r) /\ NewType \in TypeIDs
      /\ MintTo(s, items)
  BY DEF MintNewType, CreateType
<1>2. typeCounter' \in 0..MaxTypes
  BY <1>1 DEF CreateType, TypeIDs
<1>3. tokenValues' \in [TokenIDs -> 0..MaxUint]
  BY <1>1, MintToType DEF MintNewType
<1>4. issued' \in [TypeIDs -> Nat]
  BY <1>1 DEF MintNewType, TypeOK
<1>5. /\ creators' \in [TypeIDs -> Accounts \cup {NoAccount}]
      /\ typeRestrictions' \in [TypeIDs -> TransferRestrictions]
  BY <1>1 DEF CreateType, TypeOK
<1>6. /\ maxIndex' \in [TypeIDs -> 0..MaxItems]
      /\ balances' \in [TokenIDs -> [Accounts -> Nat]]
      /\ owners' \in [TokenIDs -> Accounts \cup {NoAccount}]
  BY <1>1, MintToType
<1> QED BY <1>2, <1>3, <1>4, <1>5, <1>6 DEF MintNewType, TypeOK

\* So does a split, whoever asks for it.
LEMMA SplitType ==
  ASSUME TypeOK, NEW s \in Accounts, NEW account \in Accounts, NEW id \in TokenIDs,
         NEW values \in Seq(0..MaxUint), Len(values) >= 2,
         SplitTokenUnits(s, account, id, values)
  PROVE  TypeOK'
<1> USE MinterAssumption
<1> USE DEF typeVars, tokenVars, allowlistVars, adminVars
<1> DEFINE items == NewShares(getBaseType(id), values)
<1>1. items \in Seq(ItemSet)
  BY NewSharesType DEF TokenIDs, getBaseType
<1>2. MintTo(account, items)
  BY DEF SplitTokenUnits
<1>3. 1 \in 1..Len(values) /\ values[1] \in 0..MaxUint
  <2>1. 1 \in 1..Len(values)
    BY LenProperties
  <2> QED BY <2>1, ElementOfSeq
<1>4. tokenValues' \in [TokenIDs -> 0..MaxUint]
  BY <1>1, <1>2, <1>3, MintToType DEF SplitTokenUnits
<1> HIDE DEF items
<1> QED BY <1>1, <1>2, <1>4, MintToType
        DEF SplitTokenUnits, TypeOK

LEMMA CreateAllowlistType ==
  ASSUME TypeOK, NEW account \in Accounts \cup {NoAccount}, NEW units \in 0..MaxUint,
         NEW root \in SUBSET Leaves, NEW r \in TransferRestrictions,
         CreateAllowlist(account, units, root, r)
  PROVE  TypeOK'
<1> USE MinterAssumption DEF adminVars
<1>1. typeCounter' \in 0..MaxTypes
  BY DEF CreateAllowlist, CreateType, TypeIDs
<1> QED BY <1>1 DEF CreateAllowlist, CreateType, TypeOK

LEMMA ClaimsType ==
  ASSUME TypeOK, NEW s \in Accounts, NEW account \in Accounts,
         NEW items \in Seq(ItemSet), BatchMintClaimsFromAllowlists(s, account, items)
  PROVE  TypeOK'
<1> USE MinterAssumption DEF typeVars, adminVars
<1>1. ProcessClaims(s, items) /\ MintTo(account, items)
  BY DEF BatchMintClaimsFromAllowlists
<1>2. Len(items) \in Nat /\ DOMAIN items = 1..Len(items)
  BY LenProperties
<1>3. \A i \in 1..Len(items) : items[i] \in ItemSet
  BY ElementOfSeq
<1>4. hasBeenClaimed' \in [TypeIDs -> SUBSET Leaves]
  BY <1>1, <1>2, <1>3 DEF ProcessClaims, ItemSet, Leaves, TypeOK
<1>5. issued' \in [TypeIDs -> Nat]
  BY PositionsSummable DEF BatchMintClaimsFromAllowlists, TypeOK
<1> QED BY <1>1, <1>4, <1>5, MintToType
        DEF BatchMintClaimsFromAllowlists, ProcessClaims, TypeOK

LEMMA StepType ==
  ASSUME TypeOK, NEW s \in Accounts, NextBy(s)
  PROVE  TypeOK'
<1> USE MinterAssumption
<1> USE DEF typeVars, tokenVars, allowlistVars, adminVars
<1>1. ASSUME NEW units \in 0..MaxUint, NEW r \in TransferRestrictions,
             NEW items \in Seq(ItemSet), MintNewType(s, units, items, r)
      PROVE  TypeOK'
  BY <1>1, MintNewTypeType
<1>2. ASSUME NEW account \in Accounts \cup {NoAccount}, NEW units \in 0..MaxUint,
             NEW root \in SUBSET Leaves, NEW r \in TransferRestrictions,
             CreateAllowlist(account, units, root, r)
      PROVE  TypeOK'
  BY <1>2, CreateAllowlistType
<1>3. ASSUME NEW account \in Accounts, NEW items \in Seq(ItemSet),
             BatchMintClaimsFromAllowlists(s, account, items)
      PROVE  TypeOK'
  BY <1>3, ClaimsType
<1>4. ASSUME NEW account \in Accounts, NEW id \in TokenIDs,
             NEW values \in Seq(0..MaxUint), Len(values) >= 2,
             SplitFraction(s, account, id, values)
      PROVE  TypeOK'
  BY <1>4, SplitType DEF SplitFraction
<1>5. ASSUME NEW account \in Accounts, NEW ids \in Seq(TokenIDs), Len(ids) >= 2,
             MergeFractions(s, account, ids)
      PROVE  TypeOK'
  <2>1. ClearedValues(ids) \in [TokenIDs -> 0..MaxUint]
    BY DEF ClearedValues, TypeOK
  <2>2. ClearedValues(ids)[Target(ids)] + MergedUnits(ids) \in 0..MaxUint
    BY <1>5, <2>1, MergeType DEF MergeFractions, MergeFits
  <2>3. tokenValues' \in [TokenIDs -> 0..MaxUint]
    BY <1>5, <2>1, <2>2 DEF MergeFractions
  <2>4. balances' \in [TokenIDs -> [Accounts -> Nat]]
    <3>1. ASSUME NEW id \in Sources(ids)
          PROVE  [balances[id] EXCEPT ![account] = @ - TimesMerged(ids, id)]
                   \in [Accounts -> Nat]
      <4>1. id \in TokenIDs /\ TimesMerged(ids, id) \in Nat
        BY <1>5, MergeType
      <4>2. balances[id][account] >= TimesMerged(ids, id)
        BY <1>5 DEF MergeFractions
      <4> QED BY <4>1, <4>2 DEF TypeOK
    <3> QED BY <1>5, <3>1 DEF MergeFractions, TypeOK
  <2>5. owners' \in [TokenIDs -> Accounts \cup {NoAccount}]
    BY <1>5 DEF MergeFractions, TypeOK
  <2> QED BY <1>5, <2>3, <2>4, <2>5 DEF MergeFractions, TypeOK
<1>6. ASSUME NEW account \in Accounts, NEW id \in TokenIDs,
             BurnFraction(s, account, id)
      PROVE  TypeOK'
  <2>1. balances' \in [TokenIDs -> [Accounts -> Nat]]
    BY <1>6 DEF BurnFraction, TypeOK
  <2>2. tokenValues' \in [TokenIDs -> 0..MaxUint]
    BY <1>6 DEF BurnFraction, TypeOK
  <2> QED BY <1>6, <2>1, <2>2 DEF BurnFraction, TypeOK
<1>7. ASSUME NEW from \in Accounts, NEW to \in Accounts, NEW batch \in Seq(Transfers),
             SafeBatchTransferFrom(s, from, to, batch)
      PROVE  TypeOK'
  <2>1. ASSUME NEW id \in TokenIDs
        PROVE  [balances[id] EXCEPT ![from] = @ - Moved(batch, id),
                                    ![to] = @ + Moved(batch, id)]
                 \in [Accounts -> Nat]
    <3>1. /\ balances[id] \in [Accounts -> Nat]
          /\ balances[id][from] \in Nat /\ balances[id][to] \in Nat
      BY DEF TypeOK
    <3>2. Moved(batch, id) \in Nat /\ Moved(batch, id) <= balances[id][from]
      BY <1>7, MovedType DEF SafeBatchTransferFrom
    <3>3. balances[id][from] - Moved(batch, id) \in Nat
      BY <3>1, <3>2
    <3>4. balances[id][to] + Moved(batch, id) \in Nat
      BY <3>1, <3>2
    <3> QED BY <1>7, <3>1, <3>3, <3>4 DEF SafeBatchTransferFrom
  <2>2. balances' \in [TokenIDs -> [Accounts -> Nat]]
    BY <1>7, <2>1 DEF SafeBatchTransferFrom
  <2>3. owners' \in [TokenIDs -> Accounts \cup {NoAccount}]
    BY <1>7 DEF SafeBatchTransferFrom, RecordOwner, TypeOK
  <2> QED BY <1>7, <2>2, <2>3 DEF SafeBatchTransferFrom, TypeOK
<1>8. ASSUME NEW from \in Accounts, NEW batch \in Seq(Transfers),
             SafeBatchTransferToSelf(s, from, batch)
      PROVE  TypeOK'
  BY <1>8 DEF SafeBatchTransferToSelf, RecordOwner, TypeOK
<1>9. ASSUME NEW account \in Accounts, NEW batch \in Seq(Transfers),
             BurnBatch(s, account, batch)
      PROVE  TypeOK'
  <2>1. ASSUME NEW id \in TokenIDs
        PROVE  [balances[id] EXCEPT ![account] = @ - Moved(batch, id)]
                 \in [Accounts -> Nat]
    <3>1. balances[id] \in [Accounts -> Nat] /\ balances[id][account] \in Nat
      BY DEF TypeOK
    <3>2. Moved(batch, id) \in Nat /\ Moved(batch, id) <= balances[id][account]
      BY <1>9, MovedType DEF BurnBatch
    <3>3. balances[id][account] - Moved(batch, id) \in Nat
      BY <3>1, <3>2
    <3> QED BY <3>1, <3>3
  <2>2. balances' \in [TokenIDs -> [Accounts -> Nat]]
    BY <1>9, <2>1 DEF BurnBatch
  <2>3. owners' \in [TokenIDs -> Accounts \cup {NoAccount}]
    BY <1>9 DEF BurnBatch, RecordOwner, TypeOK
  <2> QED BY <1>9, <2>2, <2>3 DEF BurnBatch, TypeOK
<1>10. ASSUME NEW operator \in Accounts, NEW approved \in BOOLEAN,
              SetApprovalForAll(s, operator, approved)
       PROVE  TypeOK'
  <2>1. operatorApprovals' \subseteq Accounts \X Accounts
    BY <1>10 DEF SetApprovalForAll, TypeOK
  <2> QED BY <1>10, <2>1 DEF SetApprovalForAll, TypeOK
<1>11. ASSUME NEW value \in BOOLEAN, SetPaused(s, value)
       PROVE  TypeOK'
  BY <1>11 DEF SetPaused, TypeOK
<1>12. ASSUME NEW newOwner \in Accounts \cup {NoAccount},
              TransferOwnership(s, newOwner)
       PROVE  TypeOK'
  BY <1>12 DEF TransferOwnership, TypeOK
<1> QED BY StepCases, <1>1, <1>2, <1>3, <1>4, <1>5, <1>6, <1>7, <1>8, <1>9,
           <1>10, <1>11, <1>12

LEMMA InitType == Init => TypeOK
<1> SUFFICES ASSUME Init PROVE TypeOK
  OBVIOUS
<1> USE MinterAssumption DEF Init, InitialStorage
<1>1. typeCounter \in 0..MaxTypes
  OBVIOUS
<1>2. /\ creators \in [TypeIDs -> Accounts \cup {NoAccount}]
      /\ typeRestrictions \in [TypeIDs -> TransferRestrictions]
      /\ maxIndex \in [TypeIDs -> 0..MaxItems]
      /\ tokenValues \in [TokenIDs -> 0..MaxUint]
      /\ owners \in [TokenIDs -> Accounts \cup {NoAccount}]
  BY DEF TransferRestrictions
<1>3. balances \in [TokenIDs -> [Accounts -> Nat]]
  OBVIOUS
<1>4. /\ merkleRoots \in [TypeIDs -> SUBSET Leaves]
      /\ hasBeenClaimed \in [TypeIDs -> SUBSET Leaves]
      /\ maxUnits \in [TypeIDs -> 0..MaxUint]
      /\ minted \in [TypeIDs -> 0..MaxUint]
      /\ issued \in [TypeIDs -> Nat]
  BY DEF NoRoot
<1> QED BY <1>1, <1>2, <1>3, <1>4 DEF TypeOK

\* Every variable keeps its type: amounts stay within type(uint256).max and
\* indices within their 128 bits, whatever is minted, split or merged.
THEOREM TypeCorrect == Spec => []TypeOK
<1>1. TypeOK /\ [Next]_vars => TypeOK'
  <2>1. TypeOK /\ Next => TypeOK'
    BY StepType DEF Next
  <2>2. TypeOK /\ UNCHANGED vars => TypeOK'
    BY DEF TypeOK, vars, typeVars, tokenVars, allowlistVars, adminVars
  <2> QED BY <2>1, <2>2
<1> QED BY <1>1, InitType, PTL DEF Spec

-----------------------------------------------------------------------------
(* Who holds a token.  The argument needs only what a transaction does to  *)
(* balances and to the highest indices: it mints fresh IDs, it takes       *)
(* tokens away, or it moves them from one account to another.              *)

Mints == \E account \in Accounts, items \in Seq(ItemSet) : MintTo(account, items)

Shrinks ==
  /\ UNCHANGED <<maxIndex, issued>>
  /\ \E account \in Accounts : \A id \in TokenIDs, a \in Accounts :
       /\ balances'[id][a] <= balances[id][a]
       /\ a # account => balances'[id][a] = balances[id][a]

\* n of token id go from one account to another.
MovesToken(from, to, id, n) ==
  \A a \in Accounts :
    balances'[id][a] = CASE a = from -> balances[id][a] - n
                         [] a = to   -> balances[id][a] + n
                         [] OTHER    -> balances[id][a]

Moves ==
  /\ maxIndex' = maxIndex
  /\ \E from, to \in Accounts :
       /\ from # to
       /\ \A id \in TokenIDs : \E n \in 0..balances[id][from] :
            MovesToken(from, to, id, n)

\* A safe transfer moves the amount its batch names for each token.
LEMMA TransferMoves ==
  ASSUME TypeOK, NEW s, NEW from \in Accounts, NEW to \in Accounts,
         NEW batch \in Seq(Transfers), SafeBatchTransferFrom(s, from, to, batch)
  PROVE  /\ from # to
         /\ maxIndex' = maxIndex
         /\ \A id \in TokenIDs : /\ Moved(batch, id) \in 0..balances[id][from]
                                 /\ MovesToken(from, to, id, Moved(batch, id))
<1>1. ASSUME NEW id \in TokenIDs
      PROVE  Moved(batch, id) \in 0..balances[id][from]
  <2>1. Moved(batch, id) \in Nat /\ Moved(batch, id) <= balances[id][from]
    BY MovedType DEF SafeBatchTransferFrom
  <2>2. balances[id][from] \in Nat
    BY DEF TypeOK
  <2> QED BY <2>1, <2>2
<1>2. ASSUME NEW id \in TokenIDs
      PROVE  MovesToken(from, to, id, Moved(batch, id))
  <2>1. balances'[id] = [balances[id] EXCEPT ![from] = @ - Moved(batch, id),
                                             ![to] = @ + Moved(batch, id)]
    BY DEF SafeBatchTransferFrom
  <2>2. balances[id] \in [Accounts -> Nat] /\ from # to
    BY DEF TypeOK, SafeBatchTransferFrom
  <2> QED BY <2>1, <2>2 DEF MovesToken
<1> QED BY <1>1, <1>2 DEF SafeBatchTransferFrom

\* Every transaction does one of the three things to balances.
LEMMA MintShrinkOrTransfer ==
  ASSUME TypeOK, NEW s \in Accounts, NextBy(s)
  PROVE  \/ Mints
         \/ Shrinks
         \/ \E from, to \in Accounts, batch \in Seq(Transfers) :
              SafeBatchTransferFrom(s, from, to, batch)
<1>1. ASSUME UNCHANGED <<balances, maxIndex, issued>>
      PROVE  Shrinks
  BY <1>1 DEF Shrinks, TypeOK
<1>2. ASSUME NEW units \in 0..MaxUint, NEW r \in TransferRestrictions,
             NEW items \in Seq(ItemSet), MintNewType(s, units, items, r)
      PROVE  Mints
  BY <1>2 DEF MintNewType, Mints
<1>3. ASSUME NEW account \in Accounts \cup {NoAccount}, NEW units \in 0..MaxUint,
             NEW root \in SUBSET Leaves, NEW r \in TransferRestrictions,
             CreateAllowlist(account, units, root, r)
      PROVE  Shrinks
  BY <1>1, <1>3 DEF CreateAllowlist
<1>4. ASSUME NEW account \in Accounts, NEW items \in Seq(ItemSet),
             BatchMintClaimsFromAllowlists(s, account, items)
      PROVE  Mints
  BY <1>4 DEF BatchMintClaimsFromAllowlists, Mints
<1>5. ASSUME NEW account \in Accounts, NEW id \in TokenIDs,
             NEW values \in Seq(0..MaxUint), Len(values) >= 2,
             SplitFraction(s, account, id, values)
      PROVE  Mints
  <2>1. NewShares(getBaseType(id), values) \in Seq(ItemSet)
    BY <1>5, NewSharesType DEF TokenIDs, getBaseType
  <2> QED BY <1>5, <2>1 DEF SplitFraction, SplitTokenUnits, Mints
<1>6. ASSUME NEW account \in Accounts, NEW ids \in Seq(TokenIDs), Len(ids) >= 2,
             MergeFractions(s, account, ids)
      PROVE  Shrinks
  <2>1. ASSUME NEW id \in TokenIDs, NEW a \in Accounts
        PROVE  /\ balances'[id][a] <= balances[id][a]
               /\ a # account => balances'[id][a] = balances[id][a]
    <3>1. CASE id \in Sources(ids)
      <4>1. TimesMerged(ids, id) \in Nat
        BY <1>6, <3>1, MergeType
      <4>2. balances'[id] = [balances[id] EXCEPT ![account] = @ - TimesMerged(ids, id)]
        BY <1>6, <3>1 DEF MergeFractions
      <4>3. balances[id] \in [Accounts -> Nat] /\ balances[id][a] \in Nat
        BY DEF TypeOK
      <4> QED BY <4>1, <4>2, <4>3
    <3>2. CASE id \notin Sources(ids)
      BY <1>6, <3>2 DEF MergeFractions, TypeOK
    <3> QED BY <3>1, <3>2
  <2> QED BY <1>6, <2>1 DEF MergeFractions, Shrinks
<1>7. ASSUME NEW account \in Accounts, NEW id \in TokenIDs,
             BurnFraction(s, account, id)
      PROVE  Shrinks
  <2>1. ASSUME NEW id2 \in TokenIDs, NEW a \in Accounts
        PROVE  /\ balances'[id2][a] <= balances[id2][a]
               /\ a # account => balances'[id2][a] = balances[id2][a]
    <3>1. balances' = [balances EXCEPT ![id][account] = @ - 1]
      BY <1>7 DEF BurnFraction
    <3>2. balances[id2][a] \in Nat
      BY DEF TypeOK
    <3> QED BY <3>1, <3>2 DEF TypeOK
  <2> QED BY <1>7, <2>1 DEF BurnFraction, Shrinks
<1>8. ASSUME NEW from \in Accounts, NEW batch \in Seq(Transfers),
             SafeBatchTransferToSelf(s, from, batch)
      PROVE  Shrinks
  BY <1>1, <1>8 DEF SafeBatchTransferToSelf
<1>9. ASSUME NEW account \in Accounts, NEW batch \in Seq(Transfers),
              BurnBatch(s, account, batch)
       PROVE  Shrinks
  <2>1. ASSUME NEW id \in TokenIDs, NEW a \in Accounts
        PROVE  /\ balances'[id][a] <= balances[id][a]
               /\ a # account => balances'[id][a] = balances[id][a]
    <3>1. balances'[id] = [balances[id] EXCEPT ![account] = @ - Moved(batch, id)]
      BY <1>9 DEF BurnBatch
    <3>2. balances[id] \in [Accounts -> Nat] /\ balances[id][a] \in Nat
      BY DEF TypeOK
    <3>3. Moved(batch, id) \in Nat
      BY MovedType
    <3> QED BY <3>1, <3>2, <3>3
  <2> QED BY <1>9, <2>1 DEF BurnBatch, Shrinks
<1>10. ASSUME NEW operator \in Accounts, NEW approved \in BOOLEAN,
              SetApprovalForAll(s, operator, approved)
       PROVE  Shrinks
  BY <1>1, <1>10 DEF SetApprovalForAll, tokenVars
<1>11. ASSUME NEW value \in BOOLEAN, SetPaused(s, value)
       PROVE  Shrinks
  BY <1>1, <1>11 DEF SetPaused, tokenVars
<1>12. ASSUME NEW newOwner \in Accounts \cup {NoAccount},
              TransferOwnership(s, newOwner)
       PROVE  Shrinks
  BY <1>1, <1>12 DEF TransferOwnership, tokenVars
<1> QED BY StepCases, <1>2, <1>3, <1>4, <1>5, <1>6, <1>7, <1>8, <1>9, <1>10,
           <1>11, <1>12

LEMMA BalanceSteps ==
  ASSUME TypeOK, NEW s \in Accounts, NextBy(s)
  PROVE  Mints \/ Shrinks \/ Moves
<1>1. ASSUME NEW from \in Accounts, NEW to \in Accounts, NEW batch \in Seq(Transfers),
             SafeBatchTransferFrom(s, from, to, batch)
      PROVE  Moves
  <2>1. /\ from # to
        /\ maxIndex' = maxIndex
        /\ \A id \in TokenIDs : \E n \in 0..balances[id][from] :
             MovesToken(from, to, id, n)
    BY <1>1, TransferMoves
  <2> QED BY <2>1 DEF Moves
<1> QED BY <1>1, MintShrinkOrTransfer

-----------------------------------------------------------------------------
(* The inductive invariant: fresh IDs are not held, so a mint gives each a *)
(* single holder; and what has one holder keeps at most one.               *)

HolderInv == TypeOK /\ SingleHolder /\ OnlyMintedHeld

\* A mint leaves minted tokens alone, and its new tokens, which nobody held,
\* are minted once it is done.
LEMMA MintTouchesFresh ==
  ASSUME HolderInv, NEW account \in Accounts, NEW items \in Seq(ItemSet),
         MintTo(account, items), NEW id \in TokenIDs
  PROVE  /\ id \notin NewIDs(items) => balances'[id] = balances[id]
         /\ id \in NewIDs(items) =>
              /\ ~Minted(id) /\ Minted(id)'
              /\ \A a \in Accounts : balances[id][a] = 0
              /\ \A a \in Accounts : balances'[id][a] = IF a = account THEN 1 ELSE 0
<1>1. ASSUME id \notin NewIDs(items)
      PROVE  balances'[id] = balances[id]
  BY <1>1 DEF MintTo
<1>2. ASSUME id \in NewIDs(items)
      PROVE  /\ ~Minted(id) /\ Minted(id)'
             /\ \A a \in Accounts : balances[id][a] = 0
             /\ \A a \in Accounts : balances'[id][a] = IF a = account THEN 1 ELSE 0
  <2>1. PICK i \in 1..Len(items) : id = ItemID(items, i)
    BY <1>2, LenProperties DEF NewIDs
  <2> DEFINE t == items[i].typeID
             n == CountOf(items, t, Len(items))
             k == getItemIndex(id)
  <2>2. /\ t \in TypeIDs /\ getBaseType(id) = t
        /\ k \in Nat /\ maxIndex[t] < k /\ k <= maxIndex[t] + n
    BY <2>1, ItemIDFresh DEF MintTo, HolderInv
  <2>3. maxIndex[t] \in Nat
    BY <2>2, MinterAssumption DEF HolderInv, TypeOK
  <2>4. maxIndex'[t] = maxIndex[t] + n
    BY <2>2 DEF MintTo
  <2>5. n \in Nat
    BY CountOfBounds, LenProperties
  <2> HIDE DEF t, n, k
  <2>6. k \notin 1..maxIndex[t] /\ k \in 1..maxIndex'[t]
    BY <2>2, <2>3, <2>4, <2>5
  <2>7. ~Minted(id) /\ Minted(id)'
    BY <2>2, <2>6 DEF Minted, k
  <2>8. \A a \in Accounts : balances[id][a] = 0
    BY <2>7 DEF HolderInv, OnlyMintedHeld, Held, Holds, TypeOK
  <2>9. balances'[id] = [balances[id] EXCEPT ![account] = @ + 1]
    BY <1>2 DEF MintTo
  <2>10. balances[id] \in [Accounts -> Nat]
    BY DEF HolderInv, TypeOK
  <2> QED BY <2>7, <2>8, <2>9, <2>10
<1> QED BY <1>1, <1>2

LEMMA MintedStays ==
  ASSUME TypeOK, NEW id \in TokenIDs, Minted(id),
         Mints \/ Shrinks \/ Moves
  PROVE  Minted(id)'
<1>1. getBaseType(id) \in TypeIDs
  BY DEF TokenIDs, getBaseType
<1>2. CASE Mints
  <2>1. /\ maxIndex'[getBaseType(id)] \in 0..MaxItems
        /\ maxIndex[getBaseType(id)] <= maxIndex'[getBaseType(id)]
    BY <1>1, <1>2, MintToType DEF Mints
  <2>2. maxIndex[getBaseType(id)] \in 0..MaxItems
    BY <1>1 DEF TypeOK
  <2> QED BY <2>1, <2>2, MinterAssumption DEF Minted
<1>3. CASE Shrinks \/ Moves
  BY <1>3 DEF Shrinks, Moves, Minted
<1> QED BY <1>2, <1>3

\* Whatever does one of the three things to balances keeps the invariant.
LEMMA HolderInvKept ==
  ASSUME HolderInv, TypeOK', Mints \/ Shrinks \/ Moves
  PROVE  HolderInv'
<1>1. TypeOK /\ TypeOK'
  BY DEF HolderInv
<1>2. Mints \/ Shrinks \/ Moves
  OBVIOUS
<1>3. \A id \in TokenIDs, a \in Accounts :
        balances[id][a] \in Nat /\ balances'[id][a] \in Nat
  BY <1>1 DEF TypeOK
<1>4. ASSUME NEW id \in TokenIDs, NEW a \in Accounts, NEW b \in Accounts,
             Holds(a, id)', Holds(b, id)'
      PROVE  a = b /\ balances'[id][a] = 1 /\ Minted(id)'
  <2>1. ASSUME NEW c \in Accounts, NEW d \in Accounts, Holds(c, id), Holds(d, id)
        PROVE  c = d /\ balances[id][c] = 1 /\ Minted(id) /\ Minted(id)'
    <3>1. c = d /\ balances[id][c] = 1 /\ Minted(id)
      BY <2>1 DEF HolderInv, SingleHolder, OnlyMintedHeld, Held
    <3> QED BY <1>1, <1>2, <3>1, MintedStays
  <2>2. CASE Mints
    <3>1. PICK account \in Accounts, items \in Seq(ItemSet) : MintTo(account, items)
      BY <2>2 DEF Mints
    <3>2. CASE id \in NewIDs(items)
      BY <1>4, <3>1, <3>2, MintTouchesFresh DEF Holds
    <3>3. CASE id \notin NewIDs(items)
      <4>1. balances'[id] = balances[id]
        BY <3>1, <3>3 DEF MintTo
      <4> QED BY <1>4, <2>1, <4>1 DEF Holds
    <3> QED BY <3>2, <3>3
  <2>3. CASE Shrinks
    <3>1. balances'[id][a] <= balances[id][a] /\ balances'[id][b] <= balances[id][b]
      BY <2>3 DEF Shrinks
    <3>2. Holds(a, id) /\ Holds(b, id)
      BY <1>3, <1>4, <3>1 DEF Holds
    <3> QED BY <1>3, <1>4, <2>1, <3>1, <3>2 DEF Holds
  <2>4. CASE Moves
    <3>0. PICK from \in Accounts, to \in Accounts :
            /\ from # to
            /\ \E n \in 0..balances[id][from] : MovesToken(from, to, id, n)
      BY <2>4 DEF Moves
    <3>1. PICK n \in 0..balances[id][from] :
            from # to /\ MovesToken(from, to, id, n)
      BY <3>0
    <3>2. n \in Nat /\ n <= balances[id][from] /\ balances[id][from] \in Nat
      BY <1>3, <3>1
    <3>3. /\ balances'[id][from] = balances[id][from] - n
          /\ balances'[id][to] = balances[id][to] + n
          /\ \A c \in Accounts \ {from, to} : balances'[id][c] = balances[id][c]
      BY <3>1 DEF MovesToken
    <3>4. CASE n = 0
      <4>1. \A c \in Accounts : balances'[id][c] = balances[id][c]
        BY <1>3, <3>3, <3>4
      <4> QED BY <1>4, <2>1, <4>1 DEF Holds
    <3>5. CASE n # 0
      <4>1. Holds(from, id)
        BY <3>2, <3>5 DEF Holds
      <4>2. /\ balances[id][from] = 1 /\ Minted(id)'
            /\ \A c \in Accounts \ {from} : balances[id][c] = 0
        BY <1>3, <2>1, <4>1 DEF Holds
      <4>3. n = 1 /\ balances'[id][from] = 0 /\ balances'[id][to] = 1
        BY <3>1, <3>2, <3>3, <3>5, <4>2
      <4>4. \A c \in Accounts : Holds(c, id)' => c = to
        BY <3>3, <4>2, <4>3 DEF Holds
      <4> QED BY <1>4, <4>2, <4>3, <4>4
    <3> QED BY <3>4, <3>5
  <2> QED BY <1>2, <2>2, <2>3, <2>4
<1>5. SingleHolder'
  BY <1>4 DEF SingleHolder
<1>6. OnlyMintedHeld'
  BY <1>4 DEF OnlyMintedHeld, Held
<1> QED BY <1>1, <1>5, <1>6 DEF HolderInv

LEMMA HolderStep ==
  ASSUME HolderInv, NEW s \in Accounts, NextBy(s)
  PROVE  HolderInv'
<1>1. TypeOK /\ TypeOK'
  BY StepType DEF HolderInv
<1> QED BY <1>1, BalanceSteps, HolderInvKept

\* The conjunction is an invariant of the specification.
THEOREM HolderInvariant == Spec => []HolderInv
<1>1. Init => HolderInv
  BY InitType DEF Init, InitialStorage, HolderInv, SingleHolder, OnlyMintedHeld, Held, Holds
<1>2. HolderInv /\ [Next]_vars => HolderInv'
  <2>1. HolderInv /\ Next => HolderInv'
    BY HolderStep DEF Next
  <2>2. HolderInv /\ UNCHANGED vars => HolderInv'
    BY DEF HolderInv, TypeOK, SingleHolder, OnlyMintedHeld, Held, Holds, Minted,
           vars, typeVars, tokenVars, allowlistVars, adminVars
  <2> QED BY <2>1, <2>2
<1> QED BY <1>1, <1>2, PTL DEF Spec

\* No fraction is ever in two hands, or twice in one.
THEOREM HeldByOne == Spec => []SingleHolder
BY HolderInvariant, PTL DEF HolderInv

\* Nobody ever holds a base ID or an ID that is still to be minted.
THEOREM HeldOnceMinted == Spec => []OnlyMintedHeld
BY HolderInvariant, PTL DEF HolderInv

-----------------------------------------------------------------------------
(* How a token changes hands                                               *)

\* An action property follows from an invariant and a step, stutters apart.
LEMMA BurnedStep ==
  ASSUME HolderInv, TypeOK', Mints \/ Shrinks \/ Moves,
         NEW id \in TokenIDs, Minted(id), ~Held(id)
  PROVE  ~Held(id)'
<1>1. TypeOK /\ TypeOK'
  BY DEF HolderInv
<1>2. \A a \in Accounts : balances[id][a] = 0
  BY <1>1 DEF Held, Holds, TypeOK
<1>3. CASE Mints
  <2>1. PICK account \in Accounts, items \in Seq(ItemSet) : MintTo(account, items)
    BY <1>3 DEF Mints
  <2>2. balances'[id] = balances[id]
    BY <2>1, MintTouchesFresh
  <2> QED BY <1>2, <2>2 DEF Held, Holds
<1>4. CASE Shrinks
  <2>1. \A a \in Accounts : balances'[id][a] <= balances[id][a]
    BY <1>4 DEF Shrinks
  <2>2. \A a \in Accounts : balances'[id][a] = 0
    BY <1>1, <1>2, <2>1 DEF TypeOK
  <2> QED BY <2>2 DEF Held, Holds
<1>5. CASE Moves
  <2>1. PICK from \in Accounts, to \in Accounts :
          \E n \in 0..balances[id][from] : MovesToken(from, to, id, n)
    BY <1>5 DEF Moves
  <2>2. MovesToken(from, to, id, 0)
    BY <1>2, <2>1
  <2>3. \A a \in Accounts : balances'[id][a] = 0
    BY <1>2, <2>2 DEF MovesToken
  <2> QED BY <2>3 DEF Held, Holds
<1> QED BY <1>3, <1>4, <1>5

\* Burned and merged tokens never come back.
THEOREM BurnedStaysBurned == Spec => BurnedForever
<1>1. HolderInv /\ [Next]_vars =>
        [\A id \in TokenIDs : Minted(id) /\ ~Held(id) => ~Held(id)']_vars
  <2> SUFFICES ASSUME HolderInv, Next
               PROVE  \A id \in TokenIDs : Minted(id) /\ ~Held(id) => ~Held(id)'
    OBVIOUS
  <2>1. PICK s \in Accounts : NextBy(s)
    BY DEF Next
  <2>2. TypeOK' /\ (Mints \/ Shrinks \/ Moves)
    BY <2>1, StepType, BalanceSteps DEF HolderInv
  <2> QED BY <2>2, BurnedStep
<1> QED BY <1>1, HolderInvariant, PTL DEF Spec, BurnedForever

\* A token that passes from a to b was sent by a safe transfer, from a, in a
\* batch that names it.
LEMMA PassedByTransfer ==
  ASSUME HolderInv, NEW s \in Accounts, NextBy(s), NEW id \in TokenIDs,
         NEW a \in Accounts, NEW b \in Accounts,
         a # b, Holds(a, id), Holds(b, id)'
  PROVE  TransferAllowed(a, getBaseType(id))
<1>1. TypeOK /\ TypeOK'
  BY StepType DEF HolderInv
<1>2. \A c \in Accounts : balances[id][c] \in Nat /\ balances'[id][c] \in Nat
  BY <1>1 DEF TypeOK
<1>3. balances[id][b] = 0 /\ balances'[id][b] > 0
  BY <1>2 DEF HolderInv, SingleHolder, Holds
<1>4. ASSUME Mints
      PROVE  FALSE
  <2>1. PICK account \in Accounts, items \in Seq(ItemSet) : MintTo(account, items)
    BY <1>4 DEF Mints
  <2>2. balances'[id] = balances[id]
    BY <2>1, MintTouchesFresh DEF Holds
  <2> QED BY <1>3, <2>2
<1>5. ASSUME Shrinks
      PROVE  FALSE
  <2>1. balances'[id][b] <= balances[id][b]
    BY <1>5 DEF Shrinks
  <2> QED BY <1>2, <1>3, <2>1
<1>6. ASSUME NEW from \in Accounts, NEW to \in Accounts, NEW batch \in Seq(Transfers),
             SafeBatchTransferFrom(s, from, to, batch)
      PROVE  TransferAllowed(a, getBaseType(id))
  <2> DEFINE n == Moved(batch, id)
  <2>1. n \in 0..balances[id][from] /\ MovesToken(from, to, id, n) /\ from # to
    BY <1>1, <1>6, TransferMoves
  <2> HIDE DEF n
  <2>2. balances'[id][b] = CASE b = from -> balances[id][b] - n
                             [] b = to   -> balances[id][b] + n
                             [] OTHER    -> balances[id][b]
    BY <2>1 DEF MovesToken
  <2>3. n # 0
    BY <1>2, <1>3, <2>2
  <2>4. balances[id][from] > 0
    BY <1>2, <2>1, <2>3
  <2>5. from = a
    BY <2>4 DEF HolderInv, SingleHolder, Holds
  <2>6. \E i \in DOMAIN batch : batch[i].id = id
    <3>1. SUFFICES ASSUME ~\E i \in DOMAIN batch : batch[i].id = id
                   PROVE  FALSE
      OBVIOUS
    <3>2. {i \in DOMAIN batch : batch[i].id = id} = {}
      BY <3>1
    <3>3. n = 0
      BY <3>2, TotalEmpty DEF n, Moved
    <3> QED BY <2>3, <3>3
  <2> QED BY <1>6, <2>5, <2>6 DEF SafeBatchTransferFrom, BatchAllowed
<1>7. Mints \/ Shrinks \/ \E from, to \in Accounts, batch \in Seq(Transfers) :
                            SafeBatchTransferFrom(s, from, to, batch)
  BY <1>1, MintShrinkOrTransfer
<1> QED BY <1>4, <1>5, <1>6, <1>7

\* The policy a type was created with decides every change of hands.
THEOREM PolicyIsObeyed == Spec => PolicyObeyed
<1> DEFINE Obeyed ==
      \A id \in TokenIDs : \A a, b \in Accounts :
        (a # b /\ Holds(a, id) /\ Holds(b, id)') =>
          LET t == getBaseType(id)
          IN  \/ typeRestrictions[t] = "AllowAll"
              \/ typeRestrictions[t] = "FromCreatorOnly" /\ a = creators[t]
<1>1. HolderInv /\ Next => Obeyed
  <2> SUFFICES ASSUME HolderInv, Next, NEW id \in TokenIDs,
                      NEW a \in Accounts, NEW b \in Accounts,
                      a # b, Holds(a, id), Holds(b, id)'
               PROVE  LET t == getBaseType(id)
                      IN  \/ typeRestrictions[t] = "AllowAll"
                          \/ typeRestrictions[t] = "FromCreatorOnly" /\ a = creators[t]
    BY DEF Obeyed
  <2>1. PICK s \in Accounts : NextBy(s)
    BY DEF Next
  <2>2. TransferAllowed(a, getBaseType(id))
    BY <2>1, PassedByTransfer
  <2>3. typeRestrictions[getBaseType(id)] \in TransferRestrictions
    BY DEF HolderInv, TypeOK, TokenIDs, getBaseType
  <2> QED BY <2>2, <2>3 DEF TransferAllowed, TransferRestrictions
<1>2. HolderInv /\ [Next]_vars => [Obeyed]_vars
  BY <1>1
<1> QED BY <1>2, HolderInvariant, PTL DEF Spec, PolicyObeyed
=============================================================================
