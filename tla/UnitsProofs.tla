----------------------------- MODULE UnitsProofs -----------------------------
(***************************************************************************)
(* Units are never made: for every instance of HypercertMinter, the units  *)
(* at the fraction IDs of a type stay within what was minted or claimed.   *)
(* A mint adds its items' units, a split shares a token's units out, and a *)
(* merge moves the units of its sources, each of which is burned once      *)
(* because it had one holder with one of it.                               *)
(***************************************************************************)
EXTENDS HypercertMinterProofs

\* Two items never get the same ID.
LEMMA CountOfGrows ==
  ASSUME NEW items, NEW t, NEW i \in Nat, NEW j \in Nat, i < j,
         items[j].typeID = t
  PROVE  CountOf(items, t, i) < CountOf(items, t, j)
<1> DEFINE upTo(m) == {k \in 1..m : items[k].typeID = t}
           A == upTo(i)
           B == upTo(j)
<1>1. A \subseteq B /\ j \in B /\ j \notin A
  OBVIOUS
<1>2. IsFiniteSet(B)
  <2>1. IsFiniteSet(1..j) /\ B \subseteq 1..j
    BY FS_Interval
  <2> QED BY <2>1, FS_Subset
<1> HIDE DEF A, B
<1>3. /\ IsFiniteSet(A) /\ Cardinality(A) <= Cardinality(B)
      /\ Cardinality(A) # Cardinality(B)
  BY <1>1, <1>2, FS_Subset
<1>4. Cardinality(A) \in Nat /\ Cardinality(B) \in Nat
  BY <1>2, <1>3, FS_CardinalityType
<1>5. Cardinality(A) < Cardinality(B)
  BY <1>3, <1>4
<1> QED BY <1>5 DEF CountOf, A, B

LEMMA ItemIDInjective ==
  ASSUME TypeOK, NEW items \in Seq(ItemSet),
         NEW i \in DOMAIN items, NEW j \in DOMAIN items,
         ItemID(items, i) = ItemID(items, j)
  PROVE  i = j
<1>1. i \in Nat /\ j \in Nat /\ DOMAIN items = 1..Len(items) /\ Len(items) \in Nat
  BY LenProperties
<1>2. ASSUME NEW k \in DOMAIN items, NEW l \in DOMAIN items, k < l
      PROVE  ItemID(items, k) # ItemID(items, l)
  <2> DEFINE t == items[k].typeID
  <2>1. CASE items[l].typeID = t
    <3>1. k \in Nat /\ l \in Nat
      BY <1>1
    <3>2. CountOf(items, t, k) < CountOf(items, t, l)
      BY <1>2, <2>1, <3>1, CountOfGrows
    <3>3. /\ CountOf(items, t, k) \in Nat /\ CountOf(items, t, l) \in Nat
          /\ maxIndex[t] \in Nat
      <4>1. items[k] \in ItemSet
        BY <1>1, ElementOfSeq
      <4>2. maxIndex[t] \in Nat
        BY <4>1, MinterAssumption DEF ItemSet, TypeOK
      <4> QED BY <3>1, <4>2, CountOfBounds
    <3>4. maxIndex[t] + CountOf(items, t, k) # maxIndex[t] + CountOf(items, t, l)
      BY <3>2, <3>3
    <3> HIDE DEF t
    <3>5. ItemID(items, k) = <<t, maxIndex[t] + CountOf(items, t, k)>>
      BY DEF ItemID, t
    <3>6. ItemID(items, l) = <<t, maxIndex[t] + CountOf(items, t, l)>>
      BY <2>1 DEF ItemID
    <3> QED BY <3>4, <3>5, <3>6
  <2>2. CASE items[l].typeID # t
    BY <2>2 DEF ItemID
  <2> QED BY <2>1, <2>2
<1>3. i < j \/ j < i \/ i = j
  BY <1>1
<1> QED BY <1>2, <1>3

\* A mint passes over no index: what it makes minted is one of its new IDs.
LEMMA MintSkipsNone ==
  ASSUME TypeOK, NEW account \in Accounts, NEW items \in Seq(ItemSet),
         MintTo(account, items), NEW id \in TokenIDs, Minted(id)', ~Minted(id)
  PROVE  id \in NewIDs(items)
<1> DEFINE t == getBaseType(id)
           n == CountOf(items, t, Len(items))
           P == {i \in 1..Len(items) : items[i].typeID = t}
           K == (maxIndex[t] + 1)..(maxIndex[t] + n)
           h == [i \in P |-> getItemIndex(ItemID(items, i))]
<1>1. /\ t \in TypeIDs /\ maxIndex[t] \in Nat /\ id = <<t, getItemIndex(id)>>
      /\ getItemIndex(id) \in Nat
  BY MinterAssumption DEF TypeOK, TokenIDs, getBaseType, getItemIndex
<1>2. /\ Len(items) \in Nat /\ DOMAIN items = 1..Len(items)
      /\ n \in Nat /\ n = Cardinality(P)
  BY CountOfBounds, LenProperties DEF CountOf
<1>3. \A i \in P : /\ ItemID(items, i) = <<t, h[i]>>
                   /\ h[i] \in K
  <2> SUFFICES ASSUME NEW i \in P
               PROVE  ItemID(items, i) = <<t, h[i]>> /\ h[i] \in K
    OBVIOUS
  <2>1. i \in 1..Len(items) /\ items[i].typeID = t
    OBVIOUS
  <2>2. /\ h[i] \in Nat /\ maxIndex[t] < h[i] /\ h[i] <= maxIndex[t] + n
    BY <2>1, ItemIDFresh DEF MintTo
  <2>3. ItemID(items, i) = <<t, h[i]>>
    BY <2>1 DEF ItemID, getItemIndex
  <2> HIDE DEF h, n, t
  <2> QED BY <1>1, <1>2, <2>2, <2>3
<1>4. h \in Injection(P, K)
  <2>1. \A i, j \in P : h[i] = h[j] => i = j
    <3> SUFFICES ASSUME NEW i \in P, NEW j \in P, h[i] = h[j]
                 PROVE  i = j
      OBVIOUS
    <3>1. ItemID(items, i) = ItemID(items, j)
      <4> HIDE DEF h
      <4> QED BY <1>3
    <3>2. i \in DOMAIN items /\ j \in DOMAIN items
      BY <1>2
    <3> QED BY <3>1, <3>2, ItemIDInjective
  <2>2. h \in [P -> K]
    BY <1>3
  <2> HIDE DEF h, P, K
  <2> QED BY <2>1, <2>2 DEF Injection, IsInjective
<1>5. IsFiniteSet(K) /\ Cardinality(K) = n
  <2> DEFINE lo == maxIndex[t] + 1
             hi == maxIndex[t] + n
  <2>1. lo \in Int /\ hi \in Int /\ (IF lo > hi THEN 0 ELSE hi - lo + 1) = n
    <3> HIDE DEF n, t
    <3> QED BY <1>1, <1>2
  <2> HIDE DEF lo, hi, n
  <2>2. IsFiniteSet(lo..hi) /\ Cardinality(lo..hi) = n
    BY <2>1, FS_Interval
  <2> QED BY <2>2 DEF lo, hi
<1>6. h \in Surjection(P, K)
  <2> HIDE DEF h, P, K
  <2> QED BY <1>2, <1>4, <1>5, FS_Injection
<1>7. getItemIndex(id) \in K
  <2>1. maxIndex'[t] = maxIndex[t] + n
    BY <1>1 DEF MintTo
  <2>2. getItemIndex(id) \in 1..maxIndex'[t] /\ getItemIndex(id) \notin 1..maxIndex[t]
    BY DEF Minted
  <2> HIDE DEF n, t
  <2> QED BY <1>1, <1>2, <2>1, <2>2
<1>8. PICK i \in P : h[i] = getItemIndex(id)
  <2> HIDE DEF h, P, K
  <2> QED BY <1>6, <1>7 DEF Surjection
<1>9. ItemID(items, i) = id /\ i \in DOMAIN items
  <2> HIDE DEF h, t
  <2> QED BY <1>1, <1>2, <1>3, <1>8
<1> QED BY <1>9 DEF NewIDs

\* Each new token holds its own item's units.
LEMMA MintedValueOf ==
  ASSUME TypeOK, NEW items \in Seq(ItemSet), RoomFor(items),
         NEW i \in DOMAIN items
  PROVE  MintedValues(items)[ItemID(items, i)] = items[i].units
<1> DEFINE id == ItemID(items, i)
           j == CHOOSE k \in DOMAIN items : ItemID(items, k) = id
<1>1. id \in TokenIDs
  BY ItemIDFresh, LenProperties
<1>2. j \in DOMAIN items /\ ItemID(items, j) = id
  OBVIOUS
<1>3. j = i
  <2> HIDE DEF j
  <2> QED BY <1>2, ItemIDInjective
<1>4. id \in NewIDs(items)
  BY DEF NewIDs
<1> QED BY <1>1, <1>3, <1>4 DEF MintedValues

LEMMA TokenIDsFinite ==
  /\ IsFiniteSet(TokenIDs)
  /\ \A t \in TypeIDs : FractionIDs(t) \subseteq TokenIDs
<1>1. IsFiniteSet(TypeIDs) /\ IsFiniteSet(0..MaxItems)
  BY MinterAssumption, FS_Interval DEF TypeIDs
<1>2. IsFiniteSet(TokenIDs)
  BY <1>1, FS_Product DEF TokenIDs
<1> QED BY <1>2, MinterAssumption DEF FractionIDs, TokenIDs

LEMMA ValuesSummable ==
  ASSUME NEW values \in [TokenIDs -> 0..MaxUint], NEW E \in SUBSET TokenIDs
  PROVE  Summable(values, E)
<1>1. IsFiniteSet(E)
  BY TokenIDsFinite, FS_Subset
<1>2. \A id \in E : values[id] \in Nat
  BY MinterAssumption
<1> QED BY <1>1, <1>2 DEF Summable

\* The new tokens of a type carry what its items bring.
LEMMA NewUnits ==
  ASSUME TypeOK, NEW items \in Seq(ItemSet), RoomFor(items),
         MintedValues(items) \in [TokenIDs -> 0..MaxUint], NEW t
  PROVE  LET N == {ItemID(items, i) : i \in Positions(items, t)}
         IN  /\ N \subseteq TokenIDs
             /\ Total(MintedValues(items), N) = UnitsFor(items, t)
<1> DEFINE values == MintedValues(items)
           P == Positions(items, t)
           N == {ItemID(items, i) : i \in P}
           h == [i \in P |-> ItemID(items, i)]
<1>1. N \subseteq TokenIDs
  BY ItemIDFresh, LenProperties DEF Positions
<1>2. Summable(values, N)
  BY <1>1, ValuesSummable
<1>3. h \in Bijection(P, N)
  <2>1. h \in [P -> N] /\ \A id \in N : \E i \in P : h[i] = id
    OBVIOUS
  <2>2. \A i, j \in P : h[i] = h[j] => i = j
    BY ItemIDInjective DEF Positions
  <2> HIDE DEF h, P, N
  <2> QED BY <2>1, <2>2 DEF Bijection, Injection, Surjection, IsInjective
<1>4. \A i \in P : UnitsAt(items)[i] = values[h[i]]
  BY MintedValueOf DEF Positions, UnitsAt
<1>5. Total(UnitsAt(items), P) = Total(values, N)
  <2> HIDE DEF h, P, N, values
  <2> QED BY <1>2, <1>3, <1>4, TotalReindex
<1> QED BY <1>1, <1>5, PositionsSummable

\* A mint adds at most its items' units to any fractions of a type.
LEMMA MintAdds ==
  ASSUME TypeOK, NEW items \in Seq(ItemSet), RoomFor(items),
         MintedValues(items) \in [TokenIDs -> 0..MaxUint],
         NEW t \in TypeIDs, NEW E \in SUBSET FractionIDs(t)
  PROVE  Total(MintedValues(items), E) <= Total(tokenValues, E) + UnitsFor(items, t)
<1> DEFINE values == MintedValues(items)
           P == Positions(items, t)
           N == {ItemID(items, i) : i \in P}
           Old == E \ NewIDs(items)
           New == E \cap NewIDs(items)
<1>1. /\ DOMAIN items = 1..Len(items)
      /\ \A i \in DOMAIN items : /\ ItemID(items, i) \in TokenIDs
                                 /\ getBaseType(ItemID(items, i)) = items[i].typeID
  BY ItemIDFresh, LenProperties
<1>2. E \subseteq TokenIDs /\ N \subseteq TokenIDs
  BY <1>1, TokenIDsFinite DEF Positions
<1>3. New \subseteq N
  <2> SUFFICES ASSUME NEW id \in New PROVE id \in N
    OBVIOUS
  <2>1. PICK i \in DOMAIN items : id = ItemID(items, i)
    BY DEF NewIDs
  <2>2. getBaseType(id) = t
    BY DEF FractionIDs, getBaseType
  <2>3. items[i].typeID = t
    BY <1>1, <2>1, <2>2
  <2> QED BY <2>1, <2>3 DEF Positions
<1>4. /\ Summable(values, Old) /\ Summable(values, New) /\ Summable(values, N)
      /\ Summable(tokenValues, E) /\ Summable(tokenValues, Old)
  BY <1>2, ValuesSummable DEF TypeOK
<1>5. Total(values, E) = Total(values, Old) + Total(values, New)
  <2>1. E = Old \cup New /\ Old \cap New = {}
    OBVIOUS
  <2> HIDE DEF Old, New, values
  <2> QED BY <1>4, <2>1, TotalUnion
<1>6. Total(values, Old) <= Total(tokenValues, E)
  <2>1. \A id \in Old : values[id] = tokenValues[id]
    BY <1>2 DEF MintedValues
  <2>2. \A id \in Old : values[id] \in Nat /\ values[id] <= tokenValues[id]
    <3> HIDE DEF Old, values
    <3> QED BY <1>4, <2>1 DEF Summable
  <2>3. Old \subseteq E
    OBVIOUS
  <2> HIDE DEF Old, values
  <2> QED BY <1>4, <2>2, <2>3, TotalMonotone
<1>7. Total(values, New) <= Total(values, N)
  <2>1. \A id \in New : values[id] \in Nat /\ values[id] <= values[id]
    <3> HIDE DEF New, values
    <3> QED BY <1>4 DEF Summable
  <2> HIDE DEF New, N, values
  <2> QED BY <1>3, <1>4, <2>1, TotalMonotone
<1>8. Total(values, N) = UnitsFor(items, t)
  BY NewUnits
<1>9. /\ Total(values, Old) \in Nat /\ Total(values, New) \in Nat
      /\ Total(values, N) \in Nat /\ Total(tokenValues, E) \in Nat
  BY <1>4, TotalIsNat
<1> HIDE DEF values, Old, New, N, P
<1>10. Total(values, E) <= Total(tokenValues, E) + UnitsFor(items, t)
  BY <1>5, <1>6, <1>7, <1>8, <1>9
<1> QED BY <1>10 DEF values

-----------------------------------------------------------------------------
(* Splits and merges                                                       *)

\* The circulating units of a type are a natural number.
LEMMA CirculatingType ==
  ASSUME TypeOK, NEW t \in TypeIDs
  PROVE  Circulating(t) \in Nat
BY TokenIDsFinite, ValuesSummable, TotalIsNat DEF Circulating, TypeOK

\* The units at t's fractions, with those of one fraction set apart.
LEMMA SetApart ==
  ASSUME NEW values \in [TokenIDs -> 0..MaxUint], NEW t \in TypeIDs,
         NEW id \in FractionIDs(t)
  PROVE  /\ Total(values, FractionIDs(t)) =
              Total(values, FractionIDs(t) \ {id}) + values[id]
         /\ Total(values, FractionIDs(t) \ {id}) \in Nat
<1>1. Summable(values, FractionIDs(t)) /\ Summable(values, FractionIDs(t) \ {id})
  BY TokenIDsFinite, ValuesSummable
<1> QED BY <1>1, TotalRemove, TotalIsNat

\* A split leaves the circulating units of no type higher.
LEMMA SplitKeepsUnits ==
  ASSUME TypeOK, NEW s \in Accounts, NEW account \in Accounts, NEW id \in TokenIDs,
         NEW values \in Seq(0..MaxUint), Len(values) >= 2,
         SplitTokenUnits(s, account, id, values), NEW t \in TypeIDs
  PROVE  Circulating(t)' <= Circulating(t)
<1> DEFINE u == getBaseType(id)
           items == NewShares(u, values)
           minted1 == MintedValues(items)
           F == FractionIDs(t)
<1>1. u \in TypeIDs /\ items \in Seq(ItemSet)
  BY NewSharesType DEF TokenIDs, getBaseType
<1>2. /\ MintTo(account, items) /\ RoomFor(items)
      /\ tokenValues[id] = SumOf(values) /\ ~isBaseType(id)
      /\ tokenValues' = [minted1 EXCEPT ![id] = values[1]]
  BY DEF SplitTokenUnits, MintTo
<1>3. minted1 \in [TokenIDs -> 0..MaxUint]
  BY <1>1, <1>2, MintToType
<1>4. tokenValues \in [TokenIDs -> 0..MaxUint] /\ tokenValues' \in [TokenIDs -> 0..MaxUint]
  <2>1. values[1] \in 0..MaxUint
    <3>1. 1 \in 1..Len(values)
      BY LenProperties
    <3> QED BY <3>1, ElementOfSeq
  <2> HIDE DEF minted1
  <2> QED BY <1>2, <1>3, <2>1 DEF TypeOK
<1>5. \A v : UnitsFor(items, v) = IF v = u THEN SumOf(values) - values[1] ELSE 0
  BY <1>1, SharesSum
<1>6. \A E \in SUBSET F :
        Total(minted1, E) <= Total(tokenValues, E) + UnitsFor(items, t)
  BY <1>1, <1>2, <1>3, MintAdds
<1> HIDE DEF items, minted1
<1>7. CASE t = u
  <2> DEFINE E == F \ {id}
  <2>1. id \in F
    BY <1>2, <1>7 DEF FractionIDs, TokenIDs, isBaseType, getItemIndex, getBaseType
  <2>2. /\ Total(tokenValues', F) = Total(tokenValues', E) + tokenValues'[id]
        /\ Total(tokenValues, F) = Total(tokenValues, E) + tokenValues[id]
        /\ Total(tokenValues', E) \in Nat /\ Total(tokenValues, E) \in Nat
    BY <1>4, <2>1, SetApart
  <2>3. Total(tokenValues', E) = Total(minted1, E)
    <3>1. \A x \in E : tokenValues'[x] = minted1[x]
      BY <1>2, <1>3, TokenIDsFinite
    <3> QED BY <3>1, TotalSame
  <2>4. Total(minted1, E) <= Total(tokenValues, E) + (SumOf(values) - values[1])
    BY <1>5, <1>6, <1>7
  <2>5. tokenValues'[id] = values[1] /\ tokenValues[id] = SumOf(values)
    BY <1>2, <1>3
  <2>6. tokenValues'[id] \in Nat /\ tokenValues[id] \in Nat
    BY <1>4, MinterAssumption
  <2> HIDE DEF E, F
  <2>7. Total(tokenValues', F) <= Total(tokenValues, F)
    BY <2>2, <2>3, <2>4, <2>5, <2>6
  <2> QED BY <2>7 DEF F, Circulating
<1>8. CASE t # u
  <2>1. \A x \in F : tokenValues'[x] = minted1[x]
    <3>1. \A x \in F : x # id /\ x \in TokenIDs
      BY <1>8, TokenIDsFinite DEF FractionIDs, getBaseType
    <3> QED BY <1>2, <1>3, <3>1
  <2>2. Total(tokenValues', F) = Total(minted1, F)
    BY <2>1, TotalSame
  <2>3. Total(minted1, F) <= Total(tokenValues, F) + 0
    BY <1>5, <1>6, <1>8
  <2>4. Total(tokenValues, F) \in Nat /\ Total(minted1, F) \in Nat
    BY <1>3, <1>4, TokenIDsFinite, ValuesSummable, TotalIsNat
  <2>5. Total(tokenValues', F) <= Total(tokenValues, F)
    BY <2>2, <2>3, <2>4
  <2> QED BY <2>5 DEF F, Circulating
<1> QED BY <1>7, <1>8

\* The sources of a merge are minted fractions of the target's type, listed
\* once each, so that what is credited is what they carried.
LEMMA MergeSources ==
  ASSUME HolderInv, NEW s \in Accounts, NEW account \in Accounts,
         NEW ids \in Seq(TokenIDs), Len(ids) >= 2, MergeFractions(s, account, ids)
  PROVE  /\ Sources(ids) \subseteq FractionIDs(getBaseType(Target(ids)))
         /\ MergedUnits(ids) = Total(tokenValues, Sources(ids))
<1> DEFINE n == Len(ids) - 1
           I == 1..n
           g == [i \in DOMAIN ids |-> tokenValues[ids[i]]]
           h == [i \in I |-> ids[i]]
<1>1. /\ Len(ids) \in Nat /\ DOMAIN ids = 1..Len(ids) /\ n \in Nat
      /\ I \subseteq DOMAIN ids
  BY LenProperties
<1>2. TypeOK
  BY DEF HolderInv
<1>3. Sources(ids) \subseteq TokenIDs
  BY <1>2, MergeType
<1>4. ASSUME NEW id \in Sources(ids)
      PROVE  id \in FractionIDs(getBaseType(Target(ids)))
  <2>1. id \in TokenIDs /\ ~isBaseType(id)
        /\ getBaseType(id) = getBaseType(Target(ids))
    BY <1>3 DEF MergeFractions
  <2> QED BY <2>1 DEF TokenIDs, FractionIDs, isBaseType, getItemIndex, getBaseType
<1>5. ASSUME NEW i \in I, NEW j \in I, ids[i] = ids[j]
      PROVE  i = j
  <2> DEFINE id == ids[i]
             at == {k \in I : ids[k] = id}
  <2>1. id \in Sources(ids) /\ id \in TokenIDs
    BY <1>3 DEF Sources
  <2>2. TimesMerged(ids, id) \in Nat \ {0} /\ TimesMerged(ids, id) <= balances[id][account]
    BY <1>2, <2>1, MergeType DEF MergeFractions, TypeOK
  <2>3. balances[id][account] \in Nat
    BY <1>2, <2>1 DEF TypeOK
  <2>4. balances[id][account] = 1
    <3>1. balances[id][account] > 0
      BY <2>2, <2>3
    <3> QED BY <2>1, <3>1 DEF HolderInv, SingleHolder, Holds
  <2>5. Cardinality(at) = 1
    <3>1. TimesMerged(ids, id) = 1
      BY <2>2, <2>4
    <3> QED BY <3>1 DEF TimesMerged
  <2>6. IsFiniteSet(at)
    <3>1. IsFiniteSet(I)
      BY <1>1, FS_Interval
    <3> QED BY <3>1, FS_Subset
  <2>7. i \in at /\ j \in at
    BY <1>5
  <2> HIDE DEF at
  <2> QED BY <2>5, <2>6, <2>7, FS_Singleton
<1>6. h \in Bijection(I, Sources(ids))
  <2>1. /\ h \in [I -> Sources(ids)]
        /\ \A id \in Sources(ids) : \E i \in I : h[i] = id
    BY DEF Sources
  <2>2. \A i, j \in I : h[i] = h[j] => i = j
    BY <1>5
  <2> HIDE DEF h, I
  <2> QED BY <2>1, <2>2 DEF Bijection, Injection, Surjection, IsInjective
<1>7. Summable(tokenValues, Sources(ids))
  BY <1>2, <1>3, ValuesSummable DEF TypeOK
<1>8. \A i \in I : g[i] = tokenValues[h[i]]
  BY <1>1
<1>9. Total(g, I) = Total(tokenValues, Sources(ids))
  <2> HIDE DEF g, h, I
  <2> QED BY <1>6, <1>7, <1>8, TotalReindex
<1> QED BY <1>4, <1>9 DEF MergedUnits

\* A merge leaves the circulating units of no type higher.
LEMMA MergeKeepsUnits ==
  ASSUME HolderInv, TypeOK', NEW s \in Accounts, NEW account \in Accounts,
         NEW ids \in Seq(TokenIDs), Len(ids) >= 2, MergeFractions(s, account, ids),
         NEW t \in TypeIDs
  PROVE  Circulating(t)' <= Circulating(t)
<1> DEFINE target == Target(ids)
           u == getBaseType(target)
           cleared == ClearedValues(ids)
           S == Sources(ids)
           F == FractionIDs(t)
<1>1. TypeOK /\ S \subseteq TokenIDs /\ target \in TokenIDs /\ MergedUnits(ids) \in Nat
  BY MergeType DEF HolderInv
<1>2. /\ tokenValues \in [TokenIDs -> 0..MaxUint]
      /\ tokenValues' \in [TokenIDs -> 0..MaxUint]
      /\ cleared \in [TokenIDs -> 0..MaxUint]
  <2>1. 0 \in 0..MaxUint
    BY MinterAssumption
  <2>2. /\ tokenValues \in [TokenIDs -> 0..MaxUint]
        /\ tokenValues' \in [TokenIDs -> 0..MaxUint]
    BY <1>1 DEF TypeOK
  <2> QED BY <2>1, <2>2 DEF ClearedValues
<1>3. tokenValues' = [cleared EXCEPT ![target] = @ + MergedUnits(ids)]
  BY DEF MergeFractions
<1>4. F \subseteq TokenIDs
  BY TokenIDsFinite
<1>5. Summable(cleared, F) /\ Summable(tokenValues, F) /\ Summable(tokenValues', F)
  BY <1>2, <1>4, ValuesSummable
<1>6. Total(cleared, F) \in Nat /\ Total(tokenValues, F) \in Nat
  BY <1>5, TotalIsNat
<1>7. Total(cleared, F) + (IF t = u THEN MergedUnits(ids) ELSE 0)
        <= Total(tokenValues, F)
  <2>1. CASE t = u
    <3>1. S \subseteq F /\ MergedUnits(ids) = Total(tokenValues, S)
      BY <2>1, MergeSources
    <3>2. /\ Summable(cleared, F \ S) /\ Summable(cleared, S)
          /\ Summable(tokenValues, F \ S) /\ Summable(tokenValues, S)
      <4>1. F \ S \in SUBSET TokenIDs /\ S \in SUBSET TokenIDs
        BY <1>1, <1>4
      <4> HIDE DEF S, F, cleared
      <4> QED BY <1>2, <4>1, ValuesSummable
    <3>3. F = (F \ S) \cup S /\ (F \ S) \cap S = {}
      BY <3>1
    <3>4. /\ Total(cleared, F) = Total(cleared, F \ S) + Total(cleared, S)
          /\ Total(tokenValues, F) = Total(tokenValues, F \ S) + Total(tokenValues, S)
      <4> HIDE DEF S, F, cleared
      <4> QED BY <3>2, <3>3, TotalUnion
    <3>5. Total(cleared, F \ S) = Total(tokenValues, F \ S)
      <4>1. \A x \in F \ S : cleared[x] = tokenValues[x]
        BY <1>4 DEF ClearedValues
      <4> HIDE DEF S, F, cleared
      <4> QED BY <4>1, TotalSame
    <3>6. Total(cleared, S) = 0
      <4> DEFINE zero == [x \in S |-> 0]
      <4>1. \A x \in S : cleared[x] = 0
        BY <1>1 DEF ClearedValues
      <4>2. UnitsOver(cleared, S) = {}
        <5> HIDE DEF S, cleared
        <5> QED BY <4>1, UnitsOverMember
      <4> QED BY <4>2, FS_EmptySet DEF Total
    <3>7. Total(cleared, F \ S) \in Nat /\ Total(tokenValues, S) \in Nat
      BY <3>2, TotalIsNat
    <3> HIDE DEF S, F, cleared, u
    <3> QED BY <2>1, <3>1, <3>4, <3>5, <3>6, <3>7
  <2>2. CASE t # u
    <3>1. \A x \in F : cleared[x] \in Nat /\ cleared[x] <= tokenValues[x]
      BY <1>2, <1>4, MinterAssumption DEF ClearedValues
    <3>2. Total(cleared, F) <= Total(tokenValues, F)
      BY <1>5, <3>1, TotalMonotone
    <3> HIDE DEF F, cleared, u
    <3> QED BY <1>6, <2>2, <3>2
  <2> QED BY <2>1, <2>2
<1>8. CASE target \in F
  <2> DEFINE E == F \ {target}
  <2>1. t = u
    BY <1>8 DEF FractionIDs, getBaseType
  <2>2. /\ Total(tokenValues', F) = Total(tokenValues', E) + tokenValues'[target]
        /\ Total(cleared, F) = Total(cleared, E) + cleared[target]
        /\ Total(cleared, E) \in Nat
    <3> HIDE DEF cleared, target
    <3> QED BY <1>2, <1>8, SetApart
  <2>3. Total(tokenValues', E) = Total(cleared, E)
    <3>1. \A x \in E : tokenValues'[x] = cleared[x]
      <4> HIDE DEF cleared, target, F
      <4> QED BY <1>2, <1>3, <1>4
    <3> HIDE DEF cleared, E
    <3> QED BY <3>1, TotalSame
  <2>4. tokenValues'[target] = cleared[target] + MergedUnits(ids) /\ cleared[target] \in Nat
    <3> HIDE DEF cleared, target
    <3> QED BY <1>1, <1>2, <1>3, MinterAssumption
  <2> HIDE DEF E, F, cleared, target, u
  <2>5. Total(tokenValues', F) <= Total(tokenValues, F)
    BY <1>1, <1>6, <1>7, <2>1, <2>2, <2>3, <2>4
  <2> QED BY <2>5 DEF F, Circulating
<1>9. CASE target \notin F
  <2>1. \A x \in F : tokenValues'[x] = cleared[x]
    <3> HIDE DEF cleared, target, F
    <3> QED BY <1>2, <1>3, <1>4, <1>9
  <2>2. Total(tokenValues', F) = Total(cleared, F)
    <3> HIDE DEF cleared, F
    <3> QED BY <2>1, TotalSame
  <2>3. Total(tokenValues', F) <= Total(tokenValues, F)
    <3> HIDE DEF cleared, F, u
    <3> QED BY <1>1, <1>6, <1>7, <2>2
  <2> QED BY <2>3 DEF F, Circulating
<1> QED BY <1>8, <1>9

-----------------------------------------------------------------------------
(* The invariant                                                           *)

UnitsInv == HolderInv /\ UnitsBacked

\* What circulates grows by no more than what the step issues.
GrowthBacked(t) ==
  /\ issued[t] <= issued'[t]
  /\ Circulating(t)' - Circulating(t) <= issued'[t] - issued[t]

LEMMA UnitsAreNat ==
  ASSUME TypeOK, TypeOK', NEW t \in TypeIDs
  PROVE  /\ Circulating(t) \in Nat /\ Circulating(t)' \in Nat
         /\ issued[t] \in Nat /\ issued'[t] \in Nat
<1>1. Circulating(t) \in Nat
  BY CirculatingType
<1>2. Circulating(t)' \in Nat
  <2>1. Summable(tokenValues', FractionIDs(t))
    BY TokenIDsFinite, ValuesSummable DEF TypeOK
  <2> QED BY <2>1, TotalIsNat DEF Circulating
<1> QED BY <1>1, <1>2 DEF TypeOK

\* What circulates for t grows by the units of the new items of t.
LEMMA MintCirculates ==
  ASSUME TypeOK, NEW account \in Accounts, NEW items \in Seq(ItemSet),
         MintTo(account, items), NEW t \in TypeIDs,
         \A id \in FractionIDs(t) : tokenValues'[id] = MintedValues(items)[id]
  PROVE  Circulating(t)' <= Circulating(t) + UnitsFor(items, t)
<1>1. /\ RoomFor(items)
      /\ MintedValues(items) \in [TokenIDs -> 0..MaxUint]
  BY MintToType DEF MintTo
<1>2. Total(MintedValues(items), FractionIDs(t))
        <= Total(tokenValues, FractionIDs(t)) + UnitsFor(items, t)
  BY <1>1, MintAdds
<1>3. Total(tokenValues', FractionIDs(t)) = Total(MintedValues(items), FractionIDs(t))
  BY TotalSame
<1> QED BY <1>2, <1>3 DEF Circulating

\* A new type is issued exactly the units of its first fractions.
LEMMA NewTypeBacked ==
  ASSUME TypeOK, TypeOK', NEW s \in Accounts, NEW units \in 0..MaxUint,
         NEW r \in TransferRestrictions, NEW items \in Seq(ItemSet),
         MintNewType(s, units, items, r),
         \A v : UnitsFor(items, v) = IF v = NewType THEN units ELSE 0,
         NEW t \in TypeIDs
  PROVE  GrowthBacked(t)
<1>1. /\ MintTo(s, items) /\ NewType \in TypeIDs
      /\ tokenValues' = [MintedValues(items) EXCEPT ![BaseID(NewType)] = units]
      /\ issued' = [issued EXCEPT ![NewType] = @ + units]
  BY DEF MintNewType, CreateType
<1>2. \A id \in FractionIDs(t) : tokenValues'[id] = MintedValues(items)[id]
  <2>1. \A id \in FractionIDs(t) : id # BaseID(NewType) /\ id \in TokenIDs
    BY TokenIDsFinite DEF FractionIDs, BaseID
  <2>2. DOMAIN MintedValues(items) = TokenIDs
    BY DEF MintedValues
  <2> QED BY <1>1, <2>1, <2>2
<1>3. Circulating(t)' <= Circulating(t) + UnitsFor(items, t)
  BY <1>1, <1>2, MintCirculates
<1>4. issued'[t] = issued[t] + UnitsFor(items, t)
  <2>1. issued'[t] = IF t = NewType THEN issued[t] + units ELSE issued[t]
    BY <1>1 DEF TypeOK
  <2> QED BY <2>1, UnitsAreNat
<1>5. UnitsFor(items, t) \in Nat
  BY PositionsSummable
<1> QED BY <1>3, <1>4, <1>5, UnitsAreNat DEF GrowthBacked

LEMMA SplitBacked ==
  ASSUME TypeOK, TypeOK', NEW s \in Accounts, NEW account \in Accounts,
         NEW id \in TokenIDs, NEW values \in Seq(0..MaxUint), Len(values) >= 2,
         SplitTokenUnits(s, account, id, values), NEW t \in TypeIDs
  PROVE  GrowthBacked(t)
<1>1. Circulating(t)' <= Circulating(t)
  BY SplitKeepsUnits
<1>2. issued' = issued
  BY DEF SplitTokenUnits
<1> QED BY <1>1, <1>2, UnitsAreNat DEF GrowthBacked

LEMMA StepIsBacked ==
  ASSUME HolderInv, NEW s \in Accounts, NextBy(s), NEW t \in TypeIDs
  PROVE  /\ GrowthBacked(t)
         /\ Circulating(t) \in Nat /\ Circulating(t)' \in Nat
         /\ issued[t] \in Nat /\ issued'[t] \in Nat
<1>1. HolderInv /\ HolderInv' /\ TypeOK /\ TypeOK'
  BY HolderStep DEF HolderInv
<1>2. /\ Circulating(t) \in Nat /\ Circulating(t)' \in Nat
      /\ issued[t] \in Nat /\ issued'[t] \in Nat
  BY <1>1, UnitsAreNat
<1>3. ASSUME issued' = issued, Circulating(t)' <= Circulating(t)
      PROVE  GrowthBacked(t)
  BY <1>2, <1>3 DEF GrowthBacked
<1>4. ASSUME issued' = issued, tokenValues' = tokenValues
      PROVE  GrowthBacked(t)
  BY <1>2, <1>4 DEF GrowthBacked, Circulating
<1>5. ASSUME NEW account \in Accounts, NEW items \in Seq(ItemSet),
             MintTo(account, items),
             \A id \in FractionIDs(t) : tokenValues'[id] = MintedValues(items)[id]
      PROVE  Circulating(t)' <= Circulating(t) + UnitsFor(items, t)
  BY <1>1, <1>5, MintCirculates
<1>6. ASSUME NEW units \in 0..MaxUint, NEW r \in TransferRestrictions,
             NEW items \in Seq(ItemSet), MintNewType(s, units, items, r),
             \A v : UnitsFor(items, v) = IF v = NewType THEN units ELSE 0
      PROVE  GrowthBacked(t)
  BY <1>1, <1>6, NewTypeBacked
<1>7. ASSUME NEW account \in Accounts \cup {NoAccount}, NEW units \in 0..MaxUint,
             NEW root \in SUBSET Leaves, NEW r \in TransferRestrictions,
             CreateAllowlist(account, units, root, r)
      PROVE  GrowthBacked(t)
  <2>1. \A id \in FractionIDs(t) : tokenValues'[id] = tokenValues[id]
    <3>1. \A id \in FractionIDs(t) : id # BaseID(NewType) /\ id \in TokenIDs
      BY TokenIDsFinite DEF FractionIDs, BaseID
    <3> QED BY <1>1, <1>7, <3>1 DEF CreateAllowlist, TypeOK
  <2>2. Circulating(t)' = Circulating(t)
    BY <2>1, TotalSame DEF Circulating
  <2> QED BY <1>3, <1>2, <1>7, <2>2 DEF CreateAllowlist
<1>8. ASSUME NEW account \in Accounts, NEW items \in Seq(ItemSet),
             BatchMintClaimsFromAllowlists(s, account, items)
      PROVE  GrowthBacked(t)
  <2>1. /\ MintTo(account, items) /\ tokenValues' = MintedValues(items)
        /\ issued'[t] = issued[t] + UnitsFor(items, t)
    BY <1>8 DEF BatchMintClaimsFromAllowlists
  <2>2. Circulating(t)' <= Circulating(t) + UnitsFor(items, t)
    BY <1>5, <2>1
  <2>3. UnitsFor(items, t) \in Nat
    BY PositionsSummable
  <2> QED BY <1>2, <2>1, <2>2, <2>3 DEF GrowthBacked
<1>9. ASSUME NEW account \in Accounts, NEW id \in TokenIDs,
              NEW values \in Seq(0..MaxUint), Len(values) >= 2,
              SplitFraction(s, account, id, values)
       PROVE  GrowthBacked(t)
  BY <1>1, <1>9, SplitBacked DEF SplitFraction
<1>10. ASSUME NEW account \in Accounts, NEW ids \in Seq(TokenIDs), Len(ids) >= 2,
              MergeFractions(s, account, ids)
       PROVE  GrowthBacked(t)
  <2>1. Circulating(t)' <= Circulating(t)
    BY <1>1, <1>10, MergeKeepsUnits
  <2> QED BY <1>3, <1>10, <2>1 DEF MergeFractions
<1>11. ASSUME NEW account \in Accounts, NEW id \in TokenIDs,
              BurnFraction(s, account, id)
       PROVE  GrowthBacked(t)
  <2>1. \A x \in FractionIDs(t) :
          tokenValues'[x] \in Nat /\ tokenValues'[x] <= tokenValues[x]
    <3>1. tokenValues' = [tokenValues EXCEPT ![id] = 0]
      BY <1>11 DEF BurnFraction
    <3>2. \A x \in FractionIDs(t) : x \in TokenIDs /\ tokenValues[x] \in Nat
      BY <1>1, TokenIDsFinite, MinterAssumption DEF TypeOK
    <3> QED BY <1>1, <3>1, <3>2 DEF TypeOK
  <2>2. Summable(tokenValues, FractionIDs(t))
    BY <1>1, TokenIDsFinite, ValuesSummable DEF TypeOK
  <2>3. Circulating(t)' <= Circulating(t)
    BY <2>1, <2>2, TotalMonotone DEF Circulating
  <2> QED BY <1>3, <1>11, <2>3 DEF BurnFraction
<1>12. ASSUME NEW from \in Accounts, NEW to \in Accounts, NEW batch \in Seq(Transfers),
              SafeBatchTransferFrom(s, from, to, batch)
       PROVE  GrowthBacked(t)
  BY <1>4, <1>12 DEF SafeBatchTransferFrom
<1>13. ASSUME NEW from \in Accounts, NEW batch \in Seq(Transfers),
              SafeBatchTransferToSelf(s, from, batch)
       PROVE  GrowthBacked(t)
  BY <1>4, <1>13 DEF SafeBatchTransferToSelf
<1>14. ASSUME NEW account \in Accounts, NEW batch \in Seq(Transfers),
              BurnBatch(s, account, batch)
       PROVE  GrowthBacked(t)
  BY <1>4, <1>14 DEF BurnBatch
<1>15. ASSUME NEW operator \in Accounts, NEW approved \in BOOLEAN,
              SetApprovalForAll(s, operator, approved)
       PROVE  GrowthBacked(t)
  BY <1>4, <1>15 DEF SetApprovalForAll, tokenVars
<1>16. ASSUME NEW value \in BOOLEAN, SetPaused(s, value)
       PROVE  GrowthBacked(t)
  BY <1>4, <1>16 DEF SetPaused, tokenVars
<1>17. ASSUME NEW newOwner \in Accounts \cup {NoAccount},
              TransferOwnership(s, newOwner)
       PROVE  GrowthBacked(t)
  BY <1>4, <1>17 DEF TransferOwnership, tokenVars
<1> QED BY <1>1, <1>2, StepCases, <1>6, <1>7, <1>8, <1>9, <1>10, <1>11, <1>12, <1>13,
           <1>14, <1>15, <1>16, <1>17

\* The invariant survives what is backed.
LEMMA UnitsKept ==
  ASSUME UnitsInv, HolderInv', \A t \in TypeIDs : GrowthBacked(t)
  PROVE  UnitsInv'
<1>1. ASSUME NEW t \in TypeIDs
      PROVE  Circulating(t)' <= issued'[t]
  <2>1. Circulating(t) <= issued[t]
    BY DEF UnitsInv, UnitsBacked
  <2> QED BY <2>1, UnitsAreNat DEF GrowthBacked, UnitsInv, HolderInv
<1> QED BY <1>1 DEF UnitsInv, UnitsBacked

LEMMA UnitsStep ==
  ASSUME UnitsInv, NEW s \in Accounts, NextBy(s)
  PROVE  UnitsInv'
<1>1. HolderInv /\ HolderInv'
  BY HolderStep DEF UnitsInv
<1> QED BY <1>1, StepIsBacked, UnitsKept

LEMMA UnitsInit == Init => UnitsInv
<1> SUFFICES ASSUME Init PROVE UnitsInv
  OBVIOUS
<1>1. HolderInv
  BY InitType DEF Init, InitialStorage, HolderInv, SingleHolder, OnlyMintedHeld, Held, Holds
<1>2. ASSUME NEW t \in TypeIDs
      PROVE  Circulating(t) <= issued[t]
  <2>1. \A id \in FractionIDs(t) : tokenValues[id] = 0
    BY TokenIDsFinite DEF Init, InitialStorage
  <2>2. UnitsOver(tokenValues, FractionIDs(t)) = {}
    BY <2>1, UnitsOverMember
  <2>3. Circulating(t) = 0
    BY <2>2, FS_EmptySet DEF Total, Circulating
  <2> QED BY <2>3 DEF Init, InitialStorage
<1> QED BY <1>1, <1>2 DEF UnitsInv, UnitsBacked

\* No sequence of transactions makes units.
THEOREM UnitsNeverMade == Spec => []UnitsBacked
<1>1. Init => UnitsInv
  BY UnitsInit
<1>2. UnitsInv /\ [Next]_vars => UnitsInv'
  <2>1. UnitsInv /\ Next => UnitsInv'
    BY UnitsStep DEF Next
  <2>2. UnitsInv /\ UNCHANGED vars => UnitsInv'
    BY DEF UnitsInv, UnitsBacked, Circulating, HolderInv, TypeOK, SingleHolder,
           OnlyMintedHeld, Held, Holds, Minted,
           vars, typeVars, tokenVars, allowlistVars, adminVars
  <2> QED BY <2>1, <2>2
<1>3. UnitsInv => UnitsBacked
  BY DEF UnitsInv
<1> QED BY <1>1, <1>2, <1>3, PTL DEF Spec

-----------------------------------------------------------------------------
(* What an allowlist hands out: only its own leaves, each once, and exactly *)
(* their units.  And what was fixed when a type was created, and stays so  *)
(* while the contract is paused.                                           *)

leafUnits == [leaf \in Leaves |-> leaf[2]]

\* A type not created yet has no allowlist, claims or units; minted stays at
\* zero, since nothing writes it; and a type has finitely many claims.
FreshTypes ==
  \A t \in TypeIDs : ~Created(t) => /\ merkleRoots[t] = NoRoot
                                    /\ hasBeenClaimed[t] = {}
                                    /\ issued[t] = 0

AllowlistInv ==
  /\ TypeOK
  /\ FreshTypes
  /\ \A t \in TypeIDs : minted[t] = 0 /\ IsFiniteSet(hasBeenClaimed[t])
  /\ ClaimsListed
  /\ IssuedIsClaimed

\* The leaves a batch of claims by s records for type t.
ClaimedBy(s, items, t) == {<<s, items[i].units>> : i \in Positions(items, t)}

LEMMA LeafUnitsSummable ==
  ASSUME NEW S \in SUBSET Leaves, IsFiniteSet(S)
  PROVE  Summable(leafUnits, S)
BY MinterAssumption DEF Summable, leafUnits, Leaves

\* The leaves a batch records are new, listed and worth its items' units.
LEMMA BatchClaims ==
  ASSUME AllowlistInv, NEW s \in Accounts, NEW items \in Seq(ItemSet),
         ProcessClaims(s, items), NEW t \in TypeIDs
  PROVE  LET L == ClaimedBy(s, items, t)
         IN  /\ hasBeenClaimed'[t] = hasBeenClaimed[t] \cup L
             /\ L \in SUBSET Leaves /\ IsFiniteSet(L)
             /\ hasBeenClaimed[t] \cap L = {}
             /\ \A leaf \in L : leaf \in merkleRoots[t] /\ leaf[2] <= maxUnits[t]
             /\ Total(leafUnits, L) = UnitsFor(items, t)
<1> DEFINE P == Positions(items, t)
           L == ClaimedBy(s, items, t)
           h == [i \in P |-> <<s, items[i].units>>]
<1>1. /\ DOMAIN items = 1..Len(items) /\ Len(items) \in Nat
      /\ \A i \in DOMAIN items : items[i] \in ItemSet
      /\ P \subseteq DOMAIN items
  BY LenProperties, ElementOfSeq DEF Positions
<1>2. \A i \in P : /\ items[i] = [typeID |-> t, units |-> items[i].units]
                   /\ items[i].typeID = t
                   /\ items[i].units \in 0..MaxUint
                   /\ NotYetClaimed(s, items, i)
                   /\ ClaimValid(s, t, items[i].units)
  BY <1>1 DEF Positions, ItemSet, ProcessClaims
<1>3. hasBeenClaimed'[t] = hasBeenClaimed[t] \cup L
  BY DEF ProcessClaims, ClaimedBy, Positions
<1>4. L \in SUBSET Leaves
  <2> SUFFICES ASSUME NEW leaf \in L PROVE leaf \in Leaves
    OBVIOUS
  <2>1. PICK i \in P : leaf = <<s, items[i].units>>
    BY DEF ClaimedBy
  <2>2. items[i].units \in 0..MaxUint
    BY <1>2
  <2> QED BY <2>1, <2>2 DEF Leaves
<1>5. IsFiniteSet(P)
  BY PositionsSummable DEF Summable
<1>6. h \in [P -> L] /\ \A leaf \in L : \E i \in P : h[i] = leaf
  BY DEF ClaimedBy
<1>7. \A i, j \in P : h[i] = h[j] => i = j
  <2>1. ASSUME NEW i \in P, NEW j \in P, i < j
        PROVE  h[i] # h[j]
    <3>1. i \in 1..(j - 1)
      BY <1>1, <2>1
    <3>2. items[i] # items[j]
      BY <1>2, <3>1 DEF NotYetClaimed
    <3>3. items[i].units # items[j].units
      BY <1>2, <3>2
    <3> QED BY <3>3
  <2>2. \A i, j \in P : i < j \/ j < i \/ i = j
    BY <1>1
  <2> HIDE DEF h, P
  <2> QED BY <2>1, <2>2
<1>8. h \in Surjection(P, L) /\ h \in Bijection(P, L)
  <2> HIDE DEF h, P, L
  <2> QED BY <1>6, <1>7 DEF Bijection, Injection, Surjection, IsInjective
<1>9. IsFiniteSet(L)
  <2> HIDE DEF h, P, L
  <2> QED BY <1>5, <1>8, FS_Surjection
<1>10. hasBeenClaimed[t] \cap L = {}
  <2>1. \A leaf \in L : leaf \notin hasBeenClaimed[t]
    BY <1>2 DEF ClaimedBy, NotYetClaimed
  <2> QED BY <2>1
<1>11. \A leaf \in L : leaf \in merkleRoots[t] /\ leaf[2] <= maxUnits[t]
  <2> SUFFICES ASSUME NEW leaf \in L
               PROVE  leaf \in merkleRoots[t] /\ leaf[2] <= maxUnits[t]
    OBVIOUS
  <2>1. PICK i \in P : leaf = <<s, items[i].units>>
    BY DEF ClaimedBy
  <2>2. minted[t] = 0 /\ maxUnits[t] \in 0..MaxUint
    BY DEF AllowlistInv, TypeOK
  <2>3. leaf \in merkleRoots[t] /\ minted[t] + items[i].units <= maxUnits[t]
    BY <1>2, <2>1 DEF ClaimValid
  <2>4. items[i].units \in Nat
    <3>1. items[i].units \in 0..MaxUint
      BY <1>2
    <3> QED BY <3>1, MinterAssumption
  <2>5. leaf[2] = items[i].units
    BY <2>1
  <2> QED BY <2>2, <2>3, <2>4, <2>5
<1>12. Total(leafUnits, L) = UnitsFor(items, t)
  <2>1. \A i \in P : UnitsAt(items)[i] = leafUnits[h[i]]
    BY <1>1, <1>2 DEF UnitsAt, leafUnits, Leaves
  <2>2. Summable(leafUnits, L)
    BY <1>4, <1>9, LeafUnitsSummable
  <2>3. Total(UnitsAt(items), P) = Total(leafUnits, L)
    <3> HIDE DEF h, P, L
    <3> QED BY <1>8, <2>1, <2>2, TotalReindex
  <2> QED BY <2>3, PositionsSummable
<1> QED BY <1>3, <1>4, <1>9, <1>10, <1>11, <1>12

\* A transaction that leaves allowlists, units issued and the counter alone.
LEMMA ClaimsUntouched ==
  ASSUME AllowlistInv, TypeOK', UNCHANGED <<typeCounter, allowlistVars, issued>>
  PROVE  AllowlistInv'
BY DEF AllowlistInv, FreshTypes, Created, ClaimsListed, IssuedIsClaimed,
       HasAllowlist, allowlistVars

\* The type that is created is not one that was.
LEMMA NewTypeIsFresh ==
  ASSUME TypeOK, NEW account, NEW r, CreateType(account, r)
  PROVE  /\ NewType \in TypeIDs /\ ~Created(NewType)
         /\ \A t \in TypeIDs : ~Created(t)' => ~Created(t) /\ t # NewType
BY MinterAssumption DEF CreateType, NewType, Created, TypeIDs, TypeOK

\* A type minted outright has no allowlist.
LEMMA NewTypeUnlisted ==
  ASSUME AllowlistInv, TypeOK', NEW s \in Accounts, NEW units \in 0..MaxUint,
         NEW r \in TransferRestrictions, NEW items \in Seq(ItemSet),
         MintNewType(s, units, items, r)
  PROVE  AllowlistInv'
<1>1. /\ CreateType(s, r)
      /\ UNCHANGED allowlistVars
      /\ issued' = [issued EXCEPT ![NewType] = @ + units]
  BY DEF MintNewType
<1>2. /\ merkleRoots[NewType] = NoRoot
      /\ \A t \in TypeIDs : t # NewType => issued'[t] = issued[t]
  BY NewTypeIsFresh, <1>1 DEF AllowlistInv, FreshTypes, TypeOK
<1>3. FreshTypes'
  BY NewTypeIsFresh, <1>1, <1>2 DEF AllowlistInv, FreshTypes, allowlistVars
<1>4. IssuedIsClaimed'
  BY <1>1, <1>2 DEF AllowlistInv, IssuedIsClaimed, HasAllowlist, allowlistVars
<1> QED BY <1>1, <1>3, <1>4
        DEF AllowlistInv, ClaimsListed, allowlistVars

LEMMA AllowlistStep ==
  ASSUME AllowlistInv, NEW s \in Accounts, NextBy(s)
  PROVE  AllowlistInv'
<1>1. TypeOK /\ TypeOK'
  BY StepType DEF AllowlistInv
<1>2. ASSUME UNCHANGED <<typeCounter, allowlistVars, issued>>
      PROVE  AllowlistInv'
  BY <1>1, <1>2, ClaimsUntouched
<1>3. ASSUME NEW account, NEW r, CreateType(account, r)
      PROVE  /\ NewType \in TypeIDs /\ ~Created(NewType)
             /\ \A t \in TypeIDs : ~Created(t)' => ~Created(t) /\ t # NewType
  BY <1>1, <1>3, NewTypeIsFresh
<1>4. ASSUME NEW units \in 0..MaxUint, NEW r \in TransferRestrictions,
             NEW items \in Seq(ItemSet), MintNewType(s, units, items, r)
      PROVE  AllowlistInv'
  BY <1>1, <1>4, NewTypeUnlisted
<1>5. ASSUME NEW account \in Accounts \cup {NoAccount}, NEW units \in 0..MaxUint,
             NEW root \in SUBSET Leaves, NEW r \in TransferRestrictions,
             CreateAllowlist(account, units, root, r)
      PROVE  AllowlistInv'
  <2>1. /\ CreateType(account, r)
        /\ UNCHANGED <<hasBeenClaimed, minted, issued>>
        /\ \A t \in TypeIDs : t # NewType => /\ merkleRoots'[t] = merkleRoots[t]
                                             /\ maxUnits'[t] = maxUnits[t]
    BY <1>1, <1>5 DEF CreateAllowlist, TypeOK
  <2>2. NewType \in TypeIDs /\ hasBeenClaimed[NewType] = {} /\ issued[NewType] = 0
    BY <1>3, <2>1 DEF AllowlistInv, FreshTypes
  <2>3. FreshTypes'
    BY <1>3, <2>1 DEF AllowlistInv, FreshTypes
  <2>4. ClaimsListed'
    BY <2>1, <2>2 DEF AllowlistInv, ClaimsListed
  <2>5. IssuedIsClaimed'
    <3>1. Total(leafUnits, {}) = 0
      BY TotalEmpty
    <3> QED BY <2>1, <2>2, <3>1
            DEF AllowlistInv, IssuedIsClaimed, HasAllowlist, leafUnits
  <2> QED BY <1>1, <2>1, <2>3, <2>4, <2>5 DEF AllowlistInv
<1>6. ASSUME NEW account \in Accounts, NEW items \in Seq(ItemSet),
             BatchMintClaimsFromAllowlists(s, account, items)
      PROVE  AllowlistInv'
  <2>1. /\ ProcessClaims(s, items)
        /\ UNCHANGED <<typeCounter, merkleRoots, maxUnits, minted>>
        /\ \A t \in TypeIDs : issued'[t] = issued[t] + UnitsFor(items, t)
    BY <1>6 DEF BatchMintClaimsFromAllowlists, ProcessClaims, typeVars
  <2>2. ASSUME NEW t \in TypeIDs
        PROVE  /\ hasBeenClaimed'[t] = hasBeenClaimed[t] \cup ClaimedBy(s, items, t)
               /\ ClaimedBy(s, items, t) \in SUBSET Leaves
               /\ IsFiniteSet(ClaimedBy(s, items, t))
               /\ hasBeenClaimed[t] \cap ClaimedBy(s, items, t) = {}
               /\ \A leaf \in ClaimedBy(s, items, t) :
                    leaf \in merkleRoots[t] /\ leaf[2] <= maxUnits[t]
               /\ Total(leafUnits, ClaimedBy(s, items, t)) = UnitsFor(items, t)
    BY <2>1, BatchClaims
  <2>3. ClaimsListed'
    BY <2>1, <2>2 DEF AllowlistInv, ClaimsListed
  <2>4. FreshTypes'
    <3>1. ASSUME NEW t \in TypeIDs, ~Created(t)
          PROVE  hasBeenClaimed'[t] = {} /\ issued'[t] = 0 /\ merkleRoots[t] = NoRoot
      <4>1. merkleRoots[t] = {} /\ hasBeenClaimed[t] = {} /\ issued[t] = 0
        BY <3>1 DEF AllowlistInv, FreshTypes, NoRoot
      <4>2. ClaimedBy(s, items, t) = {}
        BY <2>2, <4>1
      <4>3. UnitsFor(items, t) = 0
        BY <2>2, <4>2, TotalEmpty
      <4> QED BY <2>1, <2>2, <4>1, <4>2, <4>3 DEF NoRoot
    <3> QED BY <2>1, <3>1 DEF FreshTypes, Created
  <2>5. \A t \in TypeIDs : minted'[t] = 0 /\ IsFiniteSet(hasBeenClaimed'[t])
    <3> TAKE t \in TypeIDs
    <3>1. minted[t] = 0 /\ IsFiniteSet(hasBeenClaimed[t])
      BY DEF AllowlistInv
    <3>2. IsFiniteSet(hasBeenClaimed[t] \cup ClaimedBy(s, items, t))
      BY <2>2, <3>1, FS_Union
    <3> QED BY <2>1, <2>2, <3>1, <3>2
  <2>6. IssuedIsClaimed'
    <3>1. ASSUME NEW t \in TypeIDs, HasAllowlist(t)'
          PROVE  issued'[t] = Total(leafUnits, hasBeenClaimed'[t])
      <4> DEFINE C == hasBeenClaimed[t]
                 L == ClaimedBy(s, items, t)
      <4>1. issued[t] = Total(leafUnits, C)
        BY <2>1, <3>1 DEF AllowlistInv, IssuedIsClaimed, HasAllowlist, leafUnits
      <4>2. Summable(leafUnits, C) /\ Summable(leafUnits, L)
        BY <1>1, <2>2, LeafUnitsSummable DEF AllowlistInv, TypeOK
      <4>3. C \cap L = {}
        BY <2>2
      <4>4. Total(leafUnits, C \cup L) = Total(leafUnits, C) + Total(leafUnits, L)
        <5> HIDE DEF C, L
        <5> QED BY <4>2, <4>3, TotalUnion
      <4> QED BY <2>1, <2>2, <4>1, <4>4
    <3> QED BY <3>1 DEF IssuedIsClaimed, leafUnits
  <2> QED BY <1>1, <2>3, <2>4, <2>5, <2>6 DEF AllowlistInv
<1>7. ASSUME NEW account \in Accounts, NEW id \in TokenIDs,
             NEW values \in Seq(0..MaxUint), Len(values) >= 2,
             SplitFraction(s, account, id, values)
      PROVE  AllowlistInv'
  BY <1>2, <1>7 DEF SplitFraction, SplitTokenUnits, typeVars
<1>8. ASSUME NEW account \in Accounts, NEW ids \in Seq(TokenIDs), Len(ids) >= 2,
             MergeFractions(s, account, ids)
      PROVE  AllowlistInv'
  BY <1>2, <1>8 DEF MergeFractions, typeVars
<1>9. ASSUME NEW account \in Accounts, NEW id \in TokenIDs,
             BurnFraction(s, account, id)
      PROVE  AllowlistInv'
  BY <1>2, <1>9 DEF BurnFraction, typeVars
<1>10. ASSUME NEW from \in Accounts, NEW to \in Accounts, NEW batch \in Seq(Transfers),
              SafeBatchTransferFrom(s, from, to, batch)
       PROVE  AllowlistInv'
  BY <1>2, <1>10 DEF SafeBatchTransferFrom, typeVars
<1>11. ASSUME NEW from \in Accounts, NEW batch \in Seq(Transfers),
              SafeBatchTransferToSelf(s, from, batch)
       PROVE  AllowlistInv'
  BY <1>2, <1>11 DEF SafeBatchTransferToSelf, typeVars
<1>12. ASSUME NEW account \in Accounts, NEW batch \in Seq(Transfers),
              BurnBatch(s, account, batch)
       PROVE  AllowlistInv'
  BY <1>2, <1>12 DEF BurnBatch, typeVars
<1>13. ASSUME NEW operator \in Accounts, NEW approved \in BOOLEAN,
              SetApprovalForAll(s, operator, approved)
       PROVE  AllowlistInv'
  BY <1>2, <1>13 DEF SetApprovalForAll, typeVars, tokenVars
<1>14. ASSUME NEW value \in BOOLEAN, SetPaused(s, value)
       PROVE  AllowlistInv'
  BY <1>2, <1>14 DEF SetPaused, typeVars, tokenVars
<1>15. ASSUME NEW newOwner \in Accounts \cup {NoAccount},
              TransferOwnership(s, newOwner)
       PROVE  AllowlistInv'
  BY <1>2, <1>15 DEF TransferOwnership, typeVars, tokenVars
<1> QED BY StepCases, <1>4, <1>5, <1>6, <1>7, <1>8, <1>9, <1>10, <1>11, <1>12,
           <1>13, <1>14, <1>15

LEMMA AllowlistInit == Init => AllowlistInv
BY InitType, FS_EmptySet DEF Init, InitialStorage, AllowlistInv, FreshTypes,
   ClaimsListed, IssuedIsClaimed, HasAllowlist

\* What is issued of a type is what its listed leaves were claimed for, each once; the
\* types still to be created have issued nothing.
THEOREM AllowlistInvariant == Spec => []AllowlistInv
<1>1. Init => AllowlistInv
  BY AllowlistInit
<1>2. AllowlistInv /\ [Next]_vars => AllowlistInv'
  <2>1. AllowlistInv /\ Next => AllowlistInv'
    BY AllowlistStep DEF Next
  <2>2. AllowlistInv /\ UNCHANGED vars => AllowlistInv'
    <3> SUFFICES ASSUME AllowlistInv, UNCHANGED vars PROVE AllowlistInv'
      OBVIOUS
    <3>1. TypeOK'
      BY DEF AllowlistInv, TypeOK, vars, typeVars, tokenVars, allowlistVars, adminVars
    <3> QED BY <3>1, ClaimsUntouched DEF vars, typeVars, tokenVars
  <2> QED BY <2>1, <2>2
<1> QED BY <1>1, <1>2, PTL DEF Spec

\* Only an allowlist's own leaves are claimed, none beyond its limit.
THEOREM ClaimsAreListed == Spec => []ClaimsListed
BY AllowlistInvariant, PTL DEF AllowlistInv

\* An allowlist hands out the units of its claimed leaves, each leaf once.
THEOREM LeavesIssuedOnce == Spec => []IssuedIsClaimed
BY AllowlistInvariant, PTL DEF AllowlistInv

-----------------------------------------------------------------------------
(* What a type keeps, and what a pause stops                               *)

\* What CreatedIsFixed asks of one step, for one type.
Fixed(t) ==
  /\ Created(t)'
  /\ creators'[t] = creators[t]
  /\ typeRestrictions'[t] = typeRestrictions[t]
  /\ merkleRoots'[t] = merkleRoots[t]
  /\ maxUnits'[t] = maxUnits[t]
  /\ hasBeenClaimed[t] \subseteq hasBeenClaimed'[t]
  /\ maxIndex[t] <= maxIndex'[t]

\* A new type is not one that was created before.
LEMMA CreateTypeFixes ==
  ASSUME TypeOK, NEW account, NEW r, CreateType(account, r),
         NEW t \in TypeIDs, Created(t)
  PROVE  /\ t # NewType
         /\ Created(t)'
         /\ creators'[t] = creators[t]
         /\ typeRestrictions'[t] = typeRestrictions[t]
<1>1. typeCounter \in Nat /\ t \in Nat /\ t <= typeCounter
  BY MinterAssumption DEF TypeOK, TypeIDs, Created
<1>2. typeCounter' = typeCounter + 1 /\ NewType = typeCounter + 1
  BY DEF CreateType, NewType
<1>3. t # NewType /\ t <= typeCounter'
  BY <1>1, <1>2
<1> QED BY <1>3 DEF CreateType, TypeOK, Created

LEMMA CreatedStep ==
  ASSUME TypeOK, NEW s \in Accounts, NextBy(s), NEW t \in TypeIDs, Created(t)
  PROVE  Fixed(t)
<1>1. maxIndex[t] \in Nat
  BY MinterAssumption DEF TypeOK
<1>2. ASSUME UNCHANGED <<typeVars, allowlistVars>>,
             maxIndex' = maxIndex \/ maxIndex[t] <= maxIndex'[t]
      PROVE  Fixed(t)
  BY <1>1, <1>2 DEF Fixed, Created, typeVars, allowlistVars
<1>3. ASSUME NEW units \in 0..MaxUint, NEW r \in TransferRestrictions,
             NEW items \in Seq(ItemSet), MintNewType(s, units, items, r)
      PROVE  Fixed(t)
  <2>1. maxIndex[t] <= maxIndex'[t]
    BY <1>3, MintToType DEF MintNewType
  <2> QED BY <1>3, <2>1, CreateTypeFixes DEF MintNewType, Fixed, allowlistVars
<1>4. ASSUME NEW account \in Accounts \cup {NoAccount}, NEW units \in 0..MaxUint,
             NEW root \in SUBSET Leaves, NEW r \in TransferRestrictions,
             CreateAllowlist(account, units, root, r)
      PROVE  Fixed(t)
  <2>1. /\ t # NewType /\ Created(t)'
        /\ creators'[t] = creators[t]
        /\ typeRestrictions'[t] = typeRestrictions[t]
    BY <1>4, CreateTypeFixes DEF CreateAllowlist
  <2> QED BY <1>1, <1>4, <2>1 DEF CreateAllowlist, Fixed, TypeOK
<1>5. ASSUME NEW account \in Accounts, NEW items \in Seq(ItemSet),
             BatchMintClaimsFromAllowlists(s, account, items)
      PROVE  Fixed(t)
  <2>1. maxIndex[t] <= maxIndex'[t]
    BY <1>5, MintToType DEF BatchMintClaimsFromAllowlists
  <2> QED BY <1>5, <2>1 DEF BatchMintClaimsFromAllowlists, ProcessClaims, Fixed,
                            Created, typeVars
<1>6. ASSUME NEW account \in Accounts, NEW id \in TokenIDs,
             NEW values \in Seq(0..MaxUint), Len(values) >= 2,
             SplitFraction(s, account, id, values)
      PROVE  Fixed(t)
  <2>1. NewShares(getBaseType(id), values) \in Seq(ItemSet)
    BY <1>6, NewSharesType DEF TokenIDs, getBaseType
  <2>2. maxIndex[t] <= maxIndex'[t]
    BY <1>6, <2>1, MintToType DEF SplitFraction, SplitTokenUnits
  <2> QED BY <1>2, <1>6, <2>2 DEF SplitFraction, SplitTokenUnits
<1>7. ASSUME NEW account \in Accounts, NEW ids \in Seq(TokenIDs), Len(ids) >= 2,
             MergeFractions(s, account, ids)
      PROVE  Fixed(t)
  BY <1>2, <1>7 DEF MergeFractions
<1>8. ASSUME NEW account \in Accounts, NEW id \in TokenIDs,
             BurnFraction(s, account, id)
      PROVE  Fixed(t)
  BY <1>2, <1>8 DEF BurnFraction
<1>9. ASSUME NEW from \in Accounts, NEW to \in Accounts, NEW batch \in Seq(Transfers),
             SafeBatchTransferFrom(s, from, to, batch)
      PROVE  Fixed(t)
  BY <1>2, <1>9 DEF SafeBatchTransferFrom
<1>10. ASSUME NEW from \in Accounts, NEW batch \in Seq(Transfers),
              SafeBatchTransferToSelf(s, from, batch)
       PROVE  Fixed(t)
  BY <1>2, <1>10 DEF SafeBatchTransferToSelf
<1>11. ASSUME NEW account \in Accounts, NEW batch \in Seq(Transfers),
              BurnBatch(s, account, batch)
       PROVE  Fixed(t)
  BY <1>2, <1>11 DEF BurnBatch
<1>12. ASSUME NEW operator \in Accounts, NEW approved \in BOOLEAN,
              SetApprovalForAll(s, operator, approved)
       PROVE  Fixed(t)
  BY <1>2, <1>12 DEF SetApprovalForAll, tokenVars
<1>13. ASSUME NEW value \in BOOLEAN, SetPaused(s, value)
       PROVE  Fixed(t)
  BY <1>2, <1>13 DEF SetPaused, tokenVars
<1>14. ASSUME NEW newOwner \in Accounts \cup {NoAccount},
              TransferOwnership(s, newOwner)
       PROVE  Fixed(t)
  BY <1>2, <1>14 DEF TransferOwnership, tokenVars
<1> QED BY StepCases, <1>3, <1>4, <1>5, <1>6, <1>7, <1>8, <1>9, <1>10, <1>11,
           <1>12, <1>13, <1>14

\* Nothing a type was created with ever changes, and its claims only grow.
THEOREM TypesAreFixed == Spec => CreatedIsFixed
<1>1. TypeOK /\ [Next]_vars => [\A t \in TypeIDs : Created(t) => Fixed(t)]_vars
  BY CreatedStep DEF Next
<1> QED BY <1>1, TypeCorrect, PTL DEF Spec, CreatedIsFixed, Fixed

LEMMA FrozenStep ==
  ASSUME NEW s \in Accounts, NextBy(s), paused
  PROVE  UNCHANGED <<typeVars, allowlistVars, maxIndex, tokenValues>>
<1> USE DEF MintNewType, CreateAllowlist, BatchMintClaimsFromAllowlists,
    SplitFraction, MergeFractions, BurnFraction, SafeBatchTransferFrom,
    SafeBatchTransferToSelf, BurnBatch, SetApprovalForAll, SetPaused,
    TransferOwnership, tokenVars
<1>1. ~MintBy(s)
  BY DEF MintBy, MintClaim, MintClaimWithFractions, MintClaimFromAllowlist
<1>2. ~UnitsBy(s)
  BY DEF UnitsBy
<1>3. CASE TokensBy(s)
  BY <1>3 DEF TokensBy
<1>4. CASE AdminBy(s)
  BY <1>4 DEF AdminBy, Pause, Unpause
<1> QED BY <1>1, <1>2, <1>3, <1>4 DEF NextBy

\* A paused contract neither mints, claims, splits nor merges.
THEOREM PauseFreezes == Spec => FrozenWhilePaused
<1>1. [Next]_vars =>
        [paused => UNCHANGED <<typeVars, allowlistVars, maxIndex, tokenValues>>]_vars
  BY FrozenStep DEF Next
<1> QED BY <1>1, PTL DEF Spec, FrozenWhilePaused
=============================================================================
