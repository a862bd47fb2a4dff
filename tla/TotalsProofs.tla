---------------------------- MODULE TotalsProofs ----------------------------
(***************************************************************************)
(* The laws of Total.  TotalZero and TotalUpdate characterise it as the    *)
(* sum of the entries of f over any finite domain: an all-zero f has total *)
(* 0, and changing one entry changes the total by the difference.          *)
(***************************************************************************)
EXTENDS Totals, FiniteSetTheorems, FunctionTheorems, TLAPS

\* The units of one entry are finitely many, as many as its amount.
LEMMA EntryUnits ==
  ASSUME NEW i, NEW n \in Nat
  PROVE  IsFiniteSet(BaseUnits(i, n)) /\ Cardinality(BaseUnits(i, n)) = n
<1>1. IsFiniteSet({i}) /\ Cardinality({i}) = 1
  BY FS_Singleton
<1>2. IsFiniteSet(1..n) /\ Cardinality(1..n) = n
  BY FS_Interval
<1>3. /\ IsFiniteSet({i} \X (1..n))
      /\ Cardinality({i} \X (1..n)) = Cardinality({i}) * Cardinality(1..n)
  <2> DEFINE A == {i}
             B == 1..n
  <2>1. IsFiniteSet(A) /\ IsFiniteSet(B)
    BY <1>1, <1>2
  <2> HIDE DEF A, B
  <2>2. IsFiniteSet(A \X B) /\ Cardinality(A \X B) = Cardinality(A) * Cardinality(B)
    BY <2>1, FS_Product
  <2>. QED  BY <2>2 DEF A, B
<1>. QED  BY <1>1, <1>2, <1>3 DEF BaseUnits

\* The units of all entries of f are finitely many.
LEMMA UnitsFinite ==
  ASSUME NEW S, IsFiniteSet(S), NEW f \in [S -> Nat]
  PROVE  IsFiniteSet(UnitsOf(f))
<1> DEFINE entry == [i \in S |-> BaseUnits(i, f[i])]
           T == {BaseUnits(i, f[i]) : i \in S}
<1>1. entry \in [S -> T]
  OBVIOUS
<1>2. \A t \in T : \E i \in S : entry[i] = t
  OBVIOUS
<1>3. entry \in Surjection(S, T)
  BY <1>1, <1>2, Fun_IsSurj
<1>4. IsFiniteSet(T)
  BY <1>3, FS_Surjection
<1>5. \A t \in T : IsFiniteSet(t)
  <2>. SUFFICES ASSUME NEW i \in S PROVE IsFiniteSet(BaseUnits(i, f[i]))
    OBVIOUS
  <2>1. f[i] \in Nat
    OBVIOUS
  <2>. QED  BY <2>1, EntryUnits
<1>6. UnitsOf(f) = UNION T
  BY DEF UnitsOf
<1>. QED  BY <1>4, <1>5, <1>6, FS_UNION

\* A total is a number of base units.
THEOREM TotalNat ==
  ASSUME NEW S, IsFiniteSet(S), NEW f \in [S -> Nat]
  PROVE  Total(f) \in Nat
BY UnitsFinite, FS_CardinalityType DEF Total

\* An account book in which every entry is zero totals zero.
THEOREM TotalZero ==
  ASSUME NEW S
  PROVE  Total([i \in S |-> 0]) = 0
<1>1. UnitsOf([i \in S |-> 0]) = {}
  BY DEF UnitsOf, BaseUnits
<1>. QED  BY <1>1, FS_EmptySet DEF Total

\* Emptying entry i takes exactly f[i] off the total.
LEMMA TotalClear ==
  ASSUME NEW S, IsFiniteSet(S), NEW f \in [S -> Nat], NEW i \in S
  PROVE  Total(f) = Total([f EXCEPT ![i] = 0]) + f[i]
<1> DEFINE g == [f EXCEPT ![i] = 0]
           own == BaseUnits(i, f[i])
<1>1. g \in [S -> Nat] /\ g[i] = 0 /\ \A j \in S : j # i => g[j] = f[j]
  OBVIOUS
<1>2. UnitsOf(f) = UnitsOf(g) \cup own
  BY <1>1 DEF UnitsOf, BaseUnits
<1>3. UnitsOf(g) \cap own = {}
  BY <1>1 DEF UnitsOf, BaseUnits
<1>4. IsFiniteSet(UnitsOf(g)) /\ IsFiniteSet(own) /\ Cardinality(own) = f[i]
  BY <1>1, UnitsFinite, EntryUnits
<1>5. Cardinality(UnitsOf(g)) \in Nat
  BY <1>4, FS_CardinalityType
<1>6. Cardinality(UnitsOf(f)) = Cardinality(UnitsOf(g)) + f[i] - 0
  <2> HIDE DEF own, g
  <2>1. Cardinality(UnitsOf(g) \cup own)
          = Cardinality(UnitsOf(g)) + Cardinality(own) - Cardinality(UnitsOf(g) \cap own)
    BY <1>4, FS_Union
  <2>2. Cardinality({}) = 0
    BY FS_EmptySet
  <2>. QED  BY <1>2, <1>3, <1>4, <2>1, <2>2
<1>. QED  BY <1>5, <1>6 DEF Total

\* Two account books that differ in entry i only differ in total by that
\* difference.
THEOREM TotalUpdate ==
  ASSUME NEW S, IsFiniteSet(S), NEW f \in [S -> Nat], NEW g \in [S -> Nat],
         NEW i \in S, \A j \in S : j # i => g[j] = f[j]
  PROVE  Total(g) = Total(f) - f[i] + g[i]
<1>1. [f EXCEPT ![i] = 0] = [g EXCEPT ![i] = 0]
  OBVIOUS
<1>2. Total(f) = Total([f EXCEPT ![i] = 0]) + f[i]
  BY TotalClear
<1>3. Total(g) = Total([g EXCEPT ![i] = 0]) + g[i]
  BY TotalClear
<1>4. [f EXCEPT ![i] = 0] \in [S -> Nat]
  OBVIOUS
<1>5. Total([f EXCEPT ![i] = 0]) \in Nat
  BY <1>4, TotalNat
<1>. QED  BY <1>1, <1>2, <1>3, <1>5

\* No entry exceeds the total: emptying it takes it off.
THEOREM EntryWithinTotal ==
  ASSUME NEW S, IsFiniteSet(S), NEW f \in [S -> Nat], NEW i \in S
  PROVE  f[i] <= Total(f)
<1> DEFINE g == [f EXCEPT ![i] = 0]
<1>1. Total(f) = Total(g) + f[i]
  BY TotalClear
<1>2. g \in [S -> Nat]
  OBVIOUS
<1> HIDE DEF g
<1>3. Total(g) \in Nat /\ f[i] \in Nat
  BY <1>2, TotalNat
<1>. QED  BY <1>1, <1>3
=============================================================================
