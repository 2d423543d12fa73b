---------------------------- MODULE DemandProofs ----------------------------
(* How the use of a resource changes when one run comes or goes.            *)
EXTENDS Demand, FiniteSetTheorems, TLAPS

\* Any set of runs occupies finitely many units.
LEMMA UnitsFinite ==
  ASSUME NEW S \in SUBSET Run, NEW res \in Resource
  PROVE  IsFiniteSet(Units(res, S))
<1>1. Capacity[res] \in Nat
  BY CapacityType
<1>2. IsFiniteSet(1 .. Capacity[res])
  BY <1>1, FS_Interval
<1>3. IsFiniteSet(S)
  BY RunsFinite, FS_Subset
<1>4. IsFiniteSet(S \X (1 .. Capacity[res]))
  BY <1>2, <1>3, FS_Product
<1>5. QED
  BY <1>4, FS_Subset DEF Units

\* The use of a resource is a natural number.
LEMMA UsedType ==
  ASSUME NEW S \in SUBSET Run, NEW res \in Resource
  PROVE  Used(res, S) \in Nat
BY UnitsFinite, FS_CardinalityType DEF Used

\* No run, no use.
LEMMA UsedEmpty ==
  ASSUME NEW res \in Resource
  PROVE  Used(res, {}) = 0
<1>1. Units(res, {}) = {}
  BY DEF Units
<1>2. QED
  BY <1>1, FS_EmptySet DEF Used

\* A subset of the runs uses no more than all of them.
LEMMA UsedMonotone ==
  ASSUME NEW S \in SUBSET Run, NEW T \in SUBSET S, NEW res \in Resource
  PROVE  Used(res, T) <= Used(res, S)
<1>1. Units(res, T) \subseteq Units(res, S)
  BY DEF Units
<1>2. QED
  BY <1>1, UnitsFinite, FS_Subset DEF Used

\* A run that fits in the node by itself occupies as many units as it needs.
LEMMA UsedOne ==
  ASSUME NEW r \in Run, NEW res \in Resource, Need[res][r] <= Capacity[res]
  PROVE  Used(res, {r}) = Need[res][r]
<1> DEFINE n == Need[res][r]
           U == {r} \X (1 .. n)
<1>1. n \in Nat /\ n # 0 /\ Capacity[res] \in Nat
  BY NeedType, CapacityType
<1>2. Units(res, {r}) = U
  BY <1>1 DEF Units
<1> HIDE DEF n
<1>3. IsFiniteSet(1 .. n) /\ Cardinality(1 .. n) = n
  <2>1. IsFiniteSet(1 .. n) /\ Cardinality(1 .. n) = IF 1 > n THEN 0 ELSE n - 1 + 1
    BY <1>1, FS_Interval
  <2>2. QED
    BY <1>1, <2>1
<1>4. IsFiniteSet({r}) /\ Cardinality({r}) = 1
  BY FS_Singleton
<1>5. Cardinality(U) = Cardinality({r}) * Cardinality(1 .. n)
  BY <1>3, <1>4, FS_Product
<1>6. Cardinality(U) = n
  BY <1>1, <1>3, <1>4, <1>5
<1>7. QED
  BY <1>2, <1>6 DEF Used, n

\* A run that comes adds its need, so the running sums of the admission script
\* and of the scheduler are the sums over the runs they stand for.
LEMMA UsedAdd ==
  ASSUME NEW S \in SUBSET Run, NEW r \in Run \ S, NEW res \in Resource,
         Need[res][r] <= Capacity[res]
  PROVE  Used(res, S \cup {r}) = Used(res, S) + Need[res][r]
<1>1. Units(res, S \cup {r}) = Units(res, S) \cup Units(res, {r})
  BY DEF Units
<1>2. Units(res, S) \cap Units(res, {r}) = {}
  BY DEF Units
<1>3. IsFiniteSet(Units(res, S)) /\ IsFiniteSet(Units(res, {r}))
  BY UnitsFinite
<1>4. Cardinality(Units(res, S \cup {r})) =
        Cardinality(Units(res, S)) + Cardinality(Units(res, {r})) - Cardinality({})
  BY <1>1, <1>2, <1>3, FS_Union
<1>5. Used(res, S) \in Nat /\ Used(res, {r}) \in Nat
  BY UsedType
<1>6. Used(res, {r}) = Need[res][r]
  BY UsedOne
<1>7. Cardinality({}) = 0
  BY FS_EmptySet
<1>8. Used(res, S \cup {r}) = Used(res, S) + Used(res, {r}) - 0
  BY <1>4, <1>7 DEF Used
<1>9. QED
  BY <1>5, <1>6, <1>8

=============================================================================
