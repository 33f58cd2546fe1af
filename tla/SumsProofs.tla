----------------------------- MODULE SumsProofs -----------------------------
(***************************************************************************)
(* How sums change with what is summed.                                    *)
(***************************************************************************)
EXTENDS Sums, FiniteSetTheorems, TLAPS

LEMMA UnitsOf ==
  ASSUME NEW of, NEW keys
  PROVE  \A u : u \in Units(of, keys) <=> \E k \in keys : \E i \in 1..of[k] : u = <<k, i>>
BY DEF Units

LEMMA UnitsFinite ==
  ASSUME NEW of, NEW keys, IsFiniteSet(keys), \A k \in keys : of[k] \in Nat
  PROVE  IsFiniteSet(Units(of, keys))
<1> DEFINE piece == [k \in keys |-> {k} \X (1..of[k])]
           pieces == {{k} \X (1..of[k]) : k \in keys}
<1>1. piece \in Surjection(keys, pieces)
  BY DEF Surjection
<1>2. IsFiniteSet(pieces)
  BY <1>1, FS_Surjection
<1>3. \A p \in pieces : IsFiniteSet(p)
  <2> SUFFICES ASSUME NEW k \in keys PROVE IsFiniteSet({k} \X (1..of[k]))
    OBVIOUS
  <2>1. IsFiniteSet({k})
    BY FS_Singleton
  <2>2. IsFiniteSet(1..of[k])
    BY FS_Interval
  <2>3. QED
    BY <2>1, <2>2, FS_Product
<1>4. QED
  BY <1>2, <1>3, FS_UNION DEF Units

LEMMA TotalType ==
  ASSUME NEW of, NEW keys, IsFiniteSet(keys), \A k \in keys : of[k] \in Nat
  PROVE  Total(of, keys) \in Nat
BY UnitsFinite, FS_CardinalityType DEF Total

LEMMA TotalOfNothing ==
  ASSUME NEW of, NEW keys, \A k \in keys : of[k] = 0
  PROVE  Total(of, keys) = 0
<1>1. Units(of, keys) = {}
  BY UnitsOf
<1>2. QED
  BY <1>1, FS_EmptySet DEF Total

LEMMA TotalOfOneKey ==
  ASSUME NEW of, NEW key, of[key] \in Nat
  PROVE  Total(of, {key}) = of[key]
<1>1. Units(of, {key}) = {key} \X (1..of[key])
  BY DEF Units
<1>2. IsFiniteSet({key}) /\ Cardinality({key}) = 1
  BY FS_Singleton
<1>3. IsFiniteSet(1..of[key]) /\ Cardinality(1..of[key]) = of[key]
  BY FS_Interval
<1>4. Cardinality({key} \X (1..of[key])) = Cardinality({key}) * Cardinality(1..of[key])
  BY <1>2, <1>3, FS_Product
<1>5. \A n \in Nat : 1 * n = n
  OBVIOUS
<1>6. Cardinality({key} \X (1..of[key])) = of[key]
  BY <1>2, <1>3, <1>4, <1>5
<1>7. QED
  BY <1>1, <1>6 DEF Total

LEMMA TotalOfTheSame ==
  ASSUME NEW of, NEW of2, NEW keys, \A k \in keys : of2[k] = of[k]
  PROVE  Total(of2, keys) = Total(of, keys)
<1>1. Units(of2, keys) = Units(of, keys)
  BY DEF Units
<1>2. QED
  BY <1>1 DEF Total

(* One more for one of the keys is one more in all. *)
LEMMA TotalOfOneMore ==
  ASSUME NEW S, NEW of \in [S -> Nat], NEW of2 \in [S -> Nat],
         NEW keys \in SUBSET S, IsFiniteSet(keys), NEW key \in keys,
         of2[key] = of[key] + 1, \A k \in keys \ {key} : of2[k] = of[k]
  PROVE  Total(of2, keys) = Total(of, keys) + 1
<1> DEFINE unit == <<key, of[key] + 1>>
<1>1. unit \notin Units(of, keys)
  BY UnitsOf
<1>2. Units(of2, keys) = Units(of, keys) \union {unit}
  <2>1. ASSUME NEW u \in Units(of2, keys) PROVE u \in Units(of, keys) \union {unit}
    <3>1. PICK k \in keys : \E i \in 1..of2[k] : u = <<k, i>>
      BY <2>1, UnitsOf
    <3>2. PICK i \in 1..of2[k] : u = <<k, i>>
      BY <3>1
    <3>3. CASE k = key /\ i = of[key] + 1
      BY <3>2, <3>3
    <3>4. CASE ~(k = key /\ i = of[key] + 1)
      <4>1. i \in 1..of[k]
        BY <3>4
      <4>2. QED
        BY <3>2, <4>1, UnitsOf
    <3>5. QED
      BY <3>3, <3>4
  <2>2. ASSUME NEW u \in Units(of, keys) PROVE u \in Units(of2, keys)
    <3>1. PICK k \in keys : \E i \in 1..of[k] : u = <<k, i>>
      BY <2>2, UnitsOf
    <3>2. PICK i \in 1..of[k] : u = <<k, i>>
      BY <3>1
    <3>3. i \in 1..of2[k]
      OBVIOUS
    <3>4. QED
      BY <3>2, <3>3, UnitsOf
  <2>3. unit \in Units(of2, keys)
    <3>1. of[key] + 1 \in 1..of2[key]
      OBVIOUS
    <3>2. QED
      BY <3>1, UnitsOf
  <2>4. QED
    BY <2>1, <2>2, <2>3
<1>3. QED
  BY <1>1, <1>2, UnitsFinite, FS_AddElement DEF Total

LEMMA TotalOfIncrement ==
  ASSUME NEW S, IsFiniteSet(S), NEW of \in [S -> Nat], NEW key \in S
  PROVE  Total([of EXCEPT ![key] = of[key] + 1], S) = Total(of, S) + 1
<1> DEFINE of2 == [of EXCEPT ![key] = of[key] + 1]
<1>1. /\ of2 \in [S -> Nat]
      /\ of2[key] = of[key] + 1
      /\ \A k \in S \ {key} : of2[k] = of[k]
  OBVIOUS
<1>2. Total(of2, S) = Total(of, S) + 1
  <2> HIDE DEF of2
  <2> QED
    BY <1>1, TotalOfOneMore
<1>3. QED
  BY <1>2

(* More keys and more of each are more in all. *)
LEMMA TotalOfMore ==
  ASSUME NEW of, NEW of2, NEW keys, NEW keys2, IsFiniteSet(keys2), keys \subseteq keys2,
         \A k \in keys : of[k] \in Nat /\ of[k] <= of2[k],
         \A k \in keys2 : of2[k] \in Nat
  PROVE  Total(of, keys) <= Total(of2, keys2)
<1>1. ASSUME NEW u \in Units(of, keys) PROVE u \in Units(of2, keys2)
  <2>1. PICK k \in keys : \E i \in 1..of[k] : u = <<k, i>>
    BY <1>1, UnitsOf
  <2>2. PICK i \in 1..of[k] : u = <<k, i>>
    BY <2>1
  <2>3. k \in keys2 /\ i \in 1..of2[k]
    OBVIOUS
  <2>4. QED
    BY <2>2, <2>3, UnitsOf
<1>2. QED
  BY <1>1, UnitsFinite, FS_Subset DEF Total

(* Keys of which there are none add nothing. *)
LEMMA TotalOfNoMore ==
  ASSUME NEW of, NEW of2, NEW keys, NEW keys2, keys \subseteq keys2,
         \A k \in keys : of2[k] = of[k], \A k \in keys2 \ keys : of2[k] = 0
  PROVE  Total(of2, keys2) = Total(of, keys)
<1>1. \A u : u \in Units(of2, keys2) <=> u \in Units(of, keys)
  BY UnitsOf
<1>2. QED
  BY <1>1 DEF Total
-----------------------------------------------------------------------------
(* A set that changes by at most one element changes its size by one. *)
LEMMA SizeOfChanged ==
  ASSUME NEW S, NEW S2, NEW w, IsFiniteSet(S),
         \A v : v # w => (v \in S2 <=> v \in S)
  PROVE  /\ Cardinality(S) \in Nat
         /\ Cardinality(S2) \in Nat
         /\ Cardinality(S2) + (IF w \in S THEN 1 ELSE 0)
              = Cardinality(S) + (IF w \in S2 THEN 1 ELSE 0)
<1>1. Cardinality(S) \in Nat
  BY FS_CardinalityType
<1>2. CASE w \in S <=> w \in S2
  <2>1. S2 = S
    BY <1>2
  <2>2. QED
    BY <1>1, <2>1
<1>3. CASE w \in S2 /\ w \notin S
  <2>1. S2 = S \union {w}
    BY <1>3
  <2>2. Cardinality(S2) = Cardinality(S) + 1
    BY <1>3, <2>1, FS_AddElement
  <2>3. QED
    BY <1>1, <1>3, <2>2
<1>4. CASE w \notin S2 /\ w \in S
  <2>1. S2 = S \ {w}
    BY <1>4
  <2>2. Cardinality(S2) = Cardinality(S) - 1 /\ IsFiniteSet(S2)
    BY <1>4, <2>1, FS_RemoveElement
  <2>3. Cardinality(S2) \in Nat
    BY <2>2, FS_CardinalityType
  <2>4. QED
    BY <1>1, <1>4, <2>2, <2>3
<1>5. QED
  BY <1>2, <1>3, <1>4
=============================================================================
