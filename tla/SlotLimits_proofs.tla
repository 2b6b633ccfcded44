-------------------------- MODULE SlotLimits_proofs --------------------------
(* Facts about the memory and the number of slots of a set of runs.        *)
EXTENDS SlotLimits, Functions, FiniteSetTheorems, TLAPS

UnitsOf(s) == {s} \X (1..Memory[s])

(* One run has as many units as its plan has memory.                       *)
LEMMA UnitsOfOne ==
  ASSUME NEW s \in Requests
  PROVE  IsFiniteSet(UnitsOf(s)) /\ Cardinality(UnitsOf(s)) = Memory[s]
<1>1. Memory[s] \in Nat /\ Memory[s] > 0
  BY LimitsAssumption
<1>2. IsFiniteSet(1..Memory[s]) /\ Cardinality(1..Memory[s]) = Memory[s]
  <2>1. ASSUME NEW m \in Nat, m > 0
        PROVE  IsFiniteSet(1..m) /\ Cardinality(1..m) = m
    <3>1. /\ IsFiniteSet(1..m)
          /\ Cardinality(1..m) = IF 1 > m THEN 0 ELSE m - 1 + 1
      BY FS_Interval
    <3>2. QED
      BY <3>1
  <2>2. QED
    BY <1>1, <2>1
<1>3. IsFiniteSet({s}) /\ Cardinality({s}) = 1
  BY FS_Singleton
<1>4. /\ IsFiniteSet(UnitsOf(s))
      /\ Cardinality(UnitsOf(s)) = Cardinality({s}) * Cardinality(1..Memory[s])
  BY <1>2, <1>3, FS_Product DEF UnitsOf
<1>5. QED
  BY <1>1, <1>2, <1>3, <1>4

(* A set of runs has finitely many memory units.                           *)
LEMMA UnitsFinite ==
  ASSUME NEW S \in SUBSET Requests
  PROVE  IsFiniteSet(Units(S)) /\ MemoryOf(S) \in Nat
<1> DEFINE f == [s \in S |-> UnitsOf(s)]
           T == {UnitsOf(s) : s \in S}
<1>1. IsFiniteSet(S)
  BY LimitsAssumption, FS_Subset
<1>2. f \in Surjection(S, T)
  BY DEF Surjection
<1>3. IsFiniteSet(T)
  BY <1>1, <1>2, FS_Surjection
<1>4. \A U \in T : IsFiniteSet(U)
  BY UnitsOfOne
<1>5. Units(S) = UNION T
  BY DEF Units, UnitsOf
<1>6. IsFiniteSet(Units(S))
  BY <1>3, <1>4, <1>5, FS_UNION
<1>7. QED
  BY <1>6, FS_CardinalityType DEF MemoryOf

(* Fewer runs need no more memory.                                         *)
LEMMA MemoryMono ==
  ASSUME NEW T \in SUBSET Requests, NEW S \in SUBSET T
  PROVE  MemoryOf(S) <= MemoryOf(T)
<1>1. Units(S) \in SUBSET Units(T)
  BY DEF Units
<1>2. QED
  BY <1>1, UnitsFinite, FS_Subset DEF MemoryOf

(* One more run needs at most its own memory more.                         *)
LEMMA MemoryAdd ==
  ASSUME NEW S \in SUBSET Requests, NEW r \in Requests
  PROVE  MemoryOf(S \cup {r}) <= MemoryOf(S) + Memory[r]
<1>1. MemoryOf(S \cup {r}) = Cardinality(Units(S) \cup UnitsOf(r))
  <2>1. Units(S \cup {r}) = Units(S) \cup UnitsOf(r)
    BY DEF Units, UnitsOf
  <2>2. QED
    BY <2>1 DEF MemoryOf
<1>2. IsFiniteSet(Units(S)) /\ IsFiniteSet(UnitsOf(r))
  BY UnitsFinite, UnitsOfOne
<1>3. Cardinality(Units(S) \cup UnitsOf(r))
        = MemoryOf(S) + Memory[r] - Cardinality(Units(S) \cap UnitsOf(r))
  BY <1>2, UnitsOfOne, FS_Union DEF MemoryOf
<1>4. IsFiniteSet(Units(S) \cap UnitsOf(r))
  BY <1>2, FS_Intersection
<1>5. /\ Cardinality(Units(S) \cap UnitsOf(r)) \in Nat
      /\ MemoryOf(S) \in Nat /\ Memory[r] \in Nat
  BY <1>4, FS_CardinalityType, UnitsFinite, LimitsAssumption
<1>6. QED
  BY <1>1, <1>3, <1>5

(* No runs, no memory.                                                     *)
LEMMA MemoryNone == MemoryOf({}) = 0
<1>1. Units({}) = {}
  BY DEF Units
<1>2. QED
  BY <1>1, FS_EmptySet DEF MemoryOf

(* The runs of one account among fewer runs are no more.                   *)
LEMMA UserMono ==
  ASSUME NEW T \in SUBSET Requests, NEW S \in SUBSET T, NEW r
  PROVE  /\ Cardinality(OfSameUser(r, S)) <= Cardinality(OfSameUser(r, T))
         /\ Cardinality(OfSameUser(r, S)) \in Nat
         /\ Cardinality(OfSameUser(r, T)) \in Nat
<1>1. OfSameUser(r, S) \in SUBSET OfSameUser(r, T)
  BY DEF OfSameUser
<1>2. IsFiniteSet(OfSameUser(r, T))
  BY LimitsAssumption, FS_Subset DEF OfSameUser
<1>3. QED
  BY <1>1, <1>2, FS_Subset, FS_CardinalityType

(* One more run is at most one more run of the account.                    *)
LEMMA UserAdd ==
  ASSUME NEW S \in SUBSET Requests, NEW r \in Requests, NEW q
  PROVE  Cardinality(OfSameUser(q, S \cup {r}))
           <= Cardinality(OfSameUser(q, S)) + 1
<1>1. OfSameUser(q, S \cup {r}) \subseteq OfSameUser(q, S) \cup {r}
  BY DEF OfSameUser
<1>2. IsFiniteSet(OfSameUser(q, S))
  BY LimitsAssumption, FS_Subset DEF OfSameUser
<1>3. /\ IsFiniteSet(OfSameUser(q, S) \cup {r})
      /\ Cardinality(OfSameUser(q, S) \cup {r})
           <= Cardinality(OfSameUser(q, S)) + 1
  BY <1>2, FS_AddElement, FS_CardinalityType
<1>4. Cardinality(OfSameUser(q, S \cup {r}))
        <= Cardinality(OfSameUser(q, S) \cup {r})
  BY <1>1, <1>3, FS_Subset
<1>5. IsFiniteSet(OfSameUser(q, S \cup {r}))
  BY <1>1, <1>3, FS_Subset
<1>6. QED
  BY <1>2, <1>3, <1>4, <1>5, FS_CardinalityType
=============================================================================
