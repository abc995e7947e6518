----------------------------- MODULE RulesProofs -----------------------------
(***************************************************************************)
(* What the operations of the rule store preserve, for every store: the    *)
(* lemmas the theorems about RuleStore rest on.                            *)
(***************************************************************************)
EXTENDS Rules, FiniteSetTheorems, WellFoundedInduction, TLAPS

\* A store as any process holds it after Load or Push.
GoodStore(store) == IsStore(store) /\ DistinctIds(store) /\ Stamped(store)

\* Every finite nonempty set of naturals has a greatest element.
LEMMA FiniteHasMax ==
  ASSUME NEW S \in SUBSET Nat, IsFiniteSet(S), S # {}
  PROVE  Max(S) \in S /\ \A s \in S : s <= Max(S)
<1> DEFINE HasMax(T) == \E m \in T : \A s \in T : s <= m
           Bad == {T \in SUBSET S : T # {} /\ ~ HasMax(T)}
<1>1. HasMax(S)
  <2> SUFFICES ASSUME ~ HasMax(S) PROVE FALSE
    OBVIOUS
  <2>1. S \in Bad
    OBVIOUS
  <2>2. Bad \subseteq FiniteSubsetsOf(S)
    BY FS_Subset DEF FiniteSubsetsOf
  <2>3. PICK T \in Bad : \A U \in Bad : ~ (<<U, T>> \in StrictSubsetOrdering(S))
    BY <2>1, <2>2, FS_StrictSubsetOrderingWellFounded, WFMin, Zenon
  <2>4. PICK x \in T : TRUE
    OBVIOUS
  <2>5. T \ {x} \in SUBSET S /\ T \ {x} # T /\ T \ {x} \subseteq T
    BY <2>4
  <2>6. <<T \ {x}, T>> \in StrictSubsetOrdering(S)
    BY <2>5 DEF StrictSubsetOrdering
  <2>7. T \ {x} = {} \/ HasMax(T \ {x})
    BY <2>3, <2>5, <2>6
  <2>8. CASE T \ {x} = {}
    BY <2>3, <2>4, <2>8
  <2>9. CASE HasMax(T \ {x})
    <3>1. PICK y \in T \ {x} : \A s \in T \ {x} : s <= y
      BY <2>9
    <3>2. x \in Nat /\ y \in Nat /\ T \subseteq Nat
      BY <2>4, <3>1
    <3>3. CASE x <= y
      BY <2>3, <3>1, <3>3
    <3>4. CASE ~ (x <= y)
      BY <2>3, <2>4, <3>1, <3>2, <3>4
    <3> QED
      BY <3>3, <3>4
  <2> QED
    BY <2>7, <2>8, <2>9
<1> QED
  BY <1>1 DEF Max

\* MaxOr0 of a finite set of ids is a natural that none of them exceeds.
LEMMA MaxOr0Bounds ==
  ASSUME NEW S \in SUBSET Nat, IsFiniteSet(S)
  PROVE  MaxOr0(S) \in Nat /\ \A s \in S : s <= MaxOr0(S)
BY FiniteHasMax DEF MaxOr0

\* The ids of a store are a finite set of naturals, its rules a finite set.
LEMMA StoreIds ==
  ASSUME NEW store, IsStore(store)
  PROVE  /\ Ids(store) \in SUBSET Nat /\ IsFiniteSet(Ids(store))
         /\ \A i \in DOMAIN store.rules :
              store.rules[i] \in LearnedRule /\ store.rules[i].id \in Nat
<1>1. \A i \in DOMAIN store.rules : store.rules[i] \in LearnedRule
  BY DEF IsStore, Range
<1>2. \A r \in LearnedRule : r.id \in Nat
  BY DEF LearnedRule
<1>3. IsFiniteSet(Ids(store))
  <2> DEFINE idAt == [i \in DOMAIN store.rules |-> store.rules[i].id]
  <2>1. idAt \in Surjection(DOMAIN store.rules, Ids(store))
    BY DEF Surjection, Ids
  <2> QED
    BY <2>1, FS_Surjection DEF IsStore
<1> QED
  BY <1>1, <1>2, <1>3 DEF Ids

\* The empty store Rules::load falls back to is well formed.
LEMMA DefaultStoreGood == GoodStore(DefaultStore)
<1>1. DOMAIN EmptyRules = {}
  BY DEF EmptyRules
<1>2. EmptyRules = [i \in DOMAIN EmptyRules |-> EmptyRules[i]]
  BY DEF EmptyRules
<1> QED
  BY <1>1, <1>2, FS_EmptySet
     DEF GoodStore, IsStore, DistinctIds, Stamped, DefaultStore, Range

\* Rules::push stamps the rule it adds with an id no other rule has.
LEMMA PushGood ==
  ASSUME NEW store, GoodStore(store), NEW rule \in LearnedRule
  PROVE  GoodStore(Push(store, rule))
<1> DEFINE rules == store.rules
           id == AllocId(store)
           slot == MaxOr0(DOMAIN rules) + 1
           new == Push(store, rule)
<1>1. /\ IsStore(store) /\ DistinctIds(store) /\ Stamped(store)
      /\ DOMAIN rules \in SUBSET Nat /\ IsFiniteSet(DOMAIN rules)
      /\ store.next_id \in Nat
  BY DEF GoodStore, IsStore
<1>2. slot \in Nat /\ slot \notin DOMAIN rules
  BY <1>1, MaxOr0Bounds
<1>3. id \in Nat /\ id # 0 /\ id >= store.next_id
  BY <1>1 DEF AllocId
<1>4. /\ new.next_id = id + 1
      /\ DOMAIN new.rules = DOMAIN rules \cup {slot}
      /\ \A i \in DOMAIN rules : new.rules[i] = rules[i]
      /\ new.rules = [i \in DOMAIN new.rules |-> new.rules[i]]
      /\ new = [next_id |-> new.next_id, rules |-> new.rules]
  BY <1>2 DEF Push
<1>5. new.rules[slot] \in LearnedRule /\ new.rules[slot].id = id
  <2>1. new.rules[slot] = [rule EXCEPT !.id = id]
    BY <1>2 DEF Push
  <2>2. [rule EXCEPT !.id = id] \in LearnedRule /\ [rule EXCEPT !.id = id].id = id
    BY <1>3 DEF LearnedRule
  <2> QED
    BY <2>1, <2>2
<1>6. \A i \in DOMAIN rules : rules[i] \in LearnedRule /\ rules[i].id \in Nat
  BY <1>1, StoreIds
<1>7. IsStore(new)
  <2>1. IsFiniteSet(DOMAIN new.rules)
    BY <1>1, <1>4, FS_AddElement
  <2>2. Range(new.rules) \subseteq LearnedRule
    BY <1>4, <1>5, <1>6 DEF Range
  <2> HIDE DEF new, id, slot
  <2> QED
    BY <1>1, <1>2, <1>3, <1>4, <2>1, <2>2 DEF IsStore
<1> HIDE DEF new, id, slot
<1>8. \A i \in DOMAIN rules : new.rules[i].id # 0 /\ new.rules[i].id < id
  BY <1>1, <1>3, <1>4, <1>6 DEF Stamped
<1>9. Stamped(new)
  BY <1>3, <1>4, <1>5, <1>6, <1>8 DEF Stamped
<1>10. DistinctIds(new)
  BY <1>1, <1>3, <1>4, <1>5, <1>6, <1>8 DEF DistinctIds
<1> QED
  BY <1>7, <1>9, <1>10 DEF GoodStore, new

\* remove_ids leaves a well-formed store.
LEMMA RemoveIdsGood ==
  ASSUME NEW store, GoodStore(store), NEW ids
  PROVE  GoodStore(RemoveIds(store, ids))
<1> DEFINE rules == store.rules
           kept == {i \in DOMAIN rules : rules[i].id \notin ids}
           new == RemoveIds(store, ids)
<1>1. /\ IsStore(store) /\ DistinctIds(store) /\ Stamped(store)
      /\ store = [next_id |-> store.next_id, rules |-> rules]
      /\ DOMAIN rules \in SUBSET Nat /\ IsFiniteSet(DOMAIN rules)
  BY DEF GoodStore, IsStore
<1>2. /\ new = [next_id |-> store.next_id, rules |-> [i \in kept |-> rules[i]]]
      /\ new.rules = [i \in kept |-> rules[i]]
      /\ new.next_id = store.next_id
  BY <1>1 DEF RemoveIds, Restrict
<1>3. IsFiniteSet(kept)
  BY <1>1, FS_Subset
<1>4. Range(new.rules) \subseteq LearnedRule
  BY <1>1, <1>2, StoreIds DEF Range
<1> HIDE DEF new
<1>5. IsStore(new)
  BY <1>1, <1>2, <1>3, <1>4 DEF IsStore
<1>6. DistinctIds(new) /\ Stamped(new)
  BY <1>1, <1>2 DEF DistinctIds, Stamped
<1> QED
  BY <1>5, <1>6 DEF GoodStore, new

\* The ranks back-filling hands out: below the number of unstamped rules, and
\* growing along the Vec.
LEMMA UnstampedRanks ==
  ASSUME NEW rules, DOMAIN rules \in SUBSET Nat, IsFiniteSet(DOMAIN rules)
  PROVE  LET fresh == {i \in DOMAIN rules : rules[i].id = 0}
             Rank(i) == Cardinality(UnstampedBefore(rules, i))
         IN  /\ Cardinality(fresh) \in Nat
             /\ \A i \in fresh : Rank(i) \in Nat /\ Rank(i) < Cardinality(fresh)
             /\ \A i, j \in fresh : i < j => Rank(i) < Rank(j)
<1> DEFINE fresh == {i \in DOMAIN rules : rules[i].id = 0}
           Before(i) == UnstampedBefore(rules, i)
<1>1. fresh \in SUBSET Nat /\ IsFiniteSet(fresh)
  BY FS_Subset
<1>2. ASSUME NEW S \in SUBSET fresh, NEW T \in SUBSET S, S # T
      PROVE  /\ Cardinality(S) \in Nat /\ Cardinality(T) \in Nat
             /\ Cardinality(T) < Cardinality(S)
  <2>1. IsFiniteSet(S) /\ IsFiniteSet(T)
    BY <1>1, FS_Subset
  <2>2. Cardinality(S) \in Nat /\ Cardinality(T) \in Nat
    BY <2>1, FS_CardinalityType
  <2>3. Cardinality(T) <= Cardinality(S) /\ Cardinality(T) # Cardinality(S)
    BY <1>2, <2>1, FS_Subset
  <2> QED
    BY <2>2, <2>3
<1>3. \A i \in fresh : Before(i) \in SUBSET fresh /\ i \notin Before(i)
  BY <1>1 DEF UnstampedBefore
<1>4. \A i \in fresh : /\ Cardinality(Before(i)) \in Nat
                       /\ Cardinality(Before(i)) < Cardinality(fresh)
  <2> SUFFICES ASSUME NEW i \in fresh
               PROVE  /\ Cardinality(Before(i)) \in Nat
                      /\ Cardinality(Before(i)) < Cardinality(fresh)
    OBVIOUS
  <2>1. Before(i) \in SUBSET fresh /\ fresh # Before(i) /\ fresh \in SUBSET fresh
    BY <1>3
  <2> HIDE DEF fresh, Before
  <2> QED
    BY <1>2, <2>1
<1>5. \A i, j \in fresh : i < j => Cardinality(Before(i)) < Cardinality(Before(j))
  <2> SUFFICES ASSUME NEW i \in fresh, NEW j \in fresh, i < j
               PROVE  Cardinality(Before(i)) < Cardinality(Before(j))
    OBVIOUS
  <2>1. Before(i) \in SUBSET Before(j) /\ i \in Before(j)
    BY <1>1 DEF UnstampedBefore
  <2> QED
    BY <1>2, <1>3, <2>1
<1>6. Cardinality(fresh) \in Nat
  BY <1>1, FS_CardinalityType
<1> QED
  BY <1>4, <1>5, <1>6

\* backfill_ids makes a well-formed store of any whose ids do not clash.
LEMMA BackfillIdsGood ==
  ASSUME NEW store, IsStore(store), DistinctIds(store)
  PROVE  GoodStore(BackfillIds(store))
<1> DEFINE rules == store.rules
           base == MaxOr0({store.next_id, MaxOr0(Ids(store)) + 1})
           fresh == {i \in DOMAIN rules : rules[i].id = 0}
           Rank(i) == Cardinality(UnstampedBefore(rules, i))
           new == BackfillIds(store)
<1>1. /\ DOMAIN rules \in SUBSET Nat /\ IsFiniteSet(DOMAIN rules)
      /\ store.next_id \in Nat
      /\ \A i \in DOMAIN rules : rules[i] \in LearnedRule /\ rules[i].id \in Nat
  BY StoreIds DEF IsStore
<1>2. base \in Nat /\ base # 0 /\ \A i \in DOMAIN rules : rules[i].id < base
  <2>1. MaxOr0(Ids(store)) \in Nat /\ \A n \in Ids(store) : n <= MaxOr0(Ids(store))
    BY StoreIds, MaxOr0Bounds
  <2> DEFINE top == MaxOr0(Ids(store)) + 1
  <2>2. {store.next_id, top} \in SUBSET Nat /\ IsFiniteSet({store.next_id, top})
    <3>1. IsFiniteSet({store.next_id} \cup {top})
      BY FS_Singleton, FS_AddElement
    <3>2. {store.next_id} \cup {top} = {store.next_id, top}
      OBVIOUS
    <3> QED
      BY <1>1, <2>1, <3>1, <3>2
  <2>3. base \in Nat /\ top <= base
    BY <2>2, MaxOr0Bounds
  <2>4. \A i \in DOMAIN rules : rules[i].id \in Ids(store)
    BY DEF Ids
  <2> HIDE DEF base
  <2> QED
    BY <1>1, <2>1, <2>3, <2>4
<1>3. /\ Cardinality(fresh) \in Nat
      /\ \A i \in fresh : Rank(i) \in Nat /\ Rank(i) < Cardinality(fresh)
      /\ \A i, j \in fresh : i < j => Rank(i) < Rank(j)
  BY <1>1, UnstampedRanks
<1>4. /\ new.next_id = base + Cardinality(fresh)
      /\ DOMAIN new.rules = DOMAIN rules
      /\ \A i \in DOMAIN rules \ fresh : new.rules[i] = rules[i]
      /\ new.rules = [i \in DOMAIN new.rules |-> new.rules[i]]
      /\ new = [next_id |-> new.next_id, rules |-> new.rules]
  BY DEF BackfillIds
<1>5. ASSUME NEW i \in fresh
      PROVE  new.rules[i] \in LearnedRule /\ new.rules[i].id = base + Rank(i)
  <2>1. new.rules[i] = [rules[i] EXCEPT !.id = base + Rank(i)]
    BY DEF BackfillIds
  <2>2. base + Rank(i) \in Nat /\ rules[i] \in LearnedRule
    BY <1>1, <1>2, <1>3
  <2> HIDE DEF base, Rank, new
  <2> QED
    BY <2>1, <2>2 DEF LearnedRule
<1> HIDE DEF base, Rank, new
<1>6. IsStore(new)
  <2>1. Range(new.rules) \subseteq LearnedRule
    BY <1>1, <1>4, <1>5 DEF Range
  <2> QED
    BY <1>1, <1>2, <1>3, <1>4, <2>1 DEF IsStore
<1>7. Stamped(new)
  BY <1>1, <1>2, <1>3, <1>4, <1>5 DEF Stamped
<1>8. DistinctIds(new)
  <2> SUFFICES ASSUME NEW i \in DOMAIN rules, NEW j \in DOMAIN rules, i < j,
                      new.rules[i].id = new.rules[j].id
               PROVE  FALSE
    BY <1>1, <1>4 DEF DistinctIds
  <2>1. CASE i \in fresh /\ j \in fresh
    BY <1>2, <1>3, <1>5, <2>1
  <2>2. CASE i \in fresh /\ j \notin fresh
    BY <1>1, <1>2, <1>3, <1>4, <1>5, <2>2
  <2>3. CASE i \notin fresh /\ j \in fresh
    BY <1>1, <1>2, <1>3, <1>4, <1>5, <2>3
  <2>4. CASE i \notin fresh /\ j \notin fresh
    BY <1>1, <1>4, <2>4 DEF DistinctIds
  <2> QED
    BY <2>1, <2>2, <2>3, <2>4
<1> QED
  BY <1>6, <1>7, <1>8 DEF GoodStore, new

\* Rules::load gives a well-formed store for every file without clashing ids.
LEMMA LoadGood ==
  ASSUME NEW file, IsFile(file), file # Unreadable => DistinctIds(file[1])
  PROVE  GoodStore(Load(file))
BY DefaultStoreGood, BackfillIdsGood DEF IsFile, Load
==============================================================================
