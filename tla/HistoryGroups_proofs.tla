------------------------ MODULE HistoryGroups_proofs ------------------------
(***************************************************************************)
(* The walk over a history accepts exactly the sets of bundles any two of  *)
(* which agree, for any number of bundles, in any order.                   *)
(***************************************************************************)
EXTENDS HistoryGroups, Integers, FiniteSets, FiniteSetTheorems, WellFoundedInduction,
        SequenceTheorems, TLAPS

-----------------------------------------------------------------------------
(* Least and greatest numbers.  The subsets of a finite set are well       *)
(* founded; what is below a number decreases with the number.              *)

LEMMA LeastNumber ==
    ASSUME NEW S \in SUBSET Nat, S # {}
    PROVE  \E m \in S : \A n \in S : m <= n
<1>0. PICK top \in S : TRUE
  OBVIOUS
<1> DEFINE Below(k) == {n \in S : n <= k}
           T == {Below(k) : k \in Below(top)}
<1>1. IsFiniteSet(0 .. top)
  BY FS_Interval
<1>2. IsWellFoundedOn(StrictSubsetOrdering(0 .. top), FiniteSubsetsOf(0 .. top))
  BY FS_StrictSubsetOrderingWellFounded
<1>3. T \subseteq FiniteSubsetsOf(0 .. top)
  <2>1. ASSUME NEW k \in Below(top) PROVE Below(k) \subseteq 0 .. top
    <3>1. k \in Nat /\ top \in Nat /\ k <= top
      OBVIOUS
    <3>2. ASSUME NEW n \in Below(k) PROVE n \in 0 .. top
      <4>1. n \in Nat /\ n <= k
        OBVIOUS
      <4>2. QED
        BY <3>1, <4>1
    <3>3. QED
      BY <3>2
  <2>2. \A k \in Below(top) : IsFiniteSet(Below(k))
    BY <1>1, <2>1, FS_Subset
  <2> HIDE DEF Below
  <2>3. QED
    BY <2>1, <2>2 DEF FiniteSubsetsOf
<1>4. T # {}
  <2>1. top \in Below(top)
    OBVIOUS
  <2> HIDE DEF Below
  <2>2. QED
    BY <2>1
<1>5. PICK t \in T : \A s \in T : <<s, t>> \notin StrictSubsetOrdering(0 .. top)
  <2> HIDE DEF T
  <2>1. QED
    BY <1>2, <1>3, <1>4, WFMin
<1>6. PICK m \in Below(top) : t = Below(m)
  OBVIOUS
<1>7. ASSUME NEW n \in S, n < m
      PROVE  FALSE
  <2>1. n \in Nat /\ m \in Nat /\ top \in Nat /\ m <= top /\ m \in S
    BY <1>6
  <2>2. n \in Below(top)
    BY <1>7, <2>1
  <2>3. \A k \in Below(n) : k \in Below(m)
    BY <1>7, <2>1
  <2>4. m \in Below(m) /\ m \notin Below(n)
    BY <1>7, <2>1
  <2> HIDE DEF Below
  <2>5. Below(n) \in FiniteSubsetsOf(0 .. top) /\ Below(m) \in FiniteSubsetsOf(0 .. top)
    BY <1>3, <1>6, <2>2
  <2>6. <<Below(n), Below(m)>> \in StrictSubsetOrdering(0 .. top)
    BY <2>3, <2>4, <2>5 DEF StrictSubsetOrdering, FiniteSubsetsOf
  <2>7. QED
    BY <1>5, <1>6, <2>2, <2>6
<1>8. QED
  BY <1>6, <1>7

LEMMA GreatestNumber ==
    ASSUME NEW N \in Nat, NEW S \in SUBSET (1 .. N), S # {}
    PROVE  \E m \in S : \A n \in S : n <= m
<1> DEFINE mirrored == {N - n : n \in S}
<1>1. mirrored \in SUBSET Nat /\ mirrored # {}
  <2>1. ASSUME NEW n \in S PROVE N - n \in Nat
    OBVIOUS
  <2>2. PICK n \in S : TRUE
    OBVIOUS
  <2>3. QED
    BY <2>1, <2>2
<1>2. PICK least \in mirrored : \A n \in mirrored : least <= n
  <2> HIDE DEF mirrored
  <2>1. QED
    BY <1>1, LeastNumber
<1>3. PICK m \in S : least = N - m
  BY <1>2
<1>4. ASSUME NEW n \in S PROVE n <= m
  <2>1. N - m <= N - n
    BY <1>2, <1>3
  <2>2. QED
    BY <2>1
<1>5. QED
  BY <1>4

-----------------------------------------------------------------------------
(* The bundles of a sequence.                                              *)
Bundles(ordered) == {ordered[i] : i \in DOMAIN ordered}

(* The walk of a group only compares with the last bundle that had an id,  *)
(* yet when it returns all the bundles that have the id agree on it.       *)
LEMMA WalkAgrees ==
    ASSUME NEW N \in Nat, NEW ordered, DOMAIN ordered = 1 .. N,
           NEW group \in SUBSET (1 .. N), ValidHistory(ordered, group)
    PROVE  \A i, j \in group : CatalogsAgree(ordered[i].catalog, ordered[j].catalog)
<1> SUFFICES ASSUME NEW first \in group, NEW second \in group,
                    NEW id \in DOMAIN ordered[first].catalog \cap DOMAIN ordered[second].catalog
             PROVE  ordered[first].catalog[id] = ordered[second].catalog[id]
  BY DEF CatalogsAgree
<1> DEFINE having == {i \in group : id \in DOMAIN ordered[i].catalog}
<1>1. having \in SUBSET Nat /\ having # {} /\ having \subseteq group
      /\ first \in having /\ second \in having
  <2>1. first \in having /\ second \in having
    OBVIOUS
  <2>2. having \subseteq group /\ group \subseteq Nat
    OBVIOUS
  <2>3. QED
    BY <2>1, <2>2
<1>2. PICK start \in having : \A i \in having : start <= i
  <2> HIDE DEF having
  <2>1. QED
    BY <1>1, LeastNumber
<1> DEFINE other == {i \in having : ordered[i].catalog[id] # ordered[start].catalog[id]}
<1>3. ASSUME other # {} PROVE FALSE
  <2>1. other \in SUBSET Nat
    BY <1>1
  <2>2. PICK i \in other : \A k \in other : i <= k
    <3> HIDE DEF other
    <3>1. QED
      BY <1>3, <2>1, LeastNumber
  <2>3. /\ i \in having /\ i \in group /\ i \in Nat /\ start \in Nat /\ i # start
        /\ id \in DOMAIN ordered[i].catalog
    BY <1>1, <2>2
  <2>4. start < i
    BY <1>2, <2>3
  <2> DEFINE earlier == {j \in group : j < i /\ id \in DOMAIN ordered[j].catalog}
  <2>5. start \in earlier /\ earlier \in SUBSET (1 .. N)
    BY <2>4
  <2>6. PICK last \in earlier : \A k \in earlier : k <= last
    <3> HIDE DEF earlier
    <3>1. QED
      BY <2>5, GreatestNumber
  <2>7. last \in Previous(ordered, group, i, id)
    BY <2>6 DEF Previous
  <2>8. ordered[last].catalog[id] = ordered[i].catalog[id]
    BY <2>3, <2>7 DEF ValidHistory
  <2>9. last \in having /\ last < i /\ last \in Nat
    BY <1>1, <2>6
  <2>10. last \in other
    BY <2>2, <2>8, <2>9
  <2>11. QED
    BY <2>2, <2>3, <2>9, <2>10
<1>4. QED
  BY <1>1, <1>3

(* groupHistories and validateHistory accept a sequence of bundles, in any *)
(* order, exactly when no run occurs twice and any two bundles agree: the  *)
(* walk's memory of the last definitions misses no contradiction, and the  *)
(* order of the runs decides nothing.  This is what lets the publishers,   *)
(* the site and the reader be modelled with Consistent.                    *)
THEOREM GroupingIsPairwise ==
    ASSUME NEW N \in Nat, NEW ordered, DOMAIN ordered = 1 .. N
    PROVE  GroupHistories(ordered) <=> DistinctRuns(ordered) /\ Consistent(Bundles(ordered))
<1> DEFINE definitions == {Definition(ordered[i]) : i \in DOMAIN ordered}
<1>1. ASSUME GroupHistories(ordered), NEW i \in DOMAIN ordered, NEW j \in DOMAIN ordered
      PROVE  Compatible(ordered[i], ordered[j])
  <2>1. ordered[i].source = ordered[j].source
    BY <1>1 DEF GroupHistories
  <2>2. ASSUME ordered[i].version = ordered[j].version
        PROVE  /\ ordered[i].settings = ordered[j].settings
               /\ CatalogsAgree(ordered[i].catalog, ordered[j].catalog)
    <3>1. Definition(ordered[i]) = Definition(ordered[j])
      <4>1. Definition(ordered[i]).version = Definition(ordered[j]).version
        BY <2>2 DEF Definition
      <4>2. QED
        BY <1>1, <4>1 DEF GroupHistories
    <3> DEFINE group == Group(ordered, Definition(ordered[i]))
    <3>2. group \in SUBSET (1 .. N) /\ i \in group /\ j \in group
      BY <3>1 DEF Group
    <3>3. ValidHistory(ordered, group)
      BY <1>1 DEF GroupHistories
    <3>4. CatalogsAgree(ordered[i].catalog, ordered[j].catalog)
      <4> HIDE DEF group
      <4>1. QED
        BY <3>2, <3>3, WalkAgrees
    <3>5. ordered[i].settings = ordered[j].settings
      BY <3>1 DEF Definition
    <3>6. QED
      BY <3>4, <3>5
  <2>3. QED
    BY <2>1, <2>2 DEF Compatible
<1>2. ASSUME DistinctRuns(ordered), Consistent(Bundles(ordered))
      PROVE  GroupHistories(ordered)
  <2>1. \A i, j \in DOMAIN ordered : Compatible(ordered[i], ordered[j])
    BY <1>2 DEF Consistent, Bundles
  <2>2. \A i \in DOMAIN ordered : ordered[i].source = ordered[1].source
    <3> SUFFICES ASSUME NEW i \in DOMAIN ordered PROVE ordered[i].source = ordered[1].source
      OBVIOUS
    <3>1. 1 \in DOMAIN ordered
      OBVIOUS
    <3>2. QED
      BY <2>1, <3>1 DEF Compatible
  <2>3. ASSUME NEW first \in definitions, NEW second \in definitions,
               first.version = second.version
        PROVE  first = second
    <3>1. PICK i \in DOMAIN ordered : first = Definition(ordered[i])
      OBVIOUS
    <3>2. PICK j \in DOMAIN ordered : second = Definition(ordered[j])
      OBVIOUS
    <3>3. ordered[i].version = ordered[j].version
      BY <2>3, <3>1, <3>2 DEF Definition
    <3>4. ordered[i].settings = ordered[j].settings
      BY <2>1, <3>3 DEF Compatible
    <3>5. QED
      BY <3>1, <3>2, <3>3, <3>4 DEF Definition
  <2>4. ASSUME NEW definition \in definitions
        PROVE  ValidHistory(ordered, Group(ordered, definition))
    <3> SUFFICES ASSUME NEW i \in Group(ordered, definition),
                        NEW id \in DOMAIN ordered[i].catalog,
                        NEW j \in Previous(ordered, Group(ordered, definition), i, id)
                 PROVE  ordered[j].catalog[id] = ordered[i].catalog[id]
      BY DEF ValidHistory
    <3>1. /\ i \in DOMAIN ordered /\ j \in DOMAIN ordered
          /\ Definition(ordered[i]) = definition /\ Definition(ordered[j]) = definition
          /\ id \in DOMAIN ordered[j].catalog
      BY DEF Previous, Group
    <3>2. ordered[i].version = ordered[j].version
      BY <3>1 DEF Definition
    <3>3. CatalogsAgree(ordered[j].catalog, ordered[i].catalog)
      BY <2>1, <3>1, <3>2 DEF Compatible
    <3>4. QED
      BY <3>1, <3>3 DEF CatalogsAgree
  <2>5. QED
    BY <1>2, <2>2, <2>3, <2>4 DEF GroupHistories
<1>3. GroupHistories(ordered) => DistinctRuns(ordered) /\ Consistent(Bundles(ordered))
  BY <1>1 DEF GroupHistories, Consistent, Bundles
<1>4. QED
  BY <1>2, <1>3

=============================================================================
