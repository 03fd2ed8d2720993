---------------------------- MODULE LedgerProofs ----------------------------
(* Proofs about the sums of SpendLedger, for any number of payments and  *)
(* whatever the order in which the payments are added up.                *)
EXTENDS SpendLedger, AmountsProofs, FiniteSetTheorems

(* Induction over the subsets of a finite set.                           *)
LEMMA SubsetInduction ==
  ASSUME NEW S, IsFiniteSet(S), NEW F,
         \A s \in SUBSET S : (\A t \in SUBSET s : t # s => t \in F) => s \in F
  PROVE  \A s \in SUBSET S : s \in F
<1> SUFFICES ASSUME NEW s \in SUBSET S, s \notin F PROVE FALSE
  OBVIOUS
<1> DEFINE O == StrictSubsetOrdering(S)
           U == {t \in SUBSET S : t \notin F}
<1>1. IsWellFoundedOn(O, SUBSET S)
  <2>1. IsWellFoundedOn(StrictSubsetOrdering(S), FiniteSubsetsOf(S))
    BY FS_StrictSubsetOrderingWellFounded
  <2>2. FiniteSubsetsOf(S) = SUBSET S
    BY FS_FiniteSubsetsOfFinite
  <2> QED
    BY <2>1, <2>2
<1>2. U \subseteq SUBSET S /\ U # {}
  OBVIOUS
<1> HIDE DEF O
<1>3. PICK u \in U : \A t \in U : ~(<<t, u>> \in O)
  <2> HIDE DEF U
  <2> QED
    BY <1>1, <1>2, WFMin
<1>4. ASSUME NEW t \in SUBSET u, t # u PROVE t \in F
  <2>1. t \in SUBSET S
    BY <1>3
  <2>2. <<t, u>> \in O
    BY <1>3, <1>4, <2>1 DEF O, StrictSubsetOrdering
  <2> QED
    BY <1>3, <2>1, <2>2
<1> QED
  BY <1>3, <1>4

-----------------------------------------------------------------------------
(* The sum of a finite set exists.                                       *)
First(s) == CHOOSE p \in s : TRUE

Sum(entries, g, s) ==
  IF s = {} THEN 0 ELSE entries[First(s)].amount + g[s \ {First(s)}]

(* g gives the sums of the sets in D.                                    *)
Sums(entries, D, g) == g = [s \in D |-> Sum(entries, g, s)]

(* The sum of one of the sets.                                           *)
LEMMA SumsAt ==
  ASSUME NEW entries, NEW D, NEW g, Sums(entries, D, g), NEW s \in D
  PROVE  g[s] = Sum(entries, g, s)
BY DEF Sums

(* The first of a nonempty set is one of its elements.                   *)
LEMMA FirstIn ==
  ASSUME NEW s, s # {}
  PROVE  First(s) \in s
BY DEF First

(* Every finite set has a function with the sums of its subsets.         *)
LEMMA SumsExist ==
  ASSUME NEW entries, NEW S, IsFiniteSet(S)
  PROVE  \E g : Sums(entries, SUBSET S, g)
<1> DEFINE D(n) == {s \in SUBSET S : Cardinality(s) <= n}
           T == {n \in Nat : \E g : Sums(entries, D(n), g)}
<1>1. \A s \in SUBSET S : IsFiniteSet(s) /\ Cardinality(s) \in Nat
  BY FS_Subset, FS_CardinalityType
<1>2. 0 \in T
  <2> DEFINE g == [s \in D(0) |-> 0]
  <2>1. \A s \in D(0) : s = {}
    BY <1>1, FS_EmptySet
  <2>2. \A h : \A s \in D(0) : Sum(entries, h, s) = 0
    BY <2>1 DEF Sum
  <2>3. g = [s \in D(0) |-> Sum(entries, g, s)]
    <3>1. \A s \in D(0) : 0 = Sum(entries, g, s)
      BY <2>2
    <3> HIDE DEF D
    <3> QED
      BY <3>1
  <2>4. Sums(entries, D(0), g)
    BY <2>3 DEF Sums
  <2> HIDE DEF D, g
  <2> QED
    BY <2>4
<1>3. ASSUME NEW n \in T PROVE n + 1 \in T
  <2>1. n \in Nat
    OBVIOUS
  <2>2. PICK g : Sums(entries, D(n), g)
    OBVIOUS
  <2> DEFINE h == [s \in D(n + 1) |-> Sum(entries, g, s)]
  <2>3. D(n) \subseteq D(n + 1)
    BY <1>1, <2>1
  <2>4. ASSUME NEW s \in D(n + 1), s # {}
        PROVE  s \ {First(s)} \in D(n)
    <3>1. First(s) \in s /\ s \in SUBSET S
      BY <2>4, FirstIn
    <3>2. /\ s \ {First(s)} \in SUBSET S
          /\ Cardinality(s \ {First(s)}) = Cardinality(s) - 1
      BY <1>1, <3>1, FS_RemoveElement
    <3> QED
      BY <1>1, <2>1, <3>1, <3>2
  <2> HIDE DEF D
  <2>5. ASSUME NEW s \in D(n + 1)
        PROVE  Sum(entries, g, s) = Sum(entries, h, s)
    <3>1. CASE s = {}
      BY <3>1 DEF Sum
    <3>2. CASE s # {}
      <4>1. s \ {First(s)} \in D(n) /\ s \ {First(s)} \in D(n + 1)
        BY <2>3, <2>4, <3>2
      <4>2. g[s \ {First(s)}] = Sum(entries, g, s \ {First(s)})
        BY <2>2, <4>1, SumsAt
      <4>3. g[s \ {First(s)}] = h[s \ {First(s)}]
        BY <4>1, <4>2
      <4> HIDE DEF h
      <4> QED
        BY <4>3 DEF Sum
    <3> QED
      BY <3>1, <3>2
  <2>6. h = [s \in D(n + 1) |-> Sum(entries, h, s)]
    <3> DEFINE k == [s \in D(n + 1) |-> Sum(entries, h, s)]
    <3>1. \A s \in D(n + 1) : h[s] = k[s]
      BY <2>5
    <3>2. h = [s \in D(n + 1) |-> h[s]] /\ k = [s \in D(n + 1) |-> k[s]]
      OBVIOUS
    <3> HIDE DEF h, k
    <3>3. h = k
      BY <3>1, <3>2
    <3> QED
      BY <3>3 DEF k
  <2>7. Sums(entries, D(n + 1), h)
    BY <2>6 DEF Sums
  <2> HIDE DEF h
  <2> QED
    BY <2>1, <2>7
<1>4. SUBSET S = D(Cardinality(S))
  BY <1>1, FS_Subset
<1> HIDE DEF T
<1>5. \A n \in Nat : n \in T
  <2>1. T \subseteq Nat
    BY DEF T
  <2> QED
    BY <1>2, <1>3, <2>1, Induction
<1>6. Cardinality(S) \in Nat
  BY FS_CardinalityType
<1> HIDE DEF D
<1>7. \E g : Sums(entries, D(Cardinality(S)), g)
  BY <1>5, <1>6 DEF T
<1> QED
  BY <1>4, <1>7

(* Total is the value of one such function.                              *)
LEMMA TotalIsChosen ==
  ASSUME NEW entries, NEW S
  PROVE  Total(entries, S) = (CHOOSE g : Sums(entries, SUBSET S, g))[S]
BY DEF Total, MapThenSumSet, MapThenFoldSet, Sums, Sum, First

Totals(entries, S) == CHOOSE g : Sums(entries, SUBSET S, g)

(* Total is the value of a function that gives the sums.                 *)
LEMMA TotalIs ==
  ASSUME NEW entries, NEW S, IsFiniteSet(S)
  PROVE  Sums(entries, SUBSET S, Totals(entries, S)) /\ Total(entries, S) = Totals(entries, S)[S]
BY SumsExist, TotalIsChosen DEF Totals

(* Functions that give sums agree on the sets they share.                *)
LEMMA SumsAgree ==
  ASSUME NEW S, NEW T, IsFiniteSet(S), IsFiniteSet(T),
         NEW e, NEW g, NEW h, Sums(e, SUBSET S, g), Sums(e, SUBSET T, h)
  PROVE  \A s \in SUBSET (S \cap T) : g[s] = h[s]
<1> DEFINE F == {s \in SUBSET (S \cap T) : g[s] = h[s]}
<1>1. IsFiniteSet(S \cap T)
  BY FS_Intersection
<1>2. ASSUME NEW s \in SUBSET (S \cap T), \A t \in SUBSET s : t # s => t \in F
      PROVE  s \in F
  <2>1. g[s] = Sum(e, g, s) /\ h[s] = Sum(e, h, s)
    BY SumsAt
  <2>2. CASE s = {}
    BY <2>1, <2>2 DEF Sum
  <2>3. CASE s # {}
    <3>1. First(s) \in s /\ First(s) \in S \cap T
      BY <2>3, FirstIn
    <3>2. s \ {First(s)} \in F
      BY <1>2, <3>1
    <3>3. g[s \ {First(s)}] = h[s \ {First(s)}]
      BY <3>2
    <3> QED
      BY <2>1, <3>1, <3>3 DEF Sum
  <2> QED
    BY <2>2, <2>3
<1> HIDE DEF F
<1>3. \A s \in SUBSET (S \cap T) : s \in F
  BY <1>1, <1>2, SubsetInduction
<1> QED
  BY <1>3 DEF F

(* Nothing sums up to nothing.                                           *)
LEMMA TotalEmpty ==
  ASSUME NEW e
  PROVE  Total(e, {}) = 0
<1>1. IsFiniteSet({})
  BY FS_EmptySet
<1>2. Total(e, {}) = Sum(e, Totals(e, {}), {})
  BY <1>1, TotalIs, SumsAt
<1> QED
  BY <1>2 DEF Sum

(* The sum of a set, from the sum of all but its first.                  *)
LEMMA TotalFirst ==
  ASSUME NEW S, IsFiniteSet(S), S # {}, NEW e
  PROVE  Total(e, S) = e[First(S)].amount + Total(e, S \ {First(S)})
<1> DEFINE R == S \ {First(S)}
<1>1. IsFiniteSet(R) /\ R \in SUBSET (R \cap S)
  BY FS_RemoveElement
<1>2. Total(e, S) = Sum(e, Totals(e, S), S)
  <2>1. Sums(e, SUBSET S, Totals(e, S)) /\ S \in SUBSET S
    BY TotalIs
  <2>2. Totals(e, S)[S] = Sum(e, Totals(e, S), S)
    BY <2>1, SumsAt
  <2> QED
    BY <2>2, TotalIs
<1>3. Totals(e, R)[R] = Totals(e, S)[R]
  <2>1. Sums(e, SUBSET S, Totals(e, S)) /\ Sums(e, SUBSET R, Totals(e, R))
    BY <1>1, TotalIs
  <2> HIDE DEF R
  <2>2. \A s \in SUBSET (R \cap S) : Totals(e, R)[s] = Totals(e, S)[s]
    BY <1>1, <2>1, SumsAgree
  <2> QED
    BY <1>1, <2>2
<1>4. Total(e, R) = Totals(e, R)[R]
  BY <1>1, TotalIs
<1> QED
  BY <1>2, <1>3, <1>4 DEF Sum

(* The sum depends on the amounts in the set only.                       *)
LEMMA TotalSame ==
  ASSUME NEW S, IsFiniteSet(S), NEW e, NEW f, \A p \in S : e[p].amount = f[p].amount
  PROVE  \A s \in SUBSET S : Total(e, s) = Total(f, s)
<1> DEFINE F == {s \in SUBSET S : Total(e, s) = Total(f, s)}
<1>1. ASSUME NEW s \in SUBSET S, \A t \in SUBSET s : t # s => t \in F
      PROVE  s \in F
  <2>1. CASE s = {}
    BY <2>1, TotalEmpty
  <2>2. CASE s # {}
    <3>1. First(s) \in s /\ IsFiniteSet(s)
      BY <2>2, FirstIn, FS_Subset
    <3>2. s \ {First(s)} \in F
      BY <1>1, <3>1
    <3>3. Total(e, s \ {First(s)}) = Total(f, s \ {First(s)}) /\ e[First(s)].amount = f[First(s)].amount
      BY <3>1, <3>2
    <3>4. /\ Total(e, s) = e[First(s)].amount + Total(e, s \ {First(s)})
          /\ Total(f, s) = f[First(s)].amount + Total(f, s \ {First(s)})
      BY <2>2, <3>1, TotalFirst
    <3> QED
      BY <3>3, <3>4
  <2> QED
    BY <2>1, <2>2
<1> HIDE DEF F
<1>2. \A s \in SUBSET S : s \in F
  BY <1>1, SubsetInduction
<1> QED
  BY <1>2 DEF F

-----------------------------------------------------------------------------
(* Sums of integers, whatever the order.                                 *)
Whole(entries, S) == \A p \in S : entries[p].amount \in Int

(* The sum of integers is one.                                           *)
LEMMA TotalWhole ==
  ASSUME NEW S, IsFiniteSet(S), NEW e, Whole(e, S)
  PROVE  \A s \in SUBSET S : Total(e, s) \in Int
<1> DEFINE F == {s \in SUBSET S : Total(e, s) \in Int}
<1>1. ASSUME NEW s \in SUBSET S, \A t \in SUBSET s : t # s => t \in F
      PROVE  s \in F
  <2>1. CASE s = {}
    BY <2>1, TotalEmpty
  <2>2. CASE s # {}
    <3>1. First(s) \in s /\ IsFiniteSet(s)
      BY <2>2, FirstIn, FS_Subset
    <3>2. s \ {First(s)} \in F
      BY <1>1, <3>1
    <3>3. Total(e, s \ {First(s)}) \in Int /\ e[First(s)].amount \in Int
      BY <3>1, <3>2 DEF Whole
    <3>4. Total(e, s) = e[First(s)].amount + Total(e, s \ {First(s)})
      BY <2>2, <3>1, TotalFirst
    <3> QED
      BY <3>3, <3>4
  <2> QED
    BY <2>1, <2>2
<1> HIDE DEF F
<1>2. \A s \in SUBSET S : s \in F
  BY <1>1, SubsetInduction
<1> QED
  BY <1>2 DEF F

(* The sum of a set, from the sum of all but any one of it.              *)
LEMMA TotalRemove ==
  ASSUME NEW S, IsFiniteSet(S), NEW e, Whole(e, S)
  PROVE  \A s \in SUBSET S : \A p \in s : Total(e, s) = e[p].amount + Total(e, s \ {p})
<1> DEFINE F == {s \in SUBSET S : \A p \in s : Total(e, s) = e[p].amount + Total(e, s \ {p})}
<1>1. ASSUME NEW s \in SUBSET S, \A t \in SUBSET s : t # s => t \in F
      PROVE  s \in F
  <2> SUFFICES ASSUME NEW p \in s PROVE Total(e, s) = e[p].amount + Total(e, s \ {p})
    OBVIOUS
  <2> DEFINE q == First(s)
  <2>1. q \in s /\ IsFiniteSet(s)
    BY FirstIn, FS_Subset
  <2>2. Total(e, s) = e[q].amount + Total(e, s \ {q})
    BY <2>1, TotalFirst
  <2> HIDE DEF q
  <2>3. CASE q = p
    BY <2>2, <2>3
  <2>4. CASE q # p
    <3>1. /\ s \ {q} \in SUBSET s /\ s \ {q} # s /\ p \in s \ {q}
          /\ s \ {p} \in SUBSET s /\ s \ {p} # s /\ q \in s \ {p}
          /\ (s \ {q}) \ {p} = (s \ {p}) \ {q}
      BY <2>1, <2>4
    <3>2. s \ {q} \in F /\ s \ {p} \in F
      BY <1>1, <3>1
    <3>3. Total(e, s \ {q}) = e[p].amount + Total(e, (s \ {q}) \ {p})
      BY <3>1, <3>2
    <3>4. Total(e, s \ {p}) = e[q].amount + Total(e, (s \ {p}) \ {q})
      BY <3>1, <3>2
    <3>5. e[p].amount \in Int /\ e[q].amount \in Int /\ Total(e, (s \ {q}) \ {p}) \in Int
      BY <2>1, TotalWhole DEF Whole
    <3>6. Total(e, (s \ {q}) \ {p}) = Total(e, (s \ {p}) \ {q})
      BY <3>1
    <3> QED
      BY <2>2, <3>3, <3>4, <3>5, <3>6
  <2> QED
    BY <2>3, <2>4
<1> HIDE DEF F
<1>2. \A s \in SUBSET S : s \in F
  BY <1>1, SubsetInduction
<1> QED
  BY <1>2 DEF F

(* A sum of amounts that are not above zero is not above zero.           *)
LEMMA TotalNegative ==
  ASSUME NEW S, IsFiniteSet(S), NEW e, Whole(e, S), \A p \in S : e[p].amount <= 0
  PROVE  Total(e, S) <= 0
<1> DEFINE F == {s \in SUBSET S : Total(e, s) <= 0}
<1>1. ASSUME NEW s \in SUBSET S, \A t \in SUBSET s : t # s => t \in F
      PROVE  s \in F
  <2>1. CASE s = {}
    BY <2>1, TotalEmpty
  <2>2. CASE s # {}
    <3>1. First(s) \in s
      BY <2>2, FirstIn
    <3>2. s \ {First(s)} \in F
      BY <1>1, <3>1
    <3>3. Total(e, s) = e[First(s)].amount + Total(e, s \ {First(s)})
      BY <3>1, TotalRemove
    <3>4. e[First(s)].amount \in Int /\ e[First(s)].amount <= 0
      BY <3>1 DEF Whole
    <3>5. Total(e, s \ {First(s)}) \in Int /\ Total(e, s \ {First(s)}) <= 0
      BY <3>2, TotalWhole
    <3>6. Total(e, s) <= 0
      BY <3>3, <3>4, <3>5
    <3> QED
      BY <3>6
  <2> QED
    BY <2>1, <2>2
<1> HIDE DEF F
<1>2. \A s \in SUBSET S : s \in F
  BY <1>1, SubsetInduction
<1> QED
  BY <1>2 DEF F

(* The sum of two sets that share nothing.                               *)
LEMMA TotalSplit ==
  ASSUME NEW S, IsFiniteSet(S), NEW e, Whole(e, S), NEW A \in SUBSET S, NEW B \in SUBSET S,
         A \cap B = {}
  PROVE  Total(e, A \cup B) = Total(e, A) + Total(e, B)
<1> DEFINE F == {s \in SUBSET B : Total(e, A \cup s) = Total(e, A) + Total(e, s)}
<1>1. IsFiniteSet(B)
  BY FS_Subset
<1>2. ASSUME NEW s \in SUBSET B, \A t \in SUBSET s : t # s => t \in F
      PROVE  s \in F
  <2>1. Total(e, A) \in Int
    BY TotalWhole
  <2>2. CASE s = {}
    <3>1. A \cup s = A
      BY <2>2
    <3>2. Total(e, A \cup s) = Total(e, A) /\ Total(e, s) = 0
      BY <2>2, <3>1, TotalEmpty
    <3>3. Total(e, A) = Total(e, A) + 0
      BY <2>1
    <3>4. Total(e, A \cup s) = Total(e, A) + Total(e, s)
      BY <3>2, <3>3
    <3> QED
      BY <3>4
  <2>3. CASE s # {}
    <3>1. PICK p \in s : TRUE
      BY <2>3
    <3> DEFINE r == s \ {p}
               u == A \cup s
    <3>2. /\ p \in u /\ u \in SUBSET S /\ s \in SUBSET S /\ r \in SUBSET S
          /\ u \ {p} = A \cup r /\ p \in S
      BY <3>1
    <3>3. r \in F
      BY <1>2, <3>1
    <3>4. Total(e, A \cup r) = Total(e, A) + Total(e, r)
      BY <3>3
    <3> HIDE DEF u
    <3>5. Total(e, u) = e[p].amount + Total(e, A \cup r)
      BY <3>2, TotalRemove
    <3>6. Total(e, s) = e[p].amount + Total(e, r)
      BY <3>1, <3>2, TotalRemove
    <3>7. e[p].amount \in Int /\ Total(e, r) \in Int
      BY <3>2, TotalWhole DEF Whole
    <3> HIDE DEF r
    <3>8. Total(e, u) = Total(e, A) + Total(e, s)
      BY <2>1, <3>4, <3>5, <3>6, <3>7
    <3>9. Total(e, A \cup s) = Total(e, A) + Total(e, s)
      BY <3>8 DEF u
    <3> QED
      BY <3>9
  <2> QED
    BY <2>2, <2>3
<1> HIDE DEF F
<1>3. \A s \in SUBSET B : s \in F
  BY <1>1, <1>2, SubsetInduction
<1>4. B \in F
  BY <1>3
<1> QED
  BY <1>4 DEF F

(* Further amounts that are not above zero do not raise a sum.           *)
LEMMA TotalLowered ==
  ASSUME NEW S, IsFiniteSet(S), NEW e, Whole(e, S), NEW A \in SUBSET S,
         \A p \in S \ A : e[p].amount <= 0
  PROVE  Total(e, S) <= Total(e, A)
<1> DEFINE B == S \ A
<1>1. B \in SUBSET S /\ A \cap B = {} /\ A \cup B = S /\ S \in SUBSET S
  OBVIOUS
<1>2. IsFiniteSet(B) /\ Whole(e, B) /\ \A p \in B : e[p].amount <= 0
  BY FS_Subset DEF Whole
<1> HIDE DEF B
<1>3. Total(e, B) <= 0
  BY <1>2, TotalNegative
<1>4. Total(e, A \cup B) = Total(e, A) + Total(e, B)
  BY <1>1, TotalSplit
<1>5. Total(e, S) = Total(e, A) + Total(e, B)
  BY <1>1, <1>4
<1>6. Total(e, A) \in Int /\ Total(e, B) \in Int
  BY <1>1, TotalWhole
<1> QED
  BY <1>3, <1>5, <1>6

(* Sums of naturals.                                                     *)
Natural(entries, S) == \A p \in S : entries[p].amount \in Nat

(* Naturals are integers.                                                *)
LEMMA NaturalIsWhole ==
  ASSUME NEW e, NEW S, Natural(e, S)
  PROVE  Whole(e, S)
BY DEF Natural, Whole

(* The sum of naturals is one.                                           *)
LEMMA TotalType ==
  ASSUME NEW S, IsFiniteSet(S), NEW e, Natural(e, S)
  PROVE  \A s \in SUBSET S : Total(e, s) \in Nat
<1> DEFINE F == {s \in SUBSET S : Total(e, s) \in Nat}
<1>1. ASSUME NEW s \in SUBSET S, \A t \in SUBSET s : t # s => t \in F
      PROVE  s \in F
  <2>1. CASE s = {}
    BY <2>1, TotalEmpty
  <2>2. CASE s # {}
    <3>1. First(s) \in s /\ IsFiniteSet(s)
      BY <2>2, FirstIn, FS_Subset
    <3>2. s \ {First(s)} \in F
      BY <1>1, <3>1
    <3>3. Total(e, s \ {First(s)}) \in Nat /\ e[First(s)].amount \in Nat
      BY <3>1, <3>2 DEF Natural
    <3>4. Total(e, s) = e[First(s)].amount + Total(e, s \ {First(s)})
      BY <2>2, <3>1, TotalFirst
    <3> QED
      BY <3>3, <3>4
  <2> QED
    BY <2>1, <2>2
<1> HIDE DEF F
<1>2. \A s \in SUBSET S : s \in F
  BY <1>1, SubsetInduction
<1> QED
  BY <1>2 DEF F

(* Fewer payments sum up to no more.                                     *)
LEMMA TotalMonotonic ==
  ASSUME NEW S, IsFiniteSet(S), NEW e, Natural(e, S)
  PROVE  \A t \in SUBSET S : Total(e, t) <= Total(e, S)
<1> DEFINE F == {s \in SUBSET S : \A t \in SUBSET s : Total(e, t) <= Total(e, s)}
<1>1. ASSUME NEW s \in SUBSET S, \A t \in SUBSET s : t # s => t \in F
      PROVE  s \in F
  <2> SUFFICES ASSUME NEW t \in SUBSET s PROVE Total(e, t) <= Total(e, s)
    OBVIOUS
  <2>1. CASE t = s
    BY <2>1, TotalType
  <2>2. CASE t # s
    <3>1. PICK p \in s : p \notin t
      BY <2>2
    <3>2. s \ {p} \in F /\ t \in SUBSET (s \ {p})
      BY <1>1, <3>1
    <3>3. Total(e, t) <= Total(e, s \ {p})
      BY <3>2
    <3>4. Total(e, s) = e[p].amount + Total(e, s \ {p})
      BY NaturalIsWhole, TotalRemove
    <3>5. /\ Total(e, s \ {p}) \in Nat /\ Total(e, t) \in Nat /\ e[p].amount \in Nat
      BY TotalType DEF Natural
    <3> QED
      BY <3>3, <3>4, <3>5
  <2> QED
    BY <2>1, <2>2
<1> HIDE DEF F
<1>2. \A s \in SUBSET S : s \in F
  BY <1>1, SubsetInduction
<1> QED
  BY <1>2 DEF F

(* Each further payment adds at most the largest amount.                 *)
LEMMA TotalBound ==
  ASSUME NEW S, IsFiniteSet(S), NEW e, Natural(e, S), NEW A \in SUBSET S, NEW B \in SUBSET S,
         NEW M \in Nat, \A p \in B : e[p].amount <= M
  PROVE  Total(e, A \cup B) <= Total(e, A) + Cardinality(B) * M
<1> DEFINE F == {s \in SUBSET B : Total(e, A \cup s) <= Total(e, A) + Cardinality(s) * M}
<1>1. IsFiniteSet(B)
  BY FS_Subset
<1>2. ASSUME NEW s \in SUBSET B, \A t \in SUBSET s : t # s => t \in F
      PROVE  s \in F
  <2>1. Total(e, A) \in Nat
    BY TotalType
  <2>2. CASE s = {}
    <3>1. A \cup s = A /\ Cardinality(s) = 0
      BY <2>2, FS_EmptySet
    <3>2. Total(e, A \cup s) = Total(e, A)
      BY <3>1
    <3>3. Total(e, A) <= Total(e, A) + 0 * M
      BY <2>1
    <3> QED
      BY <3>1, <3>2, <3>3
  <2>3. CASE s # {}
    <3>1. PICK p \in s : TRUE
      BY <2>3
    <3> DEFINE r == s \ {p}
    <3>2. IsFiniteSet(s) /\ IsFiniteSet(r) /\ Cardinality(r) = Cardinality(s) - 1
      BY <1>1, <3>1, FS_Subset, FS_RemoveElement
    <3>3. Cardinality(s) \in Nat /\ Cardinality(r) \in Nat
      BY <3>2, FS_CardinalityType
    <3>4. r \in F
      BY <1>2, <3>1
    <3>5. Total(e, A \cup r) <= Total(e, A) + Cardinality(r) * M
      BY <3>4
    <3>6. /\ Total(e, A \cup r) \in Nat /\ Total(e, A \cup s) \in Nat
          /\ e[p].amount \in Nat /\ e[p].amount <= M
      <4>1. A \cup r \in SUBSET S /\ A \cup s \in SUBSET S /\ p \in S /\ p \in B
        BY <3>1
      <4> QED
        BY <4>1, TotalType DEF Natural
    <3>7. Total(e, A \cup s) <= Total(e, A \cup r) + M
      <4>1. CASE p \in A
        <5>1. A \cup s = A \cup r
          BY <4>1
        <5>2. Total(e, A \cup s) = Total(e, A \cup r)
          BY <5>1
        <5> QED
          BY <3>6, <5>2
      <4>2. CASE p \notin A
        <5>1. (A \cup s) \ {p} = A \cup r /\ p \in A \cup s /\ A \cup s \in SUBSET S
          BY <3>1, <4>2
        <5> HIDE DEF r
        <5>2. Total(e, A \cup s) = e[p].amount + Total(e, A \cup r)
          BY <5>1, NaturalIsWhole, TotalRemove
        <5> QED
          BY <3>6, <5>2
      <4> QED
        BY <4>1, <4>2
    <3> HIDE DEF r
    <3>8. Cardinality(s) * M = Cardinality(r) * M + M
      BY <3>2, <3>3
    <3>9. Cardinality(r) * M \in Nat /\ Cardinality(s) * M \in Nat
      BY <3>3
    <3>10. Total(e, A \cup s) <= Total(e, A) + Cardinality(s) * M
      BY <2>1, <3>5, <3>6, <3>7, <3>8, <3>9
    <3> QED
      BY <3>10
  <2> QED
    BY <2>2, <2>3
<1> HIDE DEF F
<1>3. \A s \in SUBSET B : s \in F
  BY <1>1, <1>2, SubsetInduction
<1>4. B \in F
  BY <1>3
<1> QED
  BY <1>4 DEF F
=============================================================================
