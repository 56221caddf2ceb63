----------------------------- MODULE FiniteSums ------------------------------
(***************************************************************************)
(* Sums over finite sets, as the folds of the community modules form them. *)
(* What a recursive definition computes cannot be proved by induction over *)
(* an operator here; the lemmas take the sum as a function of the subsets  *)
(* instead and argue with a least subset of which they fail.               *)
(***************************************************************************)
EXTENDS Integers, FiniteSets, FiniteSetTheorems, TLAPS

(***************************************************************************)
(* Sums over finite sets.  Pick(s) is the element a fold takes out first;  *)
(* a function Sums g when it takes its sets apart in that order.           *)
(***************************************************************************)
Pick(s) == CHOOSE x \in s : TRUE

Sums(h, g, S) ==
  \A s \in SUBSET S : h[s] = IF s = {} THEN 0 ELSE g[Pick(s)] + h[s \ {Pick(s)}]

(* Whatever fails of some subset fails of a least one.                     *)
LEMMA LeastSubset ==
  ASSUME NEW S, IsFiniteSet(S), NEW Bad \in SUBSET SUBSET S, Bad # {}
  PROVE  \E B \in Bad : \A A \in SUBSET B : A # B => A \notin Bad
  <1>1. IsWellFoundedOn(StrictSubsetOrdering(S), FiniteSubsetsOf(S))
    BY FS_StrictSubsetOrderingWellFounded
  <1>2. Bad \subseteq FiniteSubsetsOf(S)
    BY FS_FiniteSubsetsOfFinite
  <1>3. PICK B \in Bad : \A A \in Bad : <<A, B>> \notin StrictSubsetOrdering(S)
    BY <1>1, <1>2, WFMin
  <1>4. ASSUME NEW A \in SUBSET B, A # B, A \in Bad PROVE FALSE
    <2>1. <<A, B>> \in StrictSubsetOrdering(S)
      BY <1>4 DEF StrictSubsetOrdering
    <2> QED BY <1>3, <1>4, <2>1
  <1> QED BY <1>3, <1>4

LEMMA Picked ==
  ASSUME NEW s, s # {}
  PROVE  Pick(s) \in s /\ s \ {Pick(s)} \in SUBSET s /\ s \ {Pick(s)} # s
  BY DEF Pick

LEMMA SumsAgree ==
  ASSUME NEW S, IsFiniteSet(S), NEW g, NEW h, NEW k, Sums(h, g, S), Sums(k, g, S)
  PROVE  \A s \in SUBSET S : h[s] = k[s]
  <1> DEFINE Bad == {s \in SUBSET S : h[s] # k[s]}
  <1>1. SUFFICES ASSUME Bad # {} PROVE FALSE
    OBVIOUS
  <1>2. PICK B \in Bad : \A A \in SUBSET B : A # B => A \notin Bad
    <2>1. Bad \in SUBSET SUBSET S
      OBVIOUS
    <2> HIDE DEF Bad
    <2> QED BY <1>1, <2>1, LeastSubset
  <1>3. B # {}
    BY <1>2 DEF Sums
  <1>4. B \ {Pick(B)} \in SUBSET S /\ h[B \ {Pick(B)}] = k[B \ {Pick(B)}]
    BY <1>2, <1>3, Picked
  <1>5. /\ h[B] = g[Pick(B)] + h[B \ {Pick(B)}]
        /\ k[B] = g[Pick(B)] + k[B \ {Pick(B)}]
    BY <1>2, <1>3 DEF Sums
  <1> QED BY <1>2, <1>4, <1>5

LEMMA SumsAreNatural ==
  ASSUME NEW S, IsFiniteSet(S), NEW g \in [S -> Nat], NEW h, Sums(h, g, S)
  PROVE  \A s \in SUBSET S : h[s] \in Nat
  <1> DEFINE Bad == {s \in SUBSET S : h[s] \notin Nat}
  <1>1. SUFFICES ASSUME Bad # {} PROVE FALSE
    OBVIOUS
  <1>2. PICK B \in Bad : \A A \in SUBSET B : A # B => A \notin Bad
    <2>1. Bad \in SUBSET SUBSET S
      OBVIOUS
    <2> HIDE DEF Bad
    <2> QED BY <1>1, <2>1, LeastSubset
  <1>3. B # {}
    BY <1>2 DEF Sums
  <1>4. h[B \ {Pick(B)}] \in Nat /\ g[Pick(B)] \in Nat
    BY <1>2, <1>3, Picked
  <1>5. h[B] = g[Pick(B)] + h[B \ {Pick(B)}]
    BY <1>2, <1>3 DEF Sums
  <1> QED BY <1>2, <1>4, <1>5

(* The order does not matter: any element may be the first.                *)
LEMMA SumTakesAny ==
  ASSUME NEW S, IsFiniteSet(S), NEW g \in [S -> Nat], NEW h, Sums(h, g, S)
  PROVE  \A s \in SUBSET S : \A x \in s : h[s] = g[x] + h[s \ {x}]
  <1> DEFINE Bad == {s \in SUBSET S : \E x \in s : h[s] # g[x] + h[s \ {x}]}
  <1>1. SUFFICES ASSUME Bad # {} PROVE FALSE
    OBVIOUS
  <1>2. PICK B \in Bad : \A A \in SUBSET B : A # B => A \notin Bad
    <2>1. Bad \in SUBSET SUBSET S
      OBVIOUS
    <2> HIDE DEF Bad
    <2> QED BY <1>1, <2>1, LeastSubset
  <1>3. PICK x \in B : h[B] # g[x] + h[B \ {x}]
    BY <1>2
  <1> DEFINE c == Pick(B)
             R == (B \ {c}) \ {x}
  <1>4. c \in B /\ h[B] = g[c] + h[B \ {c}]
    BY <1>2, <1>3, Picked DEF Sums
  <1>5. c # x /\ B \in SUBSET S
    BY <1>2, <1>3, <1>4
  <1> HIDE DEF c
  <1>6. h[B \ {c}] = g[x] + h[R]
    BY <1>2, <1>3, <1>4, <1>5
  <1>7. h[B \ {x}] = g[c] + h[R]
    <2>1. R = (B \ {x}) \ {c} /\ c \in B \ {x}
      BY <1>4, <1>5
    <2>2. B \ {x} \in SUBSET B /\ B \ {x} # B /\ B \ {x} \in SUBSET S
      BY <1>3, <1>5
    <2>3. h[B \ {x}] = g[c] + h[(B \ {x}) \ {c}]
      BY <1>2, <2>1, <2>2
    <2> QED BY <2>1, <2>3
  <1>8. h[R] \in Nat /\ g[c] \in Nat /\ g[x] \in Nat
    <2>1. R \in SUBSET S
      BY <1>5
    <2> QED BY <1>4, <1>5, <2>1, SumsAreNatural
  <1> QED BY <1>3, <1>4, <1>6, <1>7, <1>8

LEMMA SumExists ==
  ASSUME NEW S, IsFiniteSet(S), NEW g
  PROVE  \E h : h = [s \in SUBSET S |-> h[s]] /\ Sums(h, g, S)
  <1> DEFINE Found(s) == \E h : h = [t \in SUBSET s |-> h[t]] /\ Sums(h, g, s)
             Bad == {s \in SUBSET S : ~Found(s)}
  <1>1. SUFFICES ASSUME Bad # {} PROVE FALSE
    OBVIOUS
  <1>2. PICK B \in Bad : \A A \in SUBSET B : A # B => A \notin Bad
    <2>1. Bad \in SUBSET SUBSET S
      OBVIOUS
    <2> HIDE DEF Bad
    <2> QED BY <1>1, <2>1, LeastSubset
  <1> DEFINE F(s) == CHOOSE h : h = [t \in SUBSET s |-> h[t]] /\ Sums(h, g, s)
             total == [s \in SUBSET B |->
                         IF s = {} THEN 0
                         ELSE g[Pick(s)] + F(s \ {Pick(s)})[s \ {Pick(s)}]]
  <1>3. ASSUME NEW s \in SUBSET B, s # B
        PROVE  Sums(F(s), g, s)
    <2>1. Found(s)
      BY <1>2, <1>3
    <2> QED BY <2>1
  <1>4. \A s \in SUBSET B : IsFiniteSet(s)
    BY FS_Subset
  <1> HIDE DEF F
  <1>5. ASSUME NEW s \in SUBSET B, s # {}, s # B
        PROVE  F(s)[s] = g[Pick(s)] + F(s \ {Pick(s)})[s \ {Pick(s)}]
    <2> DEFINE r == s \ {Pick(s)}
    <2>1. r \in SUBSET s /\ r # s
      BY <1>5, Picked
    <2>2. F(s)[s] = g[Pick(s)] + F(s)[r]
      BY <1>3, <1>5 DEF Sums
    <2> HIDE DEF r
    <2>3. Sums(F(s), g, r)
      BY <1>3, <1>5, <2>1 DEF Sums
    <2>4. Sums(F(r), g, r)
      BY <1>3, <1>5, <2>1
    <2>5. F(s)[r] = F(r)[r]
      BY <1>4, <2>1, <2>3, <2>4, SumsAgree
    <2> QED BY <2>2, <2>5 DEF r
  <1>6. ASSUME NEW s \in SUBSET B, s # B PROVE total[s] = F(s)[s]
    <2>1. CASE s = {}
      BY <1>3, <1>6, <2>1 DEF Sums
    <2>2. CASE s # {}
      BY <1>5, <1>6, <2>2
    <2> QED BY <2>1, <2>2
  <1>7. Sums(total, g, B)
    <2> SUFFICES ASSUME NEW s \in SUBSET B, s # {}
                 PROVE  total[s] = g[Pick(s)] + total[s \ {Pick(s)}]
      BY DEF Sums
    <2>1. s \ {Pick(s)} \in SUBSET B /\ s \ {Pick(s)} # B
      BY Picked
    <2>2. total[s \ {Pick(s)}] = F(s \ {Pick(s)})[s \ {Pick(s)}]
      BY <1>6, <2>1
    <2> QED BY <2>2
  <1>8. total = [s \in SUBSET B |-> total[s]]
    OBVIOUS
  <1> HIDE DEF total
  <1>9. Found(B)
    BY <1>7, <1>8
  <1> QED BY <1>2, <1>9

(* A sum of numbers of at most b each is at most b for every element.      *)
LEMMA OneMoreTimes ==
  ASSUME NEW n \in Nat, NEW b \in Nat
  PROVE  (n + 1) * b = n * b + b
  OBVIOUS

LEMMA SumsAreBounded ==
  ASSUME NEW S, IsFiniteSet(S), NEW g \in [S -> Nat], NEW h, Sums(h, g, S),
         NEW b \in Nat, \A x \in S : g[x] <= b
  PROVE  \A s \in SUBSET S : h[s] <= Cardinality(s) * b
  <1> DEFINE Bad == {s \in SUBSET S : ~(h[s] <= Cardinality(s) * b)}
  <1>1. SUFFICES ASSUME Bad # {} PROVE FALSE
    OBVIOUS
  <1>2. PICK B \in Bad : \A A \in SUBSET B : A # B => A \notin Bad
    <2>1. Bad \in SUBSET SUBSET S
      OBVIOUS
    <2> HIDE DEF Bad
    <2> QED BY <1>1, <2>1, LeastSubset
  <1>3. B # {}
    <2>1. Cardinality({}) * b = 0 /\ h[{}] = 0
      BY FS_EmptySet DEF Sums
    <2>2. ~(h[B] <= Cardinality(B) * b)
      BY <1>2
    <2>3. 0 <= 0
      OBVIOUS
    <2> QED BY <2>1, <2>2, <2>3
  <1> DEFINE R == B \ {Pick(B)}
  <1>4. Pick(B) \in S /\ B \in SUBSET S /\ R \in SUBSET S /\ R \in SUBSET B /\ R # B
    BY <1>2, <1>3, Picked
  <1>5. h[B] = g[Pick(B)] + h[R]
    BY <1>3, <1>4 DEF Sums
  <1>6. Cardinality(R) \in Nat /\ Cardinality(B) = Cardinality(R) + 1
    <2>1. IsFiniteSet(B) /\ Pick(B) \in B
      BY <1>3, <1>4, Picked, FS_Subset
    <2>2. IsFiniteSet(R) /\ Cardinality(R) = Cardinality(B) - 1
      BY <2>1, FS_RemoveElement
    <2> QED BY <2>1, <2>2, FS_CardinalityType
  <1>7. h[R] <= Cardinality(R) * b
    BY <1>2, <1>4
  <1> DEFINE n == Cardinality(R)
             rest == h[R]
             first == g[Pick(B)]
  <1>8. rest \in Nat /\ first \in Nat /\ first <= b
    BY <1>4, SumsAreNatural
  <1>9. (n + 1) * b = n * b + b /\ n * b \in Nat
    BY <1>6, OneMoreTimes
  <1>10. ~(h[B] <= Cardinality(B) * b)
    BY <1>2
  <1> HIDE DEF n, rest, first, R
  <1>11. rest <= n * b
    BY <1>7 DEF n, rest
  <1>12. ~(first + rest <= (n + 1) * b)
    BY <1>5, <1>6, <1>10 DEF n, rest, first
  <1> DEFINE product == n * b
  <1>13. product \in Nat /\ rest <= product /\ ~(first + rest <= product + b)
    BY <1>9, <1>11, <1>12
  <1> HIDE DEF product
  <1> QED BY <1>8, <1>13
=============================================================================
