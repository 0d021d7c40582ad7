---------------------------- MODULE LedgerProofs ----------------------------
(***************************************************************************)
(* Theorems about module Ledger, for any accounts, transactions, bodies    *)
(* and length of the chain.  The inductive invariant is RebuildAgrees: it  *)
(* ties the ledger, which grows block by block, to the chain of bodies, so *)
(* that a fact about the ledger of a chain, proved by induction on its     *)
(* length, becomes one about every state.                                  *)
(***************************************************************************)
EXTENDS Ledger, LedgerRulesProofs, FiniteSetTheorems

---------------------------------------------------------------------------
(* Sums over a finite set of accounts, and what one more or one other      *)
(* summand changes                                                         *)

SumOf(v, S) == MapThenSumSet(LAMBDA x : v[x], S)

SumStep(v, F, s) == IF s = {} THEN 0
                    ELSE v[CHOOSE x \in s : TRUE] + F[s \ {CHOOSE x \in s : TRUE}]

SumsUp(F, v, S) == \A s \in SUBSET S : F[s] = SumStep(v, F, s)

\* F gives the sum of v over every subset of S.
SumFcn(F, v, S) == F \in [SUBSET S -> Int] /\ SumsUp(F, v, S)

IntegersOn(v, S) == \A x \in S : v[x] \in Int

AgreeOn(v, w, U) == \A x \in U : v[x] = w[x]

Small(S, k) == {s \in SUBSET S : Cardinality(s) <= k}

\* One element less.
LEMMA Smaller ==
  ASSUME NEW S, IsFiniteSet(S), NEW s \in SUBSET S, NEW x \in s
  PROVE  /\ IsFiniteSet(s) /\ Cardinality(s) \in Nat \ {0}
         /\ Cardinality(s \ {x}) = Cardinality(s) - 1
<1>1. IsFiniteSet(s)
  BY FS_Subset
<1>2. Cardinality(s \ {x}) = Cardinality(s) - 1 /\ IsFiniteSet(s \ {x})
  BY <1>1, FS_RemoveElement
<1>3. Cardinality(s) \in Nat /\ Cardinality(s \ {x}) \in Nat
  BY <1>1, <1>2, FS_CardinalityType
<1>4. QED
  BY <1>1, <1>2, <1>3

LEMMA SumExists ==
  ASSUME NEW S, IsFiniteSet(S), NEW v, IntegersOn(v, S)
  PROVE  \E F : SumFcn(F, v, S)
<1> DEFINE Level(F, k) == /\ F \in [Small(S, k) -> Int]
                          /\ \A s \in Small(S, k) : F[s] = SumStep(v, F, s)
           T == {k \in Nat : \E F : Level(F, k)}
<1>1. 0 \in T
  <2> DEFINE F == [s \in Small(S, 0) |-> 0]
  <2>1. \A s \in Small(S, 0) : s = {}
    <3>1. SUFFICES ASSUME NEW s \in Small(S, 0), NEW x \in s PROVE FALSE
      OBVIOUS
    <3>2. Cardinality(s) \in Nat \ {0} /\ Cardinality(s) <= 0
      BY <3>1, Smaller DEF Small
    <3>3. QED
      BY <3>2
  <2>2. Level(F, 0)
    BY <2>1 DEF SumStep
  <2>3. QED
    BY <2>2
<1>2. ASSUME NEW k \in T PROVE k + 1 \in T
  <2>1. PICK F : Level(F, k)
    OBVIOUS
  <2>2. k \in Nat
    OBVIOUS
  <2> DEFINE G == [s \in Small(S, k + 1) |-> SumStep(v, F, s)]
             c(s) == CHOOSE x \in s : TRUE
  <2>3. \A s \in Small(S, k + 1) : s # {} =>
           c(s) \in s /\ c(s) \in S /\ s \ {c(s)} \in Small(S, k)
    <3>1. SUFFICES ASSUME NEW s \in Small(S, k + 1), s # {}
                   PROVE  c(s) \in s /\ c(s) \in S /\ s \ {c(s)} \in Small(S, k)
      OBVIOUS
    <3>2. c(s) \in s /\ s \in SUBSET S /\ Cardinality(s) <= k + 1
      BY <3>1 DEF Small
    <3> HIDE DEF c
    <3>3. Cardinality(s) \in Nat /\ Cardinality(s \ {c(s)}) = Cardinality(s) - 1
      BY <3>2, Smaller
    <3>4. QED
      BY <2>2, <3>2, <3>3 DEF Small
  <2>4. \A s \in Small(S, k) : s \in Small(S, k + 1) /\ Cardinality(s) \in Nat
    <3>1. \A s \in SUBSET S : Cardinality(s) \in Nat
      BY FS_Subset, FS_CardinalityType
    <3>2. QED
      BY <2>2, <3>1 DEF Small
  <2>5. \A s \in Small(S, k) : G[s] = F[s]
    BY <2>1, <2>4
  <2>6. G \in [Small(S, k + 1) -> Int]
    <3>1. ASSUME NEW s \in Small(S, k + 1), s # {}
          PROVE  SumStep(v, F, s) \in Int
      <4>1. v[c(s)] \in Int /\ F[s \ {c(s)}] \in Int
        <5> HIDE DEF c
        <5>1. QED
          BY <2>1, <2>3, <3>1 DEF IntegersOn
      <4>2. QED
        BY <3>1, <4>1 DEF SumStep
    <3>2. SumStep(v, F, {}) \in Int
      BY DEF SumStep
    <3>3. QED
      BY <3>1, <3>2
  <2>7. ASSUME NEW s \in Small(S, k + 1)
        PROVE  G[s] = SumStep(v, G, s)
    <3>1. s # {} => G[s \ {c(s)}] = F[s \ {c(s)}]
      <4> HIDE DEF c, G
      <4>1. QED
        BY <2>3, <2>5
    <3>2. SumStep(v, G, s) = SumStep(v, F, s)
      <4> HIDE DEF G
      <4>1. QED
        BY <3>1 DEF SumStep
    <3>3. QED
      BY <3>2
  <2>8. Level(G, k + 1)
    <3> HIDE DEF G
    <3>1. QED
      BY <2>6, <2>7
  <2>9. QED
    <3> HIDE DEF Level, G
    <3>1. QED
      BY <2>2, <2>8
<1>3. T = Nat
  <2> HIDE DEF T
  <2>1. T \in SUBSET Nat
    BY DEF T
  <2>2. QED
    BY <1>1, <1>2, <2>1, NatSetInduction
<1>4. Cardinality(S) \in T
  <2> HIDE DEF T
  <2>1. QED
    BY <1>3, FS_CardinalityType
<1>5. Small(S, Cardinality(S)) = SUBSET S
  BY FS_Subset DEF Small
<1>6. QED
  BY <1>4, <1>5 DEF SumFcn, SumsUp

\* What two such functions have in common where the summands agree.
LEMMA SumCongruent ==
  ASSUME NEW S, IsFiniteSet(S), NEW U \in SUBSET S, NEW v, NEW w, NEW F, NEW G,
         AgreeOn(v, w, U), SumsUp(F, v, S), SumsUp(G, w, S)
  PROVE  \A s \in SUBSET U : F[s] = G[s]
<1> DEFINE T == {n \in Nat : \A s \in SUBSET U : Cardinality(s) = n => F[s] = G[s]}
<1>0. \A s \in SUBSET U : IsFiniteSet(s) /\ Cardinality(s) \in Nat
  BY FS_Subset, FS_CardinalityType
<1>1. 0 \in T
  <2>1. \A s \in SUBSET U : Cardinality(s) = 0 => s = {}
    BY <1>0, FS_EmptySet
  <2>2. F[{}] = G[{}]
    BY DEF SumsUp, SumStep
  <2>3. QED
    BY <2>1, <2>2
<1>2. ASSUME NEW n \in T PROVE n + 1 \in T
  <2>1. SUFFICES ASSUME NEW s \in SUBSET U, Cardinality(s) = n + 1
                 PROVE  F[s] = G[s]
    OBVIOUS
  <2> DEFINE c == CHOOSE x \in s : TRUE
  <2>2. n \in Nat /\ s # {}
    BY <2>1, FS_EmptySet
  <2>3. c \in s /\ c \in U
    BY <2>1, <2>2
  <2> HIDE DEF c
  <2>4. Cardinality(s \ {c}) = n /\ s \ {c} \in SUBSET U
    BY <2>1, <2>2, <2>3, Smaller
  <2>5. F[s \ {c}] = G[s \ {c}] /\ v[c] = w[c]
    BY <2>3, <2>4 DEF AgreeOn
  <2>6. F[s] = v[c] + F[s \ {c}] /\ G[s] = w[c] + G[s \ {c}]
    BY <2>1, <2>2 DEF SumsUp, SumStep, c
  <2>7. QED
    BY <2>5, <2>6
<1>3. T = Nat
  <2> HIDE DEF T
  <2>1. T \in SUBSET Nat
    BY DEF T
  <2>2. QED
    BY <1>1, <1>2, <2>1, NatSetInduction
<1>4. QED
  BY <1>0, <1>3

\* The sum is the value of such a function on the whole set.
LEMMA Sums ==
  ASSUME NEW S, IsFiniteSet(S), NEW v, IntegersOn(v, S)
  PROVE  \E F : SumFcn(F, v, S) /\ SumOf(v, S) = F[S]
<1> DEFINE Iter(F) == F = [s \in SUBSET S |-> SumStep(v, F, s)]
           f == CHOOSE F : Iter(F)
<1>1. SumOf(v, S) = f[S]
  BY DEF SumOf, MapThenSumSet, MapThenFoldSet, SumStep
<1>2. PICK F : SumFcn(F, v, S)
  BY SumExists
<1>3. Iter(F)
  BY <1>2 DEF SumFcn, SumsUp
<1>4. Iter(f)
  BY <1>3
<1>5. SumsUp(f, v, S)
  <2> HIDE DEF f
  <2>1. QED
    BY <1>4 DEF SumsUp
<1>6. F[S] = f[S]
  <2>1. S \in SUBSET S /\ SumsUp(F, v, S) /\ AgreeOn(v, v, S)
    BY <1>2 DEF SumFcn, AgreeOn
  <2> HIDE DEF f
  <2>2. \A s \in SUBSET S : F[s] = f[s]
    BY <1>5, <2>1, SumCongruent
  <2>3. QED
    BY <2>1, <2>2
<1>7. QED
  BY <1>1, <1>2, <1>6

TakesOut(F, v, S) == \A s \in SUBSET S : \A x \in s : F[s] = v[x] + F[s \ {x}]

\* Any element can be taken out of a sum.
LEMMA SumRemove ==
  ASSUME NEW S, IsFiniteSet(S), NEW v, IntegersOn(v, S), NEW F, SumFcn(F, v, S)
  PROVE  TakesOut(F, v, S)
<1> DEFINE T == {n \in Nat : \A s \in SUBSET S : Cardinality(s) = n =>
                               \A x \in s : F[s] = v[x] + F[s \ {x}]}
<1>0. \A s \in SUBSET S : IsFiniteSet(s) /\ Cardinality(s) \in Nat /\ F[s] \in Int
  BY FS_Subset, FS_CardinalityType DEF SumFcn
<1>1. 0 \in T
  <2>1. \A s \in SUBSET S : Cardinality(s) = 0 => s = {}
    BY <1>0, FS_EmptySet
  <2>2. QED
    BY <2>1
<1>2. ASSUME NEW n \in T PROVE n + 1 \in T
  <2>1. SUFFICES ASSUME NEW s \in SUBSET S, Cardinality(s) = n + 1, NEW x \in s
                 PROVE  F[s] = v[x] + F[s \ {x}]
    OBVIOUS
  <2> DEFINE c == CHOOSE y \in s : TRUE
  <2>2. n \in Nat /\ c \in s /\ c \in S /\ x \in S
    BY <2>1
  <2>3. F[s] = v[c] + F[s \ {c}]
    BY <2>1 DEF SumFcn, SumsUp, SumStep
  <2> HIDE DEF c
  <2>4. CASE x = c
    BY <2>3, <2>4
  <2>5. CASE x # c
    <3>1. Cardinality(s \ {c}) = n /\ Cardinality(s \ {x}) = n
      <4> HIDE DEF T
      <4>1. Cardinality(s \ {c}) = Cardinality(s) - 1
        BY <2>2, Smaller
      <4>2. Cardinality(s \ {x}) = Cardinality(s) - 1
        BY Smaller
      <4>3. QED
        BY <2>1, <2>2, <4>1, <4>2
    <3>2. F[s \ {c}] = v[x] + F[(s \ {c}) \ {x}]
      BY <2>2, <2>5, <3>1
    <3>3. F[s \ {x}] = v[c] + F[(s \ {x}) \ {c}]
      BY <2>2, <2>5, <3>1
    <3>4. (s \ {c}) \ {x} = (s \ {x}) \ {c}
      OBVIOUS
    <3>5. v[x] \in Int /\ v[c] \in Int /\ F[(s \ {x}) \ {c}] \in Int
      BY <1>0, <2>2 DEF IntegersOn
    <3> DEFINE z == F[(s \ {x}) \ {c}]
    <3>6. F[s] = v[c] + (v[x] + z) /\ F[s \ {x}] = v[c] + z
      BY <2>3, <3>2, <3>3, <3>4
    <3> HIDE DEF z, T
    <3>7. v[c] + (v[x] + z) = v[x] + (v[c] + z)
      BY <3>5 DEF z
    <3>8. QED
      BY <3>6, <3>7
  <2>6. QED
    BY <2>4, <2>5
<1>3. T = Nat
  <2> HIDE DEF T
  <2>1. T \in SUBSET Nat
    BY DEF T
  <2>2. QED
    BY <1>1, <1>2, <2>1, NatSetInduction
<1>4. QED
  BY <1>0, <1>3 DEF TakesOut

\* A sum after one of its summands changed.
LEMMA SumUpdate ==
  ASSUME NEW S, IsFiniteSet(S), NEW v, IntegersOn(v, S), NEW w, IntegersOn(w, S),
         NEW a \in S, AgreeOn(v, w, S \ {a})
  PROVE  /\ SumOf(w, S) = SumOf(v, S) - v[a] + w[a]
         /\ SumOf(v, S) \in Int
<1>1. w[a] \in Int /\ v[a] \in Int
  BY DEF IntegersOn
<1>2. PICK F : SumFcn(F, v, S) /\ SumOf(v, S) = F[S]
  BY Sums
<1>3. PICK G : SumFcn(G, w, S) /\ SumOf(w, S) = G[S]
  BY <1>1, Sums
<1>4. S \in SUBSET S /\ S \ {a} \in SUBSET S /\ S \ {a} \in SUBSET (S \ {a})
  OBVIOUS
<1>5. F[S] = v[a] + F[S \ {a}] /\ F[S \ {a}] \in Int
  <2>0. TakesOut(F, v, S)
    BY <1>2, SumRemove
  <2>1. F[S] = v[a] + F[S \ {a}]
    BY <1>4, <2>0 DEF TakesOut
  <2>2. QED
    BY <1>2, <1>4, <2>1 DEF SumFcn
<1>6. G[S] = w[a] + G[S \ {a}]
  <2>1. TakesOut(G, w, S)
    BY <1>3, SumRemove
  <2>2. QED
    BY <1>4, <2>1 DEF TakesOut
<1>7. F[S \ {a}] = G[S \ {a}]
  <2> DEFINE U == S \ {a}
  <2>1. AgreeOn(v, w, U) /\ U \in SUBSET S
    OBVIOUS
  <2>2. SumsUp(F, v, S) /\ SumsUp(G, w, S)
    BY <1>2, <1>3 DEF SumFcn
  <2> HIDE DEF U
  <2>3. \A s \in SUBSET U : F[s] = G[s]
    BY <2>1, <2>2, SumCongruent
  <2>4. QED
    BY <2>3 DEF U
<1>8. QED
  BY <1>1, <1>2, <1>3, <1>5, <1>6, <1>7

\* A sum of nothing but zeros is zero.
LEMMA SumOfZeros ==
  ASSUME NEW S, IsFiniteSet(S)
  PROVE  SumOf([x \in S |-> 0], S) = 0
<1> DEFINE v == [x \in S |-> 0]
           F == [s \in SUBSET S |-> 0]
<1>1. IntegersOn(v, S) /\ S \in SUBSET S
  BY DEF IntegersOn
<1>2. SumsUp(F, v, S)
  <2>1. ASSUME NEW s \in SUBSET S, s # {}
        PROVE  v[CHOOSE x \in s : TRUE] = 0 /\ F[s \ {CHOOSE x \in s : TRUE}] = 0
    <3>1. (CHOOSE x \in s : TRUE) \in s
      BY <2>1
    <3>2. \A x \in s : v[x] = 0 /\ F[s \ {x}] = 0
      OBVIOUS
    <3> HIDE DEF v, F
    <3>3. QED
      BY <3>1, <3>2
  <2>2. QED
    BY <2>1 DEF SumStep, SumsUp
<1>3. F[S] = 0
  OBVIOUS
<1> HIDE DEF v, F
<1>4. PICK G : SumFcn(G, v, S) /\ SumOf(v, S) = G[S]
  BY <1>1, Sums
<1>5. \A s \in SUBSET S : G[s] = F[s]
  <2>1. SumsUp(G, v, S)
    BY <1>4 DEF SumFcn
  <2>2. AgreeOn(v, v, S)
    BY DEF AgreeOn
  <2>3. QED
    BY <1>1, <1>2, <2>1, <2>2, SumCongruent
<1>6. QED
  BY <1>1, <1>3, <1>4, <1>5 DEF v

\* No summand exceeds a sum of natural numbers.
LEMMA SumBounds ==
  ASSUME NEW S, IsFiniteSet(S), NEW v \in [S -> Nat], NEW a \in S
  PROVE  v[a] <= SumOf(v, S)
<1>9. IntegersOn(v, S)
  BY DEF IntegersOn
<1>1. PICK F : SumFcn(F, v, S) /\ SumOf(v, S) = F[S]
  BY <1>9, Sums
<1> DEFINE T == {n \in Nat : \A s \in SUBSET S : Cardinality(s) = n => F[s] \in Nat}
<1>0. \A s \in SUBSET S : IsFiniteSet(s) /\ Cardinality(s) \in Nat
  BY FS_Subset, FS_CardinalityType
<1>2. 0 \in T
  <2>1. \A s \in SUBSET S : Cardinality(s) = 0 => s = {}
    BY <1>0, FS_EmptySet
  <2>2. F[{}] = 0
    BY <1>1 DEF SumFcn, SumsUp, SumStep
  <2>3. QED
    BY <2>1, <2>2
<1>3. ASSUME NEW n \in T PROVE n + 1 \in T
  <2>1. SUFFICES ASSUME NEW s \in SUBSET S, Cardinality(s) = n + 1
                 PROVE  F[s] \in Nat
    OBVIOUS
  <2>2. n \in Nat /\ s # {}
    BY <2>1, FS_EmptySet
  <2>3. PICK x \in s : TRUE
    BY <2>2
  <2>4. F[s] = v[x] + F[s \ {x}]
    BY <1>1, <1>9, SumRemove DEF TakesOut
  <2>5. Cardinality(s \ {x}) = n
    <3> HIDE DEF T
    <3>1. Cardinality(s \ {x}) = Cardinality(s) - 1
      BY Smaller
    <3>2. QED
      BY <2>1, <2>2, <3>1
  <2>6. v[x] \in Nat /\ F[s \ {x}] \in Nat
    BY <2>5
  <2>7. QED
    BY <2>4, <2>6
<1>4. T = Nat
  <2> HIDE DEF T
  <2>1. T \in SUBSET Nat
    BY DEF T
  <2>2. QED
    BY <1>2, <1>3, <2>1, NatSetInduction
<1>5. S \in SUBSET S /\ S \ {a} \in SUBSET S
  OBVIOUS
<1>6. F[S \ {a}] \in Nat
  BY <1>0, <1>4, <1>5
<1>7. F[S] = v[a] + F[S \ {a}] /\ v[a] \in Nat
  BY <1>1, <1>5, <1>9, SumRemove DEF TakesOut
<1>8. QED
  BY <1>1, <1>6, <1>7

LEMMA SumType ==
  ASSUME NEW S, IsFiniteSet(S), NEW v, IntegersOn(v, S)
  PROVE  SumOf(v, S) \in Int
<1>1. PICK F : SumFcn(F, v, S) /\ SumOf(v, S) = F[S]
  BY Sums
<1>2. S \in SUBSET S
  OBVIOUS
<1>3. QED
  BY <1>1, <1>2 DEF SumFcn

\* Sums of the same summands.
LEMMA SumSame ==
  ASSUME NEW S, IsFiniteSet(S), NEW v, NEW w, IntegersOn(v, S), AgreeOn(v, w, S)
  PROVE  SumOf(v, S) = SumOf(w, S)
<1>1. IntegersOn(w, S) /\ S \in SUBSET S
  BY DEF IntegersOn, AgreeOn
<1>2. PICK F : SumFcn(F, v, S) /\ SumOf(v, S) = F[S]
  BY Sums
<1>3. PICK G : SumFcn(G, w, S) /\ SumOf(w, S) = G[S]
  BY <1>1, Sums
<1>4. \A s \in SUBSET S : F[s] = G[s]
  BY <1>1, <1>2, <1>3, SumCongruent DEF SumFcn
<1>5. QED
  BY <1>1, <1>2, <1>3, <1>4

\* One summand more.
LEMMA SumExtend ==
  ASSUME NEW S, IsFiniteSet(S), NEW x, x \notin S, NEW v, IntegersOn(v, S \cup {x})
  PROVE  SumOf(v, S \cup {x}) = v[x] + SumOf(v, S)
<1> DEFINE more == S \cup {x}
<1>1. IsFiniteSet(more)
  BY FS_AddElement
<1>2. IntegersOn(v, S) /\ AgreeOn(v, v, S)
  BY DEF IntegersOn, AgreeOn
<1>3. S \in SUBSET more /\ more \in SUBSET more /\ S \in SUBSET S /\ x \in more /\ more \ {x} = S
  OBVIOUS
<1> HIDE DEF more
<1>4. PICK F : SumFcn(F, v, more) /\ SumOf(v, more) = F[more]
  BY <1>1, Sums DEF more
<1>5. PICK G : SumFcn(G, v, S) /\ SumOf(v, S) = G[S]
  BY <1>2, Sums
<1>6. F[more] = v[x] + F[S]
  <2>1. TakesOut(F, v, more)
    BY <1>1, <1>4, SumRemove DEF more
  <2>2. QED
    BY <1>3, <2>1 DEF TakesOut
<1>7. F[S] = G[S]
  <2>1. SumsUp(F, v, S) /\ SumsUp(G, v, S)
    BY <1>3, <1>4, <1>5 DEF SumFcn, SumsUp
  <2>0. S \in SUBSET S /\ AgreeOn(v, v, S)
    BY <1>2
  <2>2. \A s \in SUBSET S : F[s] = G[s]
    BY <2>0, <2>1, SumCongruent
  <2>3. QED
    BY <1>3, <2>2
<1>8. QED
  BY <1>4, <1>5, <1>6, <1>7 DEF more

LEMMA SumOfNothing ==
  ASSUME NEW v
  PROVE  SumOf(v, {}) = 0
<1>1. IsFiniteSet({}) /\ IntegersOn(v, {}) /\ {} \in SUBSET {}
  BY FS_EmptySet DEF IntegersOn
<1>2. PICK F : SumFcn(F, v, {}) /\ SumOf(v, {}) = F[{}]
  BY <1>1, Sums
<1>3. QED
  BY <1>1, <1>2 DEF SumFcn, SumsUp, SumStep

---------------------------------------------------------------------------
(* The money in a ledger                                                   *)

Supply(l) == SumOf(l.balances, Address)

\* Amount and fee of every payment fit in a uint64 together.
SpendingFits == \A t \in Tx : Amount[t] + Fee[t] < Modulus

LEMMA SupplyType ==
  ASSUME IsFiniteSet(Address), NEW l \in Ledgers
  PROVE  Supply(l) \in Int
<1>1. IntegersOn(l.balances, Address)
  BY LedgerAssumption DEF Ledgers, LedgerAssumption, IntegersOn
<1>2. QED
  BY <1>1, SumType DEF Supply

\* Setting one balance.
LEMMA SupplyUpdate ==
  ASSUME IsFiniteSet(Address), NEW v \in [Address -> 0 .. Modulus - 1],
         NEW a \in Address, NEW n \in Nat
  PROVE  /\ SumOf([v EXCEPT ![a] = n], Address) = SumOf(v, Address) - v[a] + n
         /\ SumOf(v, Address) \in Int
         /\ v[a] \in Nat
<1>1. IntegersOn(v, Address) /\ v[a] \in Nat /\ n \in Int
  BY LedgerAssumption DEF LedgerAssumption, IntegersOn
<1>2. SumOf([v EXCEPT ![a] = n], Address) = SumOf(v, Address) - v[a] + n
  <2> DEFINE w == [v EXCEPT ![a] = n]
  <2>1. IntegersOn(w, Address) /\ w[a] = n /\ AgreeOn(v, w, Address \ {a})
    BY <1>1 DEF AgreeOn, IntegersOn
  <2> HIDE DEF w
  <2>2. SumOf(w, Address) = SumOf(v, Address) - v[a] + w[a]
    BY <1>1, <2>1, SumUpdate
  <2>3. QED
    BY <2>1, <2>2 DEF w
<1>3. SumOf(v, Address) \in Int
  BY <1>1, SumType
<1>4. QED
  BY <1>1, <1>2, <1>3

\* Crediting pays out no more than the amount.
LEMMA CreditSupply ==
  ASSUME IsFiniteSet(Address), NEW l \in Ledgers, NEW t \in Tx
  PROVE  /\ Supply(Credit(l, t)) <= Supply(l) + Amount[t]
         /\ Supply(l) \in Int /\ Supply(Credit(l, t)) \in Int
<1> DEFINE bal == l.balances
           n == Uint64(bal[To[t]] + Amount[t])
<1>1. To[t] \in Address /\ Amount[t] \in Nat /\ bal \in [Address -> 0 .. Modulus - 1]
  BY LedgerAssumption DEF LedgerAssumption, Ledgers
<1>2. bal[To[t]] \in Nat
  BY <1>1, SupplyUpdate
<1>3. n \in Nat /\ n <= bal[To[t]] + Amount[t]
  <2>1. bal[To[t]] + Amount[t] \in Nat /\ Modulus \in Nat
    BY <1>1, <1>2, LedgerAssumption DEF LedgerAssumption
  <2>2. QED
    BY <2>1, Uint64Type
<1>4. Credit(l, t).balances = [bal EXCEPT ![To[t]] = n]
  BY DEF Credit
<1> HIDE DEF bal, n
<1>5. SumOf([bal EXCEPT ![To[t]] = n], Address) = SumOf(bal, Address) - bal[To[t]] + n
      /\ SumOf(bal, Address) \in Int
  BY <1>1, <1>3, SupplyUpdate
<1>6. Supply(l) = SumOf(bal, Address)
      /\ Supply(Credit(l, t)) = SumOf([bal EXCEPT ![To[t]] = n], Address)
  BY <1>4 DEF Supply, bal
<1>7. QED
  BY <1>1, <1>2, <1>3, <1>5, <1>6

\* A payment takes its fee out of the accounts, and possibly more.
LEMMA SpendSupply ==
  ASSUME IsFiniteSet(Address), SpendingFits,
         NEW l \in Ledgers, NEW t \in Tx, ~IsCoinbase(t), CanSpend(l, t)
  PROVE  Supply(Spend(l, t)) + Fee[t] <= Supply(l)
<1> DEFINE bal == l.balances
           n == bal[From[t]] - Debit(t)
           mid == [l EXCEPT !.balances[From[t]] = @ - Debit(t)]
<1>1. /\ From[t] \in Address /\ Debit(t) \in 0 .. bal[From[t]] /\ mid \in Ledgers
      /\ bal \in [Address -> 0 .. Modulus - 1]
  BY DebitType DEF Ledgers
<1>2. Amount[t] \in Nat /\ Fee[t] \in Nat /\ Debit(t) = Amount[t] + Fee[t]
  <2>1. Amount[t] \in Nat /\ Fee[t] \in Nat /\ Amount[t] + Fee[t] < Modulus
    BY LedgerAssumption DEF LedgerAssumption, SpendingFits
  <2>2. QED
    BY <2>1, Uint64Type DEF Debit
<1>3. bal[From[t]] \in Nat
  BY <1>1, SupplyUpdate
<1>4. n \in Nat
  BY <1>1, <1>3
<1>5. mid.balances = [bal EXCEPT ![From[t]] = n]
  BY <1>1 DEF Ledgers
<1>6. Spend(l, t) = Credit(mid, t)
  BY DEF Spend
<1> HIDE DEF bal, n, mid
<1>7. SumOf([bal EXCEPT ![From[t]] = n], Address) = SumOf(bal, Address) - bal[From[t]] + n
      /\ SumOf(bal, Address) \in Int
  BY <1>1, <1>4, SupplyUpdate
<1>8. Supply(mid) = Supply(l) - Debit(t) /\ Supply(l) \in Int
  <2>1. Supply(l) = SumOf(bal, Address)
    BY DEF Supply, bal
  <2>2. Supply(mid) = SumOf([bal EXCEPT ![From[t]] = n], Address)
    BY <1>5 DEF Supply
  <2>3. QED
    BY <1>1, <1>3, <1>7, <2>1, <2>2 DEF n
<1>9. /\ Supply(Credit(mid, t)) <= Supply(mid) + Amount[t]
      /\ Supply(mid) \in Int /\ Supply(Credit(mid, t)) \in Int
  BY <1>1, CreditSupply
<1>10. QED
  BY <1>2, <1>6, <1>8, <1>9

\* What the payments of a body take out covers the fees they pay.
LEMMA SpendRunSupply ==
  ASSUME IsFiniteSet(Address), SpendingFits,
         NEW l \in Ledgers, NEW txs \in Seq(Tx), NEW h, SpendRun(h, l, txs)
  PROVE  \A i \in 0 .. Len(txs) : Supply(h[i].ledger) + h[i].fees <= Supply(l)
<1> DEFINE n == Len(txs)
           T == {i \in Nat : Supply(h[i].ledger) + h[i].fees <= Supply(l)}
<1>1. n \in Nat /\ \A i \in 1 .. n : txs[i] \in Tx
  OBVIOUS
<1>2. \A k \in Ledgers : Supply(k) \in Int
  BY SupplyType
<1>3. 0 \in T
  <2>1. h[0].ledger = l /\ h[0].fees = 0
    BY DEF SpendRun, SpendStart
  <2>2. QED
    BY <1>2, <2>1
<1>4. ASSUME NEW i \in 0 .. n - 1, Supply(h[i].ledger) + h[i].fees <= Supply(l)
      PROVE  Supply(h[i + 1].ledger) + h[i + 1].fees <= Supply(l)
  <2> DEFINE t == txs[i + 1]
  <2>1. i + 1 \in 1 .. n /\ (i + 1) - 1 = i /\ i \in 0 .. n /\ t \in Tx
    BY <1>1
  <2>2. h[i + 1] = SpendStep(h[i], t) /\ h[i] \in Payers
    <3> HIDE DEF n
    <3>1. \A j \in 1 .. n : h[j] = SpendStep(h[j-1], txs[j])
      BY DEF SpendRun, n
    <3>2. h \in [0 .. n -> Payers]
      BY DEF SpendRun, n
    <3>3. QED
      BY <2>1, <3>1, <3>2
  <2> HIDE DEF n, t
  <2>3. CASE IsCoinbase(t)
    <3>1. h[i + 1] = h[i]
      BY <2>2, <2>3 DEF SpendStep
    <3>2. QED
      BY <1>4, <3>1
  <2>4. CASE ~IsCoinbase(t) /\ h[i].ok /\ CanSpend(h[i].ledger, t)
    <3>1. /\ h[i + 1].ledger = Spend(h[i].ledger, t)
          /\ h[i + 1].fees = Uint64(h[i].fees + Fee[t])
          /\ h[i].ledger \in Ledgers /\ h[i].fees \in Nat
      BY <2>2, <2>4, LedgerAssumption DEF SpendStep, Payers, LedgerAssumption
    <3>2. Fee[t] \in Nat
      BY <2>1, LedgerAssumption DEF LedgerAssumption
    <3>3. Uint64(h[i].fees + Fee[t]) <= h[i].fees + Fee[t] /\ Uint64(h[i].fees + Fee[t]) \in Nat
      <4>1. h[i].fees + Fee[t] \in Nat /\ Modulus \in Nat
        BY <3>1, <3>2, LedgerAssumption DEF LedgerAssumption
      <4>2. QED
        BY <4>1, Uint64Type
    <3>4. Supply(Spend(h[i].ledger, t)) + Fee[t] <= Supply(h[i].ledger)
      BY <2>1, <2>4, <3>1, SpendSupply
    <3>5. Spend(h[i].ledger, t) \in Ledgers
      BY <2>1, <2>4, <3>1, SpendType
    <3>6. Supply(Spend(h[i].ledger, t)) \in Int /\ Supply(h[i].ledger) \in Int /\ Supply(l) \in Int
      BY <1>2, <3>1, <3>5
    <3>7. QED
      BY <1>4, <3>1, <3>2, <3>3, <3>4, <3>6
  <2>5. CASE ~IsCoinbase(t) /\ ~(h[i].ok /\ CanSpend(h[i].ledger, t))
    <3>1. h[i + 1].ledger = h[i].ledger /\ h[i + 1].fees = h[i].fees
      BY <2>2, <2>5 DEF SpendStep, Payers
    <3>2. QED
      BY <1>4, <3>1
  <2>6. QED
    BY <2>3, <2>4, <2>5
<1>5. QED
  <2>1. \A i \in 0 .. n - 1 : i \in T => i + 1 \in T
    BY <1>1, <1>4
  <2> HIDE DEF T
  <2>2. \A i \in 0 .. n : i \in T
    BY <1>1, <1>3, <2>1, BoundedInduction
  <2>3. QED
    BY <2>2 DEF T

\* A block adds at most one mining reward.
LEMMA ApplySupply ==
  ASSUME IsFiniteSet(Address), SpendingFits,
         NEW l \in Ledgers, NEW txs \in Seq(Tx), applyBlock(l, txs).ok
  PROVE  /\ Supply(applyBlock(l, txs).ledger) <= Supply(l) + MiningReward
         /\ Supply(l) \in Int /\ Supply(applyBlock(l, txs).ledger) \in Int
<1> DEFINE n == Len(txs)
           paid == SpendAll(l, txs)
<1>1. PICK h : SpendRun(h, l, txs) /\ paid = h[n]
  BY SpendAllRuns
<1>2. n \in Nat /\ n \in 0 .. n
  OBVIOUS
<1>3. Supply(paid.ledger) + paid.fees <= Supply(l)
  BY <1>1, <1>2, SpendRunSupply
<1>4. paid.ledger \in Ledgers /\ paid.fees \in Nat
  <2>1. paid \in Payers
    <3> HIDE DEF n
    <3>1. h \in [0 .. n -> Payers]
      BY <1>1 DEF SpendRun, n
    <3>2. QED
      BY <1>1, <1>2, <3>1
  <2>2. QED
    BY <2>1, LedgerAssumption DEF Payers, LedgerAssumption
<1>5. MiningReward \in Nat
  BY LedgerAssumption DEF LedgerAssumption
<1>6. \A k \in Ledgers, t \in Tx : /\ Supply(Credit(k, t)) <= Supply(k) + Amount[t]
                                  /\ Supply(k) \in Int /\ Supply(Credit(k, t)) \in Int
  BY CreditSupply
<1>7. CASE HasCoinbase(txs)
  <2>1. txs[1] \in Tx
    BY <1>7 DEF HasCoinbase
  <2>2. applyBlock(l, txs).ledger = Credit(paid.ledger, txs[1])
        /\ Amount[txs[1]] <= Uint64(MiningReward + paid.fees)
    BY <1>7 DEF applyBlock, RewardAllowed
  <2>3. Amount[txs[1]] \in Nat
    BY <2>1, LedgerAssumption DEF LedgerAssumption
  <2> HIDE DEF paid, n
  <2>4. Uint64(MiningReward + paid.fees) <= MiningReward + paid.fees
        /\ Uint64(MiningReward + paid.fees) \in Nat
    <3>1. MiningReward + paid.fees \in Nat /\ Modulus \in Nat
      BY <1>4, <1>5, LedgerAssumption DEF LedgerAssumption
    <3>2. QED
      BY <3>1, Uint64Type
  <2>5. /\ Supply(Credit(paid.ledger, txs[1])) <= Supply(paid.ledger) + Amount[txs[1]]
        /\ Supply(paid.ledger) \in Int /\ Supply(Credit(paid.ledger, txs[1])) \in Int
        /\ Supply(l) \in Int
    BY <1>4, <1>6, <2>1
  <2>6. QED
    BY <1>3, <1>4, <1>5, <2>2, <2>3, <2>4, <2>5
<1>8. CASE ~HasCoinbase(txs)
  <2>1. applyBlock(l, txs).ledger = paid.ledger
    BY <1>8 DEF applyBlock
  <2> HIDE DEF paid
  <2>2. Supply(l) \in Int /\ Supply(paid.ledger) \in Int
    BY <1>4, SupplyType
  <2>3. QED
    BY <1>3, <1>4, <1>5, <2>1, <2>2
<1>9. QED
  BY <1>7, <1>8

Chains == Seq(Seq(Tx))

\* A rebuild creates at most one mining reward per block.
LEMMA RebuildSupply ==
  ASSUME IsFiniteSet(Address), SpendingFits, NEW bodies \in Chains,
         RebuildFromChain(bodies).ok
  PROVE  Supply(RebuildFromChain(bodies).ledger) <= MiningReward * Len(bodies)
<1> DEFINE P(c) == RebuildFromChain(c).ok =>
                     Supply(RebuildFromChain(c).ledger) <= MiningReward * Len(c)
           T == {n \in Nat : \A c \in Chains : Len(c) = n => P(c)}
<1>0. MiningReward \in Nat
  BY LedgerAssumption DEF LedgerAssumption
<1>1. 0 \in T
  <2>1. Supply(NewLedger) = 0
    BY SumOfZeros DEF Supply, NewLedger
  <2>2. MiningReward * Len(<<>>) = 0
    BY <1>0
  <2>3. P(<<>>)
    BY <2>1, <2>2, RebuildEmpty
  <2>4. \A c \in Chains : Len(c) = 0 => c = <<>>
    BY DEF Chains
  <2> HIDE DEF P
  <2>5. QED
    BY <2>3, <2>4
<1>2. ASSUME NEW n \in T PROVE n + 1 \in T
  <2>1. SUFFICES ASSUME NEW c \in Chains, Len(c) = n + 1
                 PROVE  P(c)
    OBVIOUS
  <2>2. PICK front \in Chains, last \in Seq(Tx) : c = Append(front, last) /\ Len(front) = n
    <3>1. SubSeq(c, 1, n) \in Chains /\ Len(SubSeq(c, 1, n)) = n /\ c[n + 1] \in Seq(Tx)
      BY <2>1 DEF Chains
    <3>2. c = Append(SubSeq(c, 1, n), c[n + 1])
      BY <2>1 DEF Chains
    <3>3. QED
      BY <3>1, <3>2
  <2>3. P(front) /\ RebuildFromChain(front) \in Results
    BY <2>2, RebuildSettles DEF Chains
  <2>4. RebuildFromChain(c) = IF RebuildFromChain(front).ok
                              THEN applyBlock(RebuildFromChain(front).ledger, last)
                              ELSE RebuildFromChain(front)
    BY <2>2, RebuildAppend DEF Chains
  <2>5. CASE RebuildFromChain(front).ok
    <3> DEFINE l == RebuildFromChain(front).ledger
               r == applyBlock(l, last)
    <3>1. l \in Ledgers /\ RebuildFromChain(c) = r
      BY <2>3, <2>4, <2>5 DEF Results
    <3>2. Supply(l) <= MiningReward * n
      BY <2>2, <2>3, <2>5
    <3>3. MiningReward * (n + 1) = MiningReward * n + MiningReward /\ MiningReward * n \in Int
      BY <1>0
    <3> HIDE DEF l
    <3>4. r.ok => /\ Supply(r.ledger) <= Supply(l) + MiningReward
                  /\ Supply(l) \in Int /\ Supply(r.ledger) \in Int
      BY <2>2, <3>1, ApplySupply
    <3> DEFINE m == MiningReward * n
    <3> HIDE DEF r, m
    <3>5. Supply(l) <= m /\ MiningReward * Len(c) = m + MiningReward /\ m \in Int
      BY <2>1, <3>2, <3>3 DEF m
    <3>6. QED
      BY <1>0, <3>1, <3>4, <3>5
  <2>6. CASE ~RebuildFromChain(front).ok
    BY <2>4, <2>6
  <2>7. QED
    BY <2>5, <2>6
<1>3. T = Nat
  <2> HIDE DEF T
  <2>1. T \in SUBSET Nat
    BY DEF T
  <2>2. QED
    BY <1>1, <1>2, <2>1, NatSetInduction
<1>4. QED
  <2>1. Len(bodies) \in T
    BY <1>3 DEF Chains
  <2>2. QED
    BY <2>1

---------------------------------------------------------------------------
(* The body the miner builds                                               *)

\* The miner's sum of the fees is the one of module LedgerRulesProofs.
LEMMA TotalFeesIsSum ==
  ASSUME NEW txs
  PROVE  TotalFees(txs) = FeeSum(txs)
BY DEF TotalFees, FeeSum, FoldLeft, MapThenFoldSet

\* A body that the miner builds from a pool applies to the same ledger.
LEMMA MinedBodyApplies ==
  ASSUME ledger \in Ledgers, NEW pending \in Seq(Tx), NEW body \in MinerBodies(pending)
  PROVE  applyBlock(ledger, body).ok
<1> DEFINE kept == FilterValidTransactions(ledger, pending)
<1>1. PICK c \in Tx : /\ IsCoinbase(c)
                      /\ Amount[c] = Uint64(MiningReward + TotalFees(kept))
                      /\ body = <<c>> \o kept
  BY DEF MinerBodies
<1>2. Amount[c] = Uint64(MiningReward + FeeSum(kept))
  BY <1>1, TotalFeesIsSum
<1> HIDE DEF kept
<1>3. applyBlock(ledger, <<c>> \o kept).ok
  BY <1>1, <1>2, BuiltBodyApplies DEF kept
<1>4. QED
  BY <1>1, <1>3

\* The miner can create a coinbase of any amount (NewCoinbaseTransaction).
AnyReward == \A n \in 0 .. Modulus - 1 : \E c \in Tx : IsCoinbase(c) /\ Amount[c] = n

LEMMA MinerFindsReward ==
  ASSUME ledger \in Ledgers, NEW pending \in Seq(Tx), AnyReward
  PROVE  MinerBodies(pending) # {}
<1> DEFINE kept == FilterValidTransactions(ledger, pending)
           reward == Uint64(MiningReward + TotalFees(kept))
<1>1. kept \in Seq(Tx)
  BY FilterPays DEF Pays, Keepers
<1> HIDE DEF kept
<1>2. TotalFees(kept) \in 0 .. Modulus - 1
  BY <1>1, TotalFeesIsSum, FeeSumRuns
<1>3. reward \in 0 .. Modulus - 1
  <2>1. MiningReward + TotalFees(kept) \in Nat
    BY <1>2, LedgerAssumption DEF LedgerAssumption
  <2>2. QED
    BY <2>1, Uint64Type
<1> HIDE DEF reward
<1>4. PICK c \in Tx : IsCoinbase(c) /\ Amount[c] = reward
  BY <1>3 DEF AnyReward
<1>5. <<c>> \o kept \in MinerBodies(pending)
  BY <1>4 DEF MinerBodies, kept, reward
<1>6. QED
  BY <1>5

---------------------------------------------------------------------------
(* What the accounts received and paid over the transactions of a chain    *)

Amounts(txs) == [i \in DOMAIN txs |-> Amount[txs[i]]]
Costs(txs) == [i \in DOMAIN txs |-> Amount[txs[i]] + Fee[txs[i]]]
Receipts(txs, a) == {i \in DOMAIN txs : To[txs[i]] = a}
Payouts(txs, a) == {i \in DOMAIN txs : From[txs[i]] = a}

\* Over the first k transactions.
Net(txs, k, a) ==
  SumOf(Amounts(txs), Receipts(txs, a) \cap (1 .. k)) - SumOf(Costs(txs), Payouts(txs, a) \cap (1 .. k))

Gain(t, a) == IF To[t] = a THEN Amount[t] ELSE 0
Loss(t, a) == IF From[t] = a THEN Amount[t] + Fee[t] ELSE 0

\* A sum over positions up to k + 1.
LEMMA SumNext ==
  ASSUME NEW n \in Nat, NEW v, IntegersOn(v, 1 .. n), NEW P \in SUBSET (1 .. n),
         NEW k \in 0 .. n - 1
  PROVE  /\ SumOf(v, P \cap (1 .. k + 1)) =
              SumOf(v, P \cap (1 .. k)) + (IF k + 1 \in P THEN v[k + 1] ELSE 0)
         /\ SumOf(v, P \cap (1 .. k)) \in Int
<1> DEFINE s == P \cap (1 .. k)
           r == P \cap (1 .. k + 1)
<1>1. IsFiniteSet(s)
  <2>1. IsFiniteSet(1 .. n)
    BY FS_Interval
  <2>2. s \in SUBSET (1 .. n)
    OBVIOUS
  <2>3. QED
    BY <2>1, <2>2, FS_Subset
<1>2. IntegersOn(v, s) /\ IntegersOn(v, r) /\ k + 1 \notin s
  BY DEF IntegersOn
<1>3. SumOf(v, s) \in Int
  BY <1>1, <1>2, SumType
<1>4. CASE k + 1 \in P
  <2>1. r = s \cup {k + 1}
    BY <1>4
  <2>2. v[k + 1] \in Int
    BY <1>4 DEF IntegersOn
  <2> HIDE DEF s, r
  <2>3. SumOf(v, s \cup {k + 1}) = v[k + 1] + SumOf(v, s)
    BY <1>1, <1>2, <2>1, SumExtend
  <2>4. SumOf(v, r) = SumOf(v, s) + v[k + 1]
    BY <1>3, <2>1, <2>2, <2>3
  <2>5. QED
    BY <1>3, <1>4, <2>4 DEF s, r
<1>5. CASE k + 1 \notin P
  <2>1. r = s
    BY <1>5
  <2> HIDE DEF s, r
  <2>2. SumOf(v, r) = SumOf(v, s) + 0
    BY <1>3, <2>1
  <2>3. QED
    BY <1>3, <1>5, <2>2 DEF s, r
<1>6. QED
  BY <1>4, <1>5

\* One transaction more.
LEMMA NetNext ==
  ASSUME NEW txs \in Seq(Tx), NEW k \in 0 .. Len(txs) - 1, NEW a \in Address
  PROVE  /\ Net(txs, k + 1, a) = Net(txs, k, a) + Gain(txs[k + 1], a) - Loss(txs[k + 1], a)
         /\ Net(txs, k, a) \in Int
<1> DEFINE n == Len(txs)
           v == Amounts(txs)
           w == Costs(txs)
           P == Receipts(txs, a)
           Q == Payouts(txs, a)
<1>1. n \in Nat /\ DOMAIN txs = 1 .. n /\ k + 1 \in 1 .. n /\ txs[k + 1] \in Tx
  OBVIOUS
<1>2. IntegersOn(v, 1 .. n) /\ IntegersOn(w, 1 .. n)
  <2>1. \A i \in 1 .. n : Amount[txs[i]] \in Int /\ Fee[txs[i]] \in Int
    BY LedgerAssumption DEF LedgerAssumption
  <2> HIDE DEF n
  <2>2. QED
    BY <1>1, <2>1 DEF IntegersOn, Amounts, Costs
<1>3. P \in SUBSET (1 .. n) /\ Q \in SUBSET (1 .. n)
  BY <1>1 DEF Receipts, Payouts
<1>4. (k + 1 \in P <=> To[txs[k + 1]] = a) /\ (k + 1 \in Q <=> From[txs[k + 1]] = a)
  BY <1>1 DEF Receipts, Payouts
<1>5. v[k + 1] = Amount[txs[k + 1]] /\ w[k + 1] = Amount[txs[k + 1]] + Fee[txs[k + 1]]
  BY <1>1 DEF Amounts, Costs
<1> HIDE DEF v, w, P, Q
<1>6. /\ SumOf(v, P \cap (1 .. k + 1)) =
           SumOf(v, P \cap (1 .. k)) + (IF k + 1 \in P THEN v[k + 1] ELSE 0)
      /\ SumOf(v, P \cap (1 .. k)) \in Int
  <2> HIDE DEF n
  <2>1. k \in 0 .. n - 1
    BY DEF n
  <2>2. QED
    BY <1>1, <1>2, <1>3, <2>1, SumNext
<1>7. /\ SumOf(w, Q \cap (1 .. k + 1)) =
           SumOf(w, Q \cap (1 .. k)) + (IF k + 1 \in Q THEN w[k + 1] ELSE 0)
      /\ SumOf(w, Q \cap (1 .. k)) \in Int
  <2> HIDE DEF n
  <2>1. k \in 0 .. n - 1
    BY DEF n
  <2>2. QED
    BY <1>1, <1>2, <1>3, <2>1, SumNext
<1>8. /\ Net(txs, k, a) = SumOf(v, P \cap (1 .. k)) - SumOf(w, Q \cap (1 .. k))
      /\ Net(txs, k + 1, a) = SumOf(v, P \cap (1 .. k + 1)) - SumOf(w, Q \cap (1 .. k + 1))
  BY DEF Net, v, w, P, Q
<1>9. Gain(txs[k + 1], a) = (IF k + 1 \in P THEN v[k + 1] ELSE 0)
      /\ Loss(txs[k + 1], a) = (IF k + 1 \in Q THEN w[k + 1] ELSE 0)
  BY <1>4, <1>5 DEF Gain, Loss
<1>10. Gain(txs[k + 1], a) \in Int /\ Loss(txs[k + 1], a) \in Int
  BY <1>1, LedgerAssumption DEF Gain, Loss, LedgerAssumption
<1>11. QED
  BY <1>6, <1>7, <1>8, <1>9, <1>10

\* Before the first one.
LEMMA NetNothing ==
  ASSUME NEW txs, NEW a
  PROVE  Net(txs, 0, a) = 0
<1>1. Receipts(txs, a) \cap (1 .. 0) = {} /\ Payouts(txs, a) \cap (1 .. 0) = {}
  OBVIOUS
<1>2. QED
  BY <1>1, SumOfNothing DEF Net

\* What comes later does not matter.
LEMMA NetOfPrefix ==
  ASSUME NEW old \in Seq(Tx), NEW txs \in Seq(Tx), NEW a \in Address
  PROVE  Net(old \o txs, Len(old), a) = Net(old, Len(old), a)
<1> DEFINE n == Len(old)
           new == old \o txs
           P == Receipts(old, a)
           Q == Payouts(old, a)
<1>1. /\ n \in Nat /\ DOMAIN old = 1 .. n /\ 1 .. n \in SUBSET DOMAIN new
      /\ \A i \in 1 .. n : new[i] = old[i] /\ old[i] \in Tx
  OBVIOUS
<1> HIDE DEF n, new
<1>2. /\ Receipts(new, a) \cap (1 .. n) = P /\ P \cap (1 .. n) = P
      /\ Payouts(new, a) \cap (1 .. n) = Q /\ Q \cap (1 .. n) = Q
  BY <1>1 DEF Receipts, Payouts
<1>3. /\ IntegersOn(Amounts(old), P) /\ AgreeOn(Amounts(old), Amounts(new), P)
      /\ IntegersOn(Costs(old), Q) /\ AgreeOn(Costs(old), Costs(new), Q)
  <2>1. \A i \in 1 .. n : Amount[old[i]] \in Int /\ Fee[old[i]] \in Int
    BY <1>1, LedgerAssumption DEF LedgerAssumption
  <2>2. QED
    BY <1>1, <2>1 DEF IntegersOn, AgreeOn, Amounts, Costs, Receipts, Payouts
<1>4. IsFiniteSet(P) /\ IsFiniteSet(Q)
  <2>1. IsFiniteSet(1 .. n)
    BY <1>1, FS_Interval
  <2>2. P \in SUBSET (1 .. n) /\ Q \in SUBSET (1 .. n)
    BY <1>1 DEF Receipts, Payouts
  <2>3. QED
    BY <2>1, <2>2, FS_Subset
<1> HIDE DEF P, Q
<1>5. SumOf(Amounts(old), P) = SumOf(Amounts(new), P)
  BY <1>3, <1>4, SumSame
<1>6. SumOf(Costs(old), Q) = SumOf(Costs(new), Q)
  BY <1>3, <1>4, SumSame
<1>7. Net(new, n, a) = Net(old, n, a)
  BY <1>2, <1>5, <1>6 DEF Net, P, Q
<1>8. QED
  BY <1>7 DEF n, new

\* No balance exceeds the money in the ledger.
LEMMA BalanceBound ==
  ASSUME IsFiniteSet(Address), NEW l \in Ledgers, NEW a \in Address
  PROVE  l.balances[a] <= Supply(l) /\ l.balances[a] \in Nat /\ Supply(l) \in Int
<1>1. l.balances \in [Address -> Nat] /\ l.balances[a] \in Nat
  BY LedgerAssumption DEF Ledgers, LedgerAssumption
<1>2. l.balances[a] <= SumOf(l.balances, Address)
  BY <1>1, SumBounds
<1>3. QED
  BY <1>1, <1>2, SupplyType DEF Supply

\* Crediting changes the receiver's balance by the amount, if all the money
\* fits in a uint64.
LEMMA CreditFlow ==
  ASSUME IsFiniteSet(Address), NEW l \in Ledgers, NEW t \in Tx,
         Supply(l) + Amount[t] < Modulus, NEW a \in Address
  PROVE  Credit(l, t).balances[a] = l.balances[a] + Gain(t, a)
<1> DEFINE bal == l.balances
           n == Uint64(bal[To[t]] + Amount[t])
<1>1. To[t] \in Address /\ Amount[t] \in Nat /\ Modulus \in Nat
  BY LedgerAssumption DEF LedgerAssumption
<1>2. bal[To[t]] <= Supply(l) /\ bal[To[t]] \in Nat /\ Supply(l) \in Int
  BY <1>1, BalanceBound
<1>3. n = bal[To[t]] + Amount[t]
  <2>1. bal[To[t]] + Amount[t] \in Nat /\ bal[To[t]] + Amount[t] < Modulus
    BY <1>1, <1>2
  <2>2. QED
    BY <2>1, Uint64Type
<1>4. Credit(l, t).balances = [bal EXCEPT ![To[t]] = n]
  BY DEF Credit
<1>5. DOMAIN bal = Address /\ bal[a] \in Nat
  BY BalanceBound DEF Ledgers
<1> HIDE DEF bal, n
<1>6. CASE To[t] = a
  BY <1>1, <1>3, <1>4, <1>5, <1>6 DEF Gain, bal
<1>7. CASE To[t] # a
  BY <1>1, <1>4, <1>5, <1>7 DEF Gain, bal
<1>8. QED
  BY <1>6, <1>7

\* A payment moves what it says.
LEMMA SpendFlow ==
  ASSUME IsFiniteSet(Address), SpendingFits,
         NEW l \in Ledgers, NEW t \in Tx, ~IsCoinbase(t), CanSpend(l, t),
         Supply(l) < Modulus, NEW a \in Address
  PROVE  Spend(l, t).balances[a] = l.balances[a] + Gain(t, a) - Loss(t, a)
<1> DEFINE bal == l.balances
           n == bal[From[t]] - Debit(t)
           mid == [l EXCEPT !.balances[From[t]] = @ - Debit(t)]
<1>1. /\ From[t] \in Address /\ Debit(t) \in 0 .. bal[From[t]] /\ mid \in Ledgers
      /\ bal \in [Address -> 0 .. Modulus - 1]
  BY DebitType DEF Ledgers
<1>2. /\ Amount[t] \in Nat /\ Fee[t] \in Nat /\ Modulus \in Nat
      /\ Debit(t) = Amount[t] + Fee[t]
  <2>1. Amount[t] \in Nat /\ Fee[t] \in Nat /\ Modulus \in Nat /\ Amount[t] + Fee[t] < Modulus
    BY LedgerAssumption DEF LedgerAssumption, SpendingFits
  <2>2. QED
    BY <2>1, Uint64Type DEF Debit
<1>3. bal[From[t]] \in Nat /\ n \in Nat /\ bal[a] \in Nat
  BY <1>1, BalanceBound
<1>4. mid.balances = [bal EXCEPT ![From[t]] = n]
  BY <1>1 DEF Ledgers
<1>5. Spend(l, t) = Credit(mid, t)
  BY DEF Spend
<1>6. Supply(mid) = Supply(l) - Debit(t) /\ Supply(l) \in Int
  <2>1. Supply(l) = SumOf(bal, Address) /\ Supply(mid) = SumOf(mid.balances, Address)
    BY DEF Supply
  <2> HIDE DEF bal, n, mid
  <2>2. SumOf([bal EXCEPT ![From[t]] = n], Address) = SumOf(bal, Address) - bal[From[t]] + n
        /\ SumOf(bal, Address) \in Int
    BY <1>1, <1>3, SupplyUpdate
  <2>3. QED
    BY <1>2, <1>3, <1>4, <2>1, <2>2 DEF n
<1>7. mid.balances[a] = bal[a] - Loss(t, a)
  <2> HIDE DEF bal, n, mid
  <2>1. CASE From[t] = a
    BY <1>1, <1>2, <1>4, <2>1 DEF Loss, n
  <2>2. CASE From[t] # a
    BY <1>1, <1>3, <1>4, <2>2 DEF Loss
  <2>3. QED
    BY <2>1, <2>2
<1> HIDE DEF mid, bal, n
<1>8. Supply(mid) + Amount[t] < Modulus
  BY <1>2, <1>6
<1>9. Credit(mid, t).balances[a] = mid.balances[a] + Gain(t, a)
  BY <1>1, <1>8, CreditFlow
<1>10. Gain(t, a) \in Int /\ Loss(t, a) \in Int
  BY <1>2 DEF Gain, Loss
<1>11. QED
  BY <1>3, <1>5, <1>7, <1>9, <1>10 DEF bal

\* The balances of a ledger are what the first k transactions leave.
Balanced(l, txs, k) == \A a \in Address : l.balances[a] = Net(txs, k, a)

\* What a coinbase at the head of a body will pay, once it was passed.
Held(txs, i, a) == IF i # 0 /\ IsCoinbase(txs[1]) THEN Gain(txs[1], a) ELSE 0

\* While the payments of a body succeed, balances follow the transactions,
\* but for the coinbase, which is paid last.
LEMMA SpendRunFlow ==
  ASSUME IsFiniteSet(Address), SpendingFits,
         NEW l \in Ledgers, Supply(l) < Modulus,
         NEW old \in Seq(Tx), NEW txs \in Seq(Tx), CoinbaseFirst(txs),
         Balanced(l, old \o txs, Len(old)),
         NEW h, SpendRun(h, l, txs)
  PROVE  \A i \in 0 .. Len(txs) : h[i].ok =>
            \A a \in Address : h[i].ledger.balances[a] + Held(txs, i, a)
                                 = Net(old \o txs, Len(old) + i, a)
<1> DEFINE n == Len(txs)
           m == Len(old)
           new == old \o txs
           P(i) == h[i].ok => \A a \in Address :
                     h[i].ledger.balances[a] + Held(txs, i, a) = Net(new, m + i, a)
           T == {i \in Nat : P(i)}
<1>1. /\ n \in Nat /\ m \in Nat /\ new \in Seq(Tx) /\ Len(new) = m + n
      /\ \A i \in 1 .. n : txs[i] \in Tx /\ new[m + i] = txs[i]
  OBVIOUS
<1> HIDE DEF new
<1>2. 0 \in T
  <2>1. h[0].ledger = l
    BY DEF SpendRun, SpendStart
  <2>2. \A a \in Address : l.balances[a] \in Nat /\ Held(txs, 0, a) = 0
    BY BalanceBound DEF Held
  <2>3. \A a \in Address : l.balances[a] = Net(new, m + 0, a)
    BY <1>1 DEF Balanced, new
  <2>4. QED
    BY <2>1, <2>2, <2>3
<1>3. ASSUME NEW i \in 0 .. n - 1, P(i)
      PROVE  P(i + 1)
  <2> DEFINE t == txs[i + 1]
  <2>1. /\ i + 1 \in 1 .. n /\ (i + 1) - 1 = i /\ i \in 0 .. n /\ i \in Nat /\ t \in Tx
        /\ m + i \in 0 .. Len(new) - 1 /\ m + (i + 1) = (m + i) + 1 /\ new[m + (i + 1)] = t
    <3> HIDE DEF n, m, P
    <3>1. i + 1 \in 1 .. n /\ (i + 1) - 1 = i /\ i \in 0 .. n /\ i \in Nat
      BY <1>1
    <3>2. m + i \in 0 .. Len(new) - 1 /\ m + (i + 1) = (m + i) + 1
      BY <1>1
    <3>3. QED
      BY <1>1, <3>1, <3>2
  <2>2. h[i + 1] = SpendStep(h[i], t) /\ h[i] \in Payers
    <3> HIDE DEF n
    <3>1. \A j \in 1 .. n : h[j] = SpendStep(h[j-1], txs[j])
      BY DEF SpendRun, n
    <3>2. h \in [0 .. n -> Payers]
      BY DEF SpendRun, n
    <3>3. QED
      BY <2>1, <3>1, <3>2
  <2>3. h[i].ledger \in Ledgers /\ h[i].fees \in Nat /\ h[i].ok \in BOOLEAN
    BY <2>2, LedgerAssumption DEF Payers, LedgerAssumption
  <2>4. i # 0 => ~IsCoinbase(t)
    BY <2>1 DEF CoinbaseFirst
  <2>5. \A a \in Address :
          /\ Net(new, m + (i + 1), a) = Net(new, m + i, a) + Gain(t, a) - Loss(t, a)
          /\ Net(new, m + i, a) \in Int
    <3> HIDE DEF t, m, n
    <3>1. QED
      BY <1>1, <2>1, NetNext
  <2>6. \A a \in Address : /\ Gain(t, a) \in Int /\ Loss(t, a) \in Int
                           /\ h[i].ledger.balances[a] \in Int
    <3>1. Amount[t] \in Int /\ Fee[t] \in Int
      BY <2>1, LedgerAssumption DEF LedgerAssumption
    <3>2. QED
      BY <2>3, <3>1, BalanceBound DEF Gain, Loss
  <2> HIDE DEF t, m, n
  <2>7. CASE IsCoinbase(t)
    <3>1. h[i + 1] = h[i]
      BY <2>2, <2>7 DEF SpendStep
    <3>2. i = 0 /\ txs[1] = t
      BY <2>4, <2>7 DEF t
    <3>3. \A a \in Address : Loss(t, a) = 0
      BY <2>7, LedgerAssumption DEF IsCoinbase, Loss, LedgerAssumption
    <3>4. \A a \in Address : Held(txs, i + 1, a) = Gain(t, a) /\ Held(txs, i, a) = 0
      BY <2>1, <2>7, <3>2 DEF Held
    <3>5. SUFFICES ASSUME h[i + 1].ok, NEW a \in Address
                   PROVE  h[i + 1].ledger.balances[a] + Held(txs, i + 1, a)
                            = Net(new, m + (i + 1), a)
      OBVIOUS
    <3>6. h[i].ledger.balances[a] + 0 = Net(new, m + i, a)
      BY <1>3, <3>1, <3>4, <3>5
    <3>7. QED
      BY <2>5, <2>6, <3>1, <3>3, <3>4, <3>6
  <2>8. CASE ~IsCoinbase(t) /\ h[i].ok /\ CanSpend(h[i].ledger, t)
    <3>1. h[i + 1].ledger = Spend(h[i].ledger, t)
      BY <2>2, <2>8 DEF SpendStep, Payers
    <3>2. Supply(h[i].ledger) < Modulus
      <4>1. Supply(h[i].ledger) + h[i].fees <= Supply(l)
        BY <2>1, SpendRunSupply DEF n
      <4>2. Supply(h[i].ledger) \in Int /\ Supply(l) \in Int /\ Modulus \in Nat
        BY <2>3, SupplyType, LedgerAssumption DEF LedgerAssumption
      <4>3. QED
        BY <2>3, <4>1, <4>2
    <3>3. \A a \in Address : Held(txs, i + 1, a) = Held(txs, i, a) /\ Held(txs, i, a) \in Int
      <4>1. CASE i = 0
        BY <2>8, <4>1 DEF Held, t
      <4>2. CASE i # 0
        <5>1. i + 1 # 0 /\ 1 \in 1 .. n
          BY <1>1, <2>1, <4>2
        <5>2. Amount[txs[1]] \in Int
          BY <1>1, <5>1, LedgerAssumption DEF LedgerAssumption
        <5>3. QED
          BY <4>2, <5>1, <5>2 DEF Held, Gain
      <4>3. QED
        BY <4>1, <4>2
    <3>4. SUFFICES ASSUME NEW a \in Address
                   PROVE  h[i + 1].ledger.balances[a] + Held(txs, i + 1, a)
                            = Net(new, m + (i + 1), a)
      OBVIOUS
    <3>5. h[i + 1].ledger.balances[a] = h[i].ledger.balances[a] + Gain(t, a) - Loss(t, a)
      BY <2>1, <2>3, <2>8, <3>1, <3>2, SpendFlow
    <3>6. h[i].ledger.balances[a] + Held(txs, i, a) = Net(new, m + i, a)
      BY <1>3, <2>8
    <3>7. QED
      BY <2>5, <2>6, <3>3, <3>5, <3>6
  <2>9. CASE ~IsCoinbase(t) /\ ~(h[i].ok /\ CanSpend(h[i].ledger, t))
    <3>1. ~h[i + 1].ok
      BY <2>2, <2>9 DEF SpendStep, Payers
    <3>2. QED
      BY <3>1
  <2>10. QED
    BY <2>7, <2>8, <2>9
<1>4. QED
  <2>1. \A i \in 0 .. n - 1 : i \in T => i + 1 \in T
    BY <1>1, <1>3
  <2> HIDE DEF T
  <2>2. \A i \in 0 .. n : i \in T
    BY <1>1, <1>2, <2>1, BoundedInduction
  <2>3. QED
    BY <2>2 DEF T, new

\* A block keeps the balances in step with the transactions, if the money and
\* one more reward fit in a uint64.
LEMMA ApplyFlow ==
  ASSUME IsFiniteSet(Address), SpendingFits,
         NEW l \in Ledgers, Supply(l) + MiningReward < Modulus,
         NEW old \in Seq(Tx), NEW txs \in Seq(Tx), applyBlock(l, txs).ok,
         Balanced(l, old, Len(old))
  PROVE  Balanced(applyBlock(l, txs).ledger, old \o txs, Len(old \o txs))
<1> DEFINE n == Len(txs)
           m == Len(old)
           new == old \o txs
           paid == SpendAll(l, txs)
<1>1. n \in Nat /\ m \in Nat /\ n \in 0 .. n /\ Len(new) = m + n
  OBVIOUS
<1>2. PICK h : SpendRun(h, l, txs) /\ paid = h[n]
  BY SpendAllRuns
<1>3. CoinbaseFirst(txs) /\ paid.ok
  BY DEF applyBlock
<1>4. MiningReward \in Nat /\ Modulus \in Nat /\ Supply(l) \in Int
  BY SupplyType, LedgerAssumption DEF LedgerAssumption
<1>5. Balanced(l, new, m)
  BY NetOfPrefix DEF Balanced
<1>6. paid.ledger \in Ledgers /\ paid.fees \in Nat
  <2>1. h \in [0 .. n -> Payers]
    BY <1>2 DEF SpendRun
  <2> HIDE DEF n, paid
  <2>2. paid \in Payers
    BY <1>1, <1>2, <2>1
  <2>3. QED
    BY <2>2, LedgerAssumption DEF Payers, LedgerAssumption
<1>7. \A a \in Address : paid.ledger.balances[a] + Held(txs, n, a) = Net(new, m + n, a)
  <2>1. Supply(l) < Modulus
    BY <1>4
  <2>2. \A i \in 0 .. n : h[i].ok =>
            \A a \in Address : h[i].ledger.balances[a] + Held(txs, i, a) = Net(new, m + i, a)
    BY <1>2, <1>3, <1>5, <2>1, SpendRunFlow
  <2> HIDE DEF paid, new, m, n
  <2>3. QED
    BY <1>1, <1>2, <1>3, <2>2
<1>8. Supply(paid.ledger) + paid.fees <= Supply(l) /\ Supply(paid.ledger) \in Int
  BY <1>1, <1>2, <1>6, SpendRunSupply, SupplyType
<1>9. CASE HasCoinbase(txs)
  <2> DEFINE c == txs[1]
  <2>1. c \in Tx /\ n # 0 /\ IsCoinbase(c)
    BY <1>9 DEF HasCoinbase
  <2>2. applyBlock(l, txs).ledger = Credit(paid.ledger, c)
        /\ Amount[c] <= Uint64(MiningReward + paid.fees)
    BY <1>9 DEF applyBlock, RewardAllowed
  <2>3. Amount[c] \in Nat
    BY <2>1, LedgerAssumption DEF LedgerAssumption
  <2>4. Uint64(MiningReward + paid.fees) <= MiningReward + paid.fees
        /\ Uint64(MiningReward + paid.fees) \in Nat
    <3>1. MiningReward + paid.fees \in Nat
      BY <1>4, <1>6
    <3>2. QED
      BY <1>4, <3>1, Uint64Type
  <2> HIDE DEF c, paid, n
  <2>5. Supply(paid.ledger) + Amount[c] < Modulus
    BY <1>4, <1>6, <1>8, <2>2, <2>3, <2>4
  <2>6. \A a \in Address : Credit(paid.ledger, c).balances[a]
                             = paid.ledger.balances[a] + Gain(c, a)
    BY <1>6, <2>1, <2>5, CreditFlow
  <2>7. \A a \in Address : Held(txs, n, a) = Gain(c, a)
    BY <2>1 DEF Held, c
  <2>8. QED
    BY <1>1, <1>7, <2>2, <2>6, <2>7 DEF Balanced
<1>10. CASE ~HasCoinbase(txs)
  <2>1. applyBlock(l, txs).ledger = paid.ledger
    BY <1>3, <1>10 DEF applyBlock
  <2>2. \A a \in Address : Held(txs, n, a) = 0
    BY <1>1, <1>10 DEF Held, HasCoinbase
  <2>3. \A a \in Address : paid.ledger.balances[a] \in Nat
    BY <1>6, BalanceBound
  <2> HIDE DEF paid, n
  <2>4. QED
    BY <1>1, <1>7, <2>1, <2>2, <2>3 DEF Balanced
<1>11. QED
  BY <1>9, <1>10

\* The rewards of the longest chain fit in a uint64.
RewardsFit == MiningReward * MaxBlocks < Modulus

\* A rebuild leaves the balances that the transactions of the chain add up to.
LEMMA RebuildFlow ==
  ASSUME IsFiniteSet(Address), SpendingFits, RewardsFit,
         NEW bodies \in Chains, Len(bodies) <= MaxBlocks, RebuildFromChain(bodies).ok
  PROVE  Balanced(RebuildFromChain(bodies).ledger, FlattenSeq(bodies), Len(FlattenSeq(bodies)))
<1> DEFINE P(c) == Len(c) <= MaxBlocks /\ RebuildFromChain(c).ok =>
                     Balanced(RebuildFromChain(c).ledger, FlattenSeq(c), Len(FlattenSeq(c)))
           T == {n \in Nat : \A c \in Chains : Len(c) = n => P(c)}
<1>0. MiningReward \in Nat /\ MaxBlocks \in Nat /\ Modulus \in Nat
  BY LedgerAssumption, BodiesAssumption DEF LedgerAssumption, BodiesAssumption
<1>1. 0 \in T
  <2>1. FlattenSeq(<<>>) = <<>> /\ Len(<<>>) = 0
    BY DEF FlattenSeq
  <2>2. Balanced(NewLedger, <<>>, 0)
    BY NetNothing DEF Balanced, NewLedger
  <2>3. P(<<>>)
    BY <2>1, <2>2, RebuildEmpty
  <2>4. \A c \in Chains : Len(c) = 0 => c = <<>>
    BY DEF Chains
  <2> HIDE DEF P
  <2>5. QED
    BY <2>3, <2>4
<1>2. ASSUME NEW n \in T PROVE n + 1 \in T
  <2>1. SUFFICES ASSUME NEW c \in Chains, Len(c) = n + 1, n + 1 <= MaxBlocks,
                        RebuildFromChain(c).ok
                 PROVE  Balanced(RebuildFromChain(c).ledger, FlattenSeq(c), Len(FlattenSeq(c)))
    OBVIOUS
  <2>2. PICK front \in Chains, last \in Seq(Tx) : c = Append(front, last) /\ Len(front) = n
    <3>1. SubSeq(c, 1, n) \in Chains /\ Len(SubSeq(c, 1, n)) = n /\ c[n + 1] \in Seq(Tx)
      BY <2>1 DEF Chains
    <3>2. c = Append(SubSeq(c, 1, n), c[n + 1])
      BY <2>1 DEF Chains
    <3>3. QED
      BY <3>1, <3>2
  <2>3. RebuildFromChain(front) \in Results
    BY <2>2, RebuildSettles DEF Chains
  <2>4. RebuildFromChain(c) = IF RebuildFromChain(front).ok
                              THEN applyBlock(RebuildFromChain(front).ledger, last)
                              ELSE RebuildFromChain(front)
    BY <2>2, RebuildAppend DEF Chains
  <2>5. RebuildFromChain(front).ok
    BY <2>1, <2>4
  <2> DEFINE l == RebuildFromChain(front).ledger
             old == FlattenSeq(front)
  <2>6. l \in Ledgers /\ RebuildFromChain(c) = applyBlock(l, last)
    BY <2>3, <2>4, <2>5 DEF Results
  <2>7. FlattenSeq(c) = old \o last /\ old \in Seq(Tx)
    BY <2>2, FlattenAppend DEF Chains
  <2>8. Balanced(l, old, Len(old))
    <3>1. n \in Nat /\ n <= MaxBlocks
      BY <1>0, <2>1
    <3>2. QED
      BY <2>2, <2>5, <3>1
  <2>9. Supply(l) + MiningReward < Modulus
    <3>1. Supply(l) <= MiningReward * n /\ Supply(l) \in Int
      BY <2>2, <2>5, <2>6, RebuildSupply, SupplyType
    <3>2. MiningReward * n + MiningReward <= MiningReward * MaxBlocks
      <4>1. n \in Nat /\ n + 1 <= MaxBlocks
        BY <2>1
      <4> HIDE DEF T, l
      <4>2. MiningReward * (n + 1) <= MiningReward * MaxBlocks
        BY <1>0, <4>1
      <4>3. MiningReward * (n + 1) = MiningReward * n + MiningReward
        BY <1>0, <4>1
      <4>4. QED
        BY <4>2, <4>3
    <3> DEFINE p == MiningReward * n
               q == MiningReward * MaxBlocks
    <3>3. p \in Int /\ q \in Int /\ q < Modulus
      BY <1>0 DEF RewardsFit
    <3> HIDE DEF p, q, l
    <3>4. Supply(l) <= p /\ p + MiningReward <= q
      BY <3>1, <3>2 DEF p, q
    <3>5. QED
      BY <1>0, <3>1, <3>3, <3>4
  <2> HIDE DEF l, old
  <2>10. Balanced(applyBlock(l, last).ledger, old \o last, Len(old \o last))
    BY <2>1, <2>6, <2>7, <2>8, <2>9, ApplyFlow
  <2>11. QED
    BY <2>6, <2>7, <2>10
<1>3. T = Nat
  <2> HIDE DEF T
  <2>1. T \in SUBSET Nat
    BY DEF T
  <2>2. QED
    BY <1>1, <1>2, <2>1, NatSetInduction
<1>4. QED
  <2>1. Len(bodies) \in T
    BY <1>3 DEF Chains
  <2>2. QED
    BY <2>1

---------------------------------------------------------------------------
IInv == TypeOK /\ RebuildAgrees

LEMMA Initially == Init => IInv
<1> SUFFICES ASSUME Init PROVE IInv
  OBVIOUS
<1>1. NewLedger \in Ledgers
  BY LedgerAssumption DEF NewLedger, Ledgers, LedgerAssumption
<1>2. QED
  BY <1>1, RebuildEmpty DEF Init, IInv, TypeOK, RebuildAgrees

\* A chain that rebuilds, with the ledger it gives, is a good state.
LEMMA RebuiltState ==
  ASSUME NEW chain \in Seq(Seq(Tx)), RebuildFromChain(chain).ok,
         ledger' = RebuildFromChain(chain).ledger, blocks' = chain
  PROVE  IInv'
<1>1. RebuildFromChain(chain) \in Results
  BY RebuildSettles
<1>2. RebuildFromChain(chain) = [ok |-> TRUE, ledger |-> ledger'] /\ ledger' \in Ledgers
  BY <1>1 DEF Results
<1>3. QED
  BY <1>2 DEF IInv, TypeOK, RebuildAgrees

LEMMA Inductive == IInv /\ [Next]_vars => IInv'
<1> SUFFICES ASSUME IInv, [Next]_vars
             PROVE  IInv'
  OBVIOUS
<1>1. /\ ledger \in Ledgers /\ blocks \in Seq(Seq(Tx))
      /\ RebuildFromChain(blocks) = [ok |-> TRUE, ledger |-> ledger]
  BY DEF IInv, TypeOK, RebuildAgrees
<1>2. ASSUME NEW body \in Bodies, ApplyBlock(body)
      PROVE  IInv'
  <2>1. body \in Seq(Tx) /\ Append(blocks, body) \in Seq(Seq(Tx))
    BY <1>1, BodiesAssumption DEF BodiesAssumption
  <2>2. RebuildFromChain(Append(blocks, body)) = applyBlock(ledger, body)
    BY <1>1, <2>1, RebuildAppend
  <2>3. QED
    BY <1>2, <2>1, <2>2, RebuiltState DEF ApplyBlock
<1>3. ASSUME NEW chain \in Forks, Rebuild(chain)
      PROVE  IInv'
  <2>1. PICK n \in 0 .. Len(blocks), suffix \in {<<>>} \cup {<<b>> : b \in Bodies} :
          chain = SubSeq(blocks, 1, n) \o suffix
    BY DEF Forks
  <2>2. suffix \in Seq(Seq(Tx))
    <3>1. \A b \in Bodies : <<b>> \in Seq(Seq(Tx))
      BY BodiesAssumption DEF BodiesAssumption
    <3>2. <<>> \in Seq(Seq(Tx))
      OBVIOUS
    <3>3. QED
      BY <2>1, <3>1, <3>2
  <2>3. SubSeq(blocks, 1, n) \in Seq(Seq(Tx))
    BY <1>1
  <2>4. chain \in Seq(Seq(Tx))
    BY <2>1, <2>2, <2>3
  <2>5. QED
    BY <1>3, <2>4, RebuiltState DEF Rebuild
<1>4. ASSUME UNCHANGED vars
      PROVE  IInv'
  BY <1>4 DEF IInv, TypeOK, RebuildAgrees, vars
<1>5. QED
  BY <1>2, <1>3, <1>4 DEF Next

LEMMA Invariance == Spec => []IInv
BY Initially, Inductive, PTL DEF Spec

\* Ledgers map every account to an unsigned integer, through every block and
\* every rebuild (ledger.go).
THEOREM TypeCorrect == Spec => []TypeOK
<1>1. IInv => TypeOK
  BY DEF IInv
<1>2. QED
  BY <1>1, Invariance, PTL

\* The ledger that grew block by block (applyBlock) is the one that a rebuild
\* from the same chain gives (RebuildFromChain), whatever reorganisations came
\* before.
THEOREM GrownIsRebuilt == Spec => []RebuildAgrees
<1>1. IInv => RebuildAgrees
  BY DEF IInv
<1>2. QED
  BY <1>1, Invariance, PTL

\* applyBlock and RebuildFromChain confirm no payment a second time, on any
\* chain, of any bodies.
THEOREM PaymentsOnce == Spec => []NoPaymentTwice
<1>1. IInv => NoPaymentTwice
  <2>1. SUFFICES ASSUME IInv PROVE NoPaymentTwice
    OBVIOUS
  <2>2. Settled(RebuildFromChain(blocks).ledger, blocks)
    BY <2>1, RebuildSettles DEF IInv, TypeOK, RebuildAgrees
  <2>3. QED
    BY <2>2 DEF Settled, NoRepeat, NoPaymentTwice, Confirmed
<1>2. QED
  BY <1>1, Invariance, PTL

\* However reorganisations replace its blocks, a chain of n blocks holds at
\* most n mining rewards (applyBlock, step 3), as long as amount and fee of a
\* transaction fit in a uint64 together.
THEOREM SupplyStaysBounded ==
  ASSUME IsFiniteSet(Address), SpendingFits
  PROVE  Spec => []SupplyBounded
<1>1. IInv => SupplyBounded
  <2>1. SUFFICES ASSUME IInv PROVE SupplyBounded
    OBVIOUS
  <2>2. /\ blocks \in Chains /\ RebuildFromChain(blocks).ok
        /\ RebuildFromChain(blocks).ledger = ledger
    BY <2>1 DEF IInv, TypeOK, RebuildAgrees, Chains
  <2>3. Supply(ledger) <= MiningReward * Len(blocks)
    BY <2>2, RebuildSupply
  <2>4. QED
    BY <2>3 DEF SupplyBounded, Supply, SumOf
<1>2. QED
  BY <1>1, Invariance, PTL

\* Whatever the pool holds and in whatever order, applyBlock accepts the body
\* that the miner makes of what FilterValidTransactions keeps: the two copies
\* of the rules and of the sum of the fees agree, as long as transactions are
\* finitely many and the miner can make a coinbase of any amount.
THEOREM MinedBodiesApply ==
  ASSUME IsFiniteSet(Tx), AnyReward
  PROVE  Spec => []MinerBodyApplies
<1>1. IInv => MinerBodyApplies
  <2>1. SUFFICES ASSUME IInv, NEW pool \in SUBSET {t \in Tx : ~IsCoinbase(t)},
                        NEW pending \in SetToSeqs(pool)
                 PROVE  /\ MinerBodies(pending) # {}
                        /\ \A body \in MinerBodies(pending) : applyBlock(ledger, body).ok
    BY DEF MinerBodyApplies
  <2>2. pending \in Seq(Tx)
    <3>1. pool \in SUBSET Tx /\ IsFiniteSet(pool)
      BY FS_Subset
    <3>2. Cardinality(pool) \in Nat
      BY <3>1, FS_CardinalityType
    <3>3. pending \in [1 .. Cardinality(pool) -> Tx]
      BY <3>1 DEF SetToSeqs
    <3>4. QED
      BY <3>2, <3>3
  <2>3. ledger \in Ledgers
    BY <2>1 DEF IInv, TypeOK
  <2>4. QED
    BY <2>2, <2>3, MinedBodyApplies, MinerFindsReward
<1>2. QED
  BY <1>1, Invariance, PTL

\* The chain stays within its bound.
ChainBounded == Len(blocks) <= MaxBlocks

LEMMA Bounded == Spec => []ChainBounded
<1>1. Init => ChainBounded
  BY BodiesAssumption DEF Init, ChainBounded, BodiesAssumption
<1>2. IInv /\ ChainBounded /\ [Next]_vars => ChainBounded'
  BY BodiesAssumption DEF IInv, TypeOK, ChainBounded, Next, ApplyBlock, Rebuild, vars,
                          BodiesAssumption
<1>3. QED
  BY <1>1, <1>2, Invariance, PTL DEF Spec

\* The incremental updates of applyBlock, its clone and the rebuild lose and
\* invent nothing: every balance is what the address received minus what it
\* paid over the whole chain, as long as no sum of amount and fee, and not the
\* sum of all rewards, leaves the range of a uint64.
THEOREM NothingLostOrInvented ==
  ASSUME IsFiniteSet(Address), SpendingFits, RewardsFit
  PROVE  Spec => []BalancesAreNetFlow
<1>1. IInv /\ ChainBounded => BalancesAreNetFlow
  <2>1. SUFFICES ASSUME IInv, ChainBounded PROVE BalancesAreNetFlow
    OBVIOUS
  <2>2. /\ blocks \in Chains /\ RebuildFromChain(blocks).ok
        /\ RebuildFromChain(blocks).ledger = ledger
    BY <2>1 DEF IInv, TypeOK, RebuildAgrees, Chains
  <2>3. Balanced(ledger, Confirmed, Len(Confirmed))
    BY <2>1, <2>2, RebuildFlow DEF ChainBounded, Confirmed
  <2>4. Confirmed \in Seq(Tx)
    <3>1. \A bodies \in Chains : FlattenSeq(bodies) \in Seq(Tx)
      <4>1. <<>> \in Seq(Tx)
        OBVIOUS
      <4>2. QED
        BY <4>1, FlattenAppend DEF Chains
    <3>2. QED
      BY <2>2, <3>1 DEF Confirmed
  <2>5. SUFFICES ASSUME NEW a \in Address
                 PROVE  ledger.balances[a] =
                          Total(Amounts(Confirmed), Receipts(Confirmed, a))
                        - Total(Costs(Confirmed), Payouts(Confirmed, a))
    BY DEF BalancesAreNetFlow, Amounts, Costs, Receipts, Payouts
  <2>6. /\ Receipts(Confirmed, a) \cap (1 .. Len(Confirmed)) = Receipts(Confirmed, a)
        /\ Payouts(Confirmed, a) \cap (1 .. Len(Confirmed)) = Payouts(Confirmed, a)
    BY <2>4 DEF Receipts, Payouts
  <2>7. ledger.balances[a] = SumOf(Amounts(Confirmed), Receipts(Confirmed, a))
                           - SumOf(Costs(Confirmed), Payouts(Confirmed, a))
    BY <2>3, <2>6 DEF Balanced, Net
  <2>8. QED
    BY <2>7 DEF Total, SumOf
<1>2. QED
  BY <1>1, Invariance, Bounded, PTL
=============================================================================
