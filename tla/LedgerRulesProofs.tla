-------------------------- MODULE LedgerRulesProofs --------------------------
(***************************************************************************)
(* What the operators of module LedgerRules compute: RebuildFromChain on a *)
(* longer chain, the payments of a body one after the other, the types of  *)
(* ledgers, and which transactions a ledger has processed.                 *)
(*                                                                         *)
(* Induction over the natural numbers comes first, in a form without       *)
(* operator parameters: what is to be shown of every number is given as    *)
(* the set of the numbers it holds of.  Recursive functions and folds are  *)
(* shown to exist and to satisfy their equations by this induction.        *)
(***************************************************************************)
EXTENDS LedgerRules, TLAPS, WellFoundedInduction

\* Every nonempty set of natural numbers has a least element.
LEMMA LeastElement ==
  ASSUME NEW T \in SUBSET Nat, T # {}
  PROVE  \E x \in T : \A y \in T : x <= y
<1> DEFINE less == OpToRel(<, Nat)
<1>1. IsWellFoundedOn(less, Nat)
  BY NatLessThanWellFounded
<1>2. \A x, y \in Nat : (<<y, x>> \in less) <=> y < x
  BY DEF OpToRel
<1> HIDE DEF less
<1>3. PICK x \in T : \A y \in T : ~ (<<y, x>> \in less)
  BY <1>1, WFMin
<1>4. x \in Nat
  OBVIOUS
<1>5. ASSUME NEW y \in T PROVE x <= y
  <2>1. y \in Nat
    OBVIOUS
  <2>2. ~ (y < x)
    BY <1>2, <1>3, <1>4, <2>1
  <2>3. QED
    BY <1>4, <2>1, <2>2
<1>6. QED
  BY <1>5

\* A set that has 0 and with every number its successor is all of Nat.
LEMMA NatSetInduction ==
  ASSUME NEW T \in SUBSET Nat, 0 \in T, \A n \in T : n + 1 \in T
  PROVE  T = Nat
<1> DEFINE missing == Nat \ T
<1>1. CASE missing = {}
  BY <1>1
<1>2. CASE missing # {}
  <2>1. PICK x \in missing : \A y \in missing : x <= y
    BY <1>2, LeastElement
  <2>2. x # 0 /\ x \in Nat
    OBVIOUS
  <2>3. x - 1 \in Nat /\ x - 1 \notin missing
    BY <2>1, <2>2
  <2>4. (x - 1) + 1 \in T
    BY <2>3
  <2>5. (x - 1) + 1 = x
    BY <2>2
  <2>6. QED
    BY <2>4, <2>5
<1>3. QED
  BY <1>1, <1>2

---------------------------------------------------------------------------
\* A set that has 0 and with every number below n its successor has all of
\* them up to n.
LEMMA BoundedInduction ==
  ASSUME NEW n \in Nat, NEW T, 0 \in T, \A i \in 0 .. n - 1 : i \in T => i + 1 \in T
  PROVE  \A i \in 0 .. n : i \in T
<1> DEFINE U == {i \in Nat : i <= n => i \in T}
<1>1. 0 \in U
  OBVIOUS
<1>2. ASSUME NEW i \in U PROVE i + 1 \in U
  OBVIOUS
<1>3. U = Nat
  <2> HIDE DEF U
  <2>1. U \in SUBSET Nat
    BY DEF U
  <2>2. QED
    BY <1>1, <1>2, <2>1, NatSetInduction
<1>4. QED
  BY <1>3

\* A fold over positions 1 to n, from the last one back, as a function on the
\* sets of positions.
FoldFcn(F, A, base, g, n) ==
  /\ F \in [SUBSET (1 .. n) -> A]
  /\ \A s \in SUBSET (1 .. n) :
        F[s] = IF s = {} THEN base ELSE g[<<Max(s), F[s \ {Max(s)}]>>]

\* The greatest number of a set of positions that has the last one.
LEMMA MaxIsLast ==
  ASSUME NEW n \in Nat, NEW s \in SUBSET (1 .. n), n \in s
  PROVE  Max(s) = n
<1>1. \A x \in s : x \in 1 .. n /\ x <= n
  OBVIOUS
<1>2. \A x \in s : (\A y \in s : x >= y) => x = n
  BY <1>1
<1>3. \A y \in s : n >= y
  BY <1>1
<1>4. QED
  BY <1>2, <1>3 DEF Max

\* There is such a function for every step g that stays in the set A.
LEMMA FoldFcnExists ==
  ASSUME NEW A, NEW base \in A, NEW n \in Nat, NEW g \in [(1 .. n) \X A -> A]
  PROVE  \E F : FoldFcn(F, A, base, g, n)
<1> DEFINE T == {k \in Nat : k <= n => \E F : FoldFcn(F, A, base, g, k)}
<1>1. 0 \in T
  <2> DEFINE F == [s \in SUBSET (1 .. 0) |-> base]
  <2>1. FoldFcn(F, A, base, g, 0)
    BY DEF FoldFcn
  <2>2. QED
    BY <2>1
<1>2. ASSUME NEW k \in T PROVE k + 1 \in T
  <2>1. SUFFICES ASSUME k + 1 <= n
                 PROVE  \E F : FoldFcn(F, A, base, g, k + 1)
    OBVIOUS
  <2>2. k \in Nat /\ k + 1 \in 1 .. n /\ k + 1 \in Nat
    BY <2>1
  <2>3. PICK E : FoldFcn(E, A, base, g, k)
    BY <2>1, <2>2
  <2> DEFINE G == [s \in SUBSET (1 .. k + 1) |->
                     IF k + 1 \in s THEN g[<<k + 1, E[s \ {k + 1}]>>] ELSE E[s]]
  <2>4. \A s \in SUBSET (1 .. k + 1) : s \ {k + 1} \in SUBSET (1 .. k)
    BY <2>2
  <2>5. \A s \in SUBSET (1 .. k + 1) : k + 1 \notin s => s \in SUBSET (1 .. k)
    BY <2>2
  <2>6. \A s \in SUBSET (1 .. k) : E[s] \in A
    BY <2>3 DEF FoldFcn
  <2>7. G \in [SUBSET (1 .. k + 1) -> A]
    <3>1. ASSUME NEW s \in SUBSET (1 .. k + 1)
          PROVE  G[s] \in A
      <4>1. CASE k + 1 \in s
        <5>1. E[s \ {k + 1}] \in A
          BY <2>4, <2>6
        <5>2. QED
          BY <2>2, <4>1, <5>1
      <4>2. CASE k + 1 \notin s
        BY <2>5, <2>6, <4>2
      <4>3. QED
        BY <4>1, <4>2
    <3>2. QED
      BY <3>1
  <2>8. ASSUME NEW s \in SUBSET (1 .. k + 1)
        PROVE  G[s] = IF s = {} THEN base ELSE g[<<Max(s), G[s \ {Max(s)}]>>]
    <3>1. CASE k + 1 \in s
      <4>1. Max(s) = k + 1 /\ s # {}
        BY <2>2, <3>1, MaxIsLast
      <4>2. G[s \ {k + 1}] = E[s \ {k + 1}]
        BY <2>4
      <4>3. G[s] = g[<<k + 1, E[s \ {k + 1}]>>]
        BY <3>1
      <4> HIDE DEF G
      <4>4. QED
        BY <4>1, <4>2, <4>3
    <3>2. CASE k + 1 \notin s
      <4>1. s \in SUBSET (1 .. k) /\ s \ {Max(s)} \in SUBSET (1 .. k)
        BY <2>5, <3>2
      <4>2. G[s] = E[s]
        BY <3>2
      <4>3. G[s \ {Max(s)}] = E[s \ {Max(s)}]
        BY <3>2, <4>1
      <4>4. E[s] = IF s = {} THEN base ELSE g[<<Max(s), E[s \ {Max(s)}]>>]
        BY <2>3, <4>1 DEF FoldFcn
      <4> HIDE DEF G
      <4>5. QED
        BY <4>2, <4>3, <4>4
    <3>3. QED
      BY <3>1, <3>2
  <2>9. FoldFcn(G, A, base, g, k + 1)
    <3> HIDE DEF G
    <3>1. QED
      BY <2>7, <2>8 DEF FoldFcn
  <2>10. QED
    BY <2>9
<1>3. T = Nat
  <2> HIDE DEF T
  <2>1. T \in SUBSET Nat
    BY DEF T
  <2>2. QED
    BY <1>1, <1>2, <2>1, NatSetInduction
<1>4. n \in T
  BY <1>3
<1>5. QED
  BY <1>4

\* A nonempty set of positions has a greatest one.
LEMMA MaxOfPositions ==
  ASSUME NEW n \in Nat, NEW s \in SUBSET (1 .. n), s # {}
  PROVE  Max(s) \in s
<1> DEFINE gaps == {k \in Nat : n - k \in s}
<1>1. gaps # {}
  <2>1. PICK x \in s : TRUE
    OBVIOUS
  <2>2. n - x \in Nat /\ n - (n - x) = x
    BY <2>1
  <2>3. QED
    BY <2>2
<1>2. PICK k \in gaps : \A j \in gaps : k <= j
  BY <1>1, LeastElement
<1>3. ASSUME NEW y \in s
      PROVE  n - k >= y
  <2>1. y \in 1 .. n /\ n - y \in Nat /\ n - (n - y) = y
    OBVIOUS
  <2>2. n - y \in gaps
    BY <2>1
  <2>3. k <= n - y /\ k \in Nat
    BY <1>2, <2>2
  <2>4. QED
    BY <2>1, <2>3
<1>4. n - k \in s
  BY <1>2
<1>5. QED
  BY <1>3, <1>4 DEF Max

\* The first i of n positions, of which i is the last.
EndsAt(s, i, n) ==
  s \in SUBSET (1 .. n) /\ s # {} /\ Max(s) = i /\ s \ {i} = 1 .. i - 1

LEMMA PositionsEnd ==
  ASSUME NEW n \in Nat, NEW i \in 1 .. n
  PROVE  EndsAt(1 .. i, i, n)
<1>1. i \in Nat /\ i \in 1 .. i /\ 1 .. i \in SUBSET (1 .. n)
  OBVIOUS
<1>2. (1 .. i) \ {i} = 1 .. i - 1
  OBVIOUS
<1>3. Max(1 .. i) = i
  BY <1>1, MaxIsLast
<1>4. 1 .. i # {}
  BY <1>1
<1>5. 1 .. i \in SUBSET (1 .. n) /\ 1 .. i # {}
  BY <1>1, <1>4
<1>6. Max(1 .. i) = i /\ (1 .. i) \ {i} = 1 .. i - 1
  BY <1>2, <1>3
<1>7. QED
  BY <1>5, <1>6 DEF EndsAt

---------------------------------------------------------------------------
\* One line of the recursive definition in RebuildFromChain.
ReplayStep(bodies, f, n) ==
  IF n = 0 THEN [ok |-> TRUE, ledger |-> NewLedger]
  ELSE IF f[n-1].ok THEN applyBlock(f[n-1].ledger, bodies[n])
  ELSE f[n-1]

Replays(bodies, f, n) == f = [i \in 0 .. n |-> ReplayStep(bodies, f, i)]

ReplayFcn(bodies) == CHOOSE f : Replays(bodies, f, Len(bodies))

\* RebuildFromChain is the last value of the replay function.
LEMMA RebuildIsReplay ==
  ASSUME NEW S, NEW bodies \in Seq(S)
  PROVE  RebuildFromChain(bodies) = ReplayFcn(bodies)[Len(bodies)]
BY DEF RebuildFromChain, ReplayFcn, Replays, ReplayStep

\* For every number of bodies there is a function that satisfies the equation.
LEMMA ReplayExists ==
  ASSUME NEW bodies
  PROVE  \A n \in Nat : \E f : Replays(bodies, f, n)
<1> DEFINE T == {n \in Nat : \E f : Replays(bodies, f, n)}
<1>1. 0 \in T
  <2> DEFINE f == [i \in 0 .. 0 |-> [ok |-> TRUE, ledger |-> NewLedger]]
  <2>1. Replays(bodies, f, 0)
    BY DEF Replays, ReplayStep
  <2>2. QED
    BY <2>1
<1>2. ASSUME NEW n \in T PROVE n + 1 \in T
  <2>1. PICK f : Replays(bodies, f, n)
    OBVIOUS
  <2> DEFINE g == [i \in 0 .. n + 1 |-> ReplayStep(bodies, f, i)]
  <2>2. n \in Nat
    OBVIOUS
  <2>3. \A i \in 0 .. n : g[i] = f[i]
    BY <2>1, <2>2 DEF Replays
  <2>4. ASSUME NEW i \in 0 .. n + 1
        PROVE  ReplayStep(bodies, f, i) = ReplayStep(bodies, g, i)
    <3>1. i # 0 => i - 1 \in 0 .. n
      BY <2>2
    <3> HIDE DEF g
    <3>2. QED
      BY <2>3, <3>1 DEF ReplayStep
  <2>5. g = [i \in 0 .. n + 1 |-> ReplayStep(bodies, g, i)]
    BY <2>4
  <2>6. Replays(bodies, g, n + 1)
    <3> HIDE DEF g
    <3>1. QED
      BY <2>5 DEF Replays
  <2>7. QED
    BY <2>6
<1>3. T = Nat
  <2> HIDE DEF T
  <2>1. T \in SUBSET Nat
    BY DEF T
  <2>2. QED
    BY <1>1, <1>2, <2>1, NatSetInduction
<1>4. QED
  BY <1>3

Agree(bodies, more, n) == \A i \in 1 .. n : bodies[i] = more[i]

\* Chains that agree on their first n bodies replay alike up to there.
LEMMA ReplayUnique ==
  ASSUME NEW bodies, NEW more, NEW n \in Nat, NEW m \in Nat, n <= m,
         Agree(bodies, more, n),
         NEW f, NEW g, Replays(bodies, f, n), Replays(more, g, m)
  PROVE  f[n] = g[n]
<1> DEFINE T == {i \in Nat : i <= n => f[i] = g[i]}
<1>1. 0 \in T
  <2>1. 0 \in 0 .. n /\ 0 \in 0 .. m
    OBVIOUS
  <2>2. f[0] = ReplayStep(bodies, f, 0) /\ g[0] = ReplayStep(more, g, 0)
    BY <2>1 DEF Replays
  <2>3. QED
    BY <2>2 DEF ReplayStep
<1>2. ASSUME NEW i \in T PROVE i + 1 \in T
  <2>1. i \in Nat
    OBVIOUS
  <2>2. SUFFICES ASSUME i + 1 <= n
                 PROVE  f[i + 1] = g[i + 1]
    BY <2>1
  <2>3. i + 1 \in 1 .. n /\ i + 1 \in 0 .. n /\ i + 1 \in 0 .. m
    BY <2>1, <2>2
  <2>4. f[i + 1] = ReplayStep(bodies, f, i + 1) /\ g[i + 1] = ReplayStep(more, g, i + 1)
    BY <2>3 DEF Replays
  <2>5. f[i] = g[i] /\ (i + 1) - 1 = i /\ i + 1 # 0 /\ bodies[i + 1] = more[i + 1]
    BY <2>1, <2>2, <2>3 DEF Agree
  <2>6. QED
    BY <2>4, <2>5 DEF ReplayStep
<1>3. T = Nat
  <2> HIDE DEF T
  <2>1. T \in SUBSET Nat
    BY DEF T
  <2>2. QED
    BY <1>1, <1>2, <2>1, NatSetInduction
<1>4. n \in T
  BY <1>3
<1>5. QED
  BY <1>4

\* Rebuilding from nothing gives the empty ledger.
LEMMA RebuildEmpty ==
  RebuildFromChain(<<>>) = [ok |-> TRUE, ledger |-> NewLedger]
<1>1. PICK f : Replays(<<>>, f, 0)
  BY ReplayExists
<1>2. Replays(<<>>, ReplayFcn(<<>>), 0)
  BY <1>1 DEF ReplayFcn
<1>3. RebuildFromChain(<<>>) = ReplayFcn(<<>>)[0]
  BY DEF RebuildFromChain, ReplayFcn, Replays, ReplayStep
<1>4. QED
  BY <1>2, <1>3 DEF Replays, ReplayStep

\* RebuildFromChain with one more body is applyBlock on top of the rest.
LEMMA RebuildAppend ==
  ASSUME NEW S, NEW bodies \in Seq(S), NEW body \in S
  PROVE  RebuildFromChain(Append(bodies, body)) =
           IF RebuildFromChain(bodies).ok
           THEN applyBlock(RebuildFromChain(bodies).ledger, body)
           ELSE RebuildFromChain(bodies)
<1> DEFINE n == Len(bodies)
           more == Append(bodies, body)
           f == ReplayFcn(bodies)
           g == ReplayFcn(more)
<1>1. n \in Nat /\ more \in Seq(S) /\ Len(more) = n + 1 /\ more[n + 1] = body
      /\ \A i \in 1 .. n : bodies[i] = more[i]
  OBVIOUS
<1>2. Replays(bodies, f, n) /\ Replays(more, g, n + 1)
  BY <1>1, ReplayExists DEF ReplayFcn
<1>3. RebuildFromChain(bodies) = f[n] /\ RebuildFromChain(more) = g[n + 1]
  BY <1>1, RebuildIsReplay
<1>4. f[n] = g[n]
  <2>1. n + 1 \in Nat /\ n <= n + 1 /\ Agree(bodies, more, n)
    BY <1>1 DEF Agree
  <2> HIDE DEF n, more, f, g
  <2>2. QED
    BY <1>1, <1>2, <2>1, ReplayUnique
<1>5. g[n + 1] = ReplayStep(more, g, n + 1)
  <2>1. n + 1 \in 0 .. n + 1
    BY <1>1
  <2> HIDE DEF n, more, f, g
  <2>2. QED
    BY <1>2, <2>1 DEF Replays
<1>6. QED
  <2> HIDE DEF n, f, g
  <2>1. (n + 1) - 1 = n /\ n + 1 # 0
    BY <1>1
  <2>2. QED
    BY <1>1, <1>3, <1>4, <1>5, <2>1 DEF ReplayStep

---------------------------------------------------------------------------
(* The payments of a body                                                  *)

Payers == [ok : BOOLEAN, ledger : Ledgers, fees : 0 .. Modulus - 1]

\* One step of SpendAll.
SpendStep(acc, t) ==
  IF IsCoinbase(t) THEN acc
  ELSE IF acc.ok /\ CanSpend(acc.ledger, t)
  THEN [acc EXCEPT !.ledger = Spend(@, t), !.fees = Uint64(@ + Fee[t])]
  ELSE [acc EXCEPT !.ok = FALSE]

SpendStart(l) == [ok |-> TRUE, ledger |-> l, fees |-> 0]

\* What is known after the first i transactions of a body.
SpendRun(h, l, txs) ==
  /\ h \in [0 .. Len(txs) -> Payers]
  /\ h[0] = SpendStart(l)
  /\ \A i \in 1 .. Len(txs) : h[i] = SpendStep(h[i-1], txs[i])

\* Sums and differences of uint64 values are uint64 values.
LEMMA Uint64Type ==
  ASSUME NEW n \in Nat
  PROVE  Uint64(n) \in 0 .. Modulus - 1 /\ Uint64(n) <= n /\ (n < Modulus => Uint64(n) = n)
BY LedgerAssumption DEF Uint64, LedgerAssumption

\* Crediting the receiver gives a ledger.
LEMMA CreditType ==
  ASSUME NEW l \in Ledgers, NEW t \in Tx
  PROVE  Credit(l, t) \in Ledgers
<1>1. To[t] \in Address /\ Amount[t] \in 0 .. Modulus - 1 /\ Modulus \in Nat \ {0}
  BY LedgerAssumption DEF LedgerAssumption
<1>2. l.balances \in [Address -> 0 .. Modulus - 1] /\ l.processedTxs \in SUBSET Tx
  BY DEF Ledgers
<1>3. Uint64(l.balances[To[t]] + Amount[t]) \in 0 .. Modulus - 1
  BY <1>1, <1>2, Uint64Type
<1>4. [l.balances EXCEPT ![To[t]] = Uint64(@ + Amount[t])] \in [Address -> 0 .. Modulus - 1]
  BY <1>1, <1>2, <1>3
<1>5. QED
  BY <1>2, <1>4 DEF Credit, Ledgers

\* What the sender pays of a balance that covers it leaves a ledger.
LEMMA DebitType ==
  ASSUME NEW l \in Ledgers, NEW t \in Tx, ~IsCoinbase(t), CanSpend(l, t)
  PROVE  /\ From[t] \in Address
         /\ Debit(t) \in 0 .. l.balances[From[t]]
         /\ [l EXCEPT !.balances[From[t]] = @ - Debit(t)] \in Ledgers
<1>1. From[t] \in Address /\ Modulus \in Nat \ {0} /\ Amount[t] \in Nat /\ Fee[t] \in Nat
  BY LedgerAssumption DEF LedgerAssumption, IsCoinbase
<1>2. l.balances \in [Address -> 0 .. Modulus - 1] /\ l.processedTxs \in SUBSET Tx
  BY DEF Ledgers
<1>3. Debit(t) \in 0 .. Modulus - 1
  BY <1>1, Uint64Type DEF Debit
<1>4. l.balances[From[t]] \in 0 .. Modulus - 1 /\ l.balances[From[t]] >= Debit(t)
  BY <1>1, <1>2 DEF CanSpend
<1>5. l.balances[From[t]] - Debit(t) \in 0 .. Modulus - 1
  BY <1>1, <1>3, <1>4
<1>6. [l.balances EXCEPT ![From[t]] = @ - Debit(t)] \in [Address -> 0 .. Modulus - 1]
  BY <1>1, <1>2, <1>5
<1>7. QED
  BY <1>1, <1>2, <1>3, <1>4, <1>6 DEF Ledgers

LEMMA SpendType ==
  ASSUME NEW l \in Ledgers, NEW t \in Tx, ~IsCoinbase(t), CanSpend(l, t)
  PROVE  Spend(l, t) \in Ledgers
BY DebitType, CreditType DEF Spend

LEMMA SpendStepType ==
  ASSUME NEW acc \in Payers, NEW t \in Tx
  PROVE  SpendStep(acc, t) \in Payers
<1>1. acc.ok \in BOOLEAN /\ acc.ledger \in Ledgers /\ acc.fees \in 0 .. Modulus - 1
  BY DEF Payers
<1>2. CASE IsCoinbase(t)
  BY <1>2 DEF SpendStep
<1>3. CASE ~IsCoinbase(t) /\ acc.ok /\ CanSpend(acc.ledger, t)
  <2>1. Spend(acc.ledger, t) \in Ledgers
    BY <1>1, <1>3, SpendType
  <2>2. Fee[t] \in Nat /\ acc.fees \in Nat
    BY <1>1, LedgerAssumption DEF LedgerAssumption
  <2>3. Uint64(acc.fees + Fee[t]) \in 0 .. Modulus - 1
    BY <2>2, Uint64Type
  <2>4. QED
    BY <1>1, <1>3, <2>1, <2>3 DEF SpendStep, Payers
<1>4. CASE ~IsCoinbase(t) /\ ~(acc.ok /\ CanSpend(acc.ledger, t))
  BY <1>1, <1>4 DEF SpendStep, Payers
<1>5. QED
  BY <1>2, <1>3, <1>4

SpendIter(f, l, txs) ==
  f = [s \in SUBSET DOMAIN txs |->
         IF s = {} THEN SpendStart(l) ELSE SpendStep(f[s \ {Max(s)}], txs[Max(s)])]

LEMMA SpendAllIsIter ==
  ASSUME NEW l, NEW txs
  PROVE  SpendAll(l, txs) = (CHOOSE f : SpendIter(f, l, txs))[DOMAIN txs]
BY DEF SpendAll, FoldLeft, MapThenFoldSet, SpendIter, SpendStep, SpendStart

\* SpendAll is the last state of a run over the body.
LEMMA SpendAllRuns ==
  ASSUME NEW l \in Ledgers, NEW txs \in Seq(Tx)
  PROVE  \E h : SpendRun(h, l, txs) /\ SpendAll(l, txs) = h[Len(txs)]
<1> DEFINE n == Len(txs)
           g == [p \in (1 .. n) \X Payers |-> SpendStep(p[2], txs[p[1]])]
           f == CHOOSE f : SpendIter(f, l, txs)
           h == [i \in 0 .. n |-> f[1 .. i]]
<1>1. n \in Nat /\ DOMAIN txs = 1 .. n /\ \A i \in 1 .. n : txs[i] \in Tx
  OBVIOUS
<1>2. SpendStart(l) \in Payers
  BY LedgerAssumption DEF SpendStart, Payers, LedgerAssumption
<1>3. g \in [(1 .. n) \X Payers -> Payers]
  BY <1>1, SpendStepType
<1>4. SpendIter(f, l, txs)
  <2>1. PICK F : FoldFcn(F, Payers, SpendStart(l), g, n)
    <3> HIDE DEF g, n
    <3>1. QED
      BY <1>1, <1>2, <1>3, FoldFcnExists
  <2>2. ASSUME NEW s \in SUBSET (1 .. n), s # {}
        PROVE  F[s] = SpendStep(F[s \ {Max(s)}], txs[Max(s)])
    <3>1. F[s] = g[<<Max(s), F[s \ {Max(s)}]>>] /\ F[s \ {Max(s)}] \in Payers
      BY <2>1, <2>2 DEF FoldFcn
    <3>2. Max(s) \in 1 .. n
      BY <1>1, <2>2, MaxOfPositions
    <3>3. QED
      BY <3>1, <3>2
  <2>3. SpendIter(F, l, txs)
    <3> HIDE DEF n
    <3>1. F = [s \in SUBSET (1 .. n) |-> F[s]] /\ F[{}] = SpendStart(l)
      BY <2>1 DEF FoldFcn
    <3>2. QED
      BY <1>1, <2>2, <3>1 DEF SpendIter
  <2>4. QED
    BY <2>3
<1> HIDE DEF f, g
<1>5. h[0] = SpendStart(l)
  <2>1. 1 .. 0 = {} /\ 0 \in 0 .. n
    BY <1>1
  <2>2. QED
    BY <1>4, <2>1 DEF SpendIter
<1>6. ASSUME NEW i \in 1 .. n
      PROVE  h[i] = SpendStep(h[i-1], txs[i])
  <2>1. n \in Nat /\ i \in 1 .. n /\ i \in 0 .. n /\ i - 1 \in 0 .. n
    BY <1>1
  <2>2. f[1 .. i] = SpendStep(f[1 .. i - 1], txs[i])
    <3> HIDE DEF n
    <3>1. \A s \in SUBSET (1 .. n) :
             s # {} => f[s] = SpendStep(f[s \ {Max(s)}], txs[Max(s)])
      BY <1>1, <1>4 DEF SpendIter
    <3>2. EndsAt(1 .. i, i, n)
      BY <2>1, PositionsEnd
    <3>3. QED
      BY <3>1, <3>2 DEF EndsAt
  <2>3. QED
    BY <2>1, <2>2
<1>7. \A i \in 0 .. n : h[i] \in Payers
  <2> DEFINE T == {i \in Nat : h[i] \in Payers}
  <2>1. 0 \in T
    BY <1>2, <1>5
  <2>2. ASSUME NEW i \in 0 .. n - 1, i \in T
        PROVE  i + 1 \in T
    <3>1. i + 1 \in 1 .. n /\ (i + 1) - 1 = i /\ i + 1 \in Nat
      BY <1>1
    <3>2. h[i + 1] = SpendStep(h[i], txs[i + 1])
      BY <1>6, <3>1
    <3> HIDE DEF h
    <3>3. QED
      BY <1>1, <2>2, <3>1, <3>2, SpendStepType
  <2> HIDE DEF T
  <2>3. \A i \in 0 .. n : i \in T
    BY <1>1, <2>1, <2>2, BoundedInduction
  <2>4. QED
    BY <2>3 DEF T
<1>8. SpendAll(l, txs) = h[n]
  <2>1. SpendAll(l, txs) = f[DOMAIN txs]
    BY SpendAllIsIter DEF f
  <2>2. n \in 0 .. n
    BY <1>1
  <2> HIDE DEF n
  <2>3. h[n] = f[1 .. n]
    BY <2>2
  <2>4. QED
    BY <1>1, <2>1, <2>3
<1>9. SpendRun(h, l, txs)
  <2> HIDE DEF n
  <2>1. h \in [0 .. n -> Payers]
    BY <1>7
  <2> HIDE DEF h
  <2>2. QED
    BY <1>5, <1>6, <2>1 DEF SpendRun, n
<1>10. QED
  BY <1>8, <1>9

Results == [ok : BOOLEAN, ledger : Ledgers]

\* Applying a body to a ledger gives a ledger, also when it fails.
LEMMA ApplyType ==
  ASSUME NEW l \in Ledgers, NEW txs \in Seq(Tx)
  PROVE  applyBlock(l, txs) \in Results
<1>1. PICK h : SpendRun(h, l, txs) /\ SpendAll(l, txs) = h[Len(txs)]
  BY SpendAllRuns
<1>2. SpendAll(l, txs) \in Payers
  <2>1. Len(txs) \in 0 .. Len(txs)
    OBVIOUS
  <2>2. QED
    BY <1>1, <2>1 DEF SpendRun
<1> DEFINE paid == SpendAll(l, txs)
<1>3. paid.ledger \in Ledgers
  BY <1>2 DEF Payers
<1>4. HasCoinbase(txs) => Credit(paid.ledger, txs[1]) \in Ledgers
  <2>1. HasCoinbase(txs) => txs[1] \in Tx
    BY DEF HasCoinbase
  <2>2. QED
    BY <1>3, <2>1, CreditType
<1> HIDE DEF paid
<1>5. QED
  BY <1>3, <1>4 DEF applyBlock, Results, paid

\* The payments among the first i transactions of a body.
SpentBy(txs, i) == {txs[j] : j \in {k \in 1 .. i : ~IsCoinbase(txs[k])}}

\* Among the first i transactions, no payment was confirmed before or occurs
\* twice.
SpendableOnce(l, txs, i) ==
  /\ SpentBy(txs, i) \cap l.processedTxs = {}
  /\ \A j, k \in 1 .. i : j # k /\ txs[j] = txs[k] => IsCoinbase(txs[j])

\* A payment marks its transaction.
LEMMA SpendMarks ==
  ASSUME NEW l \in Ledgers, NEW t \in Tx, ~IsCoinbase(t), CanSpend(l, t)
  PROVE  Spend(l, t).processedTxs = l.processedTxs \cup {t}
BY DebitType DEF Spend, Credit, Ledgers

\* While all payments of a body succeed, each is new and gets marked.
LEMMA SpendRunMarks ==
  ASSUME NEW l \in Ledgers, NEW txs \in Seq(Tx), NEW h, SpendRun(h, l, txs)
  PROVE  \A i \in 0 .. Len(txs) :
            h[i].ok => /\ h[i].ledger.processedTxs = l.processedTxs \cup SpentBy(txs, i)
                       /\ SpendableOnce(l, txs, i)
<1> DEFINE n == Len(txs)
           P(i) == h[i].ok => /\ h[i].ledger.processedTxs = l.processedTxs \cup SpentBy(txs, i)
                              /\ SpendableOnce(l, txs, i)
           T == {i \in Nat : P(i)}
<1>1. n \in Nat /\ \A i \in 1 .. n : txs[i] \in Tx
  OBVIOUS
<1>2. 0 \in T
  <2>1. h[0].ledger = l
    BY DEF SpendRun, SpendStart
  <2>2. SpentBy(txs, 0) = {} /\ 1 .. 0 = {}
    BY DEF SpentBy
  <2>3. QED
    BY <2>1, <2>2 DEF SpendableOnce
<1>3. ASSUME NEW i \in 0 .. n - 1, P(i)
      PROVE  P(i + 1)
  <2> DEFINE t == txs[i + 1]
  <2>1. i + 1 \in 1 .. n /\ (i + 1) - 1 = i /\ i \in 0 .. n /\ t \in Tx
    BY <1>1
  <2>2. h[i + 1] = SpendStep(h[i], t) /\ h[i] \in Payers
    <3> HIDE DEF n
    <3>1. \A j \in 1 .. n : h[j] = SpendStep(h[j-1], txs[j])
      BY DEF SpendRun, n
    <3>2. h \in [0 .. n -> Payers]
      BY DEF SpendRun, n
    <3>3. QED
      BY <2>1, <3>1, <3>2
  <2>3. 1 .. i + 1 = (1 .. i) \cup {i + 1} /\ i + 1 \notin 1 .. i
    BY <2>1
  <2>4. CASE IsCoinbase(t)
    <3>1. h[i + 1] = h[i]
      BY <2>2, <2>4 DEF SpendStep
    <3>2. SpentBy(txs, i + 1) = SpentBy(txs, i)
      BY <2>3, <2>4 DEF SpentBy
    <3>3. SpendableOnce(l, txs, i) => SpendableOnce(l, txs, i + 1)
      BY <2>3, <2>4, <3>2 DEF SpendableOnce
    <3>4. QED
      BY <1>3, <3>1, <3>2, <3>3
  <2>5. CASE ~IsCoinbase(t) /\ h[i].ok /\ CanSpend(h[i].ledger, t)
    <3>1. h[i + 1].ledger = Spend(h[i].ledger, t) /\ h[i].ledger \in Ledgers
      BY <2>2, <2>5 DEF SpendStep, Payers
    <3>2. h[i + 1].ledger.processedTxs = h[i].ledger.processedTxs \cup {t}
      BY <2>1, <2>5, <3>1, SpendMarks
    <3>3. SpentBy(txs, i + 1) = SpentBy(txs, i) \cup {t}
      BY <2>3, <2>5 DEF SpentBy
    <3>4. t \notin h[i].ledger.processedTxs
      BY <2>5 DEF CanSpend
    <3>5. t \notin l.processedTxs \cup SpentBy(txs, i)
      BY <1>3, <2>5, <3>4
    <3>6. ASSUME NEW j \in 1 .. i + 1, NEW k \in 1 .. i + 1, j # k, txs[j] = txs[k]
          PROVE  IsCoinbase(txs[j])
      <4>1. SpendableOnce(l, txs, i)
        BY <1>3, <2>5
      <4>2. CASE j \in 1 .. i /\ k \in 1 .. i
        BY <3>6, <4>1, <4>2 DEF SpendableOnce
      <4>3. CASE j = i + 1 /\ k \in 1 .. i
        BY <3>5, <3>6, <4>3 DEF SpentBy
      <4>4. CASE j \in 1 .. i /\ k = i + 1
        BY <3>5, <3>6, <4>4 DEF SpentBy
      <4>5. QED
        BY <2>3, <3>6, <4>2, <4>3, <4>4
    <3>7. SpendableOnce(l, txs, i + 1)
      BY <1>3, <2>5, <3>3, <3>5, <3>6 DEF SpendableOnce
    <3>8. QED
      BY <1>3, <2>5, <3>2, <3>3, <3>7
  <2>6. CASE ~IsCoinbase(t) /\ ~(h[i].ok /\ CanSpend(h[i].ledger, t))
    <3>1. ~h[i + 1].ok
      BY <2>2, <2>6 DEF SpendStep, Payers
    <3>2. QED
      BY <3>1
  <2>7. QED
    BY <2>4, <2>5, <2>6
<1>4. QED
  <2>1. \A i \in 0 .. n - 1 : i \in T => i + 1 \in T
    BY <1>1, <1>3
  <2> HIDE DEF T
  <2>2. \A i \in 0 .. n : i \in T
    BY <1>1, <1>2, <2>1, BoundedInduction
  <2>3. QED
    BY <2>2 DEF T

\* A body that applies brings only payments that were not confirmed before,
\* each once, and afterwards all its transactions are marked.
LEMMA ApplyMarks ==
  ASSUME NEW l \in Ledgers, NEW txs \in Seq(Tx), applyBlock(l, txs).ok
  PROVE  /\ applyBlock(l, txs).ledger.processedTxs = l.processedTxs \cup ToSet(txs)
         /\ SpendableOnce(l, txs, Len(txs))
<1> DEFINE n == Len(txs)
<1>1. PICK h : SpendRun(h, l, txs) /\ SpendAll(l, txs) = h[n]
  BY SpendAllRuns
<1>2. n \in Nat /\ n \in 0 .. n /\ DOMAIN txs = 1 .. n
  OBVIOUS
<1>3. CoinbaseFirst(txs) /\ SpendAll(l, txs).ok
  BY DEF applyBlock
<1>4. /\ SpendAll(l, txs).ledger.processedTxs = l.processedTxs \cup SpentBy(txs, n)
      /\ SpendableOnce(l, txs, n)
  BY <1>1, <1>2, <1>3, SpendRunMarks
<1>5. CASE HasCoinbase(txs)
  <2>1. applyBlock(l, txs).ledger = Credit(SpendAll(l, txs).ledger, txs[1])
    BY <1>5 DEF applyBlock
  <2>2. applyBlock(l, txs).ledger.processedTxs
          = l.processedTxs \cup SpentBy(txs, n) \cup {txs[1]}
    BY <1>4, <2>1 DEF Credit
  <2>3. n # 0 /\ 1 \in 1 .. n
    BY <1>2, <1>5 DEF HasCoinbase
  <2>4. ToSet(txs) = SpentBy(txs, n) \cup {txs[1]}
    <3>1. \A k \in 1 .. n : IsCoinbase(txs[k]) => k = 1
      BY <1>2, <1>3 DEF CoinbaseFirst
    <3> HIDE DEF n
    <3>2. QED
      BY <1>2, <2>3, <3>1 DEF SpentBy, ToSet
  <2>5. QED
    BY <1>4, <2>2, <2>4
<1>6. CASE ~HasCoinbase(txs)
  <2>1. applyBlock(l, txs).ledger = SpendAll(l, txs).ledger
    BY <1>3, <1>6 DEF applyBlock
  <2>2. \A k \in 1 .. n : ~IsCoinbase(txs[k])
    BY <1>2, <1>3, <1>6 DEF CoinbaseFirst, HasCoinbase
  <2>3. ToSet(txs) = SpentBy(txs, n)
    <3> HIDE DEF n
    <3>1. QED
      BY <1>2, <2>2 DEF SpentBy, ToSet
  <2>4. QED
    BY <1>4, <2>1, <2>3
<1>7. QED
  BY <1>5, <1>6

---------------------------------------------------------------------------
(* Flattening a chain of bodies                                            *)

\* One line of the recursive definition in FlattenSeq.
FlattenStep(seqs, f, i) == IF i = 1 THEN seqs[i] ELSE f[i-1] \o seqs[i]

Flattens(seqs, f, n) == f = [i \in 1 .. n |-> FlattenStep(seqs, f, i)]

FlattenFcn(seqs) == CHOOSE f : Flattens(seqs, f, Len(seqs))

LEMMA FlattenIsFcn ==
  ASSUME NEW seqs, Len(seqs) # 0
  PROVE  FlattenSeq(seqs) = FlattenFcn(seqs)[Len(seqs)]
BY DEF FlattenSeq, FlattenFcn, Flattens, FlattenStep

LEMMA FlattenExists ==
  ASSUME NEW seqs
  PROVE  \A n \in Nat : \E f : Flattens(seqs, f, n)
<1> DEFINE T == {n \in Nat : \E f : Flattens(seqs, f, n)}
<1>1. 0 \in T
  <2> DEFINE f == [i \in 1 .. 0 |-> seqs[i]]
  <2>1. Flattens(seqs, f, 0)
    BY DEF Flattens
  <2>2. QED
    BY <2>1
<1>2. ASSUME NEW n \in T PROVE n + 1 \in T
  <2>1. PICK f : Flattens(seqs, f, n)
    OBVIOUS
  <2> DEFINE g == [i \in 1 .. n + 1 |-> FlattenStep(seqs, f, i)]
  <2>2. n \in Nat
    OBVIOUS
  <2>3. \A i \in 1 .. n : g[i] = f[i]
    BY <2>1, <2>2 DEF Flattens
  <2>4. ASSUME NEW i \in 1 .. n + 1
        PROVE  FlattenStep(seqs, f, i) = FlattenStep(seqs, g, i)
    <3>1. i # 1 => i - 1 \in 1 .. n
      BY <2>2
    <3> HIDE DEF g
    <3>2. QED
      BY <2>3, <3>1 DEF FlattenStep
  <2>5. g = [i \in 1 .. n + 1 |-> FlattenStep(seqs, g, i)]
    BY <2>4
  <2>6. Flattens(seqs, g, n + 1)
    <3> HIDE DEF g
    <3>1. QED
      BY <2>5 DEF Flattens
  <2>7. QED
    BY <2>6
<1>3. T = Nat
  <2> HIDE DEF T
  <2>1. T \in SUBSET Nat
    BY DEF T
  <2>2. QED
    BY <1>1, <1>2, <2>1, NatSetInduction
<1>4. QED
  BY <1>3

\* Sequences of sequences that agree on their first n elements flatten alike
\* up to there, and to a sequence over the same set.
LEMMA FlattenUnique ==
  ASSUME NEW S, NEW seqs \in Seq(Seq(S)), NEW more,
         NEW n \in Nat, n <= Len(seqs), NEW m \in Nat, n <= m,
         \A i \in 1 .. n : seqs[i] = more[i],
         NEW f, NEW g, Flattens(seqs, f, n), Flattens(more, g, m)
  PROVE  \A i \in 1 .. n : f[i] = g[i] /\ f[i] \in Seq(S)
<1> DEFINE T == {i \in Nat : i \in 1 .. n => f[i] = g[i] /\ f[i] \in Seq(S)}
<1>0. \A i \in 1 .. n : seqs[i] \in Seq(S)
  OBVIOUS
<1>1. 0 \in T
  OBVIOUS
<1>2. ASSUME NEW i \in T PROVE i + 1 \in T
  <2>1. i \in Nat
    OBVIOUS
  <2>2. SUFFICES ASSUME i + 1 \in 1 .. n
                 PROVE  f[i + 1] = g[i + 1] /\ f[i + 1] \in Seq(S)
    BY <2>1
  <2>3. i + 1 \in 1 .. m /\ (i + 1) - 1 = i
    BY <2>1, <2>2
  <2>4. f[i + 1] = FlattenStep(seqs, f, i + 1) /\ g[i + 1] = FlattenStep(more, g, i + 1)
    BY <2>2, <2>3 DEF Flattens
  <2>5. CASE i = 0
    BY <1>0, <2>2, <2>4, <2>5 DEF FlattenStep
  <2>6. CASE i # 0
    <3>1. f[i] = g[i] /\ f[i] \in Seq(S) /\ i + 1 # 1
      BY <2>1, <2>2, <2>6
    <3>2. f[i + 1] = f[i] \o seqs[i + 1] /\ g[i + 1] = g[i] \o more[i + 1]
      BY <2>3, <2>4, <3>1 DEF FlattenStep
    <3>3. seqs[i + 1] = more[i + 1] /\ seqs[i + 1] \in Seq(S)
      BY <1>0, <2>2
    <3>4. f[i] \o seqs[i + 1] \in Seq(S)
      BY <3>1, <3>3
    <3>5. QED
      BY <3>1, <3>2, <3>3, <3>4
  <2>7. QED
    BY <2>5, <2>6
<1>3. T = Nat
  <2> HIDE DEF T
  <2>1. T \in SUBSET Nat
    BY DEF T
  <2>2. QED
    BY <1>1, <1>2, <2>1, NatSetInduction
<1>4. \A i \in 1 .. n : i \in T
  <2> HIDE DEF T
  <2>1. QED
    BY <1>3
<1>5. QED
  BY <1>4

\* One more body at the end: its transactions come after all others.
LEMMA FlattenAppend ==
  ASSUME NEW S, NEW seqs \in Seq(Seq(S)), NEW s \in Seq(S)
  PROVE  /\ FlattenSeq(Append(seqs, s)) = FlattenSeq(seqs) \o s
         /\ FlattenSeq(seqs) \in Seq(S)
<1> DEFINE n == Len(seqs)
           more == Append(seqs, s)
           f == FlattenFcn(seqs)
           g == FlattenFcn(more)
<1>1. n \in Nat /\ Len(more) = n + 1 /\ more[n + 1] = s /\ n + 1 # 0
      /\ \A i \in 1 .. n : seqs[i] = more[i]
  OBVIOUS
<1>2. Flattens(seqs, f, n) /\ Flattens(more, g, n + 1)
  <2>1. n + 1 \in Nat
    BY <1>1
  <2>2. QED
    BY <1>1, <2>1, FlattenExists DEF FlattenFcn
<1>3. FlattenSeq(more) = g[n + 1]
  BY <1>1, FlattenIsFcn
<1>4. \A i \in 1 .. n : f[i] = g[i] /\ f[i] \in Seq(S)
  <2>1. n + 1 \in Nat /\ n <= n + 1 /\ n <= Len(seqs)
    BY <1>1
  <2>2. \A i \in 1 .. n : seqs[i] = more[i]
    BY <1>1
  <2> HIDE DEF f, g, more, n
  <2>3. QED
    BY <1>1, <1>2, <2>1, <2>2, FlattenUnique
<1>5. g[n + 1] = FlattenStep(more, g, n + 1)
  <2>1. n + 1 \in 1 .. n + 1
    BY <1>1
  <2> HIDE DEF f, g, n
  <2>2. QED
    BY <1>2, <2>1 DEF Flattens
<1>6. CASE n = 0
  <2>1. seqs = <<>> /\ FlattenSeq(seqs) = <<>>
    BY <1>6 DEF FlattenSeq
  <2>2. g[n + 1] = s
    BY <1>1, <1>5, <1>6 DEF FlattenStep
  <2>3. <<>> \o s = s /\ <<>> \in Seq(S)
    OBVIOUS
  <2> HIDE DEF f, g
  <2>4. QED
    BY <1>3, <2>1, <2>2, <2>3
<1>7. CASE n # 0
  <2>1. n \in 1 .. n /\ (n + 1) - 1 = n /\ n + 1 # 1
    BY <1>1, <1>7
  <2>2. FlattenSeq(seqs) = f[n]
    BY <1>7, FlattenIsFcn
  <2> HIDE DEF f, g
  <2>3. g[n + 1] = g[n] \o s
    BY <1>1, <1>5, <2>1 DEF FlattenStep
  <2>4. QED
    BY <1>3, <1>4, <2>1, <2>2, <2>3
<1>8. QED
  BY <1>6, <1>7

\* A payment occurs in it at most once.
NoRepeat(txs) ==
  \A i, j \in DOMAIN txs : i # j /\ txs[i] = txs[j] => IsCoinbase(txs[i])

\* What the transactions of a chain leave behind.
Settled(l, bodies) ==
  /\ l.processedTxs = ToSet(FlattenSeq(bodies))
  /\ NoRepeat(FlattenSeq(bodies))

\* One more body that applies.
LEMMA SettledAppend ==
  ASSUME NEW l \in Ledgers, NEW bodies \in Seq(Seq(Tx)), NEW txs \in Seq(Tx),
         Settled(l, bodies), applyBlock(l, txs).ok
  PROVE  Settled(applyBlock(l, txs).ledger, Append(bodies, txs))
<1> DEFINE old == FlattenSeq(bodies)
           new == FlattenSeq(Append(bodies, txs))
           n == Len(old)
<1>1. new = old \o txs /\ old \in Seq(Tx)
  BY FlattenAppend
<1> HIDE DEF old, new
<1>2. /\ DOMAIN old = 1 .. n /\ DOMAIN new = 1 .. n + Len(txs)
      /\ n \in Nat /\ Len(txs) \in Nat /\ DOMAIN txs = 1 .. Len(txs)
      /\ \A i \in 1 .. n : new[i] = old[i]
      /\ \A i \in 1 .. Len(txs) : new[n + i] = txs[i]
  BY <1>1
<1>3. /\ applyBlock(l, txs).ledger.processedTxs = l.processedTxs \cup ToSet(txs)
      /\ SpendableOnce(l, txs, Len(txs))
  BY ApplyMarks
<1>4. l.processedTxs = ToSet(old) /\ NoRepeat(old)
  BY DEF Settled, old
<1> HIDE DEF n
<1>5. \A i \in 1 .. n + Len(txs) : i \in 1 .. n \/ (i - n \in 1 .. Len(txs) /\ n + (i - n) = i)
  BY <1>2
<1>6. ToSet(new) = ToSet(old) \cup ToSet(txs)
  <2>1. ASSUME NEW x \in ToSet(new) PROVE x \in ToSet(old) \cup ToSet(txs)
    <3>1. PICK i \in 1 .. n + Len(txs) : x = new[i]
      BY <1>2, <2>1 DEF ToSet
    <3>2. CASE i \in 1 .. n
      BY <1>2, <3>1, <3>2 DEF ToSet
    <3>3. CASE i - n \in 1 .. Len(txs) /\ n + (i - n) = i
      <4>1. x = txs[i - n]
        BY <1>2, <3>1, <3>3
      <4>2. QED
        BY <1>2, <3>3, <4>1 DEF ToSet
    <3>4. QED
      BY <1>5, <3>1, <3>2, <3>3
  <2>2. ASSUME NEW x \in ToSet(old) PROVE x \in ToSet(new)
    <3>1. PICK i \in 1 .. n : x = old[i]
      BY <1>2, <2>2 DEF ToSet
    <3>2. i \in 1 .. n + Len(txs)
      BY <1>2
    <3>3. QED
      BY <1>2, <3>1, <3>2 DEF ToSet
  <2>3. ASSUME NEW x \in ToSet(txs) PROVE x \in ToSet(new)
    <3>1. PICK i \in 1 .. Len(txs) : x = txs[i]
      BY <1>2, <2>3 DEF ToSet
    <3>2. n + i \in 1 .. n + Len(txs)
      BY <1>2
    <3>3. QED
      BY <1>2, <3>1, <3>2 DEF ToSet
  <2>4. QED
    BY <2>1, <2>2, <2>3
<1>7. \A i \in 1 .. n, j \in 1 .. Len(txs) : old[i] = txs[j] => IsCoinbase(old[i])
  <2>1. \A i \in 1 .. n : old[i] \in l.processedTxs
    BY <1>2, <1>4 DEF ToSet
  <2>2. \A j \in 1 .. Len(txs) : IsCoinbase(txs[j]) \/ txs[j] \notin l.processedTxs
    BY <1>3 DEF SpendableOnce, SpentBy
  <2>3. QED
    BY <2>1, <2>2
<1>8. NoRepeat(new)
  <2>1. SUFFICES ASSUME NEW i \in 1 .. n + Len(txs), NEW j \in 1 .. n + Len(txs),
                        i # j, new[i] = new[j]
                 PROVE  IsCoinbase(new[i])
    BY <1>2 DEF NoRepeat
  <2>2. CASE i \in 1 .. n /\ j \in 1 .. n
    BY <1>2, <1>4, <2>1, <2>2 DEF NoRepeat
  <2>3. CASE i \in 1 .. n /\ j - n \in 1 .. Len(txs) /\ n + (j - n) = j
    <3>1. new[j] = txs[j - n] /\ new[i] = old[i]
      BY <1>2, <2>3
    <3>2. QED
      BY <1>7, <2>1, <2>3, <3>1
  <2>4. CASE j \in 1 .. n /\ i - n \in 1 .. Len(txs) /\ n + (i - n) = i
    <3>1. new[i] = txs[i - n] /\ new[j] = old[j]
      BY <1>2, <2>4
    <3>2. QED
      BY <1>7, <2>1, <2>4, <3>1
  <2>5. CASE /\ i - n \in 1 .. Len(txs) /\ n + (i - n) = i
             /\ j - n \in 1 .. Len(txs) /\ n + (j - n) = j
    <3>1. new[i] = txs[i - n] /\ new[j] = txs[j - n]
      BY <1>2, <2>5
    <3>2. i - n # j - n
      BY <2>1, <2>5
    <3>3. QED
      BY <1>3, <2>1, <2>5, <3>1, <3>2 DEF SpendableOnce
  <2>6. QED
    BY <1>5, <2>1, <2>2, <2>3, <2>4, <2>5
<1>9. QED
  BY <1>3, <1>4, <1>6, <1>8 DEF Settled, new

\* Rebuilding ends in a ledger, and one that succeeds leaves every
\* transaction of the chain marked and no payment confirmed twice.
LEMMA RebuildSettles ==
  ASSUME NEW bodies \in Seq(Seq(Tx))
  PROVE  /\ RebuildFromChain(bodies) \in Results
         /\ RebuildFromChain(bodies).ok => Settled(RebuildFromChain(bodies).ledger, bodies)
<1> DEFINE P(c) == /\ RebuildFromChain(c) \in Results
                   /\ RebuildFromChain(c).ok => Settled(RebuildFromChain(c).ledger, c)
           T == {n \in Nat : \A c \in Seq(Seq(Tx)) : Len(c) = n => P(c)}
<1>1. 0 \in T
  <2>1. NewLedger \in Ledgers /\ NewLedger.processedTxs = {}
    BY LedgerAssumption DEF NewLedger, Ledgers, LedgerAssumption
  <2>2. FlattenSeq(<<>>) = <<>> /\ ToSet(<<>>) = {}
    BY DEF FlattenSeq, ToSet
  <2>3. RebuildFromChain(<<>>) \in Results
    <3>1. [ok |-> TRUE, ledger |-> NewLedger] \in Results
      BY <2>1 DEF Results
    <3>2. QED
      BY <3>1, RebuildEmpty
  <2>4. NoRepeat(FlattenSeq(<<>>))
    BY <2>2 DEF NoRepeat
  <2>5. Settled(NewLedger, <<>>)
    BY <2>1, <2>2, <2>4 DEF Settled
  <2>6. P(<<>>)
    BY <2>3, <2>5, RebuildEmpty
  <2>7. \A c \in Seq(Seq(Tx)) : Len(c) = 0 => c = <<>>
    OBVIOUS
  <2> HIDE DEF P
  <2>8. QED
    BY <2>6, <2>7
<1>2. ASSUME NEW n \in T PROVE n + 1 \in T
  <2>1. SUFFICES ASSUME NEW c \in Seq(Seq(Tx)), Len(c) = n + 1
                 PROVE  P(c)
    OBVIOUS
  <2>2. PICK front \in Seq(Seq(Tx)), last \in Seq(Tx) : c = Append(front, last) /\ Len(front) = n
    <3>1. SubSeq(c, 1, n) \in Seq(Seq(Tx)) /\ Len(SubSeq(c, 1, n)) = n /\ c[n + 1] \in Seq(Tx)
      BY <2>1
    <3>2. c = Append(SubSeq(c, 1, n), c[n + 1])
      BY <2>1
    <3>3. QED
      BY <3>1, <3>2
  <2>3. P(front)
    BY <2>2
  <2>4. RebuildFromChain(c) = IF RebuildFromChain(front).ok
                              THEN applyBlock(RebuildFromChain(front).ledger, last)
                              ELSE RebuildFromChain(front)
    BY <2>2, RebuildAppend
  <2>5. CASE RebuildFromChain(front).ok
    <3>1. RebuildFromChain(front).ledger \in Ledgers
      BY <2>3 DEF Results
    <3>2. RebuildFromChain(c) = applyBlock(RebuildFromChain(front).ledger, last)
      BY <2>4, <2>5
    <3>3. QED
      BY <2>2, <2>3, <2>5, <3>1, <3>2, ApplyType, SettledAppend
  <2>6. CASE ~RebuildFromChain(front).ok
    BY <2>3, <2>4, <2>6
  <2>7. QED
    BY <2>5, <2>6
<1>3. T = Nat
  <2> HIDE DEF T
  <2>1. T \in SUBSET Nat
    BY DEF T
  <2>2. QED
    BY <1>1, <1>2, <2>1, NatSetInduction
<1>4. QED
  <2>1. Len(bodies) \in T
    BY <1>3
  <2>2. QED
    BY <2>1

---------------------------------------------------------------------------
(* Longer bodies, and the transactions that FilterValidTransactions keeps  *)

\* Runs over bodies that agree go alike: more starts with k transactions that
\* change nothing and goes on as txs does.
LEMMA SpendRunAligned ==
  ASSUME NEW l \in Ledgers, NEW txs \in Seq(Tx), NEW more \in Seq(Tx),
         NEW h, SpendRun(h, l, txs), NEW g, SpendRun(g, l, more),
         NEW k \in Nat, k + Len(txs) <= Len(more), g[k] = SpendStart(l),
         \A i \in 1 .. Len(txs) : more[k + i] = txs[i]
  PROVE  g[k + Len(txs)] = h[Len(txs)]
<1> DEFINE n == Len(txs)
           T == {i \in Nat : g[k + i] = h[i]}
<1>1. n \in Nat /\ Len(more) \in Nat
  OBVIOUS
<1>2. 0 \in T
  BY DEF SpendRun
<1>3. ASSUME NEW i \in 0 .. n - 1, i \in T
      PROVE  i + 1 \in T
  <2>1. i + 1 \in 1 .. n /\ (i + 1) - 1 = i /\ i + 1 \in Nat
    BY <1>1
  <2>2. k + (i + 1) \in 1 .. Len(more) /\ (k + (i + 1)) - 1 = k + i
    BY <1>1, <2>1
  <2>3. h[i + 1] = SpendStep(h[i], txs[i + 1])
    <3>1. \A j \in 1 .. n : h[j] = SpendStep(h[j-1], txs[j])
      BY DEF SpendRun
    <3> HIDE DEF n
    <3>2. QED
      BY <2>1, <3>1
  <2>4. g[k + (i + 1)] = SpendStep(g[k + i], more[k + (i + 1)])
    <3>1. \A j \in 1 .. Len(more) : g[j] = SpendStep(g[j-1], more[j])
      BY DEF SpendRun
    <3>2. QED
      BY <2>2, <3>1
  <2>5. more[k + (i + 1)] = txs[i + 1] /\ g[k + i] = h[i]
    BY <1>3, <2>1
  <2>6. QED
    BY <2>1, <2>3, <2>4, <2>5
<1>4. QED
  <2> HIDE DEF T
  <2>1. \A i \in 0 .. n : i \in T
    BY <1>1, <1>2, <1>3, BoundedInduction
  <2>2. n \in T
    BY <1>1, <2>1
  <2>3. QED
    BY <2>2 DEF T

\* One more transaction at the end of a body.
LEMMA SpendAppend ==
  ASSUME NEW l \in Ledgers, NEW txs \in Seq(Tx), NEW t \in Tx
  PROVE  SpendAll(l, Append(txs, t)) = SpendStep(SpendAll(l, txs), t)
<1> DEFINE n == Len(txs)
           more == Append(txs, t)
<1>1. /\ n \in Nat /\ more \in Seq(Tx) /\ Len(more) = n + 1 /\ more[n + 1] = t
      /\ \A i \in 1 .. n : more[0 + i] = txs[i]
  OBVIOUS
<1>2. PICK h : SpendRun(h, l, txs) /\ SpendAll(l, txs) = h[n]
  BY SpendAllRuns
<1>3. PICK g : SpendRun(g, l, more) /\ SpendAll(l, more) = g[n + 1]
  BY <1>1, SpendAllRuns
<1> HIDE DEF more
<1>4. g[0 + n] = h[n]
  <2>1. g[0] = SpendStart(l) /\ 0 + n <= Len(more) /\ 0 \in Nat
    BY <1>1, <1>3 DEF SpendRun
  <2>2. QED
    BY <1>1, <1>2, <1>3, <2>1, SpendRunAligned
<1>5. g[n + 1] = SpendStep(g[n], t)
  <2>1. n + 1 \in 1 .. Len(more) /\ (n + 1) - 1 = n
    BY <1>1
  <2>2. \A j \in 1 .. Len(more) : g[j] = SpendStep(g[j-1], more[j])
    BY <1>3 DEF SpendRun
  <2> HIDE DEF n
  <2>3. QED
    BY <1>1, <2>1, <2>2
<1>6. 0 + n = n
  BY <1>1
<1>7. QED
  BY <1>2, <1>3, <1>4, <1>5, <1>6 DEF more

\* A coinbase in front makes no difference to the payments.
LEMMA SpendAfterCoinbase ==
  ASSUME NEW l \in Ledgers, NEW txs \in Seq(Tx), NEW c \in Tx, IsCoinbase(c)
  PROVE  SpendAll(l, <<c>> \o txs) = SpendAll(l, txs)
<1> DEFINE n == Len(txs)
           more == <<c>> \o txs
<1>1. /\ n \in Nat /\ more \in Seq(Tx) /\ Len(more) = 1 + n /\ more[1] = c
      /\ \A i \in 1 .. n : more[1 + i] = txs[i]
  OBVIOUS
<1>2. PICK h : SpendRun(h, l, txs) /\ SpendAll(l, txs) = h[n]
  BY SpendAllRuns
<1>3. PICK g : SpendRun(g, l, more) /\ SpendAll(l, more) = g[1 + n]
  BY <1>1, SpendAllRuns
<1> HIDE DEF more
<1>4. g[1] = SpendStart(l)
  <2>1. 1 \in 1 .. Len(more) /\ 1 - 1 = 0
    BY <1>1
  <2>2. g[0] = SpendStart(l) /\ g[1] = SpendStep(g[0], c)
    BY <1>1, <1>3, <2>1 DEF SpendRun
  <2>3. QED
    BY <2>2 DEF SpendStep
<1>5. g[1 + n] = h[n]
  <2>1. 1 + n <= Len(more) /\ 1 \in Nat
    BY <1>1
  <2>2. QED
    BY <1>1, <1>2, <1>3, <1>4, <2>1, SpendRunAligned
<1>6. QED
  BY <1>2, <1>3, <1>5 DEF more

LEMMA SpendNothing ==
  ASSUME NEW l \in Ledgers
  PROVE  SpendAll(l, <<>>) = SpendStart(l)
<1>1. <<>> \in Seq(Tx) /\ Len(<<>>) = 0
  OBVIOUS
<1>2. PICK h : SpendRun(h, l, <<>>) /\ SpendAll(l, <<>>) = h[0]
  BY <1>1, SpendAllRuns
<1>3. QED
  BY <1>2 DEF SpendRun

Keepers == [ledger : Ledgers, kept : Seq(Tx)]

\* One step of FilterValidTransactions.
FilterStep(acc, t) ==
  IF ~IsCoinbase(t) /\ CanSpend(acc.ledger, t)
  THEN [ledger |-> Spend(acc.ledger, t), kept |-> Append(acc.kept, t)]
  ELSE acc

FilterStart(l) == [ledger |-> l, kept |-> <<>>]

FilterIter(f, l, txs) ==
  f = [s \in SUBSET DOMAIN txs |->
         IF s = {} THEN FilterStart(l) ELSE FilterStep(f[s \ {Max(s)}], txs[Max(s)])]

LEMMA FilterIsIter ==
  ASSUME NEW l, NEW txs
  PROVE  FilterValidTransactions(l, txs) = (CHOOSE f : FilterIter(f, l, txs))[DOMAIN txs].kept
BY DEF FilterValidTransactions, FoldLeft, MapThenFoldSet, FilterIter, FilterStep, FilterStart

LEMMA FilterStepType ==
  ASSUME NEW acc \in Keepers, NEW t \in Tx
  PROVE  FilterStep(acc, t) \in Keepers
<1>1. acc.ledger \in Ledgers /\ acc.kept \in Seq(Tx)
  BY DEF Keepers
<1>2. CASE ~IsCoinbase(t) /\ CanSpend(acc.ledger, t)
  <2>1. Spend(acc.ledger, t) \in Ledgers /\ Append(acc.kept, t) \in Seq(Tx)
    BY <1>1, <1>2, SpendType
  <2>2. QED
    BY <1>2, <2>1 DEF FilterStep, Keepers
<1>3. QED
  BY <1>2 DEF FilterStep

\* What is kept pays, one after the other, for the ledger that the filter
\* has in hand.
Pays(l, acc) ==
  /\ acc \in Keepers
  /\ \A i \in DOMAIN acc.kept : ~IsCoinbase(acc.kept[i])
  /\ SpendAll(l, acc.kept).ok
  /\ SpendAll(l, acc.kept).ledger = acc.ledger

LEMMA FilterStepPays ==
  ASSUME NEW l \in Ledgers, NEW acc, Pays(l, acc), NEW t \in Tx
  PROVE  Pays(l, FilterStep(acc, t))
<1> DEFINE next == FilterStep(acc, t)
           paid == SpendAll(l, acc.kept)
<1>1. acc \in Keepers /\ acc.kept \in Seq(Tx) /\ next \in Keepers
  BY FilterStepType DEF Pays, Keepers
<1>2. CASE ~IsCoinbase(t) /\ CanSpend(acc.ledger, t)
  <2>1. next.kept = Append(acc.kept, t) /\ next.ledger = Spend(acc.ledger, t)
    BY <1>2 DEF FilterStep
  <2>2. SpendAll(l, next.kept) = SpendStep(paid, t)
    BY <1>1, <2>1, SpendAppend
  <2>3. paid.ok /\ paid.ledger = acc.ledger
    BY DEF Pays
  <2>4. paid \in Payers
    <3>1. PICK h : SpendRun(h, l, acc.kept) /\ paid = h[Len(acc.kept)]
      BY <1>1, SpendAllRuns
    <3>2. Len(acc.kept) \in 0 .. Len(acc.kept)
      BY <1>1
    <3> HIDE DEF paid
    <3>3. QED
      BY <3>1, <3>2 DEF SpendRun
  <2> HIDE DEF paid
  <2>5. SpendStep(paid, t).ok /\ SpendStep(paid, t).ledger = Spend(acc.ledger, t)
    BY <1>2, <2>3, <2>4 DEF SpendStep, Payers
  <2>6. \A i \in DOMAIN next.kept : ~IsCoinbase(next.kept[i])
    <3>1. \A i \in DOMAIN acc.kept : ~IsCoinbase(acc.kept[i])
      BY DEF Pays
    <3> HIDE DEF next
    <3>2. QED
      BY <1>1, <1>2, <2>1, <3>1
  <2> HIDE DEF next
  <2>7. QED
    BY <1>1, <2>1, <2>2, <2>5, <2>6 DEF Pays, next
<1>3. CASE ~(~IsCoinbase(t) /\ CanSpend(acc.ledger, t))
  BY <1>3 DEF FilterStep
<1>4. QED
  BY <1>2, <1>3

\* And it keeps only what it was given.
LEMMA FilterStepKeeps ==
  ASSUME NEW S \in SUBSET Tx, NEW acc, acc.kept \in Seq(S), NEW t \in S
  PROVE  FilterStep(acc, t).kept \in Seq(S)
<1>1. CASE ~IsCoinbase(t) /\ CanSpend(acc.ledger, t)
  <2>1. FilterStep(acc, t).kept = Append(acc.kept, t)
    BY <1>1 DEF FilterStep
  <2>2. QED
    BY <2>1
<1>2. CASE ~(~IsCoinbase(t) /\ CanSpend(acc.ledger, t))
  BY <1>2 DEF FilterStep
<1>3. QED
  BY <1>1, <1>2

\* FilterValidTransactions keeps payments that can all be spent in its order.
LEMMA FilterKeeps ==
  ASSUME NEW l \in Ledgers, NEW S \in SUBSET Tx, NEW txs \in Seq(S)
  PROVE  \E acc : /\ Pays(l, acc)
                  /\ acc.kept \in Seq(S)
                  /\ acc.kept = FilterValidTransactions(l, txs)
<1> DEFINE n == Len(txs)
           g == [p \in (1 .. n) \X Keepers |-> FilterStep(p[2], txs[p[1]])]
           f == CHOOSE f : FilterIter(f, l, txs)
<1>1. n \in Nat /\ DOMAIN txs = 1 .. n /\ \A i \in 1 .. n : txs[i] \in S /\ txs[i] \in Tx
  OBVIOUS
<1>2. FilterStart(l) \in Keepers
  BY DEF FilterStart, Keepers
<1>3. g \in [(1 .. n) \X Keepers -> Keepers]
  BY <1>1, FilterStepType
<1>4. FilterIter(f, l, txs)
  <2>1. PICK F : FoldFcn(F, Keepers, FilterStart(l), g, n)
    <3> HIDE DEF g, n
    <3>1. QED
      BY <1>1, <1>2, <1>3, FoldFcnExists
  <2>2. ASSUME NEW s \in SUBSET (1 .. n), s # {}
        PROVE  F[s] = FilterStep(F[s \ {Max(s)}], txs[Max(s)])
    <3>1. F[s] = g[<<Max(s), F[s \ {Max(s)}]>>] /\ F[s \ {Max(s)}] \in Keepers
      BY <2>1, <2>2 DEF FoldFcn
    <3>2. Max(s) \in 1 .. n
      BY <1>1, <2>2, MaxOfPositions
    <3>3. QED
      BY <3>1, <3>2
  <2>3. FilterIter(F, l, txs)
    <3> HIDE DEF n
    <3>1. F = [s \in SUBSET (1 .. n) |-> F[s]] /\ F[{}] = FilterStart(l)
      BY <2>1 DEF FoldFcn
    <3>2. QED
      BY <1>1, <2>2, <3>1 DEF FilterIter
  <2>4. QED
    BY <2>3
<1> HIDE DEF f, g
<1> DEFINE T == {i \in Nat : Pays(l, f[1 .. i]) /\ f[1 .. i].kept \in Seq(S)}
<1>5. 0 \in T
  <2>1. f[1 .. 0] = FilterStart(l)
    BY <1>4 DEF FilterIter
  <2>2. Pays(l, FilterStart(l))
    BY <1>2, SpendNothing DEF Pays, FilterStart, SpendStart
  <2>3. FilterStart(l).kept \in Seq(S)
    BY DEF FilterStart
  <2>4. QED
    BY <2>1, <2>2, <2>3
<1>6. ASSUME NEW i \in 0 .. n - 1, i \in T
      PROVE  i + 1 \in T
  <2>1. i + 1 \in 1 .. n /\ (i + 1) - 1 = i /\ i + 1 \in Nat
    BY <1>1
  <2>2. f[1 .. i + 1] = FilterStep(f[1 .. i], txs[i + 1])
    <3> HIDE DEF n
    <3>1. \A s \in SUBSET (1 .. n) :
             s # {} => f[s] = FilterStep(f[s \ {Max(s)}], txs[Max(s)])
      BY <1>1, <1>4 DEF FilterIter
    <3>2. EndsAt(1 .. i + 1, i + 1, n)
      BY <1>1, <2>1, PositionsEnd
    <3>3. QED
      BY <2>1, <3>1, <3>2 DEF EndsAt
  <2>3. Pays(l, f[1 .. i + 1])
    BY <1>1, <1>6, <2>1, <2>2, FilterStepPays
  <2>4. f[1 .. i + 1].kept \in Seq(S)
    BY <1>1, <1>6, <2>1, <2>2, FilterStepKeeps
  <2>5. QED
    BY <2>1, <2>3, <2>4
<1>7. Pays(l, f[1 .. n]) /\ f[1 .. n].kept \in Seq(S)
  <2> HIDE DEF T
  <2>1. \A i \in 0 .. n : i \in T
    BY <1>1, <1>5, <1>6, BoundedInduction
  <2>2. n \in T
    BY <1>1, <2>1
  <2>3. QED
    BY <2>2 DEF T
<1>8. FilterValidTransactions(l, txs) = f[1 .. n].kept
  BY <1>1, FilterIsIter DEF f
<1>9. QED
  BY <1>7, <1>8

COROLLARY FilterPays ==
  ASSUME NEW l \in Ledgers, NEW txs \in Seq(Tx)
  PROVE  \E acc : Pays(l, acc) /\ acc.kept = FilterValidTransactions(l, txs)
BY FilterKeeps

---------------------------------------------------------------------------
(* The fees that the miner adds up and those that applyBlock adds up       *)

\* The fold that the miner claims its fees by.
FeeSum(txs) == FoldLeft(LAMBDA sum, t : Uint64(sum + Fee[t]), 0, txs)

FeeStep(sum, t) == Uint64(sum + Fee[t])

FeeIter(f, txs) ==
  f = [s \in SUBSET DOMAIN txs |->
         IF s = {} THEN 0 ELSE FeeStep(f[s \ {Max(s)}], txs[Max(s)])]

FeeRun(e, txs) ==
  /\ e[0] = 0
  /\ \A i \in 1 .. Len(txs) : e[i] = FeeStep(e[i-1], txs[i])

LEMMA FeeSumIsIter ==
  ASSUME NEW txs
  PROVE  FeeSum(txs) = (CHOOSE f : FeeIter(f, txs))[DOMAIN txs]
BY DEF FeeSum, FoldLeft, MapThenFoldSet, FeeIter, FeeStep

\* FeeSum is the last sum of a run over the body.
LEMMA FeeSumRuns ==
  ASSUME NEW txs \in Seq(Tx)
  PROVE  /\ \E e : FeeRun(e, txs) /\ FeeSum(txs) = e[Len(txs)]
         /\ FeeSum(txs) \in 0 .. Modulus - 1
<1> DEFINE n == Len(txs)
           A == 0 .. Modulus - 1
           g == [p \in (1 .. n) \X A |-> FeeStep(p[2], txs[p[1]])]
           f == CHOOSE f : FeeIter(f, txs)
           e == [i \in 0 .. n |-> f[1 .. i]]
<1>0. \A sum \in A, t \in Tx : FeeStep(sum, t) \in A
  <2>1. SUFFICES ASSUME NEW sum \in A, NEW t \in Tx PROVE FeeStep(sum, t) \in A
    OBVIOUS
  <2>2. sum + Fee[t] \in Nat
    BY LedgerAssumption DEF LedgerAssumption
  <2>3. QED
    BY <2>2, Uint64Type DEF FeeStep
<1>1. n \in Nat /\ DOMAIN txs = 1 .. n /\ \A i \in 1 .. n : txs[i] \in Tx
  OBVIOUS
<1>2. 0 \in A
  BY LedgerAssumption DEF LedgerAssumption
<1>3. g \in [(1 .. n) \X A -> A]
  <2> HIDE DEF A, n
  <2>1. QED
    BY <1>0, <1>1
<1>4. FeeIter(f, txs)
  <2>1. PICK F : FoldFcn(F, A, 0, g, n)
    <3> HIDE DEF g, n, A
    <3>1. QED
      BY <1>1, <1>2, <1>3, FoldFcnExists
  <2>2. ASSUME NEW s \in SUBSET (1 .. n), s # {}
        PROVE  F[s] = FeeStep(F[s \ {Max(s)}], txs[Max(s)])
    <3>1. F[s] = g[<<Max(s), F[s \ {Max(s)}]>>] /\ F[s \ {Max(s)}] \in A
      <4> HIDE DEF A, g
      <4>1. QED
        BY <2>1, <2>2 DEF FoldFcn
    <3>2. Max(s) \in 1 .. n
      BY <1>1, <2>2, MaxOfPositions
    <3> HIDE DEF A
    <3>3. QED
      BY <3>1, <3>2
  <2>3. FeeIter(F, txs)
    <3> HIDE DEF n, A
    <3>1. F = [s \in SUBSET (1 .. n) |-> F[s]] /\ F[{}] = 0
      BY <2>1 DEF FoldFcn
    <3>2. QED
      BY <1>1, <2>2, <3>1 DEF FeeIter
  <2>4. QED
    BY <2>3
<1> HIDE DEF f, g
<1>5. e[0] = 0
  <2>1. 1 .. 0 = {} /\ 0 \in 0 .. n
    BY <1>1
  <2>2. QED
    BY <1>4, <2>1 DEF FeeIter
<1>6. ASSUME NEW i \in 1 .. n
      PROVE  e[i] = FeeStep(e[i-1], txs[i])
  <2>1. n \in Nat /\ i \in 1 .. n /\ i \in 0 .. n /\ i - 1 \in 0 .. n
    BY <1>1
  <2>2. f[1 .. i] = FeeStep(f[1 .. i - 1], txs[i])
    <3> HIDE DEF n
    <3>1. \A s \in SUBSET (1 .. n) :
             s # {} => f[s] = FeeStep(f[s \ {Max(s)}], txs[Max(s)])
      BY <1>1, <1>4 DEF FeeIter
    <3>2. EndsAt(1 .. i, i, n)
      BY <2>1, PositionsEnd
    <3>3. QED
      BY <3>1, <3>2 DEF EndsAt
  <2>3. QED
    BY <2>1, <2>2
<1>7. FeeSum(txs) = e[n]
  <2>1. FeeSum(txs) = f[DOMAIN txs]
    BY FeeSumIsIter DEF f
  <2>2. n \in 0 .. n
    BY <1>1
  <2> HIDE DEF n
  <2>3. e[n] = f[1 .. n]
    BY <2>2
  <2>4. QED
    BY <1>1, <2>1, <2>3
<1>8. FeeRun(e, txs)
  <2> HIDE DEF e
  <2>1. QED
    BY <1>5, <1>6 DEF FeeRun
<1>9. FeeSum(txs) \in A
  <2> DEFINE T == {i \in Nat : e[i] \in A}
  <2>1. 0 \in T
    BY <1>2, <1>5
  <2>2. ASSUME NEW i \in 0 .. n - 1, i \in T
        PROVE  i + 1 \in T
    <3>1. i + 1 \in 1 .. n /\ (i + 1) - 1 = i /\ i + 1 \in Nat /\ txs[i + 1] \in Tx
      BY <1>1
    <3>2. e[i + 1] = FeeStep(e[i], txs[i + 1])
      BY <1>6, <3>1
    <3>3. QED
      BY <1>0, <2>2, <3>1, <3>2
  <2> HIDE DEF T
  <2>3. \A i \in 0 .. n : i \in T
    BY <1>1, <2>1, <2>2, BoundedInduction
  <2>4. n \in T
    BY <1>1, <2>3
  <2>5. QED
    BY <1>7, <2>4 DEF T
<1>10. QED
  BY <1>7, <1>8, <1>9

\* For a body that pays, both sums are the same.
LEMMA FeesAgree ==
  ASSUME NEW l \in Ledgers, NEW txs \in Seq(Tx), SpendAll(l, txs).ok,
         \A i \in DOMAIN txs : ~IsCoinbase(txs[i])
  PROVE  SpendAll(l, txs).fees = FeeSum(txs)
<1> DEFINE n == Len(txs)
<1>1. n \in Nat /\ DOMAIN txs = 1 .. n
  OBVIOUS
<1>2. PICK h : SpendRun(h, l, txs) /\ SpendAll(l, txs) = h[n]
  BY SpendAllRuns
<1>3. PICK e : FeeRun(e, txs) /\ FeeSum(txs) = e[n]
  BY FeeSumRuns
<1> DEFINE T == {i \in Nat : h[i].ok => h[i].fees = e[i]}
<1>4. 0 \in T
  BY <1>2, <1>3 DEF SpendRun, SpendStart, FeeRun
<1>5. ASSUME NEW i \in 0 .. n - 1, h[i].ok => h[i].fees = e[i]
      PROVE  h[i + 1].ok => h[i + 1].fees = e[i + 1]
  <2> DEFINE t == txs[i + 1]
  <2>1. i + 1 \in 1 .. n /\ (i + 1) - 1 = i /\ i \in 0 .. n /\ ~IsCoinbase(t)
    BY <1>1
  <2>2. h[i + 1] = SpendStep(h[i], t) /\ h[i] \in Payers /\ e[i + 1] = FeeStep(e[i], t)
    <3> HIDE DEF n
    <3>1. \A j \in 1 .. n : h[j] = SpendStep(h[j-1], txs[j])
      BY <1>2 DEF SpendRun, n
    <3>2. h \in [0 .. n -> Payers]
      BY <1>2 DEF SpendRun, n
    <3>3. \A j \in 1 .. n : e[j] = FeeStep(e[j-1], txs[j])
      BY <1>3 DEF FeeRun, n
    <3>4. QED
      BY <2>1, <3>1, <3>2, <3>3
  <2> HIDE DEF t, n
  <2>3. CASE h[i].ok /\ CanSpend(h[i].ledger, t)
    <3>1. h[i + 1].fees = Uint64(h[i].fees + Fee[t])
      BY <2>1, <2>2, <2>3 DEF SpendStep, Payers
    <3>2. QED
      BY <1>5, <2>2, <2>3, <3>1 DEF FeeStep
  <2>4. CASE ~(h[i].ok /\ CanSpend(h[i].ledger, t))
    <3>1. ~h[i + 1].ok
      BY <2>1, <2>2, <2>4 DEF SpendStep, Payers
    <3>2. QED
      BY <3>1
  <2>5. QED
    BY <2>3, <2>4
<1>6. n \in T
  <2>1. \A i \in 0 .. n - 1 : i \in T => i + 1 \in T
    BY <1>1, <1>5
  <2> HIDE DEF T
  <2>2. \A i \in 0 .. n : i \in T
    BY <1>1, <1>4, <2>1, BoundedInduction
  <2>3. QED
    BY <1>1, <2>2
<1>7. QED
  BY <1>2, <1>3, <1>6

\* A coinbase that claims reward and fees, in front of what is kept, is a body
\* that applies to the ledger the payments were filtered with.
LEMMA BuiltBodyApplies ==
  ASSUME NEW l \in Ledgers, NEW pending \in Seq(Tx), NEW c \in Tx, IsCoinbase(c),
         Amount[c] = Uint64(MiningReward + FeeSum(FilterValidTransactions(l, pending)))
  PROVE  LET body == <<c>> \o FilterValidTransactions(l, pending)
         IN  CoinbaseFirst(body) /\ applyBlock(l, body).ok
<1> DEFINE kept == FilterValidTransactions(l, pending)
           body == <<c>> \o kept
           reward == Uint64(MiningReward + FeeSum(kept))
<1>1. /\ kept \in Seq(Tx) /\ SpendAll(l, kept).ok
      /\ \A i \in DOMAIN kept : ~IsCoinbase(kept[i])
  BY FilterPays DEF Pays, Keepers
<1>2. Amount[c] = reward
  OBVIOUS
<1> HIDE DEF kept, reward
<1>3. body \in Seq(Tx) /\ body[1] = c
      /\ \A i \in 2 .. Len(body) : i - 1 \in DOMAIN kept /\ body[i] = kept[i - 1]
  BY <1>1
<1>4. CoinbaseFirst(body)
  BY <1>1, <1>3 DEF CoinbaseFirst
<1>5. SpendAll(l, body) = SpendAll(l, kept)
  BY <1>1, SpendAfterCoinbase
<1>6. SpendAll(l, kept).fees = FeeSum(kept)
  BY <1>1, FeesAgree
<1> HIDE DEF body
<1>7. RewardAllowed(body, SpendAll(l, body).fees)
  <2>1. MiningReward + FeeSum(kept) \in Nat /\ Modulus \in Nat
    BY <1>1, FeeSumRuns, LedgerAssumption DEF LedgerAssumption
  <2>2. reward \in Nat
    BY <2>1, Uint64Type DEF reward
  <2>3. Amount[body[1]] <= Uint64(MiningReward + SpendAll(l, body).fees)
    BY <1>2, <1>3, <1>5, <1>6, <2>2 DEF reward
  <2>4. QED
    BY <2>3 DEF RewardAllowed
<1>8. applyBlock(l, body).ok
  BY <1>1, <1>4, <1>5, <1>7 DEF applyBlock
<1>9. QED
  BY <1>4, <1>8 DEF body, kept
==============================================================================
