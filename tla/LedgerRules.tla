---------------------------- MODULE LedgerRules ----------------------------
(***************************************************************************)
(* The rules by which transactions move money (internal/blockchain:        *)
(* transaction.go, ledger.go, genesis.go), as operators on ledger values.  *)
(* A transaction is known by its ID: the fields of the Go struct are       *)
(* functions on IDs, and Signed[t] says whether the public key, the sender *)
(* address and the signature of t check out.                               *)
(***************************************************************************)
EXTENDS Integers, Sequences, SequencesExt

CONSTANTS Address,       \* account addresses
          NoAddress,     \* the empty string, sender of a coinbase
          Tx,            \* transaction IDs
          From, To,      \* [Tx -> Address], From also NoAddress
          Amount, Fee,   \* [Tx -> Nat], uint64 fields
          Signed,        \* [Tx -> BOOLEAN]
          MiningReward,  \* genesis.go
          Modulus        \* 2^64, or a smaller width for TLC

ASSUME LedgerAssumption ==
  /\ NoAddress \notin Address
  /\ From \in [Tx -> Address \cup {NoAddress}]
  /\ To \in [Tx -> Address]
  /\ Modulus \in Nat \ {0}
  /\ MiningReward \in 0 .. Modulus - 1
  /\ Amount \in [Tx -> 0 .. Modulus - 1]
  /\ Fee \in [Tx -> 0 .. Modulus - 1]
  /\ Signed \in [Tx -> BOOLEAN]

\* Go's unsigned arithmetic wraps around.
Uint64(n) == n % Modulus

---------------------------------------------------------------------------
\* No sender, no key and no signature: the transaction that pays a miner.
IsCoinbase(t) == From[t] = NoAddress

\* Transaction.Verify, with the key and signature checks as Signed.
Verify(t) == Signed[t] /\ Amount[t] # 0

\* A coinbase may stand only at the head of a body.
CoinbaseFirst(txs) == \A i \in 2 .. Len(txs) : ~IsCoinbase(txs[i])

HasCoinbase(txs) == txs # <<>> /\ IsCoinbase(txs[1])

---------------------------------------------------------------------------
Ledgers == [balances : [Address -> 0 .. Modulus - 1], processedTxs : SUBSET Tx]

\* A Go map answers 0 for an address it does not hold.
NewLedger == [balances |-> [a \in Address |-> 0], processedTxs |-> {}]

\* Slips (definitions no module uses) show what the properties would catch.
\* Slip: the sender does not pay the fee.
DebitNoFee(t) == Uint64(Amount[t])

Debit(t) == Uint64(Amount[t] + Fee[t])

\* Slip: the balance is not looked at.
CanSpendUncovered(l, t) == t \notin l.processedTxs

\* Slip: the set of processed transactions is not looked at.
CanSpendAgain(l, t) == l.balances[From[t]] >= Uint64(Amount[t] + Fee[t])

\* Not a replay, and the sender can cover amount and fee.
CanSpend(l, t) == t \notin l.processedTxs /\ l.balances[From[t]] >= Debit(t)

Credit(l, t) == [balances     |-> [l.balances EXCEPT ![To[t]] = Uint64(@ + Amount[t])],
                 processedTxs |-> l.processedTxs \cup {t}]

Spend(l, t) == Credit([l EXCEPT !.balances[From[t]] = @ - Debit(t)], t)

CanApplyTransaction(l, t) == IsCoinbase(t) \/ CanSpend(l, t)

\* The payments of a body one after the other on a clone of the ledger; the
\* first that cannot be spent fails the body.
SpendAll(l, txs) ==
  LET spend(acc, t) ==
        IF IsCoinbase(t) THEN acc
        ELSE IF acc.ok /\ CanSpend(acc.ledger, t)
        THEN [acc EXCEPT !.ledger = Spend(@, t), !.fees = Uint64(@ + Fee[t])]
        ELSE [acc EXCEPT !.ok = FALSE]
  IN  FoldLeft(spend, [ok |-> TRUE, ledger |-> l, fees |-> 0], txs)

\* Slip: the miner may claim what it likes.
RewardUnchecked(txs, fees) == TRUE

\* The coinbase, paid last, claims no more than the reward and the fees.
RewardAllowed(txs, fees) ==
  HasCoinbase(txs) => Amount[txs[1]] <= Uint64(MiningReward + fees)

\* Ledger.applyBlock: the clone is committed only when every step succeeded.
applyBlock(l, txs) ==
  LET paid == SpendAll(l, txs)
  IN  IF ~CoinbaseFirst(txs) \/ ~paid.ok \/ ~RewardAllowed(txs, paid.fees)
      THEN [ok |-> FALSE, ledger |-> l]
      ELSE [ok |-> TRUE,
            ledger |-> IF HasCoinbase(txs) THEN Credit(paid.ledger, txs[1])
                                           ELSE paid.ledger]

\* Slip: the loop over the blocks starts one too late.
RebuildFromSecond(bodies) ==
  LET after[n \in 0 .. Len(bodies)] ==
        IF n <= 1 THEN [ok |-> TRUE, ledger |-> NewLedger]
        ELSE IF after[n-1].ok THEN applyBlock(after[n-1].ledger, bodies[n])
        ELSE after[n-1]
  IN  after[Len(bodies)]

\* Ledger.RebuildFromChain: forget everything, then apply the bodies in order;
\* the first that fails ends the replay and leaves the ledger where it stands.
RebuildFromChain(bodies) ==
  LET after[n \in 0 .. Len(bodies)] ==
        IF n = 0 THEN [ok |-> TRUE, ledger |-> NewLedger]
        ELSE IF after[n-1].ok THEN applyBlock(after[n-1].ledger, bodies[n])
        ELSE after[n-1]
  IN  after[Len(bodies)]

\* Slip: each transaction is looked at by itself, without those kept so far.
FilterEach(l, txs) == SelectSeq(txs, LAMBDA t : ~IsCoinbase(t) /\ CanSpend(l, t))

\* Ledger.FilterValidTransactions: what can be spent, in the order given.
FilterValidTransactions(l, txs) ==
  LET consider(acc, t) ==
        IF ~IsCoinbase(t) /\ CanSpend(acc.ledger, t)
        THEN [ledger |-> Spend(acc.ledger, t), kept |-> Append(acc.kept, t)]
        ELSE acc
  IN  FoldLeft(consider, [ledger |-> l, kept |-> <<>>], txs).kept
============================================================================
