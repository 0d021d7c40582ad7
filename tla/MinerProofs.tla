----------------------------- MODULE MinerProofs -----------------------------
(***************************************************************************)
(* Theorems about module Miner, for any number of runs, attempts, blocks   *)
(* and syncs.                                                              *)
(***************************************************************************)
EXTENDS Miner, FiniteSetTheorems, TLAPS

Mining(r) == loop[r] \in {"build", "mine", "found"}

\* At most the loop of the latest run works, and only between its Start and
\* the end of its Stop; done is closed by a loop that has left.
LoopInv ==
  /\ \A r \in Run : Working(r) => r = run
  /\ \A r \in Run : r > run => loop[r] = "none"
  /\ \A r \in done : loop[r] = "left"
  /\ mining \/ stopping => run \in Run
  /\ stopping => ~mining /\ run \in cancelled
  /\ ~mining /\ ~stopping => \A r \in Run : ~Working(r)

\* Attempts are numbered in order; Restart would end the latest, which is the
\* one a loop makes and whose context comes from the loop's run.  Each attempt
\* moves the tip at most once.
AttemptInv ==
  /\ \A a \in Attempt : runOf[a] # 0 <=> a <= mineCancel
  /\ \A r \in Run : Mining(r) =>
        mineCancel \in Attempt /\ attempt[r] = mineCancel /\ runOf[mineCancel] = r
  /\ tip <= accepted + syncs + mineCancel
  /\ (\E r \in Run : Mining(r)) => tip + 1 <= accepted + syncs + mineCancel

IInv == TypeOK /\ LoopInv /\ AttemptInv /\ StaleAttemptCancelled

---------------------------------------------------------------------------
\* At first nothing runs.
LEMMA InitIInv == Init => IInv
<1>1. SUFFICES ASSUME Init
               PROVE  IInv
  OBVIOUS
<1>2. TypeOK
  <2>1. 0 \in 0 .. 0
    OBVIOUS
  <2>2. basis \in [Attempt -> 0 .. tip] /\ owed \in 0 .. accepted
    BY <1>1, <2>1 DEF Init
  <2>3. tip \in 0 .. MaxBlocks + MaxSyncs + MaxAttempts
    BY <1>1, MinerAssumption DEF Init, MinerAssumption
  <2>4. /\ run \in 0 .. MaxRuns /\ mineCancel \in 0 .. MaxAttempts
        /\ accepted \in 0 .. MaxBlocks /\ syncs \in 0 .. MaxSyncs
    BY <1>1, MinerAssumption DEF Init, MinerAssumption
  <2>5. attempt \in [Run -> 0 .. MaxAttempts] /\ runOf \in [Attempt -> 0 .. MaxRuns]
    BY <1>1, MinerAssumption DEF Init, MinerAssumption
  <2>6. loop \in [Run -> {"none", "top", "build", "mine", "found", "delay", "left"}]
    BY <1>1 DEF Init
  <2>7. /\ mining \in BOOLEAN /\ stopping \in BOOLEAN
        /\ cancelled \subseteq Run /\ done \subseteq Run
        /\ restarted \subseteq Attempt /\ watchers \subseteq Attempt /\ stopSearch \subseteq Attempt
    BY <1>1 DEF Init
  <2>8. QED
    BY <2>2, <2>3, <2>4, <2>5, <2>6, <2>7 DEF TypeOK
<1>3. LoopInv
  BY <1>1 DEF Init, LoopInv, Working
<1>4. AttemptInv
  BY <1>1, MinerAssumption DEF Init, AttemptInv, Mining, Attempt, MinerAssumption
<1>5. StaleAttemptCancelled
  BY <1>1 DEF Init, StaleAttemptCancelled
<1>6. QED
  BY <1>2, <1>3, <1>4, <1>5 DEF IInv

\* The number of a new attempt is one more than that of the latest.
LEMMA NextAttemptNumber ==
  ASSUME TypeOK, AttemptInv
  PROVE  NextAttempt = mineCancel + 1
<1>1. mineCancel \in 0 .. MaxAttempts /\ MaxAttempts \in Nat
  BY MinerAssumption DEF TypeOK, MinerAssumption
<1>2. {a \in Attempt : runOf[a] # 0} = 1 .. mineCancel
  BY <1>1 DEF AttemptInv, Attempt
<1>3. Cardinality(1 .. mineCancel) = mineCancel
  BY <1>1, FS_Interval
<1>4. QED
  BY <1>2, <1>3 DEF NextAttempt

\* Every step keeps the types; a block found moves the tip no further than
\* the attempts so far allow.
LEMMA NextTypeOK ==
  ASSUME IInv, [Next]_vars
  PROVE  TypeOK'
<1> USE MinerAssumption DEF MinerAssumption, IInv, TypeOK
<1>1. CASE Start \/ Interrupt \/ Stop \/ Stopped
  <2>1. UNCHANGED <<ctx, attempt, basis, watchers, stopSearch, env>>
    BY <1>1 DEF Start, Interrupt, Stop, Stopped
  <2>2. /\ mining' \in BOOLEAN /\ stopping' \in BOOLEAN
        /\ cancelled' \subseteq Run /\ done' \subseteq Run
    BY <1>1 DEF Start, Interrupt, Stop, Stopped, LoopInv
  <2>3. run' \in 0 .. MaxRuns
    BY <1>1 DEF Start, Interrupt, Stop, Stopped
  <2>4. loop' \in [Run -> {"none", "top", "build", "mine", "found", "delay", "left"}]
    BY <1>1 DEF Start, Interrupt, Stop, Stopped
  <2>5. QED
    BY <2>1, <2>2, <2>3, <2>4 DEF ctx, env
<1>2. ASSUME NEW r \in Run, LoopStep(r) \/ Find(r)
      PROVE  TypeOK'
  <2>1. CASE Leave(r) \/ GiveUp(r) \/ Again(r) \/ Find(r)
    BY <1>2, <2>1 DEF Leave, GiveUp, Again, Find, ctl, ctx, env
  <2>2. CASE NewAttempt(r)
    <3>1. NextAttempt = mineCancel + 1 /\ mineCancel + 1 \in Attempt
      BY <2>2, NextAttemptNumber DEF NewAttempt
    <3>2. mineCancel + 1 \in 0 .. MaxAttempts
      BY <3>1 DEF Attempt
    <3>3. /\ attempt' = [attempt EXCEPT ![r] = mineCancel + 1]
          /\ runOf' = [runOf EXCEPT ![mineCancel + 1] = run]
          /\ mineCancel' = mineCancel + 1
          /\ loop' = [loop EXCEPT ![r] = "build"]
          /\ UNCHANGED <<ctl, restarted, basis, watchers, stopSearch, env>>
      BY <2>2, <3>1 DEF NewAttempt
    <3>4. QED
      BY <3>2, <3>3 DEF ctl, env
  <2>3. CASE Build(r)
    <3>1. attempt[r] \in Attempt
      BY <1>2, <2>3 DEF Build, AttemptInv, Mining
    <3>2. basis' = [basis EXCEPT ![attempt[r]] = tip] /\ tip \in 0 .. tip
      BY <2>3 DEF Build
    <3>3. basis' \in [Attempt -> 0 .. tip]
      BY <3>2
    <3>4. watchers' \subseteq Attempt
      BY <2>3, <3>1 DEF Build
    <3>5. loop' = [loop EXCEPT ![r] = "mine"] /\ UNCHANGED <<ctl, ctx, attempt, stopSearch, env>>
      BY <2>3 DEF Build
    <3>6. QED
      BY <3>3, <3>4, <3>5 DEF ctl, ctx, env
  <2>4. CASE Add(r)
    <3>1. tip + 1 <= accepted + syncs + mineCancel
      BY <1>2, <2>4 DEF Add, AttemptInv, Mining
    <3>2. tip' \in {tip, tip + 1} /\ tip' <= MaxBlocks + MaxSyncs + MaxAttempts
      BY <2>4, <3>1 DEF Add
    <3>3. basis \in [Attempt -> 0 .. tip']
      BY <3>2
    <3>4. tip' \in 0 .. MaxBlocks + MaxSyncs + MaxAttempts
      BY <3>2
    <3>5. /\ loop' = [loop EXCEPT ![r] = "delay"]
          /\ UNCHANGED <<ctl, ctx, attempt, basis, watchers, stopSearch, accepted, owed, syncs>>
      BY <2>4 DEF Add
    <3>6. QED
      BY <3>3, <3>4, <3>5 DEF ctl, ctx
  <2>5. QED
    BY <1>2, <2>1, <2>2, <2>3, <2>4 DEF LoopStep
<1>3. ASSUME NEW a \in Attempt, Watch(a)
      PROVE  TypeOK'
  BY <1>3 DEF Watch, ctl, ctx, env
<1>4. CASE AcceptBlock \/ SyncBlock
  <2>1. tip' = tip + 1 /\ tip' <= MaxBlocks + MaxSyncs + MaxAttempts
    BY <1>4 DEF AcceptBlock, SyncBlock, AttemptInv
  <2>2. basis \in [Attempt -> 0 .. tip']
    BY <2>1
  <2>3. tip' \in 0 .. MaxBlocks + MaxSyncs + MaxAttempts
    BY <2>1
  <2>4. accepted' \in 0 .. MaxBlocks /\ owed' \in 0 .. accepted' /\ syncs' \in 0 .. MaxSyncs
    BY <1>4 DEF AcceptBlock, SyncBlock
  <2>5. UNCHANGED <<ctl, ctx, loop, attempt, basis, watchers, stopSearch>>
    BY <1>4 DEF AcceptBlock, SyncBlock
  <2>6. QED
    BY <2>2, <2>3, <2>4, <2>5 DEF ctl, ctx
<1>5. CASE Restart
  <2>1. restarted' \subseteq Attempt
    <3>1. mineCancel # 0 => mineCancel \in Attempt
      BY DEF Attempt
    <3>2. QED
      BY <1>5, <3>1 DEF Restart
  <2>2. QED
    BY <1>5, <2>1 DEF Restart, ctl
<1>6. CASE UNCHANGED vars
  BY <1>6 DEF vars, ctl, ctx, env
<1>7. QED
  BY <1>1, <1>2, <1>3, <1>4, <1>5, <1>6 DEF Next

\* Every step keeps the order of runs: a new loop starts only when Stop has
\* seen the last one leave.
LEMMA NextLoopInv ==
  ASSUME IInv, [Next]_vars
  PROVE  LoopInv'
<1> USE DEF IInv, LoopInv, Working
<1>1. CASE Start
  <2>1. run + 1 \in Run /\ run \in Int /\ \A r \in Run : r \in Int
    BY <1>1, MinerAssumption DEF Start, TypeOK, Run, MinerAssumption
  <2>2. \A r \in Run : loop'[r] = IF r = run + 1 THEN "top" ELSE loop[r]
    BY <1>1, <2>1 DEF Start, TypeOK
  <2>3. \A r \in Run : ~Working(r) /\ (r > run + 1 => r > run)
    BY <1>1, <2>1 DEF Start
  <2>4. \A r \in done : r # run + 1 /\ r \in Run
    BY <2>1 DEF TypeOK
  <2>5. run' = run + 1 /\ mining' /\ ~stopping' /\ done' = done
    BY <1>1 DEF Start
  <2>6. QED
    BY <2>1, <2>2, <2>3, <2>4, <2>5
<1>2. CASE Interrupt
  BY <1>2 DEF Interrupt
<1>3. CASE Stop
  BY <1>3 DEF Stop
<1>4. CASE Stopped
  BY <1>4 DEF Stopped
<1>5. ASSUME NEW r \in Run, LoopStep(r) \/ Find(r)
      PROVE  LoopInv'
  <2>1. Working(r) /\ UNCHANGED <<mining, stopping, run, cancelled>>
    BY <1>5 DEF LoopStep, Find, Leave, NewAttempt, Build, GiveUp, Add, Again, ctl
  <2>2. \A s \in Run : s # r => loop'[s] = loop[s]
    BY <1>5 DEF LoopStep, Find, Leave, NewAttempt, Build, GiveUp, Add, Again, TypeOK
  <2>3. \A s \in done : s \in Run /\ s # r
    BY <2>1 DEF TypeOK
  <2>4. done' = done \/ (done' = done \cup {r} /\ loop'[r] = "left")
    BY <1>5 DEF LoopStep, Find, Leave, NewAttempt, Build, GiveUp, Add, Again, ctl, TypeOK
  <2>5. QED
    BY <2>1, <2>2, <2>3, <2>4
<1>6. ASSUME UNCHANGED <<ctl, loop>>
      PROVE  LoopInv'
  BY <1>6 DEF ctl
<1>7. QED
  BY <1>1, <1>2, <1>3, <1>4, <1>5, <1>6
  DEF Next, Watch, AcceptBlock, Restart, SyncBlock, vars

\* Each block that moves the tip from outside is counted.
LEMMA BlockCounted ==
  ASSUME TypeOK, AttemptInv, AcceptBlock \/ SyncBlock
  PROVE  AttemptInv'
<1>1. /\ tip \in Int /\ accepted \in Int /\ syncs \in Int /\ mineCancel \in Int
      /\ tip <= accepted + syncs + mineCancel
  BY DEF TypeOK, AttemptInv
<1>2. UNCHANGED <<mineCancel, runOf, loop, attempt>> /\ tip' = tip + 1
  BY DEF AcceptBlock, SyncBlock, ctx
<1>3. accepted' + syncs' + mineCancel' = accepted + syncs + mineCancel + 1
  <2>1. CASE AcceptBlock
    <3>1. accepted' = accepted + 1 /\ syncs' = syncs /\ mineCancel' = mineCancel
      BY <2>1, <1>2 DEF AcceptBlock
    <3>2. QED
      BY <1>1, <3>1
  <2>2. CASE SyncBlock
    <3>1. accepted' = accepted /\ syncs' = syncs + 1 /\ mineCancel' = mineCancel
      BY <2>2, <1>2 DEF SyncBlock
    <3>2. QED
      BY <1>1, <3>1
  <2>3. QED
    BY <2>1, <2>2
<1>4. tip' <= accepted' + syncs' + mineCancel'
  <2>1. tip + 1 <= accepted + syncs + mineCancel + 1
    BY <1>1
  <2>2. QED
    BY <1>2, <1>3, <2>1
<1>5. ASSUME NEW r \in Run, Mining(r)'
      PROVE  tip' + 1 <= accepted' + syncs' + mineCancel'
  <2>1. tip + 1 <= accepted + syncs + mineCancel
    BY <1>2, <1>5 DEF AttemptInv, Mining
  <2>2. (tip + 1) + 1 <= accepted + syncs + mineCancel + 1
    BY <1>1, <2>1
  <2>3. QED
    BY <1>2, <1>3, <2>2
<1>6. /\ \A a \in Attempt : runOf'[a] # 0 <=> a <= mineCancel'
      /\ \A r \in Run : Mining(r)' =>
            mineCancel' \in Attempt /\ attempt'[r] = mineCancel' /\ runOf'[mineCancel'] = r
  BY <1>2 DEF AttemptInv, Mining
<1>7. QED
  BY <1>4, <1>5, <1>6 DEF AttemptInv

\* Every step keeps the numbering of attempts.
LEMMA NextAttemptInv ==
  ASSUME IInv, [Next]_vars
  PROVE  AttemptInv'
<1> USE MinerAssumption DEF MinerAssumption, IInv, TypeOK, Run, Attempt, AttemptInv, Mining
<1>1. CASE Start
  BY <1>1 DEF Start, ctx, env
<1>2. ASSUME UNCHANGED <<mineCancel, runOf, loop, attempt, env>>
      PROVE  AttemptInv'
  BY <1>2 DEF env
<1>3. ASSUME NEW r \in Run, NewAttempt(r)
      PROVE  AttemptInv'
  <2>1. /\ mineCancel' = mineCancel + 1 /\ mineCancel' \in Attempt
        /\ runOf' = [runOf EXCEPT ![mineCancel + 1] = run]
        /\ attempt' = [attempt EXCEPT ![r] = mineCancel + 1]
        /\ loop' = [loop EXCEPT ![r] = "build"]
        /\ UNCHANGED env
    BY <1>3, NextAttemptNumber DEF NewAttempt
  <2>2. r = run /\ \A s \in Run : loop[s] \notin {"none", "left"} => s = r
    BY <1>3 DEF NewAttempt, LoopInv, Working
  <2>3. \A s \in Run : Mining(s)' => s = r
    BY <2>1, <2>2
  <2>4. \A a \in Attempt : runOf'[a] # 0 <=> a <= mineCancel'
    BY <2>1, <2>2
  <2>5. QED
    BY <2>1, <2>2, <2>3, <2>4 DEF env
<1>4. ASSUME NEW r \in Run, Leave(r) \/ Build(r) \/ GiveUp(r) \/ Again(r) \/ Find(r)
      PROVE  AttemptInv'
  <2>1. UNCHANGED <<mineCancel, runOf, attempt, env>>
    BY <1>4 DEF Leave, Build, GiveUp, Again, Find, ctx
  <2>2. \A s \in Run : Mining(s)' => Mining(s)
    BY <1>4 DEF Leave, Build, GiveUp, Again, Find
  <2>3. QED
    BY <2>1, <2>2 DEF env
<1>5. ASSUME NEW r \in Run, Add(r)
      PROVE  AttemptInv'
  <2>1. tip + 1 <= accepted + syncs + mineCancel
    BY <1>5 DEF Add
  <2>2. \A s \in Run : ~Mining(s)'
    BY <1>5 DEF Add, LoopInv, Working
  <2>3. UNCHANGED <<mineCancel, runOf, accepted, syncs>> /\ tip' \in {tip, tip + 1}
    BY <1>5 DEF Add, ctx
  <2>4. QED
    BY <2>1, <2>2, <2>3
<1>6. CASE AcceptBlock \/ SyncBlock
  BY <1>6, BlockCounted
<1>7. QED
  BY <1>1, <1>2, <1>3, <1>4, <1>5, <1>6
  DEF Next, LoopStep, Interrupt, Stop, Stopped, Watch, Restart, vars, ctx, env

\* Every step keeps a stale attempt cancelled: whoever moves the tip owes a
\* Restart, and a Restart that finds the miner off finds it being stopped.
LEMMA NextStale ==
  ASSUME IInv, [Next]_vars
  PROVE  StaleAttemptCancelled'
<1> USE DEF IInv, TypeOK, StaleAttemptCancelled, Ended
<1>1. CASE Start
  BY <1>1 DEF Start, ctx, env
<1>2. CASE Interrupt \/ Stop \/ Stopped
  BY <1>2 DEF Interrupt, Stop, Stopped, ctx, env
<1>3. ASSUME NEW r \in Run, LoopStep(r) \/ Find(r)
      PROVE  StaleAttemptCancelled'
  <2>1. CASE Leave(r) \/ GiveUp(r) \/ Again(r) \/ Find(r)
    BY <1>3, <2>1 DEF Leave, GiveUp, Again, Find, ctl, ctx, env
  <2>2. ASSUME NewAttempt(r) \/ Add(r), NEW s \in Run
        PROVE  loop'[s] # "mine"
    <3>1. loop[s] = "mine" => s = run
      BY DEF LoopInv, Working
    <3>2. r = run
      BY <2>2 DEF NewAttempt, Add, LoopInv, Working
    <3>3. QED
      BY <2>2, <3>1, <3>2 DEF NewAttempt, Add
  <2>3. CASE Build(r)
    <3>1. \A s \in Run : loop'[s] = "mine" => s = r
      BY <2>3 DEF Build, LoopInv, Working
    <3>2. attempt[r] \in Attempt
      BY <2>3 DEF Build, AttemptInv, Mining
    <3>3. basis'[attempt'[r]] = tip'
      BY <2>3, <3>2 DEF Build, env
    <3>4. QED
      BY <3>1, <3>3
  <2>4. QED
    BY <1>3, <2>1, <2>2, <2>3 DEF LoopStep
<1>4. ASSUME NEW a \in Attempt, Watch(a)
      PROVE  StaleAttemptCancelled'
  BY <1>4 DEF Watch, ctl, ctx, env
<1>5. CASE AcceptBlock
  BY <1>5 DEF AcceptBlock
<1>6. CASE SyncBlock
  BY <1>6 DEF SyncBlock
<1>7. CASE Restart
  <2>1. SUFFICES ASSUME NEW r \in Run, loop[r] = "mine"
                 PROVE  Ended(attempt[r])'
    BY <1>7 DEF Restart
  <2>2. r = run /\ attempt[r] = mineCancel /\ mineCancel \in Attempt /\ runOf[mineCancel] = run
    BY <2>1 DEF LoopInv, Working, AttemptInv, Mining
  <2>3. CASE mining
    <3>1. mineCancel # 0
      BY <2>2 DEF Attempt
    <3>2. QED
      BY <1>7, <2>2, <2>3, <3>1 DEF Restart
  <2>4. CASE ~mining
    <3>1. run \in cancelled
      BY <2>1, <2>4 DEF LoopInv, Working
    <3>2. QED
      BY <1>7, <2>2, <3>1 DEF Restart, ctl
  <2>5. QED
    BY <2>3, <2>4
<1>8. CASE UNCHANGED vars
  BY <1>8 DEF vars, ctl, ctx, env
<1>9. QED
  BY <1>1, <1>2, <1>3, <1>4, <1>5, <1>6, <1>7, <1>8 DEF Next

\* So the inductive invariant always holds.
LEMMA Invariance == Spec => []IInv
<1>1. IInv /\ [Next]_vars => IInv'
  BY NextTypeOK, NextLoopInv, NextAttemptInv, NextStale DEF IInv
<1>2. QED
  BY <1>1, InitIInv, PTL DEF Spec

---------------------------------------------------------------------------
(***************************************************************************)
(* The types hold at all times, the bound on the tip among them: a loop    *)
(* appends at most one block per attempt.                                  *)
(***************************************************************************)
THEOREM TypeCorrect == Spec => []TypeOK
BY Invariance, PTL DEF IInv

(***************************************************************************)
(* Two mining loops never run at the same time, however often the miner is *)
(* started and stopped: Stop waits for done (miner.go).                    *)
(***************************************************************************)
THEOREM LoopsNeverOverlap == Spec => []OneLoop
<1>1. IInv => OneLoop
  BY DEF IInv, LoopInv, OneLoop
<1>2. QED
  BY <1>1, Invariance, PTL

(***************************************************************************)
(* No attempt that a handler made stale is missed by Restart, although the *)
(* loop replaces mineCancel and Stop turns mining off at any time.         *)
(***************************************************************************)
THEOREM StaleAttemptsCancelled == Spec => []StaleAttemptCancelled
BY Invariance, PTL DEF IInv
============================================================================
