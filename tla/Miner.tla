-------------------------------- MODULE Miner --------------------------------
(***************************************************************************)
(* The life of a node's miner (internal/miner/miner.go): the node starts   *)
(* and stops the mining loop, the loop makes one attempt after the other,  *)
(* and for each attempt a watcher goroutine turns the end of its context   *)
(* into the end of the search.  Meanwhile blocks move the tip of the       *)
(* chain: those a handler accepted are followed by a call of Restart from  *)
(* the handler's goroutine, those a sync appended are not.                 *)
(*                                                                         *)
(* What a block holds is the business of modules Ledger and Chain: the     *)
(* chain is known here by a tip that grows, an attempt by its number.      *)
(***************************************************************************)
EXTENDS Integers, FiniteSets

CONSTANTS MaxRuns,      \* bound on the calls of Start
          MaxAttempts,  \* bound on the attempts
          MaxBlocks,    \* bound on the blocks that handlers accept
          MaxSyncs      \* bound on the changes of the tip by syncs

ASSUME MinerAssumption ==
  /\ MaxRuns \in Nat /\ MaxAttempts \in Nat
  /\ MaxBlocks \in Nat /\ MaxSyncs \in Nat

Run == 1 .. MaxRuns
Attempt == 1 .. MaxAttempts

VARIABLES
  mining,      \* Miner.mining
  stopping,    \* the node is inside Stop, waiting for done
  run,         \* Miner.globalCtx, Miner.done: those of the latest Start
  cancelled,   \* runs whose globalCtx is cancelled
  done,        \* runs whose done channel is closed
  mineCancel,  \* attempt whose context Miner.mineCancel ends, 0 for nil
  restarted,   \* attempts whose context a Restart ended
  loop,        \* where the mining loop of each run stands
  attempt,     \* the attempt each loop makes
  runOf,       \* the run from whose context each attempt's context comes
  basis,       \* the tip each attempt builds on
  watchers,    \* attempts whose watcher goroutine waits
  stopSearch,  \* attempts whose mineDone channel is closed
  tip,         \* of the chain
  accepted,    \* blocks that handlers accepted
  owed,        \* handlers between the change of the tip and Restart
  syncs        \* changes of the tip by syncs

ctl == <<mining, stopping, run, cancelled, done>>
ctx == <<mineCancel, restarted, runOf>>
env == <<tip, accepted, owed, syncs>>
vars == <<ctl, ctx, loop, attempt, basis, watchers, stopSearch, env>>

Init ==
  /\ mining = FALSE
  /\ stopping = FALSE
  /\ run = 0
  /\ cancelled = {}
  /\ done = {}
  /\ mineCancel = 0
  /\ restarted = {}
  /\ loop = [r \in Run |-> "none"]
  /\ attempt = [r \in Run |-> 0]
  /\ runOf = [a \in Attempt |-> 0]
  /\ basis = [a \in Attempt |-> 0]
  /\ watchers = {}
  /\ stopSearch = {}
  /\ tip = 0
  /\ accepted = 0
  /\ owed = 0
  /\ syncs = 0

\* Slip: the attempt's context does not come from the run's.
EndedAlone(a) == a \in restarted

\* A context ends with its own cancel function or with its parent.
Ended(a) == a \in restarted \/ runOf[a] \in cancelled

---------------------------------------------------------------------------
(* The node's goroutine                                                    *)

\* A second Start while mining returns at once.
Start ==
  /\ ~stopping
  /\ ~mining
  /\ run < MaxRuns
  /\ mining' = TRUE
  /\ run' = run + 1
  /\ loop' = [loop EXCEPT ![run + 1] = "top"]
  /\ UNCHANGED <<stopping, cancelled, done, ctx, attempt, basis, watchers, stopSearch, env>>

\* The context the node passed to Start ends, on a signal, before Stop.
Interrupt ==
  /\ mining
  /\ cancelled' = cancelled \cup {run}
  /\ UNCHANGED <<mining, stopping, run, done, ctx, loop, attempt, basis, watchers, stopSearch, env>>

Stop ==
  /\ ~stopping
  /\ mining
  /\ mining' = FALSE
  /\ stopping' = TRUE
  /\ cancelled' = cancelled \cup {run}
  /\ UNCHANGED <<run, done, ctx, loop, attempt, basis, watchers, stopSearch, env>>

\* Slip: Stop does not wait for the loop.
StoppedAtOnce ==
  /\ stopping
  /\ stopping' = FALSE
  /\ UNCHANGED <<mining, run, cancelled, done, ctx, loop, attempt, basis, watchers, stopSearch, env>>

\* Stop returns once the loop has closed the done channel.
Stopped ==
  /\ stopping
  /\ run \in done
  /\ stopping' = FALSE
  /\ UNCHANGED <<mining, run, cancelled, done, ctx, loop, attempt, basis, watchers, stopSearch, env>>

---------------------------------------------------------------------------
(* mineLoop and mineBlock.  The loop reads Miner.globalCtx afresh in every *)
(* round, so it obeys the context of the latest Start.                     *)

\* Slip: the done channel is not closed.
LeaveQuietly(r) ==
  /\ loop[r] \in {"top", "delay"}
  /\ run \in cancelled
  /\ loop' = [loop EXCEPT ![r] = "left"]
  /\ UNCHANGED <<ctl, ctx, attempt, basis, watchers, stopSearch, env>>

\* The loop ends and closes its done channel.
Leave(r) ==
  /\ loop[r] \in {"top", "delay"}
  /\ run \in cancelled
  /\ loop' = [loop EXCEPT ![r] = "left"]
  /\ done' = done \cup {r}
  /\ UNCHANGED <<mining, stopping, run, cancelled, ctx, attempt, basis, watchers, stopSearch, env>>

NextAttempt == Cardinality({a \in Attempt : runOf[a] # 0}) + 1

\* Slip: the cancel function is stored for the first attempt only.
NewAttemptOnce(r) ==
  /\ loop[r] = "top"
  /\ run \notin cancelled
  /\ NextAttempt \in Attempt
  /\ attempt' = [attempt EXCEPT ![r] = NextAttempt]
  /\ runOf' = [runOf EXCEPT ![NextAttempt] = run]
  /\ mineCancel' = IF mineCancel = 0 THEN NextAttempt ELSE mineCancel
  /\ loop' = [loop EXCEPT ![r] = "build"]
  /\ UNCHANGED <<ctl, restarted, basis, watchers, stopSearch, env>>

\* A context of its own for the attempt, and the cancel function for Restart.
NewAttempt(r) ==
  /\ loop[r] = "top"
  /\ run \notin cancelled
  /\ NextAttempt \in Attempt
  /\ attempt' = [attempt EXCEPT ![r] = NextAttempt]
  /\ runOf' = [runOf EXCEPT ![NextAttempt] = run]
  /\ mineCancel' = NextAttempt
  /\ loop' = [loop EXCEPT ![r] = "build"]
  /\ UNCHANGED <<ctl, restarted, basis, watchers, stopSearch, env>>

\* Slip: the attempt takes the tip for one further than it is.
BuildAhead(r) ==
  /\ loop[r] = "build"
  /\ basis' = [basis EXCEPT ![attempt[r]] = tip + 1]
  /\ watchers' = watchers \cup {attempt[r]}
  /\ loop' = [loop EXCEPT ![r] = "mine"]
  /\ UNCHANGED <<ctl, ctx, attempt, stopSearch, env>>

\* mineBlock reads the tip, builds the block and starts the watcher.
Build(r) ==
  /\ loop[r] = "build"
  /\ basis' = [basis EXCEPT ![attempt[r]] = tip]
  /\ watchers' = watchers \cup {attempt[r]}
  /\ loop' = [loop EXCEPT ![r] = "mine"]
  /\ UNCHANGED <<ctl, ctx, attempt, stopSearch, env>>

\* Block.Mine looks at mineDone before each hash.
GiveUp(r) ==
  /\ loop[r] = "mine"
  /\ attempt[r] \in stopSearch
  /\ loop' = [loop EXCEPT ![r] = "delay"]
  /\ UNCHANGED <<ctl, ctx, attempt, basis, watchers, stopSearch, env>>

\* A hash with enough zeros; the hash under way is not interrupted.
Find(r) ==
  /\ loop[r] = "mine"
  /\ loop' = [loop EXCEPT ![r] = "found"]
  /\ UNCHANGED <<ctl, ctx, attempt, basis, watchers, stopSearch, env>>

\* AddBlock takes the block only if the tip is the one it was built on;
\* then the mempool is cleaned and OnBlockMined gossips and saves.
Add(r) ==
  /\ loop[r] = "found"
  /\ \/ basis[attempt[r]] = tip /\ tip' = tip + 1
     \/ basis[attempt[r]] # tip /\ UNCHANGED tip
  /\ loop' = [loop EXCEPT ![r] = "delay"]
  /\ UNCHANGED <<ctl, ctx, attempt, basis, watchers, stopSearch, accepted, owed, syncs>>

\* The pause between two attempts is over.
Again(r) ==
  /\ loop[r] = "delay"
  /\ loop' = [loop EXCEPT ![r] = "top"]
  /\ UNCHANGED <<ctl, ctx, attempt, basis, watchers, stopSearch, env>>

\* Slip: the watcher does not close mineDone.
WatchOnly(a) ==
  /\ a \in watchers
  /\ Ended(a)
  /\ watchers' = watchers \ {a}
  /\ UNCHANGED <<ctl, ctx, loop, attempt, basis, stopSearch, env>>

\* The goroutine that mineBlock started to wait for the attempt's context.
Watch(a) ==
  /\ a \in watchers
  /\ Ended(a)
  /\ watchers' = watchers \ {a}
  /\ stopSearch' = stopSearch \cup {a}
  /\ UNCHANGED <<ctl, ctx, loop, attempt, basis, env>>

---------------------------------------------------------------------------
(* The goroutines of handlers and syncs                                    *)

AcceptBlock ==
  /\ accepted < MaxBlocks
  /\ accepted' = accepted + 1
  /\ tip' = tip + 1
  /\ owed' = owed + 1
  /\ UNCHANGED <<ctl, ctx, loop, attempt, basis, watchers, stopSearch, syncs>>

\* onBlockAccepted: cancel the attempt, if the miner is on.
Restart ==
  /\ owed > 0
  /\ owed' = owed - 1
  /\ restarted' = IF mining /\ mineCancel # 0 THEN restarted \cup {mineCancel} ELSE restarted
  /\ UNCHANGED <<ctl, mineCancel, runOf, loop, attempt, basis, watchers, stopSearch, tip, accepted, syncs>>

SyncBlock ==
  /\ syncs < MaxSyncs
  /\ tip' = tip + 1
  /\ syncs' = syncs + 1
  /\ UNCHANGED <<ctl, ctx, loop, attempt, basis, watchers, stopSearch, accepted, owed>>

---------------------------------------------------------------------------
LoopStep(r) == \/ Leave(r) \/ NewAttempt(r) \/ Build(r) \/ GiveUp(r)
               \/ Add(r) \/ Again(r)

Next == \/ Start \/ Interrupt \/ Stop \/ Stopped
        \/ \E r \in Run : LoopStep(r) \/ Find(r)
        \/ \E a \in Attempt : Watch(a)
        \/ AcceptBlock \/ Restart \/ SyncBlock

Spec == Init /\ [][Next]_vars

\* Goroutines that can run do run; luck with a hash is not assumed, nor that
\* the node is started or stopped, nor that blocks arrive.
Fairness ==
  /\ WF_vars(Stopped)
  /\ \A r \in Run : WF_vars(LoopStep(r))
  /\ \A a \in Attempt : WF_vars(Watch(a))
  /\ WF_vars(Restart)

FairSpec == Spec /\ Fairness

---------------------------------------------------------------------------
TypeOK ==
  /\ mining \in BOOLEAN /\ stopping \in BOOLEAN
  /\ run \in 0 .. MaxRuns
  /\ cancelled \subseteq Run /\ done \subseteq Run
  /\ mineCancel \in 0 .. MaxAttempts
  /\ restarted \subseteq Attempt
  /\ loop \in [Run -> {"none", "top", "build", "mine", "found", "delay", "left"}]
  /\ attempt \in [Run -> 0 .. MaxAttempts]
  /\ runOf \in [Attempt -> 0 .. MaxRuns]
  /\ basis \in [Attempt -> 0 .. tip]
  /\ watchers \subseteq Attempt /\ stopSearch \subseteq Attempt
  /\ tip \in 0 .. MaxBlocks + MaxSyncs + MaxAttempts
  /\ accepted \in 0 .. MaxBlocks /\ owed \in 0 .. accepted /\ syncs \in 0 .. MaxSyncs

Working(r) == loop[r] \notin {"none", "left"}

(***************************************************************************)
(* Two mining loops never run at the same time: Stop waits for the loop    *)
(* to end.  A loop that outlived Stop would take the context of the next   *)
(* Start for its own and mine on beside the new loop.                      *)
(***************************************************************************)
OneLoop == \A r, s \in Run : Working(r) /\ Working(s) => r = s

(***************************************************************************)
(* An attempt whose tip is no longer the tip of the chain has been told to *)
(* stop, unless some handler that moved the tip has yet to call Restart:   *)
(* Restart never misses the attempt, whatever the loop does meanwhile.     *)
(* (After a sync moved the tip nobody calls Restart, so the property says  *)
(* nothing of behaviours with one.)                                        *)
(***************************************************************************)
StaleAttemptCancelled ==
  \A r \in Run :
     loop[r] = "mine" /\ basis[attempt[r]] # tip /\ owed = 0 /\ syncs = 0 => Ended(attempt[r])

(***************************************************************************)
(* Stop returns, however long the search for a hash would take.            *)
(***************************************************************************)
StopReturns == stopping ~> ~stopping

(***************************************************************************)
(* An attempt that was cancelled is not searched for ever.                 *)
(***************************************************************************)
CancelledSearchEnds ==
  \A r \in Run : \A a \in Attempt :
     loop[r] = "mine" /\ attempt[r] = a /\ Ended(a) ~> ~(loop[r] = "mine" /\ attempt[r] = a)

(***************************************************************************)
(* Stopping the miner also ends the watchers of attempts that found their  *)
(* block, which nothing else would end: their contexts come from the run.  *)
(***************************************************************************)
WatchersEnd == \A a \in Attempt : a \in watchers /\ runOf[a] \in cancelled ~> a \notin watchers
============================================================================
