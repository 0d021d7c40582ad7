----------------------------- MODULE Persistence -----------------------------
(***************************************************************************)
(* Saving and loading a node's chain (internal/blockchain/chain_persist.go *)
(* and its callers in internal/node).  The miner's and the handlers'       *)
(* callbacks, the periodic sync and the shutdown each call SaveToFile from *)
(* a goroutine of their own.  A save holds only the read lock, so saves    *)
(* may overlap, and all of them use the same temporary file.               *)
(*                                                                         *)
(* The chain is known by a version number that every change increases.     *)
(* Files are inodes, for a rename moves a name and not what is written     *)
(* through a descriptor; a file is written in a number of chunks.          *)
(***************************************************************************)
EXTENDS Integers

CONSTANTS Saver,       \* goroutines that save
          Inode,
          NoInode,     \* what a name stands for when there is no such file
          Chunks,      \* writes it takes to put a chain on disk
          MaxVersion   \* bound on the changes of the chain

ASSUME PersistenceAssumption ==
  /\ NoInode \notin Inode
  /\ Chunks \in Nat \ {0}
  /\ MaxVersion \in Nat \ {0}

VARIABLES
  version,   \* of the chain in memory, 1 when it is only genesis
  content,   \* [Inode -> chunk -> version the chunk was written for, 0 if it was not]
  chainFile, \* the inode named chain.json
  tempFile,  \* the inode named chain.json.tmp
  pc,        \* where each saver stands in SaveToFile
  data,      \* the version each saver marshalled
  fd,        \* the inode each saver writes to
  written,   \* how many chunks each saver has written
  saved      \* the version of the last save that returned without an error

vars == <<version, content, chainFile, tempFile, pc, data, fd, written, saved>>

Empty == [c \in 1 .. Chunks |-> 0]
WholeOf(v) == [c \in 1 .. Chunks |-> v]

IsWhole(i) == i \in Inode /\ \E v \in 1 .. MaxVersion : content[i] = WholeOf(v)
VersionOf(i) == content[i][1]

Active == {s \in Saver : pc[s] # "idle"}

Init ==
  /\ version = 1
  /\ content = [i \in Inode |-> Empty]
  /\ chainFile = NoInode
  /\ tempFile = NoInode
  /\ pc = [s \in Saver |-> "idle"]
  /\ data = [s \in Saver |-> 0]
  /\ fd = [s \in Saver |-> NoInode]
  /\ written = [s \in Saver |-> 0]
  /\ saved = 0

---------------------------------------------------------------------------
\* Slip: a save gives up the read lock once it has marshalled the blocks.
ChangeChainUnlocked ==
  /\ version < MaxVersion
  /\ version' = version + 1
  /\ UNCHANGED <<content, chainFile, tempFile, pc, data, fd, written, saved>>

\* AddBlock and ReorganiseTo take the write lock: no save is in progress.
ChangeChain ==
  /\ Active = {}
  /\ version < MaxVersion
  /\ version' = version + 1
  /\ UNCHANGED <<content, chainFile, tempFile, pc, data, fd, written, saved>>

\* The read lock is taken and the blocks are marshalled.
BeginSave(s) ==
  /\ pc[s] = "idle"
  /\ pc' = [pc EXCEPT ![s] = "open"]
  /\ data' = [data EXCEPT ![s] = version]
  /\ UNCHANGED <<version, content, chainFile, tempFile, fd, written, saved>>

Unused == Inode \ ({chainFile, tempFile} \cup {fd[s] : s \in Saver})

\* os.WriteFile opens the temporary file, creating or truncating it,
OpenTemp(s) ==
  /\ pc[s] = "open"
  /\ \E i \in Inode :
        /\ i = tempFile \/ (tempFile = NoInode /\ i \in Unused)
        /\ tempFile' = i
        /\ content' = [content EXCEPT ![i] = Empty]
        /\ fd' = [fd EXCEPT ![s] = i]
  /\ written' = [written EXCEPT ![s] = 0]
  /\ pc' = [pc EXCEPT ![s] = "write"]
  /\ UNCHANGED <<version, chainFile, data, saved>>

\* Slip: one chunk too many.
WriteChunkPast(s) ==
  /\ pc[s] = "write"
  /\ written[s] <= Chunks
  /\ written' = [written EXCEPT ![s] = @ + 1]
  /\ UNCHANGED <<version, content, chainFile, tempFile, pc, data, fd, saved>>

\* and writes through its own descriptor, at its own offset.
WriteChunk(s) ==
  /\ pc[s] = "write"
  /\ written[s] < Chunks
  /\ written' = [written EXCEPT ![s] = @ + 1]
  /\ content' = [content EXCEPT ![fd[s]][written[s] + 1] = data[s]]
  /\ UNCHANGED <<version, chainFile, tempFile, pc, data, fd, saved>>

\* The save ends and gives up the read lock.
EndSave(s) ==
  /\ pc' = [pc EXCEPT ![s] = "idle"]
  /\ data' = [data EXCEPT ![s] = 0]
  /\ fd' = [fd EXCEPT ![s] = NoInode]
  /\ written' = [written EXCEPT ![s] = 0]
  /\ UNCHANGED <<version, content>>

\* Slip: the file is renamed before all of it is written.
RenameEarly(s) ==
  /\ pc[s] = "write"
  /\ tempFile # NoInode
  /\ chainFile' = tempFile
  /\ tempFile' = NoInode
  /\ saved' = data[s]
  /\ EndSave(s)

\* The temporary file gets the real name; when another saver has already
\* renamed it, os.Rename fails and the error is only logged.
Rename(s) ==
  /\ pc[s] = "write"
  /\ written[s] = Chunks
  /\ \/ /\ tempFile # NoInode
        /\ chainFile' = tempFile
        /\ tempFile' = NoInode
        /\ saved' = data[s]
     \/ /\ tempFile = NoInode
        /\ UNCHANGED <<chainFile, tempFile, saved>>
  /\ EndSave(s)

\* The process dies and is started again: LoadFromFile takes a chain file
\* that is whole, and otherwise the node starts with a chain of its own.
Restart ==
  /\ version' = IF IsWhole(chainFile) THEN VersionOf(chainFile) ELSE 1
  /\ saved' = IF IsWhole(chainFile) THEN VersionOf(chainFile) ELSE 0
  /\ pc' = [s \in Saver |-> "idle"]
  /\ data' = [s \in Saver |-> 0]
  /\ fd' = [s \in Saver |-> NoInode]
  /\ written' = [s \in Saver |-> 0]
  /\ UNCHANGED <<content, chainFile, tempFile>>

Save(s) == BeginSave(s) \/ OpenTemp(s) \/ WriteChunk(s) \/ Rename(s)

Next == ChangeChain \/ (\E s \in Saver : Save(s)) \/ Restart

Spec == Init /\ [][Next]_vars

---------------------------------------------------------------------------
TypeOK ==
  /\ version \in 1 .. MaxVersion
  /\ content \in [Inode -> [1 .. Chunks -> 0 .. MaxVersion]]
  /\ chainFile \in Inode \cup {NoInode}
  /\ tempFile \in Inode \cup {NoInode}
  /\ pc \in [Saver -> {"idle", "open", "write"}]
  /\ data \in [Saver -> 0 .. MaxVersion]
  /\ fd \in [Saver -> Inode \cup {NoInode}]
  /\ written \in [Saver -> 0 .. Chunks]
  /\ saved \in 0 .. MaxVersion
  /\ \A s \in Saver : pc[s] = "write" => fd[s] \in Inode

(***************************************************************************)
(* Saves that overlap write the same chain, because each holds the read    *)
(* lock to its end: no save ever puts an older chain over a newer one.     *)
(***************************************************************************)
OverlappingSavesAgree ==
  \A s \in Saver : pc[s] # "idle" => data[s] = version

(***************************************************************************)
(* Once a save was reported as done, what chain.json holds, chunk by       *)
(* chunk, is never older than that save: a chunk is at most missing for a  *)
(* while, although savers write through descriptors that a rename moved.   *)
(***************************************************************************)
FileNeverOlder ==
  saved > 0 =>
     \A c \in 1 .. Chunks : content[chainFile][c] \in {0} \cup saved .. version

(***************************************************************************)
(* The chain file may be torn only while a save is in progress, or when    *)
(* the process died during one: a node that runs on repairs it, for the    *)
(* saver that tore it goes on to write it all.  Without a crash, what a    *)
(* save reported as saved is in the file once no save is in progress.      *)
(***************************************************************************)
TornOnlyWhileSaving ==
  Active = {} /\ saved > 0 => IsWhole(chainFile) /\ VersionOf(chainFile) >= saved

(***************************************************************************)
(* chain_persist.go, "atomic save": whenever the process dies, chain.json  *)
(* is missing from the start or holds one whole chain, never less than     *)
(* the last save that was reported as done.                                *)
(***************************************************************************)
AtomicSave ==
  \/ chainFile = NoInode /\ saved = 0
  \/ IsWhole(chainFile) /\ VersionOf(chainFile) >= saved
============================================================================
