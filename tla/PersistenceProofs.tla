-------------------------- MODULE PersistenceProofs --------------------------
(***************************************************************************)
(* Theorems about module Persistence, for any number of savers, inodes,    *)
(* chunks and changes of the chain.                                        *)
(***************************************************************************)
EXTENDS Persistence, TLAPS

Writing(s) == pc[s] = "write"

\* Some saver will still write this chunk of the file.
Pending(i, c) == \E s \in Saver : Writing(s) /\ fd[s] = i /\ written[s] < c

\* The file holds the chain of this version, up to chunks that will come.
Covered(i, v) ==
  \A c \in 1 .. Chunks : content[i][c] = v \/ (content[i][c] = 0 /\ Pending(i, c))

\* The two names never stand for one file; what was saved is in the file or
\* on the way to it; who still writes to the file writes just that; and what
\* a saver may rename holds the present chain, since whoever truncated it
\* last goes on to write all of it.
FilesInv ==
  /\ chainFile # NoInode => tempFile # chainFile
  /\ saved <= version
  /\ saved > 0 => chainFile \in Inode /\ Covered(chainFile, saved)
  /\ \A s \in Saver : Writing(s) /\ fd[s] = chainFile => saved = version
  /\ (\E s \in Saver : Writing(s)) /\ tempFile # NoInode => Covered(tempFile, version)

IInv == TypeOK /\ OverlappingSavesAgree /\ FilesInv

---------------------------------------------------------------------------
\* Nothing is saved and nobody writes at first.
LEMMA InitIInv == Init => IInv
BY PersistenceAssumption DEF Init, IInv, TypeOK, OverlappingSavesAgree, FilesInv,
   PersistenceAssumption, Empty, Writing

\* Every step keeps the types.
LEMMA NextTypeOK ==
  ASSUME TypeOK, [Next]_vars
  PROVE  TypeOK'
<1> USE PersistenceAssumption DEF PersistenceAssumption, TypeOK
<1>1. CASE ChangeChain
  BY <1>1 DEF ChangeChain
<1>2. ASSUME NEW s \in Saver, BeginSave(s)
      PROVE  TypeOK'
  BY <1>2 DEF BeginSave
<1>3. ASSUME NEW s \in Saver, OpenTemp(s)
      PROVE  TypeOK'
  <2>1. Empty \in [1 .. Chunks -> 0 .. MaxVersion]
    BY DEF Empty
  <2>2. QED
    BY <1>3, <2>1 DEF OpenTemp
<1>4. ASSUME NEW s \in Saver, WriteChunk(s)
      PROVE  TypeOK'
  <2>1. fd[s] \in Inode /\ written[s] + 1 \in 1 .. Chunks
    BY <1>4 DEF WriteChunk
  <2>2. [content[fd[s]] EXCEPT ![written[s] + 1] = data[s]] \in [1 .. Chunks -> 0 .. MaxVersion]
    BY <2>1
  <2>3. content' \in [Inode -> [1 .. Chunks -> 0 .. MaxVersion]]
    BY <1>4, <2>1, <2>2 DEF WriteChunk
  <2>4. QED
    BY <1>4, <2>1, <2>3 DEF WriteChunk
<1>5. ASSUME NEW s \in Saver, Rename(s)
      PROVE  TypeOK'
  <2>1. chainFile' \in Inode \cup {NoInode} /\ tempFile' \in Inode \cup {NoInode}
        /\ saved' \in 0 .. MaxVersion
    BY <1>5 DEF Rename
  <2>2. QED
    BY <1>5, <2>1 DEF Rename, EndSave
<1>6. CASE Restart
  <2>1. ASSUME IsWhole(chainFile)
        PROVE  VersionOf(chainFile) \in 1 .. MaxVersion
    BY <2>1 DEF IsWhole, VersionOf, WholeOf
  <2>2. version' \in 1 .. MaxVersion /\ saved' \in 0 .. MaxVersion
    BY <1>6, <2>1 DEF Restart
  <2>3. QED
    BY <1>6, <2>2 DEF Restart
<1>7. CASE UNCHANGED vars
  BY <1>7 DEF vars
<1>8. QED
  BY <1>1, <1>2, <1>3, <1>4, <1>5, <1>6, <1>7 DEF Next, Save

\* The read lock: while any saver is at work the chain does not change.
LEMMA NextAgree ==
  ASSUME TypeOK, OverlappingSavesAgree, [Next]_vars
  PROVE  OverlappingSavesAgree'
<1> USE DEF TypeOK, OverlappingSavesAgree
<1>1. CASE ChangeChain
  BY <1>1 DEF ChangeChain, Active
<1>2. ASSUME NEW s \in Saver, Save(s)
      PROVE  OverlappingSavesAgree'
  BY <1>2 DEF Save, BeginSave, OpenTemp, WriteChunk, Rename, EndSave
<1>3. CASE Restart
  BY <1>3 DEF Restart
<1>4. CASE UNCHANGED vars
  BY <1>4 DEF vars
<1>5. QED
  BY <1>1, <1>2, <1>3, <1>4 DEF Next

---------------------------------------------------------------------------
\* A saver that starts neither writes nor moves anything.
LEMMA BeginSaveFiles ==
  ASSUME IInv, NEW s \in Saver, BeginSave(s)
  PROVE  FilesInv'
<1>1. UNCHANGED <<version, content, chainFile, tempFile, fd, written, saved>>
      /\ \A t \in Saver : Writing(t)' <=> Writing(t)
  BY DEF BeginSave, IInv, TypeOK, Writing
<1>2. \A i, c : Pending(i, c)' <=> Pending(i, c)
  BY <1>1 DEF Pending
<1>3. QED
  BY <1>1, <1>2 DEF IInv, FilesInv, Covered

\* The chain changes only while nobody writes.
LEMMA ChangeChainFiles ==
  ASSUME IInv, ChangeChain
  PROVE  FilesInv'
<1>1. /\ version' = version + 1
      /\ UNCHANGED <<content, chainFile, tempFile, pc, data, fd, written, saved>>
      /\ \A s \in Saver : ~Writing(s)
  BY DEF ChangeChain, Active, Writing
<1>2. \A i, c : Pending(i, c)' <=> Pending(i, c)
  BY <1>1 DEF Pending, Writing
<1>3. version \in Int /\ saved \in Int
  BY DEF IInv, TypeOK
<1>4. QED
  BY <1>1, <1>2, <1>3 DEF IInv, FilesInv, Covered, Writing

\* What a saver truncates is not the chain file, and it will write all of it.
LEMMA OpenTempFiles ==
  ASSUME IInv, NEW s \in Saver, OpenTemp(s)
  PROVE  FilesInv'
<1>1. PICK i \in Inode : /\ i = tempFile \/ (tempFile = NoInode /\ i \in Unused)
                         /\ tempFile' = i
                         /\ content' = [content EXCEPT ![i] = Empty]
                         /\ fd' = [fd EXCEPT ![s] = i]
  BY DEF OpenTemp
<1>2. /\ pc[s] = "open" /\ pc' = [pc EXCEPT ![s] = "write"]
      /\ written' = [written EXCEPT ![s] = 0]
      /\ UNCHANGED <<version, chainFile, data, saved>>
  BY DEF OpenTemp
<1>3. i # chainFile /\ i # NoInode
  BY <1>1, PersistenceAssumption DEF IInv, FilesInv, Unused, PersistenceAssumption
<1>4. \A f, c : Pending(f, c) => Pending(f, c)'
  <2>1. SUFFICES ASSUME NEW f, NEW c, NEW t \in Saver, Writing(t), fd[t] = f, written[t] < c
                 PROVE  Writing(t)' /\ fd'[t] = f /\ written'[t] < c
    BY DEF Pending
  <2>2. t # s
    BY <1>2, <2>1 DEF Writing
  <2>3. QED
    BY <1>1, <1>2, <2>1, <2>2 DEF IInv, TypeOK, Writing
<1>5. ASSUME saved > 0
      PROVE  Covered(chainFile, saved)'
  <2>1. chainFile \in Inode /\ Covered(chainFile, saved)
    BY <1>5 DEF IInv, FilesInv
  <2>2. content'[chainFile] = content[chainFile]
    BY <1>1, <1>3, <2>1 DEF IInv, TypeOK
  <2>3. QED
    BY <1>2, <1>4, <2>1, <2>2 DEF Covered
<1>6. Covered(tempFile, version)'
  <2>1. content'[i] = Empty
    BY <1>1 DEF IInv, TypeOK
  <2>2. Writing(s)' /\ fd'[s] = i /\ written'[s] = 0
    BY <1>1, <1>2 DEF IInv, TypeOK, Writing
  <2>3. \A c \in 1 .. Chunks : content'[i][c] = 0 /\ Pending(i, c)'
    BY <2>1, <2>2 DEF Empty, Pending
  <2>4. QED
    BY <1>1, <2>3 DEF Covered
<1>7. ASSUME NEW t \in Saver, Writing(t)', fd'[t] = chainFile'
      PROVE  saved' = version'
  <2>1. t # s
    BY <1>1, <1>2, <1>3, <1>7 DEF IInv, TypeOK
  <2>2. Writing(t) /\ fd[t] = chainFile
    BY <1>1, <1>2, <1>7, <2>1 DEF IInv, TypeOK, Writing
  <2>3. QED
    BY <1>2, <2>2 DEF IInv, FilesInv
<1>8. QED
  BY <1>1, <1>2, <1>3, <1>5, <1>6, <1>7 DEF IInv, FilesInv

\* A chunk written is one of the version its file is to hold.
LEMMA WriteChunkFiles ==
  ASSUME IInv, NEW s \in Saver, WriteChunk(s)
  PROVE  FilesInv'
<1> DEFINE n == written[s] + 1
<1>1. /\ pc[s] = "write" /\ written[s] < Chunks
      /\ written' = [written EXCEPT ![s] = n]
      /\ content' = [content EXCEPT ![fd[s]][n] = version]
      /\ UNCHANGED <<version, chainFile, tempFile, pc, data, fd, saved>>
  BY DEF WriteChunk, IInv, OverlappingSavesAgree
<1>2. fd[s] \in Inode /\ written[s] \in Nat /\ n \in 1 .. Chunks
  BY <1>1, PersistenceAssumption DEF IInv, TypeOK, PersistenceAssumption
<1>3. \A t \in Saver : Writing(t)' <=> Writing(t)
  BY <1>1 DEF Writing
<1>4. \A i \in Inode : \A c \in 1 .. Chunks :
         content'[i][c] = IF i = fd[s] /\ c = n THEN version ELSE content[i][c]
  BY <1>1, <1>2 DEF IInv, TypeOK
<1>5. ASSUME NEW i \in Inode, NEW c \in 1 .. Chunks, Pending(i, c), ~(i = fd[s] /\ c = n)
      PROVE  Pending(i, c)'
  <2>1. PICK t \in Saver : Writing(t) /\ fd[t] = i /\ written[t] < c
    BY <1>5 DEF Pending
  <2>2. written'[t] < c
    <3>1. CASE t = s
      <4>1. c # n /\ written[s] < c /\ written'[t] = n
        BY <1>1, <1>5, <2>1, <3>1 DEF IInv, TypeOK
      <4>2. QED
        BY <1>2, <4>1
    <3>2. CASE t # s
      BY <1>1, <2>1, <3>2 DEF IInv, TypeOK
    <3>3. QED
      BY <3>1, <3>2
  <2>3. QED
    BY <1>1, <2>1, <2>2 DEF Pending, Writing
<1>6. ASSUME NEW i \in Inode, NEW v, Covered(i, v), i = fd[s] => v = version
      PROVE  Covered(i, v)'
  BY <1>4, <1>5, <1>6 DEF Covered
<1>7. ASSUME saved > 0
      PROVE  chainFile \in Inode /\ Covered(chainFile, saved)'
  <2>1. chainFile \in Inode /\ Covered(chainFile, saved)
    BY <1>7 DEF IInv, FilesInv
  <2>2. chainFile = fd[s] => saved = version
    BY <1>1 DEF IInv, FilesInv, Writing
  <2>3. saved' = saved /\ chainFile' = chainFile
    BY <1>1
  <2>4. QED
    BY <1>6, <2>1, <2>2, <2>3 DEF Covered
<1>8. ASSUME tempFile # NoInode
      PROVE  Covered(tempFile, version)'
  <2>1. tempFile \in Inode /\ Covered(tempFile, version)
    BY <1>1, <1>8 DEF IInv, TypeOK, FilesInv, Writing
  <2>2. version' = version /\ tempFile' = tempFile
    BY <1>1
  <2>3. QED
    BY <1>6, <2>1, <2>2 DEF Covered
<1>9. QED
  BY <1>1, <1>3, <1>7, <1>8 DEF IInv, FilesInv, Writing

\* The file that gets the real name is on the way to hold the present chain,
\* and the saver that leaves has nothing more to write.
LEMMA RenameFiles ==
  ASSUME IInv, NEW s \in Saver, Rename(s)
  PROVE  FilesInv'
<1>1. /\ pc[s] = "write" /\ written[s] = Chunks /\ data[s] = version
      /\ pc' = [pc EXCEPT ![s] = "idle"]
      /\ fd' = [fd EXCEPT ![s] = NoInode]
      /\ written' = [written EXCEPT ![s] = 0]
      /\ UNCHANGED <<version, content>>
  BY DEF Rename, EndSave, IInv, OverlappingSavesAgree
<1>2. \A t \in Saver : Writing(t)' => Writing(t) /\ t # s /\ fd'[t] = fd[t]
  BY <1>1 DEF IInv, TypeOK, Writing
<1>3. ASSUME NEW i \in Inode, NEW c \in 1 .. Chunks, Pending(i, c)
      PROVE  Pending(i, c)'
  <2>1. PICK t \in Saver : Writing(t) /\ fd[t] = i /\ written[t] < c
    BY <1>3 DEF Pending
  <2>2. t # s
    BY <1>1, <2>1, PersistenceAssumption DEF PersistenceAssumption
  <2>3. Writing(t)' /\ fd'[t] = i /\ written'[t] < c
    BY <1>1, <2>1, <2>2 DEF IInv, TypeOK, Writing
  <2>4. QED
    BY <2>3 DEF Pending
<1>4. ASSUME NEW i \in Inode, NEW v, Covered(i, v)
      PROVE  \A c \in 1 .. Chunks : content'[i][c] = v \/ (content'[i][c] = 0 /\ Pending(i, c)')
  BY <1>1, <1>3, <1>4 DEF Covered
<1>5. CASE /\ tempFile # NoInode
           /\ chainFile' = tempFile
           /\ tempFile' = NoInode
           /\ saved' = version
  <2>1. tempFile \in Inode /\ Covered(tempFile, version)
    BY <1>1, <1>5 DEF IInv, TypeOK, FilesInv, Writing
  <2>2. Covered(chainFile, saved)'
    BY <1>4, <1>5, <2>1 DEF Covered
  <2>3. QED
    BY <1>1, <1>5, <2>1, <2>2 DEF IInv, TypeOK, FilesInv
<1>6. CASE UNCHANGED <<chainFile, tempFile, saved>>
  <2>1. ASSUME saved > 0
        PROVE  chainFile \in Inode /\ Covered(chainFile, saved)'
    <3>1. chainFile \in Inode /\ Covered(chainFile, saved)
      BY <2>1 DEF IInv, FilesInv
    <3>2. QED
      BY <1>4, <1>6, <3>1 DEF Covered
  <2>2. ASSUME tempFile # NoInode
        PROVE  Covered(tempFile, version)'
    <3>1. tempFile \in Inode /\ Covered(tempFile, version)
      BY <1>1, <2>2 DEF IInv, TypeOK, FilesInv, Writing
    <3>2. QED
      BY <1>1, <1>4, <1>6, <3>1 DEF Covered
  <2>3. QED
    BY <1>1, <1>2, <1>6, <2>1, <2>2 DEF IInv, FilesInv
<1>7. QED
  BY <1>1, <1>5, <1>6 DEF Rename

\* After a start nobody writes, and a file that was taken is the one saved.
LEMMA RestartFiles ==
  ASSUME IInv, Restart
  PROVE  FilesInv'
<1>1. \A s \in Saver : ~Writing(s)'
  BY DEF Restart, Writing
<1>2. UNCHANGED <<content, chainFile, tempFile>>
  BY DEF Restart
<1>3. CASE IsWhole(chainFile)
  <2>1. PICK v \in 1 .. MaxVersion : content[chainFile] = WholeOf(v)
    BY <1>3 DEF IsWhole
  <2>2. VersionOf(chainFile) = v /\ \A c \in 1 .. Chunks : content[chainFile][c] = v
    BY <2>1, PersistenceAssumption DEF VersionOf, WholeOf, PersistenceAssumption
  <2>3. version' = v /\ saved' = v
    BY <1>3, <2>2 DEF Restart
  <2>4. Covered(chainFile, saved)'
    BY <1>2, <2>2, <2>3 DEF Covered
  <2>5. QED
    BY <1>1, <1>2, <1>3, <2>3, <2>4 DEF IInv, FilesInv, IsWhole
<1>4. CASE ~IsWhole(chainFile)
  <2>1. version' = 1 /\ saved' = 0
    BY <1>4 DEF Restart
  <2>2. QED
    BY <1>1, <1>2, <2>1 DEF IInv, FilesInv
<1>5. QED
  BY <1>3, <1>4

\* Every step keeps the inductive invariant.
LEMMA NextIInv ==
  ASSUME IInv, [Next]_vars
  PROVE  IInv'
<1>1. TypeOK' /\ OverlappingSavesAgree'
  BY NextTypeOK, NextAgree DEF IInv
<1>2. FilesInv'
  <2>1. CASE UNCHANGED vars
    BY <2>1 DEF vars, IInv, FilesInv, Covered, Pending, Writing
  <2>2. QED
    BY <2>1, ChangeChainFiles, BeginSaveFiles, OpenTempFiles, WriteChunkFiles, RenameFiles,
       RestartFiles DEF Next, Save
<1>3. QED
  BY <1>1, <1>2 DEF IInv

---------------------------------------------------------------------------
(***************************************************************************)
(* The types hold at all times; in particular a saver that writes has a    *)
(* file to write to.                                                       *)
(***************************************************************************)
THEOREM TypeCorrect == Spec => []TypeOK
<1>1. Init => TypeOK
  BY InitIInv DEF IInv
<1>2. TypeOK /\ [Next]_vars => TypeOK'
  BY NextTypeOK
<1>3. QED
  BY <1>1, <1>2, PTL DEF Spec

\* So it always holds.
LEMMA Invariance == Spec => []IInv
<1>1. IInv /\ [Next]_vars => IInv'
  BY NextIInv
<1>2. QED
  BY <1>1, InitIInv, PTL DEF Spec

(***************************************************************************)
(* Saves that overlap (SaveToFile under the read lock) write the same      *)
(* chain, however many there are.                                          *)
(***************************************************************************)
THEOREM SavesAgree == Spec => []OverlappingSavesAgree
BY Invariance, PTL DEF IInv

(***************************************************************************)
(* Whatever savers interleave, truncate and rename, and whenever the       *)
(* process dies, no chunk of chain.json is older than the last save that   *)
(* was reported as done (chain_persist.go).                                *)
(***************************************************************************)
THEOREM NeverOlder == Spec => []FileNeverOlder
<1>1. IInv => FileNeverOlder
  <2>1. SUFFICES ASSUME IInv, saved > 0, NEW c \in 1 .. Chunks
                 PROVE  content[chainFile][c] \in {0} \cup saved .. version
    BY DEF FileNeverOlder
  <2>2. content[chainFile][c] \in {0, saved} /\ saved <= version
    BY <2>1 DEF IInv, FilesInv, Covered
  <2>3. saved \in Int /\ version \in Int
    BY <2>1 DEF IInv, TypeOK
  <2>4. QED
    BY <2>2, <2>3
<1>2. QED
  BY <1>1, Invariance, PTL

(***************************************************************************)
(* A running node repairs a torn chain.json: once no save is in progress,  *)
(* the file is whole and holds what was last reported as saved.            *)
(***************************************************************************)
THEOREM TornFilesRepaired == Spec => []TornOnlyWhileSaving
<1>1. IInv => TornOnlyWhileSaving
  <2>1. SUFFICES ASSUME IInv, Active = {}, saved > 0
                 PROVE  IsWhole(chainFile) /\ VersionOf(chainFile) >= saved
    BY DEF TornOnlyWhileSaving
  <2>2. chainFile \in Inode /\ \A c \in 1 .. Chunks : content[chainFile][c] = saved
    BY <2>1 DEF IInv, FilesInv, Covered, Pending, Writing, Active
  <2>3. saved \in 1 .. MaxVersion /\ Chunks \in Nat \ {0}
        /\ content[chainFile] \in [1 .. Chunks -> 0 .. MaxVersion]
    BY <2>1, <2>2, PersistenceAssumption DEF IInv, TypeOK, PersistenceAssumption
  <2>4. content[chainFile] = WholeOf(saved)
    BY <2>2, <2>3 DEF WholeOf
  <2>5. QED
    BY <2>2, <2>3, <2>4 DEF IsWhole, VersionOf
<1>2. QED
  BY <1>1, Invariance, PTL
============================================================================
