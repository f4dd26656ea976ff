------------------------- MODULE FrameUploadProofs -------------------------
(***************************************************************************)
(* What holds of the upload of frames for any frames and requests and any  *)
(* failures: the types for any number of processes, and for one process    *)
(* that rows have their complete JPEG.                                     *)
(***************************************************************************)
EXTENDS FrameUpload, FiniteSetTheorems, TLAPS

\* A temporary file has one name; a request has a file open only while it
\* writes it.
TmpFilesApart ==
    /\ \A f, g \in Frames : f # g /\ tmp[f] # None => tmp[f] # tmp[g]
    /\ \A r \in Requests : phase[r] # "opened" => fd[r] = None
    /\ \A r \in Requests : phase[r] = "opened" => fd[r] # None

IInv == TypeOK /\ TmpFilesApart

\* In one process a write is not disturbed: the file it writes is the one
\* that has the temporary name, and it is complete when it gets its own.
OneWriter ==
    /\ \A q, r \in Requests : InFile(q) /\ InFile(r) => q = r
    /\ \A r \in Requests : InFile(r) => tmp[frame[r]] # None
    /\ \A r \in Requests : phase[r] = "opened" => fd[r] = tmp[frame[r]]
    /\ \A r \in Requests : phase[r] = "written" => tmp[frame[r]] \notin partial
    /\ \A r \in Requests : InFile(r) => backend = "local"
    /\ backend # "local" => partial = {}

\* Store first, row second, reply third.
StoredFirst ==
    /\ \A r \in Requests : phase[r] \in {"stored", "answered"} => final[frame[r]] # None
    /\ \A r \in Requests : phase[r] = "answered" => frame[r] \in rows

\* In one process the files are whole, and what the device deletes is stored.
OneProcessInv ==
    /\ IInv
    /\ OneWriter
    /\ StoredFirst
    /\ NoPartialFile
    /\ NoFrameLost

-----------------------------------------------------------------------------
(* A name that is given to a set of things is given to no more of them.    *)
LEMMA ImageBounded ==
    ASSUME NEW S, IsFiniteSet(S), NEW h
    PROVE  LET T == {h[x] : x \in S}
           IN  IsFiniteSet(T) /\ Cardinality(T) <= Cardinality(S) /\ Cardinality(T) \in Nat
<1> DEFINE T == {h[x] : x \in S}
           k == [x \in S |-> h[x]]
<1>1. k \in Surjection(S, T)
  <2>1. k \in [S -> T]
    OBVIOUS
  <2>2. \A t \in T : \E x \in S : k[x] = t
    OBVIOUS
  <2> QED
    BY <2>1, <2>2 DEF Surjection
<1> HIDE DEF k
<1>2. IsFiniteSet(T) /\ Cardinality(T) <= Cardinality(S)
    BY <1>1, FS_Surjection
<1>3. Cardinality(T) \in Nat
    BY <1>2, FS_CardinalityType
<1> QED
    BY <1>2, <1>3

(* A request that has no file open finds a file that nobody uses.          *)
LEMMA NewFileIsNew ==
    ASSUME NEW r \in Requests, fd[r] = None
    PROVE  NewFile \in Inodes \ InUse
<1> DEFINE A == {tmp[f] : f \in Frames}
           B == {final[f] : f \in Frames}
           C == {fd[q] : q \in Requests \ {r}}
           n == Cardinality(Frames)
           m == Cardinality(Requests)
<1>1. IsFiniteSet(A) /\ Cardinality(A) <= n /\ Cardinality(A) \in Nat
    BY ImageBounded, InodesAssumption
<1>2. IsFiniteSet(B) /\ Cardinality(B) <= n /\ Cardinality(B) \in Nat
    BY ImageBounded, InodesAssumption
<1>3. IsFiniteSet(Requests \ {r}) /\ Cardinality(Requests \ {r}) = m - 1
    BY FS_RemoveElement, InodesAssumption
<1>4. IsFiniteSet(C) /\ Cardinality(C) <= m - 1 /\ Cardinality(C) \in Nat
    BY <1>3, ImageBounded
<1>5. n \in Nat /\ m \in Nat /\ Cardinality(Inodes) \in Nat
    BY FS_CardinalityType, InodesAssumption
<1>6. InUse \subseteq A \union B \union C \union {None}
    BY DEF InUse
<1> HIDE DEF A, B, C, n, m
<1>7. IsFiniteSet(A \union B) /\ Cardinality(A \union B) <= Cardinality(A) + Cardinality(B)
      /\ Cardinality(A \union B) \in Nat
  <2>1. IsFiniteSet(A \intersect B)
    BY <1>1, FS_Subset
  <2>2. Cardinality(A \intersect B) \in Nat
    BY <2>1, FS_CardinalityType
  <2>3. IsFiniteSet(A \union B)
        /\ Cardinality(A \union B) = Cardinality(A) + Cardinality(B) - Cardinality(A \intersect B)
    BY <1>1, <1>2, FS_Union
  <2>4. Cardinality(A \union B) \in Nat
    BY <2>3, FS_CardinalityType
  <2> QED
    BY <1>1, <1>2, <2>2, <2>3, <2>4
<1>8. IsFiniteSet((A \union B) \union C)
      /\ Cardinality((A \union B) \union C) <= Cardinality(A \union B) + Cardinality(C)
      /\ Cardinality((A \union B) \union C) \in Nat
  <2>1. IsFiniteSet((A \union B) \intersect C)
    BY <1>4, FS_Subset
  <2>2. Cardinality((A \union B) \intersect C) \in Nat
    BY <2>1, FS_CardinalityType
  <2>3. IsFiniteSet((A \union B) \union C)
        /\ Cardinality((A \union B) \union C)
             = Cardinality(A \union B) + Cardinality(C) - Cardinality((A \union B) \intersect C)
    BY <1>4, <1>7, FS_Union
  <2>4. Cardinality((A \union B) \union C) \in Nat
    BY <2>3, FS_CardinalityType
  <2> QED
    BY <1>4, <1>7, <2>2, <2>3, <2>4
<1>9. Cardinality((A \union B) \union C) < Cardinality(Inodes)
    BY <1>1, <1>2, <1>4, <1>5, <1>7, <1>8, InodesAssumption DEF n, m
<1>10. ~(Inodes \subseteq (A \union B) \union C)
    BY <1>5, <1>8, <1>9, FS_Subset
<1>11. \E i \in Inodes : i \notin InUse
    BY <1>6, <1>10, NoneAssumption
<1> QED
    BY <1>11 DEF NewFile

-----------------------------------------------------------------------------
(* Every step preserves the types and keeps temporary files apart.         *)
LEMMA TypeStep ==
    ASSUME IInv, [Next]_vars
    PROVE  IInv'
<1> USE BoundsAssumption, NoneAssumption
    DEF IInv, TypeOK, TmpFilesApart, Phases, clientVars, fileVars, To
<1>1. ASSUME NEW f \in Frames, NEW r \in Requests, Send(f, r)
      PROVE  IInv'
    BY <1>1 DEF Send
<1>2. ASSUME NEW f \in Frames, Timeout(f)
      PROVE  IInv'
    BY <1>2 DEF Timeout, Fault
<1>3. ASSUME NEW r \in Requests, EndWithError(r), faults' \in 0..MaxFaults
      PROVE  IInv'
    BY <1>3 DEF EndWithError, StopAwaiting
<1>4. ASSUME NEW r \in Requests,
             RefuseInvalid(r) \/ RenameFails(r) \/ RefuseOverLimit(r) \/ Fail(r)
      PROVE  IInv'
  <2>1. EndWithError(r) /\ faults' \in 0..MaxFaults
    BY <1>4 DEF RefuseInvalid, RenameFails, RefuseOverLimit, Fail, Fault
  <2> QED
    BY <1>3, <2>1
<1>5. ASSUME NEW r \in Requests, Accept(r) \/ InsertRow(r)
      PROVE  IInv'
    BY <1>5 DEF Accept, InsertRow
<1>6. ASSUME NEW r \in Requests, Open(r)
      PROVE  IInv'
  <2>1. NewFile \in Inodes \ InUse
    BY <1>6, NewFileIsNew DEF Open
  <2> DEFINE file == TmpFile(frame[r])
  <2>2. /\ file \in Inodes
        /\ \A f \in Frames : f # frame[r] => file # tmp[f]
        /\ \A f \in Frames : file # final[f]
    BY <2>1 DEF TmpFile, InUse
  <2>3. /\ tmp' = [tmp EXCEPT ![frame[r]] = file]
        /\ fd' = [fd EXCEPT ![r] = file]
        /\ partial' = partial \union {file}
        /\ phase' = [phase EXCEPT ![r] = "opened"]
        /\ UNCHANGED <<backend, outbox, awaiting, frame, final, torn, rows, faults>>
    BY <1>6 DEF Open
  <2> HIDE DEF file
  <2>4. TypeOK'
    BY <2>2, <2>3
  <2>5. TmpFilesApart'
    BY <2>2, <2>3
  <2> QED
    BY <2>4, <2>5
<1>7. ASSUME NEW r \in Requests, Write(r)
      PROVE  IInv'
    BY <1>7 DEF Write
<1>8. ASSUME NEW r \in Requests, Rename(r)
      PROVE  IInv'
    BY <1>8 DEF Rename
<1>9. ASSUME NEW r \in Requests, StoreObject(r)
      PROVE  IInv'
  <2>1. NewFile \in Inodes \ InUse
    BY <1>9, NewFileIsNew DEF StoreObject
  <2>2. NewFile \in Inodes /\ \A f \in Frames : NewFile # tmp[f]
    BY <2>1 DEF InUse
  <2> QED
    BY <1>9, <2>2 DEF StoreObject
<1>10. ASSUME NEW r \in Requests, Deliver(r)
       PROVE  IInv'
    BY <1>10 DEF Deliver, StopAwaiting
<1>11. ASSUME NEW w \in Workers, Crash(w)
       PROVE  IInv'
    BY <1>11 DEF Crash, StopAwaiting, Fault
<1>12. CASE UNCHANGED vars
    BY <1>12 DEF vars
<1> QED
    BY <1>1, <1>2, <1>4, <1>5, <1>6, <1>7, <1>8, <1>9, <1>10, <1>11, <1>12
    DEF Next, Handle

(* The initial states satisfy it.                                          *)
LEMMA InitIInv == Init => IInv
BY BoundsAssumption, NoneAssumption DEF Init, IInv, TypeOK, TmpFilesApart, Phases

(***************************************************************************)
(* Whatever fails and however many processes collide, every file has one   *)
(* name at most (services/frame_service.py:107-130).                       *)
(***************************************************************************)
THEOREM TypeCorrect == Spec => []TypeOK
<1>1. IInv => TypeOK
    BY DEF IInv
<1>2. IInv /\ [Next]_vars => IInv'
    BY TypeStep
<1> QED
    BY <1>1, <1>2, InitIInv, PTL DEF Spec

-----------------------------------------------------------------------------
OneProcess == \A q, r \in Requests : Host[q] = Host[r]

(* The steps that touch no file and start no writing.                      *)
LEMMA FilesKept ==
    ASSUME OneProcessInv, IInv',
           UNCHANGED <<backend, tmp, final, partial>>,
           \A q \in Requests : InFile(q)' =>
               phase'[q] = phase[q] /\ frame'[q] = frame[q] /\ fd'[q] = fd[q]
    PROVE  OneWriter' /\ NoPartialFile'
BY DEF OneProcessInv, OneWriter, NoPartialFile, Whole, InFile

(* In one process every step preserves the invariant.                      *)
LEMMA OneProcessStep ==
    ASSUME OneProcess, OneProcessInv, [Next]_vars
    PROVE  OneProcessInv'
<1>0. IInv /\ IInv'
    BY TypeStep DEF OneProcessInv
<1>00. /\ phase \in [Requests -> Phases] /\ frame \in [Requests -> Frames]
       /\ fd \in [Requests -> Inodes \union {None}]
       /\ tmp \in [Frames -> Inodes \union {None}]
       /\ final \in [Frames -> Inodes \union {None}]
       /\ partial \subseteq Inodes /\ rows \subseteq Frames /\ outbox \subseteq Frames
       /\ \A f, g \in Frames : tmp[f] # None => tmp[f] # final[g]
       /\ \A f, g \in Frames : f # g /\ tmp[f] # None => tmp[f] # tmp[g]
       /\ backend \in {"local", "supabase"}
    BY <1>0, BoundsAssumption DEF IInv, TypeOK, TmpFilesApart
<1> USE NoneAssumption DEF clientVars, fileVars, To
<1>1. ASSUME NEW f \in Frames, NEW r \in Requests, Send(f, r)
      PROVE  OneProcessInv'
  <2>1. OneWriter' /\ NoPartialFile'
    BY <1>0, <1>00, <1>1, FilesKept DEF Send, InFile
  <2>2. StoredFirst' /\ NoFrameLost'
    BY <1>00, <1>1 DEF Send, OneProcessInv, StoredFirst, NoFrameLost, Whole
  <2> QED
    BY <1>0, <2>1, <2>2 DEF OneProcessInv
<1>2. ASSUME NEW r \in Requests, EndWithError(r)
      PROVE  OneProcessInv'
  <2>1. OneWriter' /\ NoPartialFile'
    BY <1>0, <1>00, <1>2, FilesKept DEF EndWithError, InFile
  <2>2. StoredFirst' /\ NoFrameLost'
    BY <1>00, <1>2 DEF EndWithError, OneProcessInv, StoredFirst, NoFrameLost, Whole
  <2> QED
    BY <1>0, <2>1, <2>2 DEF OneProcessInv
<1>3. ASSUME NEW r \in Requests,
             RefuseInvalid(r) \/ RenameFails(r) \/ RefuseOverLimit(r) \/ Fail(r)
      PROVE  OneProcessInv'
    BY <1>2, <1>3 DEF RefuseInvalid, RenameFails, RefuseOverLimit, Fail
<1>4. ASSUME NEW r \in Requests, Accept(r)
      PROVE  OneProcessInv'
  <2>1. OneWriter' /\ NoPartialFile'
    BY <1>0, <1>00, <1>4, FilesKept DEF Accept, InFile
  <2>2. StoredFirst' /\ NoFrameLost'
    BY <1>00, <1>4 DEF Accept, OneProcessInv, StoredFirst, NoFrameLost, Whole
  <2> QED
    BY <1>0, <2>1, <2>2 DEF OneProcessInv
<1>5. ASSUME NEW r \in Requests, Open(r)
      PROVE  OneProcessInv'
  <2> DEFINE file == TmpFile(frame[r])
  <2>1. /\ phase[r] = "storing" /\ backend = "local" /\ Alone(r)
        /\ tmp' = [tmp EXCEPT ![frame[r]] = file]
        /\ fd' = [fd EXCEPT ![r] = file]
        /\ partial' = partial \union {file}
        /\ phase' = [phase EXCEPT ![r] = "opened"]
        /\ UNCHANGED <<backend, outbox, frame, final, rows>>
    BY <1>5 DEF Open
  <2>2. file # None /\ \A f \in Frames : file # final[f]
    <3>1. NewFile \in Inodes \ InUse
      BY <1>0, <2>1, NewFileIsNew DEF IInv, TmpFilesApart
    <3> QED
      BY <1>00, <3>1 DEF TmpFile, InUse
  <2>3. \A q \in Requests : q # r => ~InFile(q)
    BY <2>1 DEF Alone, OneProcess
  <2> HIDE DEF file
  <2>4. OneWriter'
    BY <1>00, <2>1, <2>2, <2>3 DEF OneWriter, InFile
  <2>5. NoPartialFile'
    BY <1>00, <2>1, <2>2 DEF OneProcessInv, NoPartialFile, Whole
  <2>6. StoredFirst' /\ NoFrameLost'
    BY <1>00, <2>1, <2>2 DEF OneProcessInv, StoredFirst, NoFrameLost, Whole
  <2> QED
    BY <1>0, <2>4, <2>5, <2>6 DEF OneProcessInv
<1>6. ASSUME NEW r \in Requests, Write(r)
      PROVE  OneProcessInv'
  <2>1. \A q \in Requests : q # r => ~InFile(q)
    BY <1>6 DEF Write, OneProcessInv, OneWriter, InFile
  <2>2. OneWriter'
    BY <1>00, <1>6, <2>1 DEF Write, OneProcessInv, OneWriter, InFile
  <2>3. NoPartialFile' /\ StoredFirst' /\ NoFrameLost'
    BY <1>00, <1>6 DEF Write, OneProcessInv, NoPartialFile, StoredFirst, NoFrameLost, Whole
  <2> QED
    BY <1>0, <2>2, <2>3 DEF OneProcessInv
<1>7. ASSUME NEW r \in Requests, Rename(r)
      PROVE  OneProcessInv'
  <2>1. \A q \in Requests : q # r => ~InFile(q)
    BY <1>7 DEF Rename, OneProcessInv, OneWriter, InFile
  <2>2. OneWriter'
    BY <1>00, <1>7, <2>1 DEF Rename, OneProcessInv, OneWriter, InFile
  <2>3. tmp[frame[r]] \notin partial /\ tmp[frame[r]] # None
    BY <1>7 DEF Rename, OneProcessInv, OneWriter
  <2>4. NoPartialFile' /\ StoredFirst' /\ NoFrameLost'
    BY <1>00, <1>7, <2>3 DEF Rename, OneProcessInv, NoPartialFile, StoredFirst, NoFrameLost, Whole
  <2> QED
    BY <1>0, <2>2, <2>4 DEF OneProcessInv
<1>8. ASSUME NEW r \in Requests, StoreObject(r)
      PROVE  OneProcessInv'
  <2>1. NewFile # None
    BY <1>0, <1>8, NewFileIsNew DEF StoreObject, IInv, TmpFilesApart
  <2>2. partial = {}
    BY <1>8 DEF StoreObject, OneProcessInv, OneWriter
  <2>3. OneWriter'
    BY <1>00, <1>8 DEF StoreObject, OneProcessInv, OneWriter, InFile
  <2>4. NoPartialFile' /\ StoredFirst' /\ NoFrameLost'
    BY <1>00, <1>8, <2>1, <2>2
    DEF StoreObject, OneProcessInv, NoPartialFile, StoredFirst, NoFrameLost, Whole
  <2> QED
    BY <1>0, <2>3, <2>4 DEF OneProcessInv
<1>9. ASSUME NEW r \in Requests, InsertRow(r)
      PROVE  OneProcessInv'
  <2>1. OneWriter' /\ NoPartialFile'
    BY <1>0, <1>00, <1>9, FilesKept DEF InsertRow, InFile
  <2>2. StoredFirst' /\ NoFrameLost'
    BY <1>00, <1>9
    DEF InsertRow, OneProcessInv, StoredFirst, NoPartialFile, NoFrameLost, Whole
  <2> QED
    BY <1>0, <2>1, <2>2 DEF OneProcessInv
<1>10. ASSUME NEW r \in Requests, Deliver(r)
       PROVE  OneProcessInv'
  <2>1. OneWriter' /\ NoPartialFile'
    BY <1>0, <1>00, <1>10, FilesKept DEF Deliver, InFile
  <2>2. StoredFirst' /\ NoFrameLost'
    BY <1>00, <1>10 DEF Deliver, OneProcessInv, StoredFirst, NoFrameLost, Whole
  <2> QED
    BY <1>0, <2>1, <2>2 DEF OneProcessInv
<1>11. ASSUME NEW w \in Workers, Crash(w)
       PROVE  OneProcessInv'
  <2>1. OneWriter' /\ NoPartialFile'
    BY <1>0, <1>00, <1>11, FilesKept DEF Crash, InFile
  <2>2. StoredFirst' /\ NoFrameLost'
    BY <1>00, <1>11 DEF Crash, OneProcessInv, StoredFirst, NoFrameLost, Whole
  <2> QED
    BY <1>0, <2>1, <2>2 DEF OneProcessInv
<1>12. CASE UNCHANGED vars \/ \E f \in Frames : Timeout(f)
  <2>1. UNCHANGED <<backend, outbox, phase, frame, fd, tmp, final, partial, rows>>
    BY <1>12 DEF vars, Timeout
  <2>2. OneWriter' /\ NoPartialFile'
    BY <1>0, <2>1, FilesKept
  <2>3. StoredFirst' /\ NoFrameLost'
    BY <2>1 DEF OneProcessInv, StoredFirst, NoFrameLost, Whole
  <2> QED
    BY <1>0, <2>2, <2>3 DEF OneProcessInv
<1> QED
    BY <1>1, <1>3, <1>4, <1>5, <1>6, <1>7, <1>8, <1>9, <1>10, <1>11, <1>12
    DEF Next, Handle

(* In one process the invariant holds in every reachable state.            *)
LEMMA OneProcessInvariance ==
    ASSUME OneProcess
    PROVE  Spec => []OneProcessInv
<1>1. Init => OneProcessInv
    BY InitIInv, NoneAssumption
    DEF Init, OneProcessInv, OneWriter, StoredFirst, NoPartialFile, NoFrameLost, Whole, InFile
<1>2. OneProcessInv /\ [Next]_vars => OneProcessInv'
    BY OneProcessStep
<1> QED
    BY <1>1, <1>2, PTL DEF Spec

(***************************************************************************)
(* In one process a file under its final name is complete, a row has such  *)
(* a file, and a frame that the device has deleted has both                *)
(* (services/frame_service.py:54-80, 107-130).                             *)
(***************************************************************************)
THEOREM FramesAreWhole ==
    ASSUME OneProcess
    PROVE  Spec => [](NoPartialFile /\ NoFrameLost)
<1>1. OneProcessInv => NoPartialFile /\ NoFrameLost
    BY DEF OneProcessInv
<1> QED
    BY <1>1, OneProcessInvariance, PTL

(***************************************************************************)
(* In one process the upload of frames implements the abstract promise:    *)
(* stored first, deleted from the device after.                            *)
(***************************************************************************)
THEOREM UploadIsReliable ==
    ASSUME OneProcess
    PROVE  Spec => ImplementsReliableUpload
<1>1. Init => Promise!Init
    BY DEF Init, Promise!Init
<1>2. ASSUME OneProcessInv, OneProcessInv', [Next]_vars
      PROVE  [Promise!Next]_Promise!vars
  <2> DEFINE durable == {f \in rows : Whole(f)}
  <2>1. durable = rows /\ durable' = rows'
    BY <1>2 DEF OneProcessInv, NoFrameLost, Whole
  <2>2. ASSUME NEW r \in Requests, InsertRow(r)
        PROVE  Promise!Store({frame[r]}) /\ {frame[r]} \subseteq Frames
    BY <1>2, <2>1, <2>2
    DEF InsertRow, Promise!Store, clientVars, OneProcessInv, IInv, TypeOK
  <2>3. ASSUME NEW r \in Requests, Deliver(r)
        PROVE  [\E S \in SUBSET Frames : Promise!Forget(None, S)]_Promise!vars
    <3>1. frame[r] \in Frames /\ frame[r] \in rows
      BY <1>2, <2>3 DEF Deliver, OneProcessInv, IInv, TypeOK, StoredFirst
    <3>2. CASE awaiting[frame[r]] = r
      <4>1. Promise!Forget(None, {frame[r]})
        BY <2>1, <2>3, <3>1, <3>2 DEF Deliver, Promise!Forget, fileVars
      <4> QED
        BY <3>1, <4>1
    <3>3. CASE awaiting[frame[r]] # r
      BY <2>1, <2>3, <3>3 DEF Deliver, Promise!vars, fileVars
    <3> QED
      BY <3>2, <3>3
  <2>4. CASE UNCHANGED <<outbox, rows>>
    BY <2>1, <2>4 DEF Promise!vars
  <2>5. \/ \E r \in Requests : InsertRow(r) \/ Deliver(r)
        \/ UNCHANGED <<outbox, rows>>
    BY <1>2 DEF Next, Handle, Send, Timeout, RefuseInvalid, Accept, Open, Write, Rename,
       RenameFails, StoreObject, RefuseOverLimit, Fail, Crash, EndWithError, clientVars, vars
  <2> QED
    BY <2>2, <2>3, <2>4, <2>5 DEF Promise!Next
<1> QED
    BY <1>1, <1>2, OneProcessInvariance, PTL
    DEF Spec, Promise!Spec, ImplementsReliableUpload
=============================================================================
