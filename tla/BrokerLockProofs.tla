-------------------------- MODULE BrokerLockProofs --------------------------
(***************************************************************************)
(* Proofs about BrokerLock, for any number of processes, sessions and      *)
(* crashes: until a reap takes a lock it did not judge, the lock directory *)
(* excludes.                                                               *)
(***************************************************************************)
EXTENDS BrokerLock, TLAPS

\* The files agree with each other and with their history.
FilesAgree ==
    /\ dir <=> maker # NoProc
    /\ rec # NoProc => maker # NoProc /\ pc[rec] # "absent"

\* A process that reaps has judged one that is over for good.
ReapersAreRight ==
    \A p \in Procs :
        /\ judged[p] # NoProc => pc[judged[p]] # "absent"
        /\ pc[p] \in {"reap", "reap-dir"} => pc[judged[p]] \in {"exited", "crashed"}

\* The steps at which a process has a directory of its own without a record.
Unrecorded(p) == pc[p] \in {"record", "undo", "unlock-dir"}

OwnersFit ==
    \A p \in Procs :
        /\ Unrecorded(p) => maker = p /\ rec = NoProc
        /\ Owner(p) => maker = p /\ rec = p

IInv ==
    /\ TypeOK
    /\ FilesAgree
    /\ ReapersAreRight
    /\ ~wrongReap => OwnersFit

LEMMA InitInv == Init => IInv
  <1> SUFFICES ASSUME Init PROVE IInv
    OBVIOUS
  <1> USE LockAssumption DEF Init
  <1>1. TypeOK
    <2>1. crashes \in 0..MaxCrashes
      BY LockAssumption
    <2>2. /\ pc \in [Procs -> {"absent"}]
          /\ attempt \in [Procs -> {1}]
      OBVIOUS
    <2>3. /\ judged \in [Procs -> {NoProc}]
          /\ probed \in [Sessions -> {NoProc}]
          /\ session \in [Sessions -> {"idle"}]
      OBVIOUS
    <2> QED
      BY <2>1, <2>2, <2>3 DEF TypeOK, Over
  <1>2. FilesAgree /\ ReapersAreRight /\ OwnersFit
    BY DEF FilesAgree, ReapersAreRight, OwnersFit, Unrecorded, Owner, Owning
  <1> QED
    BY <1>1, <1>2 DEF IInv

LEMMA TypeStep == TypeOK /\ [Next]_vars => TypeOK'
  <1> SUFFICES ASSUME TypeOK, [Next]_vars PROVE TypeOK'
    OBVIOUS
  <1> USE LockAssumption DEF TypeOK, Over, Owning, Goto, files
  <1>1. ASSUME NEW p \in Procs, Acquire(p) PROVE TypeOK'
    <2>1. CASE Mkdir(p)
      BY <2>1 DEF Mkdir
    <2>2. CASE WriteRecord(p)
      BY <2>2 DEF WriteRecord
    <2>3. CASE WriteRaises(p)
      BY <2>3 DEF WriteRaises
    <2>4. CASE UndoDir(p)
      BY <2>4 DEF UndoDir
    <2>5. CASE ReadRecord(p)
      BY <2>5 DEF ReadRecord
    <2>6. CASE Judge(p)
      BY <2>6 DEF Judge
    <2>7. CASE ReapRecord(p)
      BY <2>7 DEF ReapRecord
    <2>8. CASE ReapDir(p)
      BY <2>8 DEF ReapDir
    <2> QED
      BY <1>1, <2>1, <2>2, <2>3, <2>4, <2>5, <2>6, <2>7, <2>8 DEF Acquire
  <1>2. ASSUME NEW p \in Procs, Serve(p) \/ Stop(p) \/ Crash(p) PROVE TypeOK'
    <2>1. CASE Publish(p)
      BY <2>1 DEF Publish
    <2>2. CASE PublishFails(p)
      BY <2>2 DEF PublishFails
    <2>3. CASE CheckEndpoint(p)
      BY <2>3 DEF CheckEndpoint
    <2>4. CASE UnlinkEndpoint(p)
      BY <2>4 DEF UnlinkEndpoint
    <2>5. CASE UnlinkRecord(p)
      BY <2>5 DEF UnlinkRecord
    <2>6. CASE RemoveDir(p)
      BY <2>6 DEF RemoveDir
    <2>7. CASE Stop(p)
      BY <2>7 DEF Stop
    <2>8. CASE Crash(p)
      BY <2>8 DEF Crash
    <2> QED
      BY <1>2, <2>1, <2>2, <2>3, <2>4, <2>5, <2>6, <2>7, <2>8 DEF Serve
  <1>3. ASSUME NEW s \in Sessions,
               StartMissing(s) \/ ReadEndpoint(s) \/ Connect(s) \/ SweepEndpoint(s)
        PROVE  TypeOK'
    <2>1. CASE StartMissing(s)
      BY <2>1 DEF StartMissing, Launch
    <2>2. CASE ReadEndpoint(s)
      BY <2>2 DEF ReadEndpoint
    <2>3. CASE Connect(s)
      BY <2>3 DEF Connect
    <2>4. CASE SweepEndpoint(s)
      BY <2>4 DEF SweepEndpoint, Launch
    <2> QED
      BY <1>3, <2>1, <2>2, <2>3, <2>4
  <1>4. CASE UNCHANGED vars
    BY <1>4 DEF vars
  <1> QED
    BY <1>1, <1>2, <1>3, <1>4 DEF Next

\* Type correctness for any processes and sessions.
THEOREM Typing == Spec => []TypeOK
  <1>1. Init => TypeOK
    BY InitInv DEF IInv
  <1> QED
    BY <1>1, TypeStep, PTL DEF Spec

\* Whoever leaves a directory without a record goes on to record or remove it, and
\* gives up only once it is gone or has a record.
LEMMA BareStep == TypeOK /\ BareDirIsAttended /\ [Next]_vars => BareDirIsAttended'
  <1> SUFFICES ASSUME TypeOK, BareDirIsAttended, [Next]_vars PROVE BareDirIsAttended'
    OBVIOUS
  <1> USE LockAssumption DEF TypeOK, Over, Owning, Attending, Goto, files, BareDirIsAttended
  <1>1. ASSUME NEW p \in Procs, Acquire(p) PROVE BareDirIsAttended'
    <2>1. CASE Mkdir(p)
      BY <2>1 DEF Mkdir
    <2>2. CASE WriteRecord(p)
      BY <2>2 DEF WriteRecord
    <2>3. CASE WriteRaises(p)
      BY <2>3 DEF WriteRaises
    <2>4. CASE UndoDir(p)
      BY <2>4 DEF UndoDir
    <2>5. CASE ReadRecord(p)
      BY <2>5 DEF ReadRecord
    <2>6. CASE Judge(p)
      BY <2>6 DEF Judge
    <2>7. CASE ReapRecord(p)
      BY <2>7 DEF ReapRecord
    <2>8. CASE ReapDir(p)
      BY <2>8 DEF ReapDir
    <2> QED
      BY <1>1, <2>1, <2>2, <2>3, <2>4, <2>5, <2>6, <2>7, <2>8 DEF Acquire
  <1>2. ASSUME NEW p \in Procs, Serve(p) \/ Stop(p) \/ Crash(p) PROVE BareDirIsAttended'
    <2>1. CASE Publish(p)
      BY <2>1 DEF Publish
    <2>2. CASE PublishFails(p)
      BY <2>2 DEF PublishFails
    <2>3. CASE CheckEndpoint(p)
      BY <2>3 DEF CheckEndpoint
    <2>4. CASE UnlinkEndpoint(p)
      BY <2>4 DEF UnlinkEndpoint
    <2>5. CASE UnlinkRecord(p)
      BY <2>5 DEF UnlinkRecord
    <2>6. CASE RemoveDir(p)
      BY <2>6 DEF RemoveDir
    <2>7. CASE Stop(p)
      BY <2>7 DEF Stop
    <2>8. CASE Crash(p)
      BY <2>8 DEF Crash
    <2> QED
      BY <1>2, <2>1, <2>2, <2>3, <2>4, <2>5, <2>6, <2>7, <2>8 DEF Serve
  <1>3. ASSUME NEW s \in Sessions,
               StartMissing(s) \/ ReadEndpoint(s) \/ Connect(s) \/ SweepEndpoint(s)
        PROVE  BareDirIsAttended'
    <2>1. CASE StartMissing(s)
      BY <2>1 DEF StartMissing, Launch
    <2>2. CASE ReadEndpoint(s)
      BY <2>2 DEF ReadEndpoint
    <2>3. CASE Connect(s)
      BY <2>3 DEF Connect
    <2>4. CASE SweepEndpoint(s)
      BY <2>4 DEF SweepEndpoint, Launch
    <2> QED
      BY <1>3, <2>1, <2>2, <2>3, <2>4
  <1>4. CASE UNCHANGED vars
    BY <1>4 DEF vars
  <1> QED
    BY <1>1, <1>2, <1>3, <1>4 DEF Next

\* A lock directory without a record is some running process's to record or remove,
\* unless a process died in the middle of that.
THEOREM BareDirHasAttendant == Spec => []BareDirIsAttended
  <1>1. Init => BareDirIsAttended
    BY DEF Init, BareDirIsAttended
  <1> QED
    BY <1>1, BareStep, Typing, PTL DEF Spec

\* A directory goes only without a record, and nobody launched is relaunched.
LEMMA FilesStep == IInv /\ [Next]_vars => FilesAgree'
  <1> SUFFICES ASSUME IInv, [Next]_vars PROVE FilesAgree'
    OBVIOUS
  <1> USE LockAssumption DEF IInv, TypeOK, Over, Owning, Goto, files, FilesAgree
  <1>1. ASSUME NEW p \in Procs, Acquire(p) PROVE FilesAgree'
    <2>1. CASE Mkdir(p)
      BY <2>1 DEF Mkdir
    <2>2. CASE WriteRecord(p)
      BY <2>2 DEF WriteRecord
    <2>3. CASE WriteRaises(p)
      BY <2>3 DEF WriteRaises
    <2>4. CASE UndoDir(p)
      BY <2>4 DEF UndoDir
    <2>5. CASE ReadRecord(p)
      BY <2>5 DEF ReadRecord
    <2>6. CASE Judge(p)
      BY <2>6 DEF Judge
    <2>7. CASE ReapRecord(p)
      BY <2>7 DEF ReapRecord
    <2>8. CASE ReapDir(p)
      BY <2>8 DEF ReapDir
    <2> QED
      BY <1>1, <2>1, <2>2, <2>3, <2>4, <2>5, <2>6, <2>7, <2>8 DEF Acquire
  <1>2. ASSUME NEW p \in Procs, Serve(p) \/ Stop(p) \/ Crash(p) PROVE FilesAgree'
    <2>1. CASE Publish(p)
      BY <2>1 DEF Publish
    <2>2. CASE PublishFails(p)
      BY <2>2 DEF PublishFails
    <2>3. CASE CheckEndpoint(p)
      BY <2>3 DEF CheckEndpoint
    <2>4. CASE UnlinkEndpoint(p)
      BY <2>4 DEF UnlinkEndpoint
    <2>5. CASE UnlinkRecord(p)
      BY <2>5 DEF UnlinkRecord
    <2>6. CASE RemoveDir(p)
      BY <2>6 DEF RemoveDir
    <2>7. CASE Stop(p)
      BY <2>7 DEF Stop
    <2>8. CASE Crash(p)
      BY <2>8 DEF Crash
    <2> QED
      BY <1>2, <2>1, <2>2, <2>3, <2>4, <2>5, <2>6, <2>7, <2>8 DEF Serve
  <1>3. ASSUME NEW s \in Sessions,
               StartMissing(s) \/ ReadEndpoint(s) \/ Connect(s) \/ SweepEndpoint(s)
        PROVE  FilesAgree'
    <2>1. CASE StartMissing(s)
      BY <2>1 DEF StartMissing, Launch
    <2>2. CASE ReadEndpoint(s)
      BY <2>2 DEF ReadEndpoint
    <2>3. CASE Connect(s)
      BY <2>3 DEF Connect
    <2>4. CASE SweepEndpoint(s)
      BY <2>4 DEF SweepEndpoint, Launch
    <2> QED
      BY <1>3, <2>1, <2>2, <2>3, <2>4
  <1>4. CASE UNCHANGED vars
    BY <1>4 DEF vars
  <1> QED
    BY <1>1, <1>2, <1>3, <1>4 DEF Next

\* A process that is over stays over, so a judgement stays true.
LEMMA ReapersStep == IInv /\ [Next]_vars => ReapersAreRight'
  <1> SUFFICES ASSUME IInv, [Next]_vars PROVE ReapersAreRight'
    OBVIOUS
  <1> USE LockAssumption DEF IInv, TypeOK, FilesAgree, ReapersAreRight, Alive, Over,
                         Owning, Goto, files
  <1>1. ASSUME NEW p \in Procs, Acquire(p) PROVE ReapersAreRight'
    <2>1. CASE Mkdir(p)
      BY <2>1 DEF Mkdir
    <2>2. CASE WriteRecord(p)
      BY <2>2 DEF WriteRecord
    <2>3. CASE WriteRaises(p)
      BY <2>3 DEF WriteRaises
    <2>4. CASE UndoDir(p)
      BY <2>4 DEF UndoDir
    <2>5. CASE ReadRecord(p)
      BY <2>5 DEF ReadRecord
    <2>6. CASE Judge(p)
      BY <2>6 DEF Judge
    <2>7. CASE ReapRecord(p)
      BY <2>7 DEF ReapRecord
    <2>8. CASE ReapDir(p)
      BY <2>8 DEF ReapDir
    <2> QED
      BY <1>1, <2>1, <2>2, <2>3, <2>4, <2>5, <2>6, <2>7, <2>8 DEF Acquire
  <1>2. ASSUME NEW p \in Procs, Serve(p) \/ Stop(p) \/ Crash(p) PROVE ReapersAreRight'
    <2>1. CASE Publish(p)
      BY <2>1 DEF Publish
    <2>2. CASE PublishFails(p)
      BY <2>2 DEF PublishFails
    <2>3. CASE CheckEndpoint(p)
      BY <2>3 DEF CheckEndpoint
    <2>4. CASE UnlinkEndpoint(p)
      BY <2>4 DEF UnlinkEndpoint
    <2>5. CASE UnlinkRecord(p)
      BY <2>5 DEF UnlinkRecord
    <2>6. CASE RemoveDir(p)
      BY <2>6 DEF RemoveDir
    <2>7. CASE Stop(p)
      BY <2>7 DEF Stop
    <2>8. CASE Crash(p)
      BY <2>8 DEF Crash
    <2> QED
      BY <1>2, <2>1, <2>2, <2>3, <2>4, <2>5, <2>6, <2>7, <2>8 DEF Serve
  <1>3. ASSUME NEW s \in Sessions,
               StartMissing(s) \/ ReadEndpoint(s) \/ Connect(s) \/ SweepEndpoint(s)
        PROVE  ReapersAreRight'
    <2>1. CASE StartMissing(s)
      BY <2>1 DEF StartMissing, Launch
    <2>2. CASE ReadEndpoint(s)
      BY <2>2 DEF ReadEndpoint
    <2>3. CASE Connect(s)
      BY <2>3 DEF Connect
    <2>4. CASE SweepEndpoint(s)
      BY <2>4 DEF SweepEndpoint, Launch
    <2> QED
      BY <1>3, <2>1, <2>2, <2>3, <2>4
  <1>4. CASE UNCHANGED vars
    BY <1>4 DEF vars
  <1> QED
    BY <1>1, <1>2, <1>3, <1>4 DEF Next

\* A step that takes a directory from a process other than its maker sets
\* wrongReap; any other leaves every owner its own.
LEMMA OwnersStep == IInv /\ [Next]_vars => (~wrongReap => OwnersFit)'
  <1> SUFFICES ASSUME IInv, [Next]_vars PROVE (~wrongReap => OwnersFit)'
    OBVIOUS
  <1> USE LockAssumption DEF IInv, TypeOK, FilesAgree, ReapersAreRight, OwnersFit,
                         Unrecorded, Owner, Over, Owning, Goto, files
  <1>1. ASSUME NEW p \in Procs, Acquire(p) PROVE (~wrongReap => OwnersFit)'
    <2>1. CASE Mkdir(p)
      BY <2>1 DEF Mkdir
    <2>2. CASE WriteRecord(p)
      BY <2>2 DEF WriteRecord
    <2>3. CASE WriteRaises(p)
      BY <2>3 DEF WriteRaises
    <2>4. CASE UndoDir(p)
      BY <2>4 DEF UndoDir
    <2>5. CASE ReadRecord(p)
      BY <2>5 DEF ReadRecord
    <2>6. CASE Judge(p)
      BY <2>6 DEF Judge
    <2>7. CASE ReapRecord(p)
      BY <2>7 DEF ReapRecord
    <2>8. CASE ReapDir(p)
      BY <2>8 DEF ReapDir
    <2> QED
      BY <1>1, <2>1, <2>2, <2>3, <2>4, <2>5, <2>6, <2>7, <2>8 DEF Acquire
  <1>2. ASSUME NEW p \in Procs, Serve(p) \/ Stop(p) \/ Crash(p)
        PROVE  (~wrongReap => OwnersFit)'
    <2>1. CASE Publish(p)
      BY <2>1 DEF Publish
    <2>2. CASE PublishFails(p)
      BY <2>2 DEF PublishFails
    <2>3. CASE CheckEndpoint(p)
      BY <2>3 DEF CheckEndpoint
    <2>4. CASE UnlinkEndpoint(p)
      BY <2>4 DEF UnlinkEndpoint
    <2>5. CASE UnlinkRecord(p)
      BY <2>5 DEF UnlinkRecord
    <2>6. CASE RemoveDir(p)
      BY <2>6 DEF RemoveDir
    <2>7. CASE Stop(p)
      BY <2>7 DEF Stop
    <2>8. CASE Crash(p)
      BY <2>8 DEF Crash
    <2> QED
      BY <1>2, <2>1, <2>2, <2>3, <2>4, <2>5, <2>6, <2>7, <2>8 DEF Serve
  <1>3. ASSUME NEW s \in Sessions,
               StartMissing(s) \/ ReadEndpoint(s) \/ Connect(s) \/ SweepEndpoint(s)
        PROVE  (~wrongReap => OwnersFit)'
    <2>1. CASE StartMissing(s)
      BY <2>1 DEF StartMissing, Launch
    <2>2. CASE ReadEndpoint(s)
      BY <2>2 DEF ReadEndpoint
    <2>3. CASE Connect(s)
      BY <2>3 DEF Connect
    <2>4. CASE SweepEndpoint(s)
      BY <2>4 DEF SweepEndpoint, Launch
    <2> QED
      BY <1>3, <2>1, <2>2, <2>3, <2>4
  <1>4. CASE UNCHANGED vars
    BY <1>4 DEF vars
  <1> QED
    BY <1>1, <1>2, <1>3, <1>4 DEF Next

\* IInv is inductive: no race, crash or release of the starters breaks it.
THEOREM Invariance == Spec => []IInv
  <1>1. IInv /\ [Next]_vars => IInv'
    BY TypeStep, FilesStep, ReapersStep, OwnersStep DEF IInv
  <1> QED
    BY InitInv, <1>1, PTL DEF Spec

\* Until a reap takes a lock it had not judged, a running broker's lock stays
\* its own, whatever the others race, crash or release (acquire_lock).
THEOREM OwnerHolds == Spec => []OwnerKeepsLock
  <1>1. IInv => OwnerKeepsLock
    BY LockAssumption DEF IInv, FilesAgree, OwnersFit, OwnerKeepsLock
  <1> QED
    BY <1>1, Invariance, PTL

\* And so two brokers never own the root without such a reap.
THEOREM Exclusion == Spec => []TwoOwnersOnlyByWrongReap
  <1>1. OwnerKeepsLock => TwoOwnersOnlyByWrongReap
    BY DEF OwnerKeepsLock, TwoOwnersOnlyByWrongReap
  <1> QED
    BY <1>1, OwnerHolds, PTL
=============================================================================
