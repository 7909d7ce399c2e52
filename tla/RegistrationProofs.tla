------------------------- MODULE RegistrationProofs -------------------------
(***************************************************************************)
(* Proofs about the broker's registry, for every set of agents,            *)
(* connections and callers: Registration, and IdleReap, the idle policy    *)
(* over its entries.  IInv is the inductive invariant of the registry: the *)
(* invariants the run of Registration checks, made inductive by MapsAgree, *)
(* HolderFits, WorkList.  IdleInv is that of the policy: one request per   *)
(* episode unless a wait or a provider came between, and no stale mark.    *)
(***************************************************************************)
EXTENDS Registration, IdleReap, TLAPS

LEMMA InitTyped == Init => TypeOK
  <1> SUFFICES ASSUME Init PROVE TypeOK
    OBVIOUS
  <1> USE IdentityAssumption DEF Init
  <1>1. caller \in [Callers -> CallerState]
    BY DEF IdleCaller, CallerState
  <1>2. sweep \in [at : {"sleep", "files", "dead"},
                   todo : (SUBSET Agents) \cup (SUBSET Conns),
                   took : Conns \cup {NoConn}]
    OBVIOUS
  <1>3. \A w \in Callers : caller[w].at = "idle"
    BY DEF IdleCaller
  <1> QED
    BY <1>1, <1>2, <1>3 DEF TypeOK

LEMMA TypeStep == TypeOK /\ [Next]_vars => TypeOK'
  <1> SUFFICES ASSUME TypeOK, [Next]_vars PROVE TypeOK'
    OBVIOUS
  <1> USE IdentityAssumption DEF TypeOK
  <1>1. ASSUME NEW c \in Conns, ConnStep(c) PROVE TypeOK'
    <2>1. CASE Register(c)
      BY <2>1 DEF Register, YoungWithout, StaleIds
    <2>2. CASE Joined(c)
      BY <2>2 DEF Joined, RemoveBusyFiles
    <2>3. CASE JoinRaises(c)
      BY <2>3 DEF JoinRaises, RemoveBusyFiles
    <2>4. CASE Deregister(c)
      BY <2>4 DEF Deregister, Release, YoungWithout
    <2>5. CASE Left(c)
      BY <2>5 DEF Left, RemoveBusyFiles
    <2>6. CASE EndOfStream(c)
      BY <2>6 DEF EndOfStream, Release, Unreleased, YoungWithout
    <2>7. CASE Dropped(c)
      BY <2>7 DEF Dropped, RemoveBusyFiles
    <2> QED
      BY <1>1, <2>1, <2>2, <2>3, <2>4, <2>5, <2>6, <2>7 DEF ConnStep
  <1>2. ASSUME NEW w \in Callers, CallerStep(w) PROVE TypeOK'
    <2> USE DEF CallerState, IdleCaller
    <2>1. ASSUME NEW c \in Conns, AskReap(w, c) PROVE TypeOK'
      BY <2>1 DEF AskReap
    <2>2. ASSUME NEW c \in Conns, NEW a \in Agents, AskTerminate(w, c, a)
          PROVE  TypeOK'
      BY <2>2 DEF AskTerminate
    <2>3. CASE Terminate(w)
      BY <2>3 DEF Terminate, Taking, Release, Unreleased, YoungWithout
    <2>4. CASE Terminated(w)
      BY <2>4 DEF Terminated, RemoveBusyFiles
    <2>5. CASE GcReap(w)
      BY <2>5 DEF GcReap, Taking, Release, YoungWithout
    <2>6. CASE Reaped(w)
      BY <2>6 DEF Reaped, RemoveBusyFiles
    <2> QED
      BY <1>2, <2>1, <2>2, <2>3, <2>4, <2>5, <2>6 DEF CallerStep
  <1>3. CASE SweepStep
    <2>1. CASE ScanBusyFiles
      BY <2>1 DEF ScanBusyFiles
    <2>2. ASSUME NEW a \in Agents, SweepBusyFile(a) PROVE TypeOK'
      BY <2>2 DEF SweepBusyFile, RemoveBusyFiles
    <2>3. CASE JudgeDeadAgents
      BY <2>3 DEF JudgeDeadAgents
    <2>4. ASSUME NEW c \in Conns, DropDeadAgent(c) PROVE TypeOK'
      BY <2>4 DEF DropDeadAgent, Release, Unreleased, YoungWithout
    <2>5. CASE DroppedDead
      BY <2>5 DEF DroppedDead, RemoveBusyFiles
    <2>6. CASE DropDeadRaises
      BY <2>6 DEF DropDeadRaises, RemoveBusyFiles
    <2>7. CASE SweepDone
      BY <2>7 DEF SweepDone
    <2> QED
      BY <1>3, <2>1, <2>2, <2>3, <2>4, <2>5, <2>6, <2>7 DEF SweepStep
  <1>4. CASE Environment
    BY <1>4 DEF Environment, HoldCloses, PublishState, EntryAges, OwnerDies,
                BusyFileAges
  <1>5. CASE UNCHANGED vars
    BY <1>5 DEF vars
  <1> QED
    BY <1>1, <1>2, <1>3, <1>4, <1>5 DEF Next

\* Every reachable state is well typed.
THEOREM Typing == Spec => []TypeOK
  BY InitTyped, TypeStep, PTL DEF Spec

-----------------------------------------------------------------------------
(* The inductive invariant.  ReleasedForCause needs to know that what the  *)
(* reaper is still to drop is dead; the secrets and sessions need the two  *)
(* maps to agree on the holder.                                            *)

MapsAgree == \A a \in Agents : clients[a] = registry[a]

WorkList ==
    /\ sweep.at = "files" => sweep.todo \subseteq Agents
    /\ sweep.at = "dead" => \A c \in sweep.todo : c \in Conns /\ Dead(c)

Serving(c) == thread[c] \in {"joining", "serving", "raised"}

HolderFits ==
    \A a \in Agents : Registered(a) => IdOf[registry[a]] = a /\ Serving(registry[a])

IInv ==
    /\ TypeOK
    /\ MapsAgree
    /\ HolderFits
    /\ OneRegistrationPerSession
    /\ SecretIsTheHolders
    /\ WorkList

\* What a release of the ids in D does to the parts that speak of registry,
\* clients and gate alone.
LEMMA ReleaseKeeps ==
    ASSUME IInv, NEW D, Release(D)
    PROVE  /\ MapsAgree'
           /\ OneRegistrationPerSession'
           /\ SecretIsTheHolders'
           /\ \A a \in Agents : registry'[a] \in {registry[a], NoConn}
           /\ \A a \in Agents : a \in D => registry'[a] = NoConn
  <1> USE IdentityAssumption DEF IInv, TypeOK, Release
  <1>1. \A a \in Agents : registry'[a] \in {registry[a], NoConn}
    OBVIOUS
  <1>2. MapsAgree'
    BY DEF MapsAgree
  <1>3. OneRegistrationPerSession'
    BY <1>1 DEF OneRegistrationPerSession, Registered
  <1>4. SecretIsTheHolders'
    BY DEF SecretIsTheHolders, Registered
  <1> QED
    BY <1>1, <1>2, <1>3, <1>4

\* A step that leaves the maps and the secrets alone keeps those parts.
LEMMA UnreleasedKeeps ==
    ASSUME IInv, registry' = registry, clients' = clients, gate' = gate
    PROVE  MapsAgree' /\ OneRegistrationPerSession' /\ SecretIsTheHolders'
  BY DEF IInv, MapsAgree, OneRegistrationPerSession, SecretIsTheHolders,
         Registered

\* A register hands the id to its connection and releases the same session's
\* other ids in the one locked step, so no session ends up with two.
LEMMA RegisterKeeps ==
    ASSUME IInv, NEW c \in Conns, Register(c)
    PROVE  /\ MapsAgree'
           /\ HolderFits'
           /\ OneRegistrationPerSession'
           /\ SecretIsTheHolders'
  <1> USE IdentityAssumption DEF IInv, TypeOK
  <1>1. /\ c # NoConn
        /\ registry'[IdOf[c]] = c
        /\ \A a \in Agents \ {IdOf[c]} :
              registry'[a] = IF a \in StaleIds(c) THEN NoConn ELSE registry[a]
    BY DEF Register
  <1>2. MapsAgree'
    BY DEF Register, MapsAgree
  <1>3. HolderFits'
    <2> SUFFICES ASSUME NEW a \in Agents, registry'[a] # NoConn
                 PROVE  IdOf[registry'[a]] = a /\ Serving(registry[a])'
      BY DEF HolderFits, Registered
    <2>1. CASE a = IdOf[c]
      BY <2>1, <1>1 DEF Register, Serving
    <2>2. CASE a # IdOf[c]
      <3>1. registry'[a] = registry[a] /\ registry[a] \in Conns
        BY <2>2, <1>1
      <3>2. IdOf[registry[a]] = a /\ Serving(registry[a])
        BY <3>1 DEF HolderFits, Registered
      <3>3. thread'[registry[a]] = thread[registry[a]]
        BY <2>2, <3>1, <3>2 DEF Register
      <3> QED
        BY <3>1, <3>2, <3>3 DEF Serving
    <2> QED
      BY <2>1, <2>2
  <1>4. OneRegistrationPerSession'
    <2> SUFFICES ASSUME NEW a \in Agents, NEW b \in Agents,
                        registry'[a] # NoConn, registry'[b] # NoConn,
                        SameOwner(registry'[a], registry'[b])
                 PROVE  a = b
      BY DEF OneRegistrationPerSession, Registered, SameOwner
    <2>1. CASE a # IdOf[c] /\ b # IdOf[c]
      BY <2>1, <1>1 DEF OneRegistrationPerSession, Registered
    <2>2. CASE a = IdOf[c] /\ b # IdOf[c]
      BY <2>2, <1>1 DEF StaleIds, SameOwner, Registered
    <2>3. CASE a # IdOf[c] /\ b = IdOf[c]
      BY <2>3, <1>1 DEF StaleIds, SameOwner, Registered
    <2> QED
      BY <2>1, <2>2, <2>3
  <1>5. SecretIsTheHolders'
    BY <1>1 DEF Register, SecretIsTheHolders, Registered, StaleIds
  <1> QED
    BY <1>2, <1>3, <1>4, <1>5

\* HolderFits survives any step that registers nobody and moves no holder's
\* thread out of the places from which it still releases.
LEMMA FitsKeeps ==
    ASSUME IInv,
           \A a \in Agents : registry'[a] \in {registry[a], NoConn},
           \A a \in Agents : registry'[a] # NoConn => Serving(registry[a])'
    PROVE  HolderFits'
  BY DEF IInv, HolderFits, Registered

LEMMA InitInv == Init => IInv
  BY InitTyped, IdentityAssumption
     DEF Init, IInv, MapsAgree, HolderFits, OneRegistrationPerSession,
         SecretIsTheHolders, WorkList, Registered

\* Every step keeps the parts about the registry.
LEMMA RegistryStep ==
    IInv /\ [Next]_vars =>
        MapsAgree' /\ HolderFits' /\ OneRegistrationPerSession' /\ SecretIsTheHolders'
  <1> SUFFICES ASSUME IInv, [Next]_vars
               PROVE  /\ MapsAgree' /\ HolderFits'
                      /\ OneRegistrationPerSession' /\ SecretIsTheHolders'
    OBVIOUS
  <1> USE IdentityAssumption
  <1> DEFINE Same == registry' = registry /\ clients' = clients /\ gate' = gate
             Kept == \A a \in Agents : registry'[a] # NoConn => Serving(registry[a])'
  <1>T. TypeOK /\ TypeOK' /\ HolderFits
    BY TypeStep DEF IInv
  <1>S. ASSUME Same, Kept
        PROVE  /\ MapsAgree' /\ HolderFits'
               /\ OneRegistrationPerSession' /\ SecretIsTheHolders'
    BY <1>S, UnreleasedKeeps, FitsKeeps
  <1>R. ASSUME NEW D, Release(D), Kept
        PROVE  /\ MapsAgree' /\ HolderFits'
               /\ OneRegistrationPerSession' /\ SecretIsTheHolders'
    BY <1>R, ReleaseKeeps, FitsKeeps
  <1>Q. ASSUME Same, thread' = thread PROVE Kept
    BY <1>Q, <1>T DEF HolderFits, Registered, Serving
  <1>V. ASSUME NEW D, Release(D), thread' = thread PROVE Kept
    BY <1>V, <1>T, ReleaseKeeps DEF HolderFits, Registered, Serving
  <1>1. ASSUME NEW c \in Conns, ConnStep(c)
        PROVE  /\ MapsAgree' /\ HolderFits'
               /\ OneRegistrationPerSession' /\ SecretIsTheHolders'
    <2>1. CASE Register(c)
      BY <2>1, RegisterKeeps
    <2>2. CASE Joined(c)
      BY <2>2, <1>T, <1>S DEF Joined, TypeOK, HolderFits, Registered, Serving
    <2>3. CASE JoinRaises(c)
      BY <2>3, <1>T, <1>S DEF JoinRaises, TypeOK, HolderFits, Registered, Serving
    <2>4. CASE Deregister(c)
      <3>1. Release({IdOf[c]})
        BY <2>4 DEF Deregister
      <3>2. Kept
        BY <2>4, <1>T, <3>1, ReleaseKeeps
           DEF Deregister, TypeOK, HolderFits, Registered, Serving
      <3> QED
        BY <3>1, <3>2, <1>R
    <2>5. CASE Left(c)
      BY <2>5, <1>T, <1>S DEF Left, TypeOK, HolderFits, Registered, Serving
    <2>6. CASE EndOfStream(c)
      <3>1. CASE clients[IdOf[c]] = c
        <4>1. Release({IdOf[c]})
          BY <2>6, <3>1 DEF EndOfStream
        <4>2. Kept
          BY <2>6, <3>1, <1>T, <4>1, ReleaseKeeps
             DEF EndOfStream, TypeOK, HolderFits, Registered, Serving
        <4> QED
          BY <4>1, <4>2, <1>R
      <3>2. CASE clients[IdOf[c]] # c
        <4>1. Same
          BY <2>6, <3>2 DEF EndOfStream, Unreleased
        <4>2. Kept
          BY <2>6, <3>2, <1>T, <4>1
             DEF EndOfStream, TypeOK, IInv, MapsAgree, HolderFits, Registered, Serving
        <4> QED
          BY <4>1, <4>2, <1>S
      <3> QED
        BY <3>1, <3>2
    <2>7. CASE Dropped(c)
      BY <2>7, <1>T, <1>S DEF Dropped, TypeOK, HolderFits, Registered, Serving
    <2> QED
      BY <1>1, <2>1, <2>2, <2>3, <2>4, <2>5, <2>6, <2>7 DEF ConnStep
  <1>2. ASSUME NEW w \in Callers, CallerStep(w)
        PROVE  /\ MapsAgree' /\ HolderFits'
               /\ OneRegistrationPerSession' /\ SecretIsTheHolders'
    <2>1. CASE Same /\ thread' = thread
      BY <2>1, <1>S, <1>Q
    <2>2. CASE thread' = thread /\ Release({caller[w].target})
      BY <2>2, <1>R, <1>V
    <2> QED
      BY <1>2, <2>1, <2>2
         DEF CallerStep, AskReap, AskTerminate, Terminate, Terminated, GcReap,
             Reaped, Unreleased
  <1>3. CASE SweepStep
    <2>1. CASE Same /\ thread' = thread
      BY <2>1, <1>S, <1>Q
    <2>2. ASSUME NEW c \in Conns, thread' = thread, Release({IdOf[c]})
          PROVE  /\ MapsAgree' /\ HolderFits'
                 /\ OneRegistrationPerSession' /\ SecretIsTheHolders'
      BY <2>2, <1>R, <1>V
    <2> QED
      BY <1>3, <2>1, <2>2
         DEF SweepStep, ScanBusyFiles, SweepBusyFile, JudgeDeadAgents,
             DropDeadAgent, DroppedDead, DropDeadRaises, SweepDone, Unreleased
  <1>4. CASE Environment
    <2>1. Same /\ thread' = thread
      BY <1>4 DEF Environment, HoldCloses, PublishState, EntryAges, OwnerDies,
                  BusyFileAges
    <2> QED
      BY <2>1, <1>S, <1>Q
  <1>5. CASE UNCHANGED vars
    BY <1>5, <1>S, <1>Q DEF vars
  <1> QED
    BY <1>1, <1>2, <1>3, <1>4, <1>5 DEF Next

\* Processes do not come back, so what was judged dead stays dead.
LEMMA WorkListStep == IInv /\ [Next]_vars => WorkList'
  <1> SUFFICES ASSUME IInv, [Next]_vars PROVE WorkList'
    OBVIOUS
  <1> USE IdentityAssumption DEF IInv, TypeOK, WorkList, Dead
  <1>1. ASSUME sweep' = sweep, alive' \subseteq alive PROVE WorkList'
    BY <1>1
  <1>2. ASSUME NEW c \in Conns, ConnStep(c) PROVE WorkList'
    BY <1>2, <1>1 DEF ConnStep, Register, Joined, JoinRaises, Deregister, Left,
                      EndOfStream, Dropped
  <1>3. ASSUME NEW w \in Callers, CallerStep(w) PROVE WorkList'
    BY <1>3, <1>1 DEF CallerStep, AskReap, AskTerminate, Terminate, Terminated,
                      GcReap, Reaped
  <1>4. CASE SweepStep
    <2>1. CASE ScanBusyFiles
      BY <2>1 DEF ScanBusyFiles
    <2>2. ASSUME NEW a \in Agents, SweepBusyFile(a) PROVE WorkList'
      BY <2>2 DEF SweepBusyFile
    <2>3. CASE JudgeDeadAgents
      BY <2>3 DEF JudgeDeadAgents
    <2>4. ASSUME NEW c \in Conns, DropDeadAgent(c) PROVE WorkList'
      BY <2>4 DEF DropDeadAgent
    <2>5. CASE DroppedDead
      BY <2>5 DEF DroppedDead
    <2>6. CASE DropDeadRaises
      BY <2>6 DEF DropDeadRaises
    <2>7. CASE SweepDone
      BY <2>7 DEF SweepDone
    <2> QED
      BY <1>4, <2>1, <2>2, <2>3, <2>4, <2>5, <2>6, <2>7 DEF SweepStep
  <1>5. CASE Environment
    BY <1>5, <1>1 DEF Environment, HoldCloses, PublishState, EntryAges, OwnerDies,
                      BusyFileAges
  <1>6. CASE UNCHANGED vars
    BY <1>6, <1>1 DEF vars
  <1> QED
    BY <1>2, <1>3, <1>4, <1>5, <1>6 DEF Next

\* IInv is inductive, and so holds in every reachable state.
THEOREM Invariance == Spec => []IInv
  <1>1. IInv /\ [Next]_vars => IInv'
    BY TypeStep, RegistryStep, WorkListStep DEF IInv
  <1> QED
    BY <1>1, InitInv, PTL DEF Spec

-----------------------------------------------------------------------------
(* The properties the runs of Registration check                           *)

\* A registered id has one holder, in every map, whose thread will release it.
THEOREM HolderServed == Spec => []HolderIsServed
  <1>1. IInv => HolderIsServed
    BY DEF IInv, MapsAgree, HolderFits, Serving, HolderIsServed
  <1> QED
    BY <1>1, Invariance, PTL

\* One live session is registered under one id at most.
THEOREM OnePerSession == Spec => []OneRegistrationPerSession
  <1>1. IInv => OneRegistrationPerSession
    BY DEF IInv
  <1> QED
    BY <1>1, Invariance, PTL

\* Only the present holder's secret is in force, and none after a release.
THEOREM SecretFollowsHolder == Spec => []SecretIsTheHolders
  <1>1. IInv => SecretIsTheHolders
    BY DEF IInv
  <1> QED
    BY <1>1, Invariance, PTL

LEMMA CauseStep ==
    ASSUME IInv, [Next]_vars, NEW c \in Conns, Holds(c), registry'[IdOf[c]] # c
    PROVE  \/ OwnStreamOver(c) \/ Superseded(c) \/ Evicted(c)
           \/ AnsweredReap(c) \/ JudgedDead(c)
  <1> USE IdentityAssumption
  <1>T. TypeOK /\ MapsAgree /\ WorkList
    BY DEF IInv
  <1>U. registry' # registry
    BY DEF Holds
  <1>R. ASSUME NEW D, Release(D) PROVE IdOf[c] \in D
    BY <1>R, <1>T DEF Release, TypeOK, Holds
  <1>1. ASSUME NEW d \in Conns, ConnStep(d)
        PROVE  OwnStreamOver(c) \/ Superseded(c)
    <2>1. CASE Register(d)
      <3>1. thread[d] = "connected" /\ thread'[d] = "joining"
        BY <2>1, <1>T DEF Register, TypeOK
      <3>2. IdOf[d] = IdOf[c] \/ SameOwner(c, d)
        BY <2>1, <1>T DEF Register, TypeOK, Holds, StaleIds, SameOwner, Registered
      <3> QED
        BY <3>1, <3>2 DEF Superseded
    <2>2. CASE Deregister(d)
      <3>1. IdOf[c] = IdOf[d]
        BY <2>2, <1>R DEF Deregister
      <3>2. c = d
        BY <2>2, <3>1, <1>T DEF Deregister, MapsAgree, TypeOK, Holds
      <3> QED
        BY <2>2, <3>2, <1>T DEF Deregister, TypeOK, OwnStreamOver
    <2>3. CASE EndOfStream(d)
      <3>1. clients[IdOf[d]] = d /\ Release({IdOf[d]}) /\ thread'[d] = "closing"
        BY <2>3, <1>U, <1>T DEF EndOfStream, Unreleased, TypeOK
      <3>2. IdOf[c] = IdOf[d]
        BY <3>1, <1>R
      <3>3. c = d
        BY <3>1, <3>2, <1>T DEF MapsAgree, TypeOK, Holds
      <3> QED
        BY <2>3, <3>1, <3>3 DEF EndOfStream, OwnStreamOver
    <2> QED
      BY <1>1, <1>U, <2>1, <2>2, <2>3 DEF ConnStep, Joined, JoinRaises, Left, Dropped
  <1>2. ASSUME NEW w \in Callers, CallerStep(w)
        PROVE  Evicted(c) \/ AnsweredReap(c)
    <2>1. CASE Terminate(w)
      <3>1. Release({caller[w].target}) /\ caller'[w] = Taking(w, registry[caller[w].target])
        BY <2>1, <1>U, <1>T DEF Terminate, Unreleased, TypeOK
      <3>2. caller[w].target = IdOf[c] /\ registry[caller[w].target] = c
        BY <3>1, <1>R DEF Holds
      <3>3. RoleOf[c] = "fork"
        BY <2>1, <3>2, <1>U DEF Terminate, Unreleased
      <3> QED
        BY <2>1, <3>1, <3>2, <3>3 DEF Terminate, Taking, Evicted, TakenBy
    <2>2. CASE GcReap(w)
      <3>1. Release({caller[w].target}) /\ caller'[w] = Taking(w, registry[caller[w].target])
        BY <2>2, <1>T DEF GcReap, TypeOK
      <3>2. caller[w].target = IdOf[c] /\ registry[caller[w].target] = c
        BY <3>1, <1>R DEF Holds
      <3> QED
        BY <2>2, <3>1, <3>2 DEF GcReap, Taking, AnsweredReap, TakenBy
    <2> QED
      BY <1>2, <1>U, <2>1, <2>2
         DEF CallerStep, AskReap, AskTerminate, Terminated, Reaped
  <1>3. CASE SweepStep
    <2>1. PICK d \in Conns : DropDeadAgent(d)
      BY <1>3, <1>U DEF SweepStep, ScanBusyFiles, SweepBusyFile, JudgeDeadAgents,
                        DroppedDead, DropDeadRaises, SweepDone
    <2>2. Release({IdOf[d]}) /\ registry[IdOf[d]] = d /\ sweep'.took = d
      BY <2>1, <1>U DEF DropDeadAgent, Unreleased
    <2>3. c = d
      BY <2>2, <1>R DEF Holds
    <2> QED
      BY <2>1, <2>2, <2>3, <1>T DEF DropDeadAgent, WorkList, JudgedDead
  <1>4. CASE Environment
    BY <1>4, <1>U DEF Environment, HoldCloses, PublishState, EntryAges, OwnerDies,
                      BusyFileAges
  <1>5. CASE UNCHANGED vars
    BY <1>5, <1>U DEF vars
  <1> QED
    BY <1>1, <1>2, <1>3, <1>4, <1>5 DEF Next

\* A registration is released only for one of its own causes; a main never
\* goes by a terminate, a successor never by its predecessor's end of stream.
THEOREM ReleaseHasCause == Spec => ReleasedForCause
  <1>1. IInv /\ [Next]_vars =>
          [\A c \in Conns : Holds(c) /\ registry'[IdOf[c]] # c =>
              \/ OwnStreamOver(c) \/ Superseded(c) \/ Evicted(c)
              \/ AnsweredReap(c) \/ JudgedDead(c)]_vars
    BY CauseStep
  <1> QED
    BY <1>1, Invariance, PTL DEF Spec, ReleasedForCause

-----------------------------------------------------------------------------
(* The idle policy (IdleReap)                                                *)

\* An entry that has aged is one the sweep has seen since its episode began and
\* that nobody is about to forget; so is one it is about to ask, unless a new
\* episode began since the snapshot.
Aging ==
    \A a \in Sessions :
        /\ aged[a] => In(a) /\ a \in swept /\ a \notin forgetting
        /\ told[a] # "nothing" => aged[a]
        /\ a \in due \cap swept => aged[a]

Marks ==
    /\ noting # {} => stage = "noting"
    /\ \A a \in Sessions :
          /\ a \in requested \cup noting => a \notin swept \/ told[a] # "nothing"
          /\ told[a] = "asked" => a \in requested \cup noting

IdleInv == IdleTypeOK /\ Aging /\ Marks /\ NotAskedTwice

LEMMA IdleInitInv == IdleInit => IdleInv
  BY DEF IdleInit, IdleInv, IdleTypeOK, Aging, Marks, NotAskedTwice

LEMMA IdleStepInv == IdleInv /\ [IdleNext]_idleVars => IdleInv'
  <1> SUFFICES ASSUME IdleInv, [IdleNext]_idleVars PROVE IdleInv'
    OBVIOUS
  <1> USE DEF IdleInv, IdleTypeOK, Aging, Marks, NotAskedTwice, In, NewEpisode, entries, pass
  <1>1. ASSUME NEW a \in Sessions, Serve(a) PROVE IdleInv'
    <2>1. CASE Registers(a)
      BY <2>1 DEF Registers
    <2>2. CASE Ping(a)
      <3>1. CASE waiting' = [waiting EXCEPT ![a] = FALSE] /\ Work(a)
        BY <3>1 DEF Work
      <3>2. CASE /\ In(a)
                 /\ waiting' = [waiting EXCEPT ![a] = FALSE]
                 /\ UNCHANGED <<link, aged, forgetting, requested, present, pass,
                                swept, told, spoke>>
        BY <3>2
      <3>3. CASE /\ In(a)
                 /\ waiting' = [waiting EXCEPT ![a] = TRUE]
                 /\ told' = [told EXCEPT ![a] = IF @ = "asked" THEN "paused" ELSE @]
                 /\ UNCHANGED <<link, aged, forgetting, requested, present, pass,
                                swept, spoke>>
        BY <3>3
      <3> QED
        BY <2>2, <3>1, <3>2, <3>3 DEF Ping
    <2>3. CASE Contact(a)
      BY <2>3 DEF Contact, Work
    <2>4. CASE SendByClient(a)
      BY <2>4 DEF SendByClient
    <2>5. CASE Leave(a)
      BY <2>5 DEF Leave
    <2>6. CASE Forget(a)
      BY <2>6 DEF Forget
    <2> QED
      BY <1>1, <2>1, <2>2, <2>3, <2>4, <2>5, <2>6 DEF Serve
  <1>2. ASSUME NEW a \in Sessions, Ages(a) \/ ConnectionGoes(a) PROVE IdleInv'
    <2>1. CASE Ages(a)
      BY <2>1 DEF Ages
    <2>2. CASE ConnectionGoes(a)
      BY <2>2 DEF ConnectionGoes
    <2> QED
      BY <1>2, <2>1, <2>2
  <1>3. CASE IdleStep
    <2>1. CASE Probe
      BY <2>1 DEF Probe
    <2>2. CASE Scan
      BY <2>2 DEF Scan, Due
    <2>3. CASE Note
      BY <2>3 DEF Note
    <2>4. CASE PassEnds
      BY <2>4 DEF PassEnds
    <2>5. ASSUME NEW a \in Sessions, Skip(a) PROVE IdleInv'
      BY <2>5 DEF Skip
    <2>6. ASSUME NEW a \in Sessions, Ask(a) PROVE IdleInv'
      BY <2>6 DEF Ask, Asked
    <2>7. ASSUME NEW a \in Sessions, AskFails(a) PROVE IdleInv'
      BY <2>7 DEF AskFails
    <2> QED
      BY <1>3, <2>1, <2>2, <2>3, <2>4, <2>5, <2>6, <2>7 DEF IdleStep
  <1>4. CASE ProviderChanges
    BY <1>4 DEF ProviderChanges
  <1>5. CASE UNCHANGED idleVars
    BY <1>5 DEF idleVars
  <1> QED
    BY <1>1, <1>2, <1>3, <1>4, <1>5 DEF IdleNext

\* IInv is inductive: no order of pings, releases and passes breaks it.
THEOREM IdleInvariance == IdleSpec => []IdleInv
  BY IdleInitInv, IdleStepInv, PTL DEF IdleSpec

\* Type correctness for any sessions.
THEOREM IdleTyping == IdleSpec => []IdleTypeOK
  <1>1. IdleInv => IdleTypeOK
    BY DEF IdleInv
  <1> QED
    BY <1>1, IdleInvariance, PTL

\* A session is not asked twice in an episode without a wait or a provider in
\* between (request_idle_reaps, _touch, _release).
THEOREM AskedOnce == IdleSpec => []NotAskedTwice
  <1>1. IdleInv => NotAskedTwice
    BY DEF IdleInv
  <1> QED
    BY <1>1, IdleInvariance, PTL

\* A mark made too late does not outlive the next pass.
THEOREM NoStaleMark == IdleSpec => []MarkMeansAsked
  <1>1. IdleInv => MarkMeansAsked
    BY DEF IdleInv, IdleTypeOK, Marks, MarkMeansAsked
  <1> QED
    BY <1>1, IdleInvariance, PTL
=============================================================================
