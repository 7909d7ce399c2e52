---------------------------- MODULE SpawnProofs ----------------------------
(***************************************************************************)
(* Proofs about Spawn, for any number of requests: a keeper that holds can *)
(* be found, what was given up is stopped and the provider keeps nothing   *)
(* of a request that fell back, with the exceptions the properties name.   *)
(***************************************************************************)
EXTENDS Spawn, TLAPS

\* Where the request has not asked the provider to start it yet, and where it
\* has left the provider for the broker's own host.
Unstarted == {"new", "asked", "waiting", "starting"}
Fallback == {"collecting", "specifying", "launching", "proving", "seen", "abandoning",
             "dropping", "self", "failed"}
Unlaunched == Unstarted \cup {"confirming", "sighted", "reclaiming", "collecting",
                              "specifying", "launching"}

\* No keeper before the launch, and no session before the start.
NoneYet(k) ==
    /\ request[k] \in Unlaunched => keeper[k] = "none"
    /\ request[k] \in Unstarted => session[k] \notin Running

\* A keeper that runs on after its abandon was told, or had not been seen.
Told(k) ==
    request[k] \in {"dropping", "failed"} /\ keeper[k] \notin Dead
        => k \in signalled \/ k \in unseen

Findable(k) == keeper[k] = "holding" => k \in state \/ k \in signalled

Reclaimed(k) == session[k] \in Running /\ request[k] \in Fallback => k \in unsure

Sound(k) == NoneYet(k) /\ Told(k) /\ Findable(k) /\ Reclaimed(k)

IInv == TypeOK /\ \A k \in Keys : Sound(k)

LEMMA InitInv == Init => IInv
  BY DEF Init, IInv, TypeOK, Sound, NoneYet, Told, Findable, Reclaimed, Dead, Answered,
     Running, Unlaunched, Unstarted, Fallback

-----------------------------------------------------------------------------
(* Frames                                                                  *)

\* A step that moves one key's request, session or keeper leaves the others
\* sound: it drops no state of a keeper that lives and stops no signal.
LEMMA OthersSound ==
    ASSUME IInv, NEW j \in Keys,
           request'[j] = request[j] \/ request'[j] = "lost",
           session'[j] = session[j],
           keeper'[j] = keeper[j] \/ (keeper[j] \in Zombies /\ keeper'[j] = "gone"),
           keeper[j] = "holding" /\ j \in state => j \in state',
           j \in signalled => j \in signalled',
           j \in unseen => j \in unseen', j \in unsure => j \in unsure'
    PROVE  Sound(j)'
  BY DEF IInv, Sound, NoneYet, Told, Findable, Reclaimed, Dead, Zombies, Unlaunched,
     Unstarted, Fallback

LEMMA ReapedType == TypeOK => Reaped \in [Keys -> {"starting", "loaded", "cleared",
                                         "started", "holding"} \cup Dead]
  BY DEF TypeOK, Reaped, Dead, Zombies

-----------------------------------------------------------------------------
(* The request's thread                                                    *)

LEMMA AskInv == ASSUME IInv, NEW k \in Keys, Ask(k) PROVE IInv'
  <1> USE DEF host, files, history
  <1>1. TypeOK'
    BY DEF IInv, Ask, Move, TypeOK, Answered
  <1>2. Sound(k)'
    BY DEF IInv, Ask, Move, TypeOK, Sound, NoneYet, Told, Findable, Reclaimed, Unlaunched,
       Unstarted, Fallback
  <1>3. \A j \in Keys \ {k} : Sound(j)'
    BY OthersSound DEF IInv, Ask, Move, TypeOK
  <1> QED
    BY <1>1, <1>2, <1>3 DEF IInv

LEMMA ProviderInv ==
    ASSUME IInv, NEW k \in Keys,
           Resolve(k) \/ Start(k) \/ Confirm(k) \/ ConfirmRaises(k) \/ Reclaim(k)
    PROVE  IInv'
  <1> USE DEF host, files, history
  <1>0. TypeOK
    BY DEF IInv
  <1>1. TypeOK'
    <2>1. CASE Resolve(k)
      BY <1>0, <2>1 DEF Resolve, Move, TypeOK
    <2>2. CASE Start(k)
      BY <1>0, <2>2 DEF Start, Move, TypeOK, Running
    <2>3. CASE Confirm(k)
      BY <1>0, <2>3 DEF Confirm, Move, TypeOK, Answered
    <2>4. CASE ConfirmRaises(k)
      BY <1>0, <2>4 DEF ConfirmRaises, Move, TypeOK
    <2>5. CASE Reclaim(k)
      BY <1>0, <2>5 DEF Reclaim, Move, TypeOK
    <2> QED
      BY <2>1, <2>2, <2>3, <2>4, <2>5
  <1>2. /\ UNCHANGED <<keeper, signalled, state, unseen>> /\ unsure \subseteq unsure'
        /\ request[k] \in Unlaunched /\ request'[k] \notin {"dropping", "failed"}
        /\ request'[k] \in Unlaunched \cup {"provider"}
        /\ \A j \in Keys \ {k} : request'[j] = request[j] /\ session'[j] = session[j]
    BY <1>0 DEF Resolve, Start, Confirm, ConfirmRaises, Reclaim, Move, TypeOK, Unlaunched,
       Unstarted
  <1>3. request'[k] \in Unstarted => session'[k] \notin Running
    BY <1>0 DEF Resolve, Start, Confirm, ConfirmRaises, Reclaim, Move, TypeOK, Unstarted,
       Running, IInv, Sound, NoneYet
  <1>4. Reclaimed(k)'
    BY <1>0 DEF Resolve, Start, Confirm, ConfirmRaises, Reclaim, Move, TypeOK, Unstarted,
       Fallback, Running, IInv, Sound, NoneYet, Reclaimed
  <1>5. Sound(k)'
    BY <1>2, <1>3, <1>4 DEF IInv, Sound, NoneYet, Told, Findable, Unlaunched
  <1>6. \A j \in Keys \ {k} : Sound(j)'
    BY <1>2, OthersSound
  <1> QED
    BY <1>1, <1>5, <1>6 DEF IInv

LEMMA LaunchInv ==
    ASSUME IInv, NEW k \in Keys, Collect(k) \/ WriteSpec(k) \/ Launch(k)
    PROVE  IInv'
  <1> USE DEF host, files, history
  <1>0. TypeOK /\ Sound(k)
    BY DEF IInv
  <1>1. TypeOK'
    <2>1. CASE Collect(k)
      BY <1>0, <2>1 DEF Collect, Move, TypeOK
    <2>2. CASE WriteSpec(k)
      BY <1>0, <2>2 DEF WriteSpec, Move, TypeOK, Answered
    <2>3. CASE Launch(k)
      <3>1. keeper' \in [Keys -> {"starting", "loaded", "cleared", "started", "holding"}
                                 \cup Dead]
        BY <1>0, <2>3, ReapedType DEF Launch
      <3> QED
        BY <1>0, <2>3, <3>1 DEF Launch, Move, TypeOK, Answered
    <2> QED
      BY <2>1, <2>2, <2>3
  <1>2. /\ UNCHANGED <<session, signalled, unseen, unsure>>
        /\ request[k] \in {"collecting", "specifying", "launching"}
        /\ request'[k] \in {"specifying", "launching", "proving", "failed"}
        /\ \A j \in Keys \ {k} : request'[j] = request[j]
    BY <1>0 DEF Collect, WriteSpec, Launch, Move, TypeOK
  <1>3. keeper[k] = "none"
    BY <1>0, <1>2 DEF Sound, NoneYet, Unlaunched
  <1>4. /\ keeper'[k] = "none" \/ (keeper'[k] = "starting" /\ request'[k] = "proving")
        /\ \A j \in Keys \ {k} :
              keeper'[j] = keeper[j] \/ (keeper[j] \in Zombies /\ keeper'[j] = "gone")
    BY <1>0, <1>3 DEF Collect, WriteSpec, Launch, Move, TypeOK, Reaped, Zombies
  <1>5. \A j \in Keys : keeper[j] = "holding" /\ j \in state => j \in state'
    BY <1>0 DEF Collect, WriteSpec, Launch, Alive
  <1>6. Sound(k)'
    BY <1>0, <1>2, <1>4 DEF Sound, NoneYet, Told, Findable, Reclaimed, Unlaunched,
       Unstarted, Fallback, Dead
  <1>7. \A j \in Keys \ {k} : Sound(j)'
    BY <1>2, <1>4, <1>5, OthersSound
  <1> QED
    BY <1>1, <1>6, <1>7 DEF IInv

LEMMA ProveInv ==
    ASSUME IInv, NEW k \in Keys, Prove(k) \/ Abandon(k) \/ DropSpec(k)
    PROVE  IInv'
  <1> USE DEF host, files, history
  <1>0. TypeOK /\ Sound(k)
    BY DEF IInv
  <1>1. TypeOK'
    <2>1. CASE Prove(k)
      BY <1>0, <2>1 DEF Prove, Move, TypeOK, Answered
    <2>2. CASE Abandon(k)
      BY <1>0, <2>2 DEF Abandon, Move, TypeOK
    <2>3. CASE DropSpec(k)
      BY <1>0, <2>3 DEF DropSpec, Move, TypeOK, Answered
    <2> QED
      BY <2>1, <2>2, <2>3
  <1>2. /\ UNCHANGED <<session, keeper, unsure>>
        /\ signalled \subseteq signalled' /\ unseen \subseteq unseen'
        /\ request[k] \in {"proving", "seen", "abandoning", "dropping"}
        /\ request'[k] \in {"proving", "seen", "self", "abandoning", "dropping", "failed"}
        /\ \A j \in Keys \ {k} : request'[j] = request[j] /\ (j \in state => j \in state')
    BY <1>0 DEF Prove, Abandon, DropSpec, Move, TypeOK, Alive
  <1>3. Findable(k)'
    BY <1>0 DEF Prove, Abandon, DropSpec, Sound, Findable, Alive, Dead, Zombies
  <1>4. Told(k)'
    BY <1>0 DEF Prove, Abandon, DropSpec, Move, Sound, Told, TypeOK
  <1>5. Sound(k)'
    BY <1>0, <1>2, <1>3, <1>4 DEF Sound, NoneYet, Reclaimed, Unlaunched, Unstarted, Fallback
  <1>6. \A j \in Keys \ {k} : Sound(j)'
    BY <1>2, OthersSound
  <1> QED
    BY <1>1, <1>5, <1>6 DEF IInv

-----------------------------------------------------------------------------
(* The keeper and the world                                                *)

\* A keeper that moves on stays one that was told, or dies.
LEMMA KeeperInv ==
    ASSUME IInv, NEW k \in Keys, Keeper(k) \/ KeeperDies(k)
    PROVE  IInv'
  <1> USE DEF host, files, history
  <1>0. TypeOK /\ Sound(k)
    BY DEF IInv
  <1>1. TypeOK'
    <2>1. CASE Load(k)
      BY <1>0, <2>1 DEF Load, KeeperMoves, TypeOK, Dead, Zombies
    <2>2. CASE Consume(k)
      BY <1>0, <2>2 DEF Consume, KeeperMoves, TypeOK
    <2>3. CASE StartChild(k)
      BY <1>0, <2>3 DEF StartChild, KeeperMoves, TypeOK, Dead, Zombies
    <2>4. CASE Publish(k)
      BY <1>0, <2>4 DEF Publish, KeeperMoves, TypeOK, Dead, Zombies
    <2>5. CASE Leave(k)
      BY <1>0, <2>5 DEF Leave, KeeperMoves, TypeOK, Dead, Zombies
    <2>6. CASE OnSignal(k)
      BY <1>0, <2>6 DEF OnSignal, TypeOK, Dead, Zombies
    <2>7. CASE KeeperDies(k)
      BY <1>0, <2>7 DEF KeeperDies, TypeOK, Dead, Zombies
    <2> QED
      BY <2>1, <2>2, <2>3, <2>4, <2>5, <2>6, <2>7 DEF Keeper
  <1>2. /\ UNCHANGED <<request, session, unsure, unseen>> /\ keeper[k] # "none"
        /\ \A j \in Keys \ {k} : /\ keeper'[j] = keeper[j]
                                 /\ j \in state => j \in state'
                                 /\ j \in signalled => j \in signalled'
    BY <1>0 DEF Keeper, Load, Consume, StartChild, Publish, Leave, OnSignal, KeeperDies,
       KeeperMoves, TypeOK, Dead
  <1>3. \/ keeper'[k] \in Dead
        \/ /\ keeper[k] \notin Dead /\ keeper'[k] # "none" /\ UNCHANGED signalled
           /\ keeper'[k] = "holding" => k \in state'
    BY <1>0 DEF Keeper, Load, Consume, StartChild, Publish, Leave, OnSignal, KeeperDies,
       KeeperMoves, TypeOK, Dead, Zombies
  <1>4. Sound(k)'
    <2>1. request[k] \notin Unlaunched
      BY <1>0, <1>2 DEF Sound, NoneYet
    <2> QED
      BY <1>0, <1>2, <1>3, <2>1 DEF Sound, NoneYet, Told, Findable, Reclaimed, Dead, Zombies
  <1>5. \A j \in Keys \ {k} : Sound(j)'
    BY <1>2, OthersSound
  <1> QED
    BY <1>1, <1>4, <1>5 DEF IInv

LEMMA SessionMovesInv == ASSUME IInv, NEW k \in Keys, SessionMoves(k) PROVE IInv'
  <1> USE DEF host, files, history
  <1>1. TypeOK'
    BY DEF IInv, SessionMoves, TypeOK, Running
  <1>2. Sound(k)'
    BY DEF IInv, SessionMoves, TypeOK, Sound, NoneYet, Told, Findable, Reclaimed, Running
  <1>3. \A j \in Keys \ {k} : Sound(j)'
    BY OthersSound DEF IInv, SessionMoves, TypeOK
  <1> QED
    BY <1>1, <1>2, <1>3 DEF IInv

LEMMA AsideInv ==
    ASSUME IInv, TypeOK',
           UNCHANGED <<request, session, keeper, signalled, state, unseen, unsure>>
    PROVE  IInv'
  BY OthersSound DEF IInv

LEMMA BrokerDiesInv == IInv /\ BrokerDies => IInv'
  <1> SUFFICES ASSUME IInv, BrokerDies PROVE IInv'
    OBVIOUS
  <1> USE DEF host, files, history
  <1>0. TypeOK
    BY DEF IInv
  <1>1. TypeOK'
    BY <1>0, ReapedType DEF BrokerDies, TypeOK, Answered
  <1>2. \A j \in Keys : Sound(j)'
    BY <1>0, OthersSound DEF BrokerDies, Reaped
  <1> QED
    BY <1>1, <1>2 DEF IInv

LEMMA NextInv == IInv /\ [Next]_vars => IInv'
  <1> SUFFICES ASSUME IInv, [Next]_vars PROVE IInv'
    OBVIOUS
  <1> USE DEF host, files, history
  <1>0. TypeOK
    BY DEF IInv
  <1>1. ASSUME NEW k \in Keys, Ask(k) PROVE IInv'
    BY <1>1, AskInv
  <1>2. ASSUME NEW k \in Keys, Thread(k) PROVE IInv'
    BY <1>2, ProviderInv, LaunchInv, ProveInv DEF Thread
  <1>3. ASSUME NEW k \in Keys, Keeper(k) PROVE IInv'
    BY <1>3, KeeperInv
  <1>4. ASSUME NEW k \in Keys, World(k) PROVE IInv'
    <2>1. CASE SessionMoves(k)
      BY <2>1, SessionMovesInv
    <2>2. CASE ChildEnds(k)
      <3>1. TypeOK'
        BY <1>0, <2>2 DEF ChildEnds, TypeOK
      <3> QED
        BY <2>2, <3>1, AsideInv DEF ChildEnds
    <2>3. CASE KeeperDies(k)
      BY <2>3, KeeperInv
    <2>4. CASE SpecAges(k)
      <3>1. TypeOK'
        BY <1>0, <2>4 DEF SpecAges, TypeOK
      <3> QED
        BY <2>4, <3>1, AsideInv DEF SpecAges
    <2> QED
      BY <1>4, <2>1, <2>2, <2>3, <2>4 DEF World
  <1>5. CASE ProviderChanges
    <2>1. TypeOK'
      BY <1>0, <1>5 DEF ProviderChanges, TypeOK
    <2> QED
      BY <1>5, <2>1, AsideInv DEF ProviderChanges
  <1>6. CASE BrokerDies
    BY <1>6, BrokerDiesInv
  <1>7. CASE UNCHANGED vars
    <2>1. TypeOK'
      BY <1>0, <1>7 DEF vars, TypeOK
    <2> QED
      BY <1>7, <2>1, AsideInv DEF vars
  <1> QED
    BY <1>1, <1>2, <1>3, <1>4, <1>5, <1>6, <1>7 DEF Next

-----------------------------------------------------------------------------
(* Theorems                                                                *)

\* The inductive invariant holds in every reachable state.
THEOREM Invariance == Spec => []IInv
  BY InitInv, NextInv, PTL DEF Spec

\* Requests, keepers and files are what they are meant to be.
THEOREM Typing == Spec => []TypeOK
  <1>1. IInv => TypeOK
    BY DEF IInv
  <1> QED
    BY <1>1, Invariance, PTL

\* No collection and no probe of any request hides a keeper that holds.
THEOREM HeldFound == Spec => []HeldIsFindable
  <1>1. IInv => HeldIsFindable
    BY DEF IInv, Sound, Findable, HeldIsFindable
  <1> QED
    BY <1>1, Invariance, PTL

\* Of a spawn that failed no teammate is left whose keeper was seen and not told.
THEOREM GivenUpStopped == Spec => []GivenUpIsStopped
  <1>1. IInv => GivenUpIsStopped
    BY DEF IInv, Sound, Told, GivenUpIsStopped
  <1> QED
    BY <1>1, Invariance, PTL

\* The provider keeps a session of a request that fell back only if a call raised.
THEOREM FellBackReclaimed == Spec => []FallbackReclaims
  <1>1. IInv => FallbackReclaims
    BY DEF IInv, Sound, Reclaimed, Fallback, FallbackReclaims
  <1> QED
    BY <1>1, Invariance, PTL
=============================================================================
