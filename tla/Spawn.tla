-------------------------------- MODULE Spawn --------------------------------
(***************************************************************************)
(* Spawning a teammate (src/src/session_spawn.py): the broker's thread     *)
(* asks a session-host provider to start it, and when that raises hosts it *)
(* itself (self_host.py): it writes a spec, launches a detached keeper     *)
(* (session_keeper.py) and waits to see the teammate hosted.  The keeper   *)
(* runs on its own, reads the spec, starts the teammate and publishes a    *)
(* state file that the broker looks for.                                   *)
(*                                                                         *)
(* A key is one request, the id minted for it and the session named for    *)
(* it.  The provider is external: it may fail any call, before or after    *)
(* doing what was asked.  A keeper that exits stays a zombie of the broker *)
(* until the broker's next launch (subprocess reaps then) or its crash.    *)
(***************************************************************************)
EXTENDS FiniteSets

CONSTANT Keys

VARIABLES
    request,    \* where the request's thread is, or how it was answered
    live,       \* a provider's descriptor names a live pid
    session,    \* the provider's session of the key
    keeper,     \* where the key's keeper is
    child,      \* the teammate the keeper started
    spec,       \* keys with a spec file
    old,        \* specs older than SPEC_GRACE
    state,      \* keys with a published keeper state file
    signalled,  \* keepers with a SIGTERM under way
    unsure,     \* history: a provider call raised after the session started
    unseen      \* history: abandoned before the keeper had published

files == <<spec, old, state>>
host == <<keeper, child, signalled>>
history == <<unsure, unseen>>
vars == <<request, live, session, host, files, history>>

Running == {"coming", "up"}    \* sessions the provider has started
Answered == {"provider", "self", "failed", "lost"}
Zombies == {"zombie", "killed"}
Dead == {"none", "gone"} \cup Zombies

Move(k, from, to) == request[k] = from /\ request' = [request EXCEPT ![k] = to]

-----------------------------------------------------------------------------
Init ==
    /\ request = [k \in Keys |-> "new"]
    /\ live = FALSE
    /\ session = [k \in Keys |-> "none"]
    /\ keeper = [k \in Keys |-> "none"] /\ child = [k \in Keys |-> "none"]
    /\ spec = {} /\ old = {} /\ state = {} /\ signalled = {}
    /\ unsure = {} /\ unseen = {}

-----------------------------------------------------------------------------
(* The provider's path                                                     *)

\* A request with its sender's token and a task.
Ask(k) ==
    /\ Move(k, "new", "asked")
    /\ UNCHANGED <<live, session, host, files, history>>

\* resolve: a live provider, or one that comes to life while it waits
\* (activated or not; the broker's own fallback gives none).
Resolve(k) ==
    /\ \/ live /\ (Move(k, "asked", "starting") \/ Move(k, "waiting", "starting"))
       \/ ~live /\ (Move(k, "asked", "waiting") \/ Move(k, "waiting", "collecting"))
    /\ UNCHANGED <<live, session, host, files, history>>

\* start: refused or never received; done and acknowledged; done and the
\* answer lost.
Start(k) ==
    /\ \/ Move(k, "starting", "collecting") /\ UNCHANGED <<session, unsure>>
       \/ /\ Move(k, "starting", "confirming") /\ UNCHANGED unsure
          /\ session' = [session EXCEPT ![k] = "coming"]
       \/ /\ Move(k, "starting", "collecting")
          /\ session' = [session EXCEPT ![k] = "coming"]
          /\ unsure' = unsure \cup {k}
    /\ UNCHANGED <<live, host, files, unseen>>

\* _await over client.state: listed twice is served; the deadline reclaims.
Confirm(k) ==
    /\ IF session[k] = "up"
       THEN Move(k, "confirming", "sighted") \/ Move(k, "sighted", "provider")
       ELSE \/ Move(k, "sighted", "confirming")
            \/ Move(k, "confirming", "reclaiming") \/ Move(k, "sighted", "reclaiming")
    /\ UNCHANGED <<live, session, host, files, history>>

\* A listing that raises leaves _serve_by_provider, past its reclaim.
ConfirmRaises(k) ==
    /\ Move(k, "confirming", "collecting") \/ Move(k, "sighted", "collecting")
    /\ unsure' = unsure \cup {k}
    /\ UNCHANGED <<live, session, host, files, unseen>>

\* Mutant: the session is forgotten without a stop.
ReclaimNothing(k) ==
    /\ Move(k, "reclaiming", "collecting")
    /\ UNCHANGED <<live, session, host, files, history>>

\* client.stop; an error is swallowed.
Reclaim(k) ==
    /\ Move(k, "reclaiming", "collecting")
    /\ \/ session' = [session EXCEPT ![k] = "over"] /\ UNCHANGED unsure
       \/ UNCHANGED session /\ unsure' = unsure \cup {k}
    /\ UNCHANGED <<live, host, files, unseen>>

-----------------------------------------------------------------------------
(* The broker's own host                                                   *)

\* A zombie's pid still answers.
Alive(k) == keeper[k] \notin {"none", "gone"}

\* Mutant: a keeper whose teammate is gone counts as dead.
CollectChildless(k) ==
    /\ Move(k, "collecting", "specifying")
    /\ state' = {j \in state : Alive(j) /\ child[j] = "up"}
    /\ spec' = spec \ old
    /\ old' = {}
    /\ UNCHANGED <<live, session, host, history>>

\* gc: dead keepers' states and old specs, whoever's they are.
Collect(k) ==
    /\ Move(k, "collecting", "specifying")
    /\ state' = {j \in state : Alive(j)}
    /\ spec' = spec \ old
    /\ old' = {}
    /\ UNCHANGED <<live, session, host, history>>

WriteSpec(k) ==
    /\ \/ Move(k, "specifying", "launching") /\ spec' = spec \cup {k}
       \/ Move(k, "specifying", "failed") /\ UNCHANGED spec
    /\ UNCHANGED <<live, session, host, old, state, history>>

Reaped == [j \in Keys |-> IF keeper[j] \in Zombies THEN "gone" ELSE keeper[j]]

Launch(k) ==
    /\ \/ /\ Move(k, "launching", "proving") /\ UNCHANGED spec
          /\ keeper' = [Reaped EXCEPT ![k] = "starting"]
       \/ /\ Move(k, "launching", "failed") /\ spec' = spec \ {k}
          /\ keeper' = Reaped
    /\ UNCHANGED <<live, session, child, signalled, old, state, history>>

\* Mutant: no deadline.
ProveForever(k) ==
    /\ IF k \in state /\ Alive(k) /\ child[k] = "up"
       THEN Move(k, "proving", "seen") \/ Move(k, "seen", "self")
       ELSE Move(k, "seen", "proving")
    /\ UNCHANGED <<live, session, host, files, history>>

\* hosted, whose find drops the state of a dead keeper.
Prove(k) ==
    /\ state' = IF Alive(k) THEN state ELSE state \ {k}
    /\ IF k \in state /\ Alive(k) /\ child[k] = "up"
       THEN Move(k, "proving", "seen") \/ Move(k, "seen", "self")
       ELSE \/ Move(k, "seen", "proving")
            \/ Move(k, "proving", "abandoning") \/ Move(k, "seen", "abandoning")
    /\ UNCHANGED <<live, session, host, spec, old, history>>

\* Mutant: the state is dropped before it is read.
AbandonBlindly(k) ==
    /\ Move(k, "abandoning", "dropping")
    /\ state' = state \ {k}
    /\ unseen' = IF k \in state THEN unseen ELSE unseen \cup {k}
    /\ UNCHANGED <<live, session, host, spec, old, unsure>>

\* abandon: stop reads the state, signals the keeper and drops the state.
\* Without a state there is nobody to signal.
Abandon(k) ==
    /\ Move(k, "abandoning", "dropping")
    /\ state' = state \ {k}
    /\ signalled' = IF k \in state /\ keeper[k] \notin Dead
                    THEN signalled \cup {k} ELSE signalled
    /\ unseen' = IF k \in state THEN unseen ELSE unseen \cup {k}
    /\ UNCHANGED <<live, session, keeper, child, spec, old, unsure>>

\* Then the spec that the keeper may still not have read.
DropSpec(k) ==
    /\ Move(k, "dropping", "failed")
    /\ spec' = spec \ {k}
    /\ UNCHANGED <<live, session, host, old, state, history>>

-----------------------------------------------------------------------------
(* The keeper's process                                                    *)

KeeperMoves(k, from, to) == keeper[k] = from /\ keeper' = [keeper EXCEPT ![k] = to]

Load(k) ==
    /\ KeeperMoves(k, "starting", IF k \in spec THEN "loaded" ELSE "zombie")
    /\ UNCHANGED <<request, live, session, child, signalled, files, history>>

Consume(k) ==
    /\ KeeperMoves(k, "loaded", "cleared")
    /\ spec' = spec \ {k}
    /\ UNCHANGED <<request, live, session, child, signalled, old, state, history>>

\* _launch and the prompt.
StartChild(k) ==
    /\ \/ KeeperMoves(k, "cleared", "started") /\ child' = [child EXCEPT ![k] = "up"]
       \/ KeeperMoves(k, "cleared", "zombie") /\ UNCHANGED child
    /\ UNCHANGED <<request, live, session, signalled, files, history>>

\* A state that cannot be written ends the keeper.
Publish(k) ==
    /\ \/ KeeperMoves(k, "started", "holding") /\ state' = state \cup {k}
       \/ KeeperMoves(k, "started", "zombie") /\ UNCHANGED state
    /\ UNCHANGED <<request, live, session, child, signalled, spec, old, history>>

\* Mutant: the state outlives an orderly end.
LeaveState(k) ==
    /\ child[k] = "down"
    /\ KeeperMoves(k, "holding", "zombie")
    /\ signalled' = signalled \ {k}
    /\ UNCHANGED <<request, live, session, child, files, history>>

\* wait returns: the teammate is gone, and so is the state, then the keeper.
Leave(k) ==
    /\ child[k] = "down"
    /\ KeeperMoves(k, "holding", "zombie")
    /\ state' = state \ {k}
    /\ signalled' = signalled \ {k}
    /\ UNCHANGED <<request, live, session, child, spec, old, history>>

\* _on_signal takes the teammate down with the keeper.
OnSignal(k) ==
    /\ k \in signalled /\ keeper[k] \notin Dead
    /\ keeper' = [keeper EXCEPT ![k] = "zombie"]
    /\ child' = [child EXCEPT ![k] = "down"]
    /\ state' = state \ {k}
    /\ signalled' = signalled \ {k}
    /\ UNCHANGED <<request, live, session, spec, old, history>>

-----------------------------------------------------------------------------
(* The world                                                               *)

ProviderChanges ==
    /\ live' = ~live
    /\ UNCHANGED <<request, session, host, files, history>>

SessionMoves(k) ==
    /\ \/ session[k] = "coming" /\ session' = [session EXCEPT ![k] = "up"]
       \/ session[k] \in Running /\ session' = [session EXCEPT ![k] = "over"]
    /\ UNCHANGED <<request, live, host, files, history>>

\* The teammate exits of its own.
ChildEnds(k) ==
    /\ child[k] = "up"
    /\ child' = [child EXCEPT ![k] = "down"]
    /\ UNCHANGED <<request, live, session, keeper, signalled, files, history>>

\* With its keeper the teammate loses its input and exits.
KeeperDies(k) ==
    /\ keeper[k] \notin Dead
    /\ keeper' = [keeper EXCEPT ![k] = "killed"]
    /\ signalled' = signalled \ {k}
    /\ UNCHANGED <<request, live, session, child, files, history>>

SpecAges(k) ==
    /\ request[k] = "lost" /\ k \in spec \ old
    /\ old' = old \cup {k}
    /\ UNCHANGED <<request, live, session, host, spec, state, history>>

\* The broker dies with the requests it serves; another goes on.
BrokerDies ==
    /\ \E k \in Keys : request[k] \notin {"new"} \cup Answered
    /\ request' = [k \in Keys |-> IF request[k] \in {"new"} \cup Answered
                                  THEN request[k] ELSE "lost"]
    /\ keeper' = Reaped
    /\ UNCHANGED <<live, session, child, signalled, files, history>>

-----------------------------------------------------------------------------
Thread(k) ==
    \/ Resolve(k) \/ Start(k) \/ Confirm(k) \/ ConfirmRaises(k) \/ Reclaim(k)
    \/ Collect(k) \/ WriteSpec(k) \/ Launch(k) \/ Prove(k) \/ Abandon(k) \/ DropSpec(k)

Keeper(k) ==
    \/ Load(k) \/ Consume(k) \/ StartChild(k) \/ Publish(k) \/ Leave(k) \/ OnSignal(k)

World(k) == SessionMoves(k) \/ ChildEnds(k) \/ KeeperDies(k) \/ SpecAges(k)

Next ==
    \/ \E k \in Keys : Ask(k) \/ Thread(k) \/ Keeper(k) \/ World(k)
    \/ ProviderChanges \/ BrokerDies

\* Every call of a thread returns or raises, a keeper's process runs, and a
\* teammate without a keeper exits.
Fairness ==
    \A k \in Keys :
        /\ WF_vars(Thread(k)) /\ WF_vars(Keeper(k))
        /\ WF_vars(keeper[k] \in Dead /\ ChildEnds(k))

Spec == Init /\ [][Next]_vars /\ Fairness

-----------------------------------------------------------------------------
(* Properties                                                              *)

TypeOK ==
    /\ request \in [Keys -> {"new", "asked", "waiting", "starting", "confirming",
                             "sighted", "reclaiming", "collecting", "specifying",
                             "launching", "proving", "seen", "abandoning", "dropping"}
                            \cup Answered]
    /\ live \in BOOLEAN
    /\ session \in [Keys -> {"none", "over"} \cup Running]
    /\ keeper \in [Keys -> {"starting", "loaded", "cleared", "started", "holding"}
                           \cup Dead]
    /\ child \in [Keys -> {"none", "up", "down"}]
    /\ spec \subseteq Keys /\ old \subseteq Keys /\ state \subseteq Keys
    /\ signalled \subseteq Keys /\ unsure \subseteq Keys /\ unseen \subseteq Keys

\* A keeper that holds its teammate can be found and stopped: no other request's
\* gc and no probe takes its state, unless it was stopped itself.
HeldIsFindable ==
    \A k \in Keys : keeper[k] = "holding" => k \in state \/ k \in signalled

\* A teammate that was given up is not left running, but for one the keeper had
\* not published when it was abandoned or one whose keeper was just told.
GivenUpIsStopped ==
    \A k \in Keys :
        request[k] = "failed" /\ child[k] = "up" =>
            k \in signalled \/ k \in unseen \/ keeper[k] \in Dead

\* The provider keeps no session of a request that went on to the own host,
\* but for one whose start, listing or stop raised.
FallbackReclaims ==
    \A k \in Keys :
        session[k] \in Running /\ request[k] \in {"collecting", "specifying",
                    "launching", "proving", "seen", "abandoning", "dropping", "self", "failed"}
            => k \in unsure

\* A spawn is answered, unless the broker dies.
SpawnAnswered == \A k \in Keys : request[k] = "asked" ~> request[k] \in Answered

\* A teammate that exits takes its keeper's state along: unless the keeper was
\* killed, none is left for gc to find.
EndedLeavesNoState ==
    \A k \in Keys :
        child[k] = "down" ~> k \notin state \/ keeper[k] \in {"killed", "gone"}

\* Claimed: a teammate abandoned as unconfirmed is reclaimed ("a keeper that did
\* not prove itself is reclaimed").  One still between its spec and its state is
\* not: the request fails and the teammate runs.
UnprovedIsReclaimed ==
    \A k \in Keys :
        ~(request[k] = "failed" /\ child[k] = "up" /\ keeper[k] = "holding"
          /\ k \notin signalled)

\* Claimed: "a session that started but did not prove itself is reclaimed".  One
\* whose start or listing raised runs on beside the own host's teammate of the
\* same id.
OneSessionPerId ==
    \A k \in Keys : ~(session[k] = "up" /\ child[k] = "up" /\ request[k] = "self")

\* Claimed: "Reclaim keepers that died since the last spawn before adding another
\* entry to the tree."  The zombie of one still answers to its pid.
DeadIsCollected ==
    [][\A k \in Keys : Collect(k) => \A j \in state' : keeper[j] \notin Zombies]_vars
=============================================================================
