---------------------------- MODULE Registration ----------------------------
(***************************************************************************)
(* The registry of one team broker (src/src/team_broker.py): how an agent  *)
(* id comes to be registered and every way its registration is released.   *)
(*                                                                         *)
(* The broker runs one thread per connection, one sweep thread, and one    *)
(* thread per short-lived client that asks for a terminate or a gc-reap.   *)
(* They share the registry under one lock, but a handler does only its map *)
(* step under it: the busy files are unlinked, the mirror written, sockets *)
(* closed and processes signalled after the unlock.  An action below is    *)
(* one locked step, or the unlocked tail that follows it.                  *)
(*                                                                         *)
(* A hold registers its connection once, so the connection that registered *)
(* stands for the entry object the code compares by identity.              *)
(***************************************************************************)
EXTENDS FiniteSets

CONSTANTS
    Agents,     \* agent ids
    Conns,      \* the connections that register an agent (one per hold)
    Callers,    \* threads serving the transient clients of terminate and reap
    Owners,     \* owning process and session file of a registration
    Tokens,     \* send tokens
    Publishers, \* the holds whose session publishes a busy file (a bound)
    NoConn, NoOwner, NoToken,
    IdOf,       \* the id, role, send token and owner a connection registers
    RoleOf,
    TokenOf,
    OwnerOf

Roles == {"main", "fork"}

ASSUME IdentityAssumption ==
    /\ IdOf \in [Conns -> Agents]
    /\ RoleOf \in [Conns -> Roles]
    /\ TokenOf \in [Conns -> Tokens \cup {NoToken}]
    /\ OwnerOf \in [Conns -> Owners \cup {NoOwner}]
    /\ Publishers \subseteq Conns
    /\ NoConn \notin Conns /\ NoToken \notin Tokens /\ NoOwner \notin Owners

VARIABLES
    registry,   \* agent id -> the connection whose entry it holds
    clients,    \* agent id -> the connection messages are written to
    gate,       \* agent id -> the send token in force (SendGate._tokens)
    busy,       \* agent id -> its busy file: absent, just written, past grace
    alive,      \* the owners whose process runs
    closed,     \* connections closed, by the hold or by the broker
    young,      \* registrations within the reaper's liveness_grace
    thread,     \* where the thread serving each connection is
    stale,      \* ids replaced by a register whose busy files are still to go
    caller,     \* what each transient client's thread is doing
    sweep       \* the sweep thread: where it is and what it still has to do

vars == <<registry, clients, gate, busy, alive, closed, young, thread, stale,
          caller, sweep>>

-----------------------------------------------------------------------------
(* Helper state formulae                                                   *)

Registered(a) == registry[a] # NoConn

Holds(c) == registry[IdOf[c]] = c

Dead(c) == OwnerOf[c] # NoOwner /\ OwnerOf[c] \notin alive

SameOwner(c, d) == OwnerOf[c] # NoOwner /\ OwnerOf[c] = OwnerOf[d]

IdleCaller ==
    [at |-> "idle", op |-> "none", target |-> NoConn, token |-> NoToken,
     took |-> NoConn]

\* A caller whose locked step released the registration of c.
Taking(w, c) ==
    [at |-> "tail", op |-> caller[w].op, target |-> caller[w].target,
     token |-> caller[w].token, took |-> c]

\* SendGate.check: an absent token is never a pass.
Passes(a, t) == t # NoToken /\ gate[a] = t

\* Mutant: a session's own registration is told by its send token, so one
\* that presents none leaves its former id registered.
StaleIdsByToken(c) ==
    {a \in Agents \ {IdOf[c]} :
        Registered(a) /\ SameOwner(registry[a], c)
            /\ TokenOf[registry[a]] = TokenOf[c]}

\* _stale_same_owner: the other ids registered by this very session.
StaleIds(c) ==
    {a \in Agents \ {IdOf[c]} : Registered(a) /\ SameOwner(registry[a], c)}

\* The entries young after the registrations of these ids are discarded.
YoungWithout(ids) == young \ {registry[a] : a \in ids}

\* Mutant: the gate is not told of a release.
ReleaseKeepingSecret(ids) ==
    /\ young'    = YoungWithout(ids)
    /\ registry' = [a \in Agents |-> IF a \in ids THEN NoConn ELSE registry[a]]
    /\ clients'  = [a \in Agents |-> IF a \in ids THEN NoConn ELSE clients[a]]
    /\ UNCHANGED gate

\* _release of a set of ids, the locked step every drop goes through.  The
\* drop mark and the reap request it also clears live in other modules.
Release(ids) ==
    /\ young'    = YoungWithout(ids)
    /\ registry' = [a \in Agents |-> IF a \in ids THEN NoConn ELSE registry[a]]
    /\ clients'  = [a \in Agents |-> IF a \in ids THEN NoConn ELSE clients[a]]
    /\ gate'     = [a \in Agents |-> IF a \in ids THEN NoToken ELSE gate[a]]

Unreleased == UNCHANGED <<registry, clients, gate, young>>

RemoveBusyFiles(ids) ==
    busy' = [a \in Agents |-> IF a \in ids THEN "absent" ELSE busy[a]]

-----------------------------------------------------------------------------
Init ==
    /\ registry = [a \in Agents |-> NoConn]
    /\ clients  = [a \in Agents |-> NoConn]
    /\ gate     = [a \in Agents |-> NoToken]
    /\ busy     = [a \in Agents |-> "absent"]
    /\ alive    = Owners
    /\ closed   = {}
    /\ young    = {}
    /\ thread   = [c \in Conns |-> "connected"]
    /\ stale    = [c \in Conns |-> {}]
    /\ caller   = [w \in Callers |-> IdleCaller]
    /\ sweep    = [at |-> "sleep", todo |-> {}, took |-> NoConn]

-----------------------------------------------------------------------------
(* The thread of a connection: register, deregister, end of stream         *)

\* The locked step of _register: the same session's other ids are released,
\* the id's previous registration (if any) is overwritten, the token issued.
Register(c) ==
    /\ thread[c] = "connected"
    /\ LET old == StaleIds(c) IN
        /\ registry' = [a \in Agents |->
              IF a = IdOf[c] THEN c ELSE IF a \in old THEN NoConn ELSE registry[a]]
        /\ clients' = [a \in Agents |->
              IF a = IdOf[c] THEN c ELSE IF a \in old THEN NoConn ELSE clients[a]]
        /\ gate' = [a \in Agents |->
              IF a = IdOf[c] /\ TokenOf[c] # NoToken THEN TokenOf[c]
              ELSE IF a \in old THEN NoToken ELSE gate[a]]
        /\ stale' = [stale EXCEPT ![c] = old]
    /\ young' = YoungWithout(StaleIds(c) \cup {IdOf[c]}) \cup {c}
    /\ thread' = [thread EXCEPT ![c] = "joining"]
    /\ UNCHANGED <<busy, alive, closed, caller, sweep>>

\* The rest of _register: the replaced ids lose their busy files, the mirror
\* is written, the client is acked and the thread goes on to serve it.
Joined(c) ==
    /\ thread[c] = "joining"
    /\ RemoveBusyFiles(stale[c])
    /\ stale' = [stale EXCEPT ![c] = {}]
    /\ thread' = [thread EXCEPT ![c] = "serving"]
    /\ UNCHANGED <<registry, clients, gate, alive, closed, young, caller, sweep>>

\* The rest of _register when write_atomic raises (a full or read-only state
\* dir): _serve closes the connection, and since _register returned no id its
\* _drop_conn releases nothing.
JoinRaises(c) ==
    /\ thread[c] = "joining"
    /\ RemoveBusyFiles(stale[c])
    /\ stale' = [stale EXCEPT ![c] = {}]
    /\ closed' = closed \cup {c}
    /\ thread' = [thread EXCEPT ![c] = "raised"]
    /\ UNCHANGED <<registry, clients, gate, alive, young, caller, sweep>>

\* deregister: _drop_entry releases only while this connection holds the id.
Deregister(c) ==
    /\ thread[c] = "serving"
    /\ clients[IdOf[c]] = c
    /\ Release({IdOf[c]})
    /\ thread' = [thread EXCEPT ![c] = "leaving"]
    /\ UNCHANGED <<busy, alive, closed, stale, caller, sweep>>

\* The tail of deregister: the busy file goes, the client is acked, and the
\* thread serves the connection until it closes.
Left(c) ==
    /\ thread[c] = "leaving"
    /\ RemoveBusyFiles({IdOf[c]})
    /\ thread' = [thread EXCEPT ![c] = "serving"]
    /\ UNCHANGED <<registry, clients, gate, alive, closed, young, stale, caller, sweep>>

\* Mutant: _drop_conn without expected_conn, releasing whoever has the id.
EndOfStreamOfAnyHolder(c) ==
    /\ c \in closed
    /\ thread[c] = "serving"
    /\ Release({IdOf[c]})
    /\ thread' = [thread EXCEPT ![c] = "closing"]
    /\ UNCHANGED <<busy, alive, closed, stale, caller, sweep>>

\* Mutant: _serve returns without its _drop_conn.
EndOfStreamWithoutDrop(c) ==
    /\ c \in closed
    /\ thread[c] = "serving"
    /\ Unreleased
    /\ thread' = [thread EXCEPT ![c] = "ended"]
    /\ UNCHANGED <<busy, alive, closed, stale, caller, sweep>>

\* The stream ended: _serve's finally releases the id if this connection still
\* holds it.
EndOfStream(c) ==
    /\ c \in closed
    /\ thread[c] = "serving"
    /\ IF clients[IdOf[c]] = c
         THEN /\ Release({IdOf[c]})
              /\ thread' = [thread EXCEPT ![c] = "closing"]
         ELSE /\ Unreleased
              /\ thread' = [thread EXCEPT ![c] = "ended"]
    /\ UNCHANGED <<busy, alive, closed, stale, caller, sweep>>

\* The tail of _drop_conn, after the unlock.
Dropped(c) ==
    /\ thread[c] = "closing"
    /\ RemoveBusyFiles({IdOf[c]})
    /\ thread' = [thread EXCEPT ![c] = "ended"]
    /\ UNCHANGED <<registry, clients, gate, alive, closed, young, stale, caller, sweep>>

-----------------------------------------------------------------------------
(* A transient client: terminate and gc-reap                               *)

\* The gate is asked without the broker's lock.  The client presents the id
\* and token of some hold, current or not; a refused op changes nothing.
AskTerminate(w, c, a) ==
    /\ caller[w].at = "idle"
    /\ Passes(IdOf[c], TokenOf[c])
    /\ caller' = [caller EXCEPT ![w] =
          [at |-> "passed", op |-> "terminate", target |-> a,
           token |-> NoToken, took |-> NoConn]]
    /\ UNCHANGED <<registry, clients, gate, busy, alive, closed, young, thread,
                   stale, sweep>>

AskReap(w, c) ==
    /\ caller[w].at = "idle"
    /\ Passes(IdOf[c], TokenOf[c])
    /\ caller' = [caller EXCEPT ![w] =
          [at |-> "passed", op |-> "gc-reap", target |-> IdOf[c],
           token |-> TokenOf[c], took |-> NoConn]]
    /\ UNCHANGED <<registry, clients, gate, busy, alive, closed, young, thread,
                   stale, sweep>>

\* The locked step of _terminate: the role checked is the role released, and
\* a registration that is not a fork's refuses the request.
Terminate(w) ==
    LET a == caller[w].target
        c == registry[a] IN
    /\ caller[w].at = "passed" /\ caller[w].op = "terminate"
    /\ IF c = NoConn \/ RoleOf[c] = "fork"
         THEN /\ Release({a})
              /\ caller' = [caller EXCEPT ![w] = Taking(w, c)]
         ELSE /\ Unreleased
              /\ caller' = [caller EXCEPT ![w] = IdleCaller]
    /\ UNCHANGED <<busy, alive, closed, thread, stale, sweep>>

\* The tail of _terminate: notice and close, unlink the busy file, SIGTERM
\* the owner.  An id that was absent leaves nothing to do.
Terminated(w) ==
    LET c == caller[w].took IN
    /\ caller[w].at = "tail" /\ caller[w].op = "terminate"
    /\ closed' = closed \cup ({c} \ {NoConn})
    /\ RemoveBusyFiles(IF c = NoConn THEN {} ELSE {IdOf[c]})
    /\ alive' = IF c = NoConn THEN alive ELSE alive \ {OwnerOf[c]}
    /\ caller' = [caller EXCEPT ![w] = IdleCaller]
    /\ UNCHANGED <<registry, clients, gate, young, thread, stale, sweep>>

\* The locked step of gc-reap: whatever registration holds the id now goes.
GcReap(w) ==
    LET a == caller[w].target IN
    /\ caller[w].at = "passed" /\ caller[w].op = "gc-reap"
    /\ caller' = [caller EXCEPT ![w] = Taking(w, registry[a])]
    /\ Release({a})
    /\ UNCHANGED <<busy, alive, closed, thread, stale, sweep>>

\* The tail of gc-reap: the connection is left to the session's own shutdown.
Reaped(w) ==
    LET c == caller[w].took IN
    /\ caller[w].at = "tail" /\ caller[w].op = "gc-reap"
    /\ RemoveBusyFiles(IF c = NoConn THEN {} ELSE {IdOf[c]})
    /\ caller' = [caller EXCEPT ![w] = IdleCaller]
    /\ UNCHANGED <<registry, clients, gate, alive, closed, young, thread, stale, sweep>>

-----------------------------------------------------------------------------
(* The sweep thread: orphan busy files, then dead owners                   *)

\* gc_orphan_busy_files: the files on disk that no registration owns.
ScanBusyFiles ==
    /\ sweep.at = "sleep"
    /\ sweep' = [at |-> "files", took |-> NoConn,
                 todo |-> {a \in Agents : busy[a] # "absent" /\ ~Registered(a)}]
    /\ UNCHANGED <<registry, clients, gate, busy, alive, closed, young, thread,
                   stale, caller>>

\* Each is stat-ed and unlinked on its own, long after the scan's unlock.
SweepBusyFile(a) ==
    /\ sweep.at = "files" /\ a \in sweep.todo
    /\ RemoveBusyFiles(IF busy[a] = "aged" THEN {a} ELSE {})
    /\ sweep' = [sweep EXCEPT !.todo = @ \ {a}]
    /\ UNCHANGED <<registry, clients, gate, alive, closed, young, thread, stale,
                   caller>>

\* Mutant: the grace compared the wrong way round.
JudgeYoungAgents ==
    /\ sweep.at = "files" /\ sweep.todo = {}
    /\ sweep' = [at |-> "dead", took |-> NoConn,
                 todo |-> {c \in young : Holds(c) /\ Dead(c)}]
    /\ UNCHANGED <<registry, clients, gate, busy, alive, closed, young, thread,
                   stale, caller>>

\* gc_dead_agents: the entries past the grace whose owner is gone, one snapshot.
JudgeDeadAgents ==
    /\ sweep.at = "files" /\ sweep.todo = {}
    /\ sweep' = [at |-> "dead", took |-> NoConn,
                 todo |-> {c \in Conns \ young : Holds(c) /\ Dead(c)}]
    /\ UNCHANGED <<registry, clients, gate, busy, alive, closed, young, thread,
                   stale, caller>>

\* _drop_dead_agent: a judged entry is released only while it still holds its id.
DropDeadAgent(c) ==
    /\ sweep.at = "dead" /\ sweep.took = NoConn /\ c \in sweep.todo
    /\ IF registry[IdOf[c]] = c
         THEN /\ Release({IdOf[c]})
              /\ sweep' = [at |-> "dead", todo |-> sweep.todo \ {c}, took |-> c]
         ELSE /\ Unreleased
              /\ sweep' = [sweep EXCEPT !.todo = @ \ {c}]
    /\ UNCHANGED <<busy, alive, closed, thread, stale, caller>>

\* Its tail: the busy file goes and the orphaned connection is closed.
DroppedDead ==
    /\ sweep.took # NoConn
    /\ RemoveBusyFiles({IdOf[sweep.took]})
    /\ closed' = closed \cup {sweep.took}
    /\ sweep' = [sweep EXCEPT !.took = NoConn]
    /\ UNCHANGED <<registry, clients, gate, alive, young, thread, stale, caller>>

\* The same tail when the mirror write raises: _sweep gives up this pass, with
\* the connection still open and the other judged entries untouched.
DropDeadRaises ==
    /\ sweep.took # NoConn
    /\ RemoveBusyFiles({IdOf[sweep.took]})
    /\ sweep' = [at |-> "sleep", todo |-> {}, took |-> NoConn]
    /\ UNCHANGED <<registry, clients, gate, alive, closed, young, thread, stale,
                   caller>>

SweepDone ==
    /\ sweep.at = "dead" /\ sweep.todo = {} /\ sweep.took = NoConn
    /\ sweep' = [sweep EXCEPT !.at = "sleep"]
    /\ UNCHANGED <<registry, clients, gate, busy, alive, closed, young, thread,
                   stale, caller>>

-----------------------------------------------------------------------------
(* The environment: sessions, their holds, and the clock                   *)

\* A hold exits, is killed, or its session ends.  The stream is ordered: a
\* register sent before the close is read before it.
HoldCloses(c) ==
    /\ c \notin closed /\ thread[c] \in {"joining", "serving", "leaving"}
    /\ closed' = closed \cup {c}
    /\ UNCHANGED <<registry, clients, gate, busy, alive, young, thread, stale,
                   caller, sweep>>

\* The owning pi process dies; its hold may linger, stalled.
OwnerDies(o) ==
    /\ o \in alive
    /\ alive' = alive \ {o}
    /\ UNCHANGED <<registry, clients, gate, busy, closed, young, thread, stale,
                   caller, sweep>>

\* The extension publishes the session's run-state (agent.ts setState).
PublishState(c) ==
    /\ c \in Publishers
    /\ OwnerOf[c] \in alive
    /\ busy' = [busy EXCEPT ![IdOf[c]] = "fresh"]
    /\ UNCHANGED <<registry, clients, gate, alive, closed, young, thread, stale,
                   caller, sweep>>

\* Time passes for a busy file (busy_grace) and for an entry (liveness_grace).
BusyFileAges(a) ==
    /\ busy[a] = "fresh"
    /\ busy' = [busy EXCEPT ![a] = "aged"]
    /\ UNCHANGED <<registry, clients, gate, alive, closed, young, thread, stale,
                   caller, sweep>>

EntryAges(c) ==
    /\ c \in young
    /\ young' = young \ {c}
    /\ UNCHANGED <<registry, clients, gate, busy, alive, closed, thread, stale,
                   caller, sweep>>

-----------------------------------------------------------------------------
ConnStep(c) ==
    Register(c) \/ Joined(c) \/ JoinRaises(c) \/ Deregister(c) \/ Left(c)
        \/ EndOfStream(c) \/ Dropped(c)

CallerStep(w) ==
    \/ \E c \in Conns : AskReap(w, c) \/ (\E a \in Agents : AskTerminate(w, c, a))
    \/ Terminate(w) \/ Terminated(w) \/ GcReap(w) \/ Reaped(w)

SweepStep ==
    \/ ScanBusyFiles \/ (\E a \in Agents : SweepBusyFile(a))
    \/ JudgeDeadAgents \/ (\E c \in Conns : DropDeadAgent(c))
    \/ DroppedDead \/ DropDeadRaises \/ SweepDone

Environment ==
    \/ \E c \in Conns : HoldCloses(c) \/ PublishState(c) \/ EntryAges(c)
    \/ \E o \in Owners : OwnerDies(o)
    \/ \E a \in Agents : BusyFileAges(a)

Next ==
    \/ \E c \in Conns : ConnStep(c)
    \/ \E w \in Callers : CallerStep(w)
    \/ SweepStep
    \/ Environment

\* A thread that can go on does; the sweep loop never stops; entries age.
\* No fairness for what clients ask, sessions do or disks refuse.
Fairness ==
    /\ \A c \in Conns :
        WF_vars(Joined(c) \/ JoinRaises(c) \/ Left(c) \/ EndOfStream(c) \/ Dropped(c))
    /\ \A w \in Callers :
        WF_vars(Terminate(w) \/ Terminated(w) \/ GcReap(w) \/ Reaped(w))
    /\ WF_vars(SweepStep)
    /\ \A c \in Conns : WF_vars(EntryAges(c))

Spec == Init /\ [][Next]_vars /\ Fairness

-----------------------------------------------------------------------------
(* Properties                                                              *)

CallerState ==
    [at : {"idle", "passed", "tail"}, op : {"none", "terminate", "gc-reap"},
     target : Agents \cup {NoConn}, token : Tokens \cup {NoToken},
     took : Conns \cup {NoConn}]

\* Every variable has its type; the sweep's work list is ids, then entries.
TypeOK ==
    /\ registry \in [Agents -> Conns \cup {NoConn}]
    /\ clients \in [Agents -> Conns \cup {NoConn}]
    /\ gate \in [Agents -> Tokens \cup {NoToken}]
    /\ busy \in [Agents -> {"absent", "fresh", "aged"}]
    /\ alive \subseteq Owners
    /\ closed \subseteq Conns
    /\ young \subseteq Conns
    /\ thread \in [Conns -> {"connected", "joining", "serving", "leaving",
                            "closing", "ended", "raised"}]
    /\ stale \in [Conns -> SUBSET Agents]
    /\ caller \in [Callers -> CallerState]
    /\ \A w \in Callers : caller[w].at # "idle" => caller[w].target \in Agents
    /\ sweep \in [at : {"sleep", "files", "dead"},
                  todo : (SUBSET Agents) \cup (SUBSET Conns),
                  took : Conns \cup {NoConn}]

\* A registered id has one holder in every map, and that holder's thread is
\* still there to release it when the stream ends (_serve's finally): no
\* interleaving of takeovers, evictions and drops leaves an id behind.  A
\* register that raised in its tail is the one exception.
HolderIsServed ==
    \A a \in Agents : Registered(a) =>
        LET c == registry[a] IN
        /\ IdOf[c] = a
        /\ clients[a] = c
        /\ thread[c] \in {"joining", "serving", "raised"}

\* One live session has at most one registration, under whatever ids it
\* registers and however the registers interleave (_stale_same_owner).
OneRegistrationPerSession ==
    \A a, b \in Agents :
        Registered(a) /\ Registered(b) /\ SameOwner(registry[a], registry[b])
            => a = b

\* The secret in force for an id is the one its present holder brought, and
\* it dies with the registration (SendGate): a released or replaced session
\* can no longer speak for the id.  A holder that brought none leaves the
\* previous secret in place.
SecretIsTheHolders ==
    \A a \in Agents :
        /\ ~Registered(a) => gate[a] = NoToken
        /\ Registered(a) /\ TokenOf[registry[a]] # NoToken
            => gate[a] = TokenOf[registry[a]]

\* The reasons for which a registration may be released: its own connection
\* left, the id or its session registered again, a terminate released it as
\* a fork, its id was reaped with a token, or the reaper had judged it dead.
OwnStreamOver(c) == thread[c] = "serving" /\ thread'[c] \in {"leaving", "closing"}
Superseded(c) ==
    \E d \in Conns :
        /\ thread[d] = "connected" /\ thread'[d] = "joining"
        /\ IdOf[d] = IdOf[c] \/ SameOwner(c, d)
TakenBy(w, op, c) ==
    /\ caller[w].at = "passed" /\ caller[w].op = op
    /\ caller'[w].at = "tail" /\ caller'[w].took = c
Evicted(c) == RoleOf[c] = "fork" /\ \E w \in Callers : TakenBy(w, "terminate", c)
AnsweredReap(c) == \E w \in Callers : TakenBy(w, "gc-reap", c)
JudgedDead(c) == sweep.at = "dead" /\ c \in sweep.todo /\ sweep'.took = c /\ Dead(c)

\* No registration is released for another's sake: a replaced connection's
\* end of stream, a terminate that checked a fork but found a main, a reaper
\* that judged an earlier holder of the id all release nothing.
ReleasedForCause ==
    [][\A c \in Conns : Holds(c) /\ registry'[IdOf[c]] # c =>
          \/ OwnStreamOver(c) \/ Superseded(c) \/ Evicted(c)
          \/ AnsweredReap(c) \/ JudgedDead(c)]_vars

\* Liveness is connection liveness: once its connection is closed, a
\* registration is released (unless its register raised).
ClosedConnectionLeaves ==
    \A c \in Conns : c \in closed ~> ~Holds(c) \/ thread[c] = "raised"

\* An owner that died under a lingering connection does not keep its id: the
\* reaper releases it, even after passes that raised half way.
DeadOwnerLeaves ==
    \A c \in Conns : Holds(c) /\ Dead(c) ~> ~Holds(c)

-----------------------------------------------------------------------------
(* What the comments promise and the code does not keep                    *)

\* "A registered agent keeps its file": the sweep unlinks no busy file of an id
\* that is registered by the time it comes to it.
RegisteredKeepBusyFile ==
    [][\A a \in Agents :
          sweep.at = "files" /\ a \in sweep.todo /\ a \notin sweep'.todo
              /\ busy[a] # "absent" /\ Registered(a) => busy'[a] # "absent"]_vars

\* "The token names the registration rather than the connection": the one a
\* gc-reap releases is one whose token in force is the token presented.
ReapNamesRegistration ==
    [][\A w \in Callers, c \in Conns :
          TakenBy(w, "gc-reap", c) => gate[IdOf[c]] = caller[w].token]_vars

\* "a closed connection ends its agent": the thread of a closed connection
\* does not finish with the id still held.
ClosedConnectionEndsItsAgent ==
    \A c \in Conns :
        c \in closed /\ thread[c] \in {"ended", "raised"} => ~Holds(c)
=============================================================================
