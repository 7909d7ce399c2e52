------------------------------- MODULE Mirror -------------------------------
(***************************************************************************)
(* The registry's two derived views (src/src/registry.py): the file        *)
(* registry.json that outside readers consult, and the snapshot a linked   *)
(* peer broker keeps of this host's agents.                                *)
(*                                                                         *)
(* The broker's threads render, snapshot and list the links under its      *)
(* lock, and write the file and the link after it (team_broker.py), so     *)
(* what two threads have taken is written in any order.  The peer's end of *)
(* a link reads its socket in chunks and handles the lines of a chunk      *)
(* whether or not the link was dropped meanwhile (peer_link.py); it is the *)
(* end that opened the link here.                                          *)
(***************************************************************************)
EXTENDS Naturals, Sequences

CONSTANTS
    Agents,
    Threads,    \* the broker's threads: connections, the sweep
    Links,      \* the connections to the peer, one after another
    MaxQueued   \* how many snapshots a link's socket holds

ASSUME MaxQueuedAssumption == MaxQueued \in Nat \ {0}

VARIABLES
    registry,   \* the registered agents
    stale,      \* those whose last heartbeat is older than idle_timeout
    file,       \* the agents in registry.json
    thread,     \* where each thread is, and what it took under the lock
    up,         \* links whose end here is connected
    peer,       \* _peers: the link the peer's host has here, if any
    channel,    \* snapshots on their way
    asked,      \* links opened and not accepted here
    opening,    \* links opened and not installed at the peer
    farUp,      \* links whose end at the peer is connected
    farPeer,    \* _peers at the peer
    chunk,      \* lines the peer's read loop has received and not handled
    remote,     \* _remote at the peer: the last snapshot handled, if any
    shown,      \* history: links the registry as it is was sent on
    untold,     \* history: links the last change was to go to when a write raised
    unwritten,  \* history: the last write of the file left it as it was
    order       \* history: events came one after the other, or overlapped

near == <<up, peer, asked>>
far == <<opening, farUp, farPeer, chunk, remote>>
missed == <<untold, unwritten>>
vars == <<registry, stale, file, thread, near, channel, far, shown, missed, order>>

View == [known |-> registry, online |-> registry \ stale]
NoView == [known |-> {}, online |-> {}]
Doing(at, data, to, view) == [at |-> at, data |-> data, to |-> to, view |-> view]
Idle == Doing("idle", {}, {}, NoView)

AllIdle == \A t \in Threads : thread[t] = Idle

\* No thread and no message is under way and both ends know of the same link.
Quiet ==
    /\ AllIdle
    /\ \A l \in Links : channel[l] = <<>> /\ chunk[l] = <<>>
    /\ up = farUp /\ peer = farPeer /\ asked = {} /\ opening = {}

Event(calm) == order' = IF calm /\ order # "overlapped" THEN "orderly" ELSE "overlapped"
Aside(calm) == order' = IF calm THEN order ELSE "overlapped"

Goes(t, now) == thread' = [thread EXCEPT ![t] = now]

-----------------------------------------------------------------------------
\* The file is whatever an earlier broker left.
Init ==
    /\ registry = {} /\ stale = {} /\ file \in SUBSET Agents
    /\ thread = [t \in Threads |-> Idle]
    /\ up = {} /\ peer = {} /\ asked = {} /\ opening = {}
    /\ channel = [l \in Links |-> <<>>]
    /\ farUp = {} /\ farPeer = {} /\ chunk = [l \in Links |-> <<>>]
    /\ remote = {}
    /\ shown = {} /\ untold = {} /\ unwritten = FALSE /\ order = "new"

-----------------------------------------------------------------------------
(* _persist_and_notify, after a register or a release                      *)

Change(t) ==
    /\ thread[t] = Idle
    /\ \E a \in Agents :
        /\ registry' \in {registry \cup {a}, registry \ {a}}
        /\ stale' = stale \ {a}
    /\ Goes(t, Doing("changed", {}, {}, NoView))
    /\ shown' = {} /\ untold' = {}
    /\ Event(Quiet)
    /\ UNCHANGED <<file, near, channel, far, unwritten>>

Render(t) ==
    /\ thread[t].at = "changed"
    /\ Goes(t, Doing("rendered", registry, peer, NoView))
    /\ UNCHANGED <<registry, stale, file, near, channel, far, shown, missed, order>>

Write(t) ==
    /\ thread[t].at = "rendered"
    /\ file' = thread[t].data /\ unwritten' = FALSE
    /\ Goes(t, Doing("written", {}, thread[t].to, NoView))
    /\ UNCHANGED <<registry, stale, near, channel, far, shown, untold, order>>

\* write_atomic returns False, which nobody looks at, or raises: then the handler
\* ends here, and what it was to send is not sent.
WriteFails(t) ==
    /\ thread[t].at = "rendered"
    /\ unwritten' = TRUE
    /\ \/ Goes(t, Doing("written", {}, thread[t].to, NoView)) /\ UNCHANGED untold
       \/ Goes(t, Idle) /\ untold' = untold \cup thread[t].to
    /\ UNCHANGED <<registry, stale, file, near, channel, far, shown, order>>

Snapshot(t) ==
    /\ thread[t].at = "written"
    /\ Goes(t, Doing("taken", {}, thread[t].to, View))
    /\ UNCHANGED <<registry, stale, file, near, channel, far, shown, missed, order>>

\* A send on a link that is down does nothing; one that the peer has dropped
\* reaches no one.
Send(t) ==
    LET open == thread[t].to \cap up IN
    /\ thread[t].at = "taken"
    /\ \A l \in open : Len(channel[l]) < MaxQueued
    /\ channel' = [l \in Links |-> IF l \in open \cap farUp
                                   THEN Append(channel[l], thread[t].view)
                                   ELSE channel[l]]
    /\ IF thread[t].view.known = registry
         THEN shown' = shown \cup open /\ untold' = untold \ open
         ELSE UNCHANGED <<shown, untold>>
    /\ Goes(t, Idle)
    /\ UNCHANGED <<registry, stale, file, near, far, unwritten, order>>

-----------------------------------------------------------------------------
(* _touch                                                                  *)

\* A heartbeat; the first of a cadence window refreshes the file.
Beat(t, a) ==
    /\ thread[t] = Idle /\ a \in registry
    /\ stale' = stale \ {a}
    /\ UNCHANGED <<registry, file, near, channel, far, shown, missed>>
    /\ \/ UNCHANGED <<thread, order>>
       \/ Goes(t, Doing("refreshing", registry, {}, NoView)) /\ Aside(Quiet)

\* Mutant: what is rendered is not written.
Forget(t) ==
    /\ thread[t].at = "refreshing"
    /\ Goes(t, Idle)
    /\ UNCHANGED <<registry, stale, file, near, channel, far, shown, missed, order>>

Refresh(t) ==
    /\ thread[t].at = "refreshing"
    /\ file' = thread[t].data /\ unwritten' = FALSE
    /\ Goes(t, Idle)
    /\ UNCHANGED <<registry, stale, near, channel, far, shown, untold, order>>

RefreshFails(t) ==
    /\ thread[t].at = "refreshing"
    /\ unwritten' = TRUE
    /\ Goes(t, Idle)
    /\ UNCHANGED <<registry, stale, file, near, channel, far, shown, untold, order>>

Stalls(a) ==
    /\ a \in registry \ stale
    /\ stale' = stale \cup {a}
    /\ UNCHANGED <<registry, file, thread, near, channel, far, shown, missed, order>>

-----------------------------------------------------------------------------
(* The link                                                                *)

Free(l) ==
    /\ l \notin up \cup peer \cup asked \cup opening \cup farUp \cup farPeer
    /\ channel[l] = <<>> /\ chunk[l] = <<>>
    /\ \A t \in Threads : l \notin thread[t].to

\* The peer's PeerLink.open: its read loop runs before it installs the link.
FarOpen(l) ==
    /\ Free(l)
    /\ asked' = asked \cup {l} /\ opening' = opening \cup {l} /\ farUp' = farUp \cup {l}
    /\ shown' = shown \ {l} /\ untold' = untold \ {l}
    /\ Aside(Quiet /\ up = {})
    /\ UNCHANGED <<registry, stale, file, thread, up, peer, channel, farPeer, chunk,
                   remote, unwritten>>

\* Mutant: the link is not greeted.
AcceptSilently(t, l) ==
    /\ l \in asked /\ thread[t] = Idle
    /\ asked' = asked \ {l} /\ peer' = {l} /\ up' = (up \ peer) \cup {l}
    /\ UNCHANGED <<registry, stale, file, thread, channel, far, shown, missed, order>>

\* The link takes the place of the one there was and is greeted.
Accept(t, l) ==
    /\ l \in asked /\ thread[t] = Idle
    /\ asked' = asked \ {l} /\ peer' = {l} /\ up' = (up \ peer) \cup {l}
    /\ Goes(t, Doing("written", {}, {l}, NoView))
    /\ UNCHANGED <<registry, stale, file, channel, far, shown, missed, order>>

FarInstall(l) ==
    /\ l \in opening
    /\ opening' = opening \ {l} /\ farPeer' = {l} /\ farUp' = farUp \ (farPeer \ {l})
    /\ UNCHANGED <<registry, stale, file, thread, near, channel, chunk, remote, shown,
                   missed, order>>

\* A removal, a failed send or the end of the stream.
Drop(l) ==
    /\ l \in up
    /\ up' = up \ {l} /\ peer' = peer \ {l}
    /\ Aside(Quiet \/ l \notin farUp)
    /\ UNCHANGED <<registry, stale, file, thread, asked, channel, far, shown, missed>>

\* Mutant: the dropped host's agents are kept.
FarDropKeeping(l) ==
    /\ l \in farUp
    /\ farUp' = farUp \ {l} /\ farPeer' = farPeer \ {l}
    /\ channel' = [channel EXCEPT ![l] = <<>>]
    /\ Aside(Quiet \/ l \notin up)
    /\ UNCHANGED <<registry, stale, file, thread, near, opening, chunk, remote, shown,
                   missed>>

\* The same at the peer, where the current link takes the host's agents with it.
FarDrop(l) ==
    /\ l \in farUp
    /\ farUp' = farUp \ {l} /\ farPeer' = farPeer \ {l}
    /\ remote' = IF l \in farPeer THEN {} ELSE remote
    /\ channel' = [channel EXCEPT ![l] = <<>>]
    /\ Aside(Quiet \/ l \notin up)
    /\ UNCHANGED <<registry, stale, file, thread, near, opening, chunk, shown, missed>>

Receive(l) ==
    /\ l \in farUp /\ chunk[l] = <<>> /\ channel[l] # <<>>
    /\ chunk' = [chunk EXCEPT ![l] = channel[l]]
    /\ channel' = [channel EXCEPT ![l] = <<>>]
    /\ UNCHANGED <<registry, stale, file, thread, near, opening, farUp, farPeer, remote,
                   shown, missed, order>>

\* Whether or not the link is still there.
Handle(l) ==
    /\ chunk[l] # <<>>
    /\ remote' = {Head(chunk[l])}
    /\ chunk' = [chunk EXCEPT ![l] = Tail(@)]
    /\ UNCHANGED <<registry, stale, file, thread, near, channel, opening, farUp, farPeer,
                   shown, missed, order>>

-----------------------------------------------------------------------------
Step(t) == Render(t) \/ Write(t) \/ WriteFails(t) \/ Snapshot(t) \/ Send(t)
               \/ Refresh(t) \/ RefreshFails(t)

Next ==
    \/ \E t \in Threads : \/ Change(t) \/ Step(t)
                          \/ \E a \in Agents : Beat(t, a)
                          \/ \E l \in Links : Accept(t, l)
    \/ \E a \in Agents : Stalls(a)
    \/ \E l \in Links : FarOpen(l) \/ FarInstall(l) \/ Drop(l) \/ FarDrop(l)
                        \/ Receive(l) \/ Handle(l)

\* The threads run, a link is read, and as long as an agent is registered some
\* heartbeat comes in every cadence window.
DueBeat(t, a) == Beat(t, a) /\ thread[t]' # thread[t]

Fairness ==
    /\ \A t \in Threads : WF_vars(Step(t))
    /\ \A l \in Links : WF_vars(Receive(l)) /\ WF_vars(Handle(l))
    /\ WF_vars(\E t \in Threads, a \in Agents : DueBeat(t, a))

Spec == Init /\ [][Next]_vars /\ Fairness

-----------------------------------------------------------------------------
(* Properties                                                              *)

Views == [known : SUBSET Agents, online : SUBSET Agents]

TypeOK ==
    /\ registry \subseteq Agents /\ stale \subseteq registry /\ file \subseteq Agents
    /\ thread \in [Threads -> [at : {"idle", "changed", "rendered", "written", "taken",
                                     "refreshing"},
                               data : SUBSET Agents, to : SUBSET Links, view : Views]]
    /\ up \subseteq Links /\ peer \subseteq Links /\ asked \subseteq Links
    /\ opening \subseteq Links /\ farUp \subseteq Links /\ farPeer \subseteq Links
    /\ channel \in [Links -> Seq(Views)] /\ chunk \in [Links -> Seq(Views)]
    /\ remote \subseteq Views
    /\ shown \subseteq Links /\ untold \subseteq Links /\ unwritten \in BOOLEAN
    /\ order \in {"new", "orderly", "overlapped"}

\* Events one after the other leave both views true: the file names the registered
\* agents, unless its last write failed, and so does the peer if and only if it is
\* linked, unless a write that raised kept the last change from it.
OrderlyViewsAreTrue ==
    Quiet /\ order # "overlapped" =>
        /\ order = "orderly" => file = registry \/ unwritten
        /\ remote # {} <=> up # {}
        /\ up \subseteq untold \/ \A v \in remote : v.known = registry

\* No change is missed but by a write that raises, however registers, releases, drops
\* and new links overlap: once the threads are done the present registry has been sent
\* on the link there is, by the change's own notice or by the link's greeting.
NoChangeMissed == AllIdle => peer \cap up \subseteq shown \cup untold

\* The file recovers from writes out of order and from writes that fail: when no more
\* agents come and go it is right for good, as long as one is left to beat and not
\* every write fails.
Settled == \A t \in Threads : thread[t].at \in {"idle", "refreshing"}

FileCatchesUp ==
    <>[]Settled /\ []<>~unwritten => <>[](registry = {} \/ file = registry)

\* Claimed: when the root vanishes under a write, "memory stays authoritative".  When it
\* does so before the scratch file is written the change is not sent to the peers.
MemoryIsTold == AllIdle => peer \cap up \subseteq shown

\* Claimed: "readers of the file never see a snapshot frozen at the last registry
\* event".  With no agent left to beat, what was written last stays: an older rendering,
\* or an earlier broker's file.
FileIsNeverFrozen == <>[]Settled => <>[](file = registry)

\* Claimed: "a stalled client never reads online".  Its host says so of it, and the
\* peer keeps the flag of the last notice.
StalledNeverOnline ==
    Quiet /\ order # "overlapped" => \A v \in remote : v.online \cap stale = {}

\* Claimed: "only the current link owns its host's remote view".  The lines of a
\* chunk received before the drop are handled after it.
LinkOwnsRemoteView ==
    [][\A l \in Links : Handle(l) => l \in farPeer \cup opening]_vars
=============================================================================
