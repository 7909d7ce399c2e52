---------------------------- MODULE MirrorProofs ----------------------------
(***************************************************************************)
(* Proofs about Mirror, for any agents, threads and links: no change of    *)
(* the registry is missed by the link there is, and events that come one   *)
(* after the other leave both views true.                                  *)
(***************************************************************************)
EXTENDS Mirror, SequenceTheorems, TLAPS

\* What thread t has still to do sends the registry as it is on link l.
Owed(t, l) ==
    \/ thread[t].at = "changed"
    \/ thread[t].at \in {"rendered", "written"} /\ l \in thread[t].to
    \/ thread[t].at = "taken" /\ l \in thread[t].to /\ thread[t].view.known = registry

Told == \A l \in peer \cap up :
          l \in shown \cup untold \/ \E t \in Threads : Owed(t, l)

IInv == TypeOK /\ Told

Places == {"idle", "changed", "rendered", "written", "taken", "refreshing"}
Works == [at : Places, data : SUBSET Agents, to : SUBSET Links, view : Views]

-----------------------------------------------------------------------------
(* Types                                                                   *)

\* The parts of a thread's work.
LEMMA WorkParts ==
    ASSUME TypeOK, NEW t \in Threads
    PROVE  /\ thread[t] \in Works
           /\ thread[t].at \in Places /\ thread[t].data \in SUBSET Agents
           /\ thread[t].to \in SUBSET Links /\ thread[t].view \in Views
  BY DEF TypeOK, Works, Places

LEMMA IdleIsWork == Idle \in Works /\ Idle.at = "idle" /\ Idle.to = {}
  BY DEF Idle, Doing, Works, Places, NoView, Views

\* What a thread does is one of its works.
LEMMA DoingIsWork ==
    ASSUME NEW at \in Places, NEW data \in SUBSET Agents, NEW to \in SUBSET Links,
           NEW view \in Views
    PROVE  /\ Doing(at, data, to, view) \in Works
           /\ Doing(at, data, to, view).at = at
           /\ Doing(at, data, to, view).data = data
           /\ Doing(at, data, to, view).to = to
           /\ Doing(at, data, to, view).view = view
  BY DEF Doing, Works

LEMMA NoViewIsView == NoView \in Views
  BY DEF NoView, Views

LEMMA ViewIsView == TypeOK => View \in Views /\ View.known = registry
  BY DEF TypeOK, View, Views

\* A step that only moves a thread on keeps the threads' type.
LEMMA GoesType ==
    ASSUME TypeOK, NEW t \in Threads, NEW now \in Works, Goes(t, now)
    PROVE  /\ thread' \in [Threads -> Works]
           /\ thread'[t] = now
           /\ \A u \in Threads \ {t} : thread'[u] = thread[u]
  BY DEF TypeOK, Goes, Works, Places

LEMMA OrderType ==
    ASSUME TypeOK, NEW calm \in BOOLEAN, Event(calm) \/ Aside(calm)
    PROVE  order' \in {"new", "orderly", "overlapped"}
  BY DEF TypeOK, Event, Aside

LEMMA InitInv == Init => IInv
  <1> SUFFICES ASSUME Init PROVE IInv
    OBVIOUS
  <1>1. thread \in [Threads -> Works]
    BY IdleIsWork DEF Init
  <1>2. <<>> \in Seq(Views)
    OBVIOUS
  <1>3. TypeOK
    BY <1>1, <1>2 DEF Init, TypeOK, Works, Places
  <1>4. Told
    BY DEF Init, Told
  <1> QED
    BY <1>3, <1>4 DEF IInv

\* Type correctness of each action.
LEMMA StepType == TypeOK /\ [Next]_vars => TypeOK'
  <1> SUFFICES ASSUME TypeOK, [Next]_vars PROVE TypeOK'
    OBVIOUS
  <1> USE DEF near, far, missed
  <1>0. /\ registry \subseteq Agents /\ stale \subseteq registry /\ file \subseteq Agents
        /\ thread \in [Threads -> Works]
        /\ up \subseteq Links /\ peer \subseteq Links /\ asked \subseteq Links
        /\ opening \subseteq Links /\ farUp \subseteq Links /\ farPeer \subseteq Links
        /\ channel \in [Links -> Seq(Views)] /\ chunk \in [Links -> Seq(Views)]
        /\ remote \subseteq Views
        /\ shown \subseteq Links /\ untold \subseteq Links /\ unwritten \in BOOLEAN
        /\ order \in {"new", "orderly", "overlapped"}
    BY DEF TypeOK, Works, Places
  <1>q. Quiet \in BOOLEAN /\ \A l \in Links : (Quiet \/ l \notin farUp) \in BOOLEAN
                                             /\ (Quiet \/ l \notin up) \in BOOLEAN
    BY DEF Quiet, AllIdle
  <1>1. ASSUME NEW t \in Threads, Change(t) PROVE TypeOK'
    <2>1. Doing("changed", {}, {}, NoView) \in Works
      BY DoingIsWork, NoViewIsView DEF Places
    <2>2. thread' \in [Threads -> Works]
      BY <1>1, <2>1, GoesType DEF Change
    <2>3. order' \in {"new", "orderly", "overlapped"}
      BY <1>1, <1>q, OrderType DEF Change
    <2> QED
      BY <1>0, <1>1, <2>2, <2>3 DEF Change, TypeOK, Works, Places
  <1>2. ASSUME NEW t \in Threads, Step(t) PROVE TypeOK'
    <2>0. thread[t] \in Works
      BY WorkParts
    <2>1. CASE Render(t)
      <3>1. Doing("rendered", registry, peer, NoView) \in Works
        BY <1>0, <2>0, WorkParts, DoingIsWork, NoViewIsView DEF Places
      <3>2. thread' \in [Threads -> Works]
        BY <2>1, <3>1, GoesType DEF Render
      <3> QED
        BY <1>0, <2>1, <3>2 DEF Render, TypeOK, Works, Places
    <2>2. CASE Write(t)
      <3>1. Doing("written", {}, thread[t].to, NoView) \in Works
        BY <1>0, <2>0, WorkParts, DoingIsWork, NoViewIsView DEF Places
      <3>2. thread' \in [Threads -> Works]
        BY <2>2, <3>1, GoesType DEF Write
      <3>3. file' \subseteq Agents
        BY <2>2, WorkParts DEF Write
      <3> QED
        BY <1>0, <2>2, <3>2, <3>3 DEF Write, TypeOK, Works, Places
    <2>6. CASE WriteFails(t)
      <3>1. Doing("written", {}, thread[t].to, NoView) \in Works
        BY <1>0, <2>0, WorkParts, DoingIsWork, NoViewIsView DEF Places
      <3>2. thread' \in [Threads -> Works]
        BY <2>6, <3>1, GoesType, IdleIsWork DEF WriteFails
      <3>3. untold' \subseteq Links
        BY <1>0, <2>6, WorkParts DEF WriteFails
      <3> QED
        BY <1>0, <2>6, <3>2, <3>3 DEF WriteFails, TypeOK, Works, Places
    <2>7. CASE RefreshFails(t)
      <3>1. thread' \in [Threads -> Works]
        BY <2>7, IdleIsWork, GoesType DEF RefreshFails
      <3> QED
        BY <1>0, <2>7, <3>1 DEF RefreshFails, TypeOK, Works, Places
    <2>3. CASE Snapshot(t)
      <3>1. Doing("taken", {}, thread[t].to, View) \in Works
        BY WorkParts, DoingIsWork, ViewIsView DEF Places
      <3>2. thread' \in [Threads -> Works]
        BY <2>3, <3>1, GoesType DEF Snapshot
      <3> QED
        BY <1>0, <2>3, <3>2 DEF Snapshot, TypeOK, Works, Places
    <2>4. CASE Send(t)
      <3>1. thread' \in [Threads -> Works]
        BY <2>4, IdleIsWork, GoesType DEF Send
      <3>2. thread[t].view \in Views /\ thread[t].to \in SUBSET Links
        BY WorkParts
      <3>3. channel' \in [Links -> Seq(Views)]
        BY <1>0, <2>4, <3>2 DEF Send
      <3>4. shown' \subseteq Links /\ untold' \subseteq Links
        BY <1>0, <2>4, <3>2 DEF Send
      <3> QED
        BY <1>0, <2>4, <3>1, <3>3, <3>4 DEF Send, TypeOK, Works, Places
    <2>5. CASE Refresh(t)
      <3>1. thread' \in [Threads -> Works]
        BY <2>5, IdleIsWork, GoesType DEF Refresh
      <3>2. file' \subseteq Agents
        BY <2>5, WorkParts DEF Refresh
      <3> QED
        BY <1>0, <2>5, <3>1, <3>2 DEF Refresh, TypeOK, Works, Places
    <2> QED
      BY <1>2, <2>1, <2>2, <2>3, <2>4, <2>5, <2>6, <2>7 DEF Step
  <1>3. ASSUME NEW t \in Threads, NEW a \in Agents, Beat(t, a) PROVE TypeOK'
    <2>1. Doing("refreshing", registry, {}, NoView) \in Works
      BY <1>0, DoingIsWork, NoViewIsView DEF Places
    <2>2. thread' \in [Threads -> Works]
      BY <1>0, <1>3, <2>1, GoesType DEF Beat
    <2>3. order' \in {"new", "orderly", "overlapped"}
      BY <1>0, <1>3, <1>q, OrderType DEF Beat
    <2> QED
      BY <1>0, <1>3, <2>2, <2>3 DEF Beat, TypeOK, Works, Places
  <1>4. ASSUME NEW t \in Threads, NEW l \in Links, Accept(t, l) PROVE TypeOK'
    <2>1. Doing("written", {}, {l}, NoView) \in Works
      BY DoingIsWork, NoViewIsView DEF Places
    <2>2. thread' \in [Threads -> Works]
      BY <1>4, <2>1, GoesType DEF Accept
    <2> QED
      BY <1>0, <1>4, <2>2 DEF Accept, TypeOK, Works, Places
  <1>5. ASSUME NEW a \in Agents, Stalls(a) PROVE TypeOK'
    BY <1>0, <1>5 DEF Stalls, TypeOK, Works, Places
  <1>6. ASSUME NEW l \in Links, FarOpen(l) \/ FarInstall(l) \/ Drop(l) \/ FarDrop(l)
                                \/ Receive(l) \/ Handle(l)
        PROVE TypeOK'
    <2>1. CASE FarOpen(l)
      <3>1. order' \in {"new", "orderly", "overlapped"}
        BY <2>1, <1>0 DEF FarOpen, Aside
      <3> QED
        BY <1>0, <2>1, <3>1 DEF FarOpen, TypeOK, Works, Places
    <2>2. CASE FarInstall(l)
      BY <1>0, <2>2 DEF FarInstall, TypeOK, Works, Places
    <2>3. CASE Drop(l)
      <3>1. order' \in {"new", "orderly", "overlapped"}
        BY <2>3, <1>0 DEF Drop, Aside
      <3> QED
        BY <1>0, <2>3, <3>1 DEF Drop, TypeOK, Works, Places
    <2>4. CASE FarDrop(l)
      <3>1. order' \in {"new", "orderly", "overlapped"}
        BY <2>4, <1>0 DEF FarDrop, Aside
      <3> QED
        BY <1>0, <2>4, <3>1 DEF FarDrop, TypeOK, Works, Places
    <2>5. CASE Receive(l)
      BY <1>0, <2>5 DEF Receive, TypeOK, Works, Places
    <2>6. CASE Handle(l)
      <3>1. Head(chunk[l]) \in Views /\ Tail(chunk[l]) \in Seq(Views)
        BY <1>0, <2>6 DEF Handle
      <3> QED
        BY <1>0, <2>6, <3>1 DEF Handle, TypeOK, Works, Places
    <2> QED
      BY <1>6, <2>1, <2>2, <2>3, <2>4, <2>5, <2>6
  <1>7. CASE UNCHANGED vars
    BY <1>0, <1>7 DEF vars, TypeOK, Works, Places
  <1> QED
    BY <1>1, <1>2, <1>3, <1>4, <1>5, <1>6, <1>7 DEF Next

-----------------------------------------------------------------------------
(* No change is missed                                                     *)

\* What another thread owes stays owed while the registry does not change.
LEMMA OthersOwe ==
    ASSUME NEW t \in Threads, NEW u \in Threads, NEW l \in Links,
           thread'[u] = thread[u], UNCHANGED registry, Owed(u, l)
    PROVE  Owed(u, l)'
  BY DEF Owed

LEMMA StepTold == TypeOK /\ Told /\ [Next]_vars => Told'
  <1> SUFFICES ASSUME TypeOK, Told, [Next]_vars,
                      NEW l \in (peer \cap up)'
               PROVE  l \in (shown \cup untold)' \/ \E t \in Threads : Owed(t, l)'
    BY DEF Told
  <1> USE DEF near, far, missed
  <1>0. l \in Links
    BY StepType DEF TypeOK
  <1>1. ASSUME NEW t \in Threads, Change(t)
        PROVE  Owed(t, l)'
    BY <1>1, IdleIsWork, GoesType DEF Change, Owed, Goes, TypeOK, Doing
  <1>2. ASSUME NEW t \in Threads, Step(t)
        PROVE  l \in (shown \cup untold)' \/ \E u \in Threads : Owed(u, l)'
    <2>0. /\ UNCHANGED <<registry, peer, up>>
          /\ \A u \in Threads \ {t} : thread'[u] = thread[u]
          /\ shown \cup untold \subseteq (shown \cup untold)'
      BY <1>2 DEF Step, Render, Write, WriteFails, Snapshot, Send, Refresh,
                  RefreshFails, Goes, TypeOK
    <2>1. l \in shown \cup untold \/ \E u \in Threads : Owed(u, l)
      BY <2>0 DEF Told
    <2>2. ASSUME NEW u \in Threads \ {t}, Owed(u, l) PROVE Owed(u, l)'
      BY <1>0, <2>0, <2>2, OthersOwe
    <2>3. ASSUME Owed(t, l) PROVE l \in (shown \cup untold)' \/ Owed(t, l)'
      <3>0. thread[t] \in Works
        BY WorkParts
      <3>1. CASE Render(t)
        BY <2>0, <3>0, <3>1 DEF Render, Owed, Goes, TypeOK, Doing
      <3>2. CASE Write(t)
        BY <2>0, <2>3, <3>0, <3>2 DEF Write, Owed, Goes, TypeOK, Doing
      <3>3. CASE Snapshot(t)
        BY <2>0, <2>3, <3>0, <3>3, ViewIsView DEF Snapshot, Owed, Goes, TypeOK, Doing
      <3>4. CASE Send(t)
        BY <2>0, <2>3, <3>0, <3>4 DEF Send, Owed
      <3>5. CASE Refresh(t)
        BY <2>3, <3>5 DEF Refresh, Owed
      <3>6. CASE WriteFails(t)
        BY <2>0, <2>3, <3>0, <3>6 DEF WriteFails, Owed, Goes, TypeOK, Doing
      <3>7. CASE RefreshFails(t)
        BY <2>3, <3>7 DEF RefreshFails, Owed
      <3> QED
        BY <1>2, <3>1, <3>2, <3>3, <3>4, <3>5, <3>6, <3>7 DEF Step
    <2> QED
      BY <2>0, <2>1, <2>2, <2>3
  <1>3. ASSUME NEW t \in Threads, NEW a \in Agents, Beat(t, a)
        PROVE  l \in (shown \cup untold)' \/ \E u \in Threads : Owed(u, l)'
    <2>1. l \in shown \cup untold \/ \E u \in Threads : Owed(u, l)
      BY <1>3 DEF Beat, Told
    <2>2. ~Owed(t, l)
      BY <1>3, IdleIsWork DEF Beat, Owed
    <2>3. /\ UNCHANGED <<registry, shown, untold>>
          /\ \A u \in Threads \ {t} : thread'[u] = thread[u]
      BY <1>3 DEF Beat, Goes, TypeOK
    <2> QED
      BY <1>0, <2>1, <2>2, <2>3, OthersOwe
  <1>4. ASSUME NEW t \in Threads, NEW k \in Links, Accept(t, k)
        PROVE  Owed(t, l)'
    BY <1>4, IdleIsWork DEF Accept, Owed, Goes, TypeOK, Doing
  <1>5. ASSUME NEW a \in Agents, Stalls(a)
        PROVE  l \in (shown \cup untold)' \/ \E u \in Threads : Owed(u, l)'
    BY <1>5 DEF Stalls, Told, Owed
  <1>6. ASSUME NEW k \in Links, FarOpen(k) \/ FarInstall(k) \/ Drop(k) \/ FarDrop(k)
                                \/ Receive(k) \/ Handle(k)
        PROVE  l \in (shown \cup untold)' \/ \E u \in Threads : Owed(u, l)'
    <2>1. /\ UNCHANGED <<registry, thread>> /\ l \in peer \cap up
          /\ l \in shown \cup untold => l \in (shown \cup untold)'
      BY <1>6 DEF FarOpen, Free, FarInstall, Drop, FarDrop, Receive, Handle
    <2> QED
      BY <2>1 DEF Told, Owed
  <1>7. CASE UNCHANGED vars
    BY <1>7 DEF vars, Told, Owed
  <1> QED
    BY <1>1, <1>2, <1>3, <1>4, <1>5, <1>6, <1>7 DEF Next

-----------------------------------------------------------------------------
(* Events one after the other                                              *)

\* At most one thread is at work, what it has taken is true, and so is what is on
\* its way to the peer; the file is, or is about to be.
Current == {v \in Views : v.known = registry}

Single == \A t, u \in Threads : thread[t].at # "idle" /\ thread[u].at # "idle" => t = u

Taken ==
    \A t \in Threads :
        /\ thread[t].at \in {"rendered", "refreshing"} => thread[t].data = registry
        /\ thread[t].at = "taken" => thread[t].view.known = registry

Sent == \A l \in Links : channel[l] \in Seq(Current) /\ chunk[l] \in Seq(Current)

Filed ==
    order = "orderly" =>
        file = registry \/ unwritten \/ \E t \in Threads : thread[t].at \in {"changed", "rendered"}

NothingSent == \A l \in Links : channel[l] = <<>> /\ chunk[l] = <<>>

\* The peer knows the registry as it is, or link l is about to bring it, or the write
\* before it raised: then the peer was greeted and knows an earlier registry.
Brings(t, l) ==
    \/ thread[t].at = "changed" /\ remote # {}
    \/ thread[t].at = "rendered" /\ thread[t].to = {l} /\ remote # {}
    \/ thread[t].at \in {"written", "taken"} /\ thread[t].to = {l}

Informed(l) ==
    \/ \E t \in Threads : Brings(t, l)
    \/ channel[l] # <<>> \/ chunk[l] # <<>>
    \/ remote # {} /\ (l \in untold \/ \A v \in remote : v.known = registry)

\* Link l is opened, accepted here and installed at the peer, the last two in
\* either order, and is the link until it is dropped.
Linking(l) ==
    /\ farUp = {l} /\ opening \subseteq {l} /\ farPeer = {l} \ opening
    /\ \A k \in Links \ {l} : channel[k] = <<>> /\ chunk[k] = <<>>
    /\ \/ asked = {l} /\ up = {} /\ peer = {} /\ AllIdle /\ NothingSent /\ remote = {}
       \/ asked = {} /\ up = {l} /\ peer = {l} /\ Informed(l)

\* No link is up at the peer, though one may still be accepted or installed.
FarGone ==
    /\ farUp = {} /\ peer = up /\ remote = {} /\ NothingSent
    /\ \A k, l \in asked : k = l
    /\ asked # {} => up = {} /\ AllIdle

\* Link l is gone here, and the peer has still to read so.
NearGone(l) ==
    /\ farUp = {l} /\ farPeer = {l} /\ up = {} /\ peer = {} /\ asked = {} /\ opening = {}
    /\ NothingSent /\ AllIdle

InTurn == FarGone \/ \E l \in Links : Linking(l) \/ NearGone(l)

Orderly == order # "overlapped" => Single /\ Taken /\ Sent /\ Filed /\ InTurn

LEMMA IdleThreads == AllIdle => \A t \in Threads : thread[t].at = "idle"
  BY IdleIsWork DEF AllIdle

LEMMA InitOrderly == Init => Orderly
  <1> SUFFICES ASSUME Init PROVE Orderly
    OBVIOUS
  <1>1. AllIdle
    BY DEF Init, AllIdle
  <1>2. \A t \in Threads : thread[t].at = "idle"
    BY <1>1, IdleThreads
  <1>3. <<>> \in Seq(Current)
    OBVIOUS
  <1>4. Single /\ Taken /\ Sent /\ Filed
    BY <1>2, <1>3 DEF Init, Single, Taken, Sent, Filed
  <1>5. FarGone
    BY DEF Init, FarGone, NothingSent
  <1> QED
    BY <1>4, <1>5 DEF Orderly, InTurn

\* Events that overlap nothing come when all is quiet, or are the other half of a
\* link's end.
LEMMA Calm ==
    ASSUME order' # "overlapped"
    PROVE  /\ \A t \in Threads : Change(t) => Quiet /\ order # "overlapped"
           /\ \A t \in Threads, a \in Agents :
                 Beat(t, a) => UNCHANGED order /\ (UNCHANGED thread \/ Quiet)
           /\ \A l \in Links :
                 /\ FarOpen(l) => UNCHANGED order /\ Quiet /\ up = {}
                 /\ Drop(l) => UNCHANGED order /\ (Quiet \/ l \notin farUp)
                 /\ FarDrop(l) => UNCHANGED order /\ (Quiet \/ l \notin up)
  BY DEF Change, Beat, FarOpen, Drop, FarDrop, Event, Aside

\* When all is quiet the two hosts have one link or none.
LEMMA QuietTurn ==
    ASSUME Quiet, InTurn
    PROVE  /\ AllIdle /\ NothingSent /\ asked = {} /\ opening = {}
           /\ \/ up = {} /\ FarGone
              \/ \E l \in Links :
                    /\ up = {l} /\ Linking(l) /\ remote # {}
                    /\ l \in untold \/ \A v \in remote : v.known = registry
  <1>1. AllIdle /\ NothingSent /\ asked = {} /\ opening = {} /\ up = farUp
    BY DEF Quiet, NothingSent
  <1>2. ASSUME NEW l \in Links, Linking(l)
        PROVE  /\ up = {l} /\ remote # {}
               /\ l \in untold \/ \A v \in remote : v.known = registry
    BY <1>1, <1>2, IdleThreads DEF Linking, Informed, Brings, NothingSent
  <1>3. ASSUME NEW l \in Links PROVE ~NearGone(l)
    BY <1>1 DEF NearGone
  <1> QED
    BY <1>1, <1>2, <1>3 DEF InTurn, FarGone

\* While a thread is at work there is a link, or the peer has none.
LEMMA BusyTurn ==
    ASSUME InTurn, NEW t \in Threads, thread[t].at # "idle"
    PROVE  \/ FarGone /\ asked = {}
           \/ \E l \in Links : /\ Linking(l) /\ asked = {} /\ up = {l} /\ peer = {l}
                              /\ Informed(l)
  BY IdleThreads DEF InTurn, FarGone, Linking, NearGone

\* Nothing that matters changes.
LEMMA AsItIs ==
    ASSUME Single, Taken, Sent, Filed, InTurn,
           UNCHANGED <<registry, file, thread, near, channel, far, missed, order>>
    PROVE  Single' /\ Taken' /\ Sent' /\ Filed' /\ InTurn'
  <1> USE DEF near, far, missed
  <1>1. Single' /\ Taken' /\ Sent' /\ Filed'
    BY DEF Single, Taken, Sent, Filed, Current
  <1>2. AllIdle' = AllIdle /\ NothingSent' = NothingSent
    BY DEF AllIdle, NothingSent
  <1>3. \A l \in Links : Informed(l) => Informed(l)'
    BY DEF Informed, Brings
  <1>4. FarGone => FarGone'
    BY <1>2 DEF FarGone
  <1>5. \A l \in Links : (Linking(l) => Linking(l)') /\ (NearGone(l) => NearGone(l)')
    BY <1>2, <1>3 DEF Linking, NearGone
  <1> QED
    BY <1>1, <1>4, <1>5 DEF InTurn

\* One thread goes on, or starts when all are idle.
LEMMA ThreadGoes ==
    ASSUME TypeOK, Single, NEW t \in Threads, NEW now \in Works, Goes(t, now),
           thread[t].at # "idle" \/ AllIdle
    PROVE  /\ Single' /\ thread'[t] = now
           /\ \A u \in Threads \ {t} : thread'[u] = thread[u] /\ thread[u].at = "idle"
  BY GoesType, IdleThreads DEF Single

\* A register or a release that comes when all is quiet.
LEMMA ChangeInTurn ==
    ASSUME TypeOK, Single, InTurn, order' # "overlapped", NEW t \in Threads, Change(t)
    PROVE  Single' /\ Taken' /\ Sent' /\ Filed' /\ InTurn'
  <1>1. Quiet /\ InTurn
    BY Calm
  <1>2. /\ AllIdle /\ NothingSent /\ asked = {} /\ opening = {}
        /\ \/ up = {} /\ FarGone
           \/ \E l \in Links : up = {l} /\ Linking(l) /\ remote # {}
    BY <1>1, QuietTurn
  <1>3. UNCHANGED <<up, peer, asked, channel, opening, farUp, farPeer, chunk, remote>>
    BY DEF Change, near, far
  <1>4. Doing("changed", {}, {}, NoView) \in Works
        /\ Doing("changed", {}, {}, NoView).at = "changed"
    BY DoingIsWork, NoViewIsView DEF Places
  <1>5. /\ Single' /\ thread'[t].at = "changed"
        /\ \A u \in Threads \ {t} : thread'[u].at = "idle"
    BY <1>2, <1>4, ThreadGoes DEF Change
  <1>6. Taken' /\ Filed'
    BY <1>5 DEF Taken, Filed
  <1>7. NothingSent'
    BY <1>2, <1>3 DEF NothingSent
  <1>8. Sent'
    <2>1. <<>> \in Seq(Current')
      OBVIOUS
    <2> QED
      BY <1>7, <2>1 DEF Sent, NothingSent
  <1>9. remote # {} => \A l \in Links : Informed(l)'
    BY <1>3, <1>5 DEF Informed, Brings
  <1>10. FarGone => FarGone'
    BY <1>2, <1>3, <1>7 DEF FarGone
  <1>11. \A l \in Links : up = {l} /\ Linking(l) /\ remote # {} => Linking(l)'
    BY <1>2, <1>3, <1>9 DEF Linking
  <1> QED
    BY <1>2, <1>5, <1>6, <1>8, <1>10, <1>11 DEF InTurn

\* A thread's step: it renders, writes, takes a snapshot, sends or refreshes.
LEMMA StepInTurn ==
    ASSUME TypeOK, Single, Taken, Sent, Filed, InTurn, NEW t \in Threads, Step(t)
    PROVE  Single' /\ Taken' /\ Sent' /\ Filed' /\ InTurn'
  <1>0. /\ UNCHANGED <<registry, up, peer, asked, opening, farUp, farPeer, chunk, remote,
                       order>>
        /\ thread[t].at # "idle" /\ thread[t] \in Works
    BY WorkParts DEF Step, Render, Write, WriteFails, Snapshot, Send, Refresh,
                     RefreshFails, near, far
  <1>1. PICK now \in Works :
            /\ Goes(t, now)
            /\ \/ Render(t) /\ now.at = "rendered" /\ now.data = registry /\ now.to = peer
               \/ Write(t) /\ now.at = "written" /\ now.to = thread[t].to
               \/ WriteFails(t) /\ now.at = "written" /\ now.to = thread[t].to
               \/ WriteFails(t) /\ now.at = "idle" /\ untold' = untold \cup thread[t].to
               \/ Snapshot(t) /\ now.at = "taken" /\ now.to = thread[t].to
                              /\ now.view.known = registry
               \/ (Send(t) \/ Refresh(t) \/ RefreshFails(t)) /\ now.at = "idle"
    <2>0. /\ registry \in SUBSET Agents /\ peer \in SUBSET Links
          /\ thread[t].to \in SUBSET Links
          /\ {} \in SUBSET Agents /\ NoView \in Views
      BY NoViewIsView, WorkParts DEF TypeOK
    <2>1. CASE Render(t)
      BY <2>0, <2>1, DoingIsWork DEF Render, Places
    <2>2. CASE Write(t)
      BY <2>0, <2>2, DoingIsWork DEF Write, Places
    <2>3. CASE Snapshot(t)
      BY <2>0, <2>3, DoingIsWork, ViewIsView DEF Snapshot, Places
    <2>4. CASE Send(t) \/ Refresh(t) \/ RefreshFails(t)
      BY <2>4, IdleIsWork DEF Send, Refresh, RefreshFails
    <2>5. CASE WriteFails(t)
      BY <2>0, <2>5, DoingIsWork, IdleIsWork DEF WriteFails, Places
    <2> QED
      BY <2>1, <2>2, <2>3, <2>4, <2>5 DEF Step
  <1>2. /\ Single' /\ thread'[t] = now
        /\ \A u \in Threads \ {t} : thread'[u] = thread[u] /\ thread[u].at = "idle"
    BY <1>0, <1>1, ThreadGoes
  <1>3. Taken'
    BY <1>0, <1>1, <1>2 DEF Taken
  <1>4. Filed'
    <2>1. CASE Render(t)
      BY <1>1, <1>2, <2>1 DEF Filed, Render, Write, WriteFails, Snapshot, Send, Refresh,
                              RefreshFails
    <2>2. CASE Write(t) \/ Refresh(t)
      BY <1>0, <2>2 DEF Filed, Taken, Write, Refresh
    <2>3. CASE Snapshot(t) \/ Send(t)
      BY <1>0, <1>2, <2>3 DEF Filed, Snapshot, Send, missed
    <2>4. CASE WriteFails(t) \/ RefreshFails(t)
      BY <2>4 DEF Filed, WriteFails, RefreshFails
    <2> QED
      BY <2>1, <2>2, <2>3, <2>4 DEF Step
  <1>5. ASSUME ~Send(t) PROVE UNCHANGED channel
    BY <1>5 DEF Step, Render, Write, WriteFails, Snapshot, Refresh, RefreshFails
  <1>6. ASSUME Send(t), NEW l \in Links
        PROVE  /\ channel'[l] \in Seq(Current)
               /\ channel[l] # <<>> => channel'[l] # <<>>
               /\ l \in thread[t].to \cap up \cap farUp => channel'[l] # <<>>
               /\ l \notin thread[t].to \cap up \cap farUp => channel'[l] = channel[l]
    <2>1. thread[t].view \in Current /\ channel[l] \in Seq(Current)
      BY <1>0, <1>6, WorkParts DEF Send, Taken, Current, Sent
    <2>2. channel'[l] = IF l \in thread[t].to \cap up \cap farUp
                        THEN Append(channel[l], thread[t].view) ELSE channel[l]
      BY <1>6 DEF Send
    <2> QED
      BY <2>1, <2>2, AppendProperties
  <1>7. Sent'
    <2>1. Current' = Current
      BY <1>0 DEF Current
    <2>2. \A l \in Links : channel'[l] \in Seq(Current)
      BY <1>5, <1>6 DEF Sent
    <2> QED
      BY <1>0, <2>1, <2>2 DEF Sent
  <1>8. CASE FarGone /\ asked = {}
    <2>1. NothingSent'
      BY <1>0, <1>5, <1>6, <1>8 DEF FarGone, NothingSent
    <2>2. FarGone'
      BY <1>0, <1>8, <2>1 DEF FarGone
    <2> QED
      BY <1>2, <1>3, <1>4, <1>7, <2>2 DEF InTurn
  <1>9. ASSUME NEW l \in Links, Linking(l), asked = {}, up = {l}, peer = {l}, Informed(l)
        PROVE  Linking(l)'
    <2>1. farUp = {l} /\ channel[l] \in Seq(Current)
      BY <1>9 DEF Linking, Sent
    <2>2. \A k \in Links \ {l} : channel'[k] = channel[k]
      BY <1>5, <1>6, <2>1
    <2>3. channel[l] # <<>> => channel'[l] # <<>>
      BY <1>5, <1>6, <2>1
    <2>4. \A u \in Threads \ {t} : ~Brings(u, l)
      BY <1>2 DEF Brings
    <2>5. Brings(t, l) => Informed(l)'
      <3>0. UNCHANGED remote
        BY <1>0
      <3>1. CASE Render(t) \/ Write(t) \/ Snapshot(t)
        <4>1. Brings(t, l) => Brings(t, l)'
          BY <1>1, <1>2, <1>9, <3>0, <3>1
             DEF Brings, Render, Write, WriteFails, Snapshot, Send, Refresh, RefreshFails
        <4> QED
          BY <4>1 DEF Informed
      <3>2. CASE Send(t)
        <4>1. Brings(t, l) => thread[t].to = {l}
          BY <3>2 DEF Brings, Send
        <4>2. Brings(t, l) => channel'[l] # <<>>
          BY <1>6, <1>9, <2>1, <3>2, <4>1
        <4> QED
          BY <4>2 DEF Informed
      <3>3. CASE Refresh(t) \/ RefreshFails(t)
        BY <3>3 DEF Brings, Refresh, RefreshFails
      <3>4. CASE WriteFails(t)
        <4>1. Brings(t, l) => thread[t].to = {l} /\ remote # {}
          BY <3>4 DEF Brings, WriteFails
        <4> QED
          BY <1>1, <1>2, <3>0, <3>4, <4>1 DEF Informed, Brings, Render, Write, WriteFails,
             Snapshot, Send, Refresh, RefreshFails
      <3> QED
        BY <3>1, <3>2, <3>3, <3>4 DEF Step
    <2>7. l \in untold => l \in untold' \/ channel'[l] # <<>>
      <3>1. CASE Send(t)
        BY <1>6, <1>9, <2>1, <3>1 DEF Send
      <3>2. CASE ~Send(t)
        BY <3>2 DEF Step, Render, Write, WriteFails, Snapshot, Refresh, RefreshFails, missed
      <3> QED
        BY <3>1, <3>2
    <2>6. Informed(l)'
      BY <1>0, <1>9, <2>3, <2>4, <2>5, <2>7 DEF Informed
    <2> QED
      BY <1>0, <1>9, <2>2, <2>6 DEF Linking
  <1> QED
    BY <1>0, <1>2, <1>3, <1>4, <1>7, <1>8, <1>9, BusyTurn DEF InTurn

\* A heartbeat leaves a thread idle, or with the registry it has taken.
LEMMA BeatInTurn ==
    ASSUME TypeOK, Single, Taken, Sent, Filed, InTurn, order' # "overlapped",
           NEW t \in Threads, NEW a \in Agents, Beat(t, a)
    PROVE  Single' /\ Taken' /\ Sent' /\ Filed' /\ InTurn'
  <1> USE DEF near, far, missed
  <1>0. /\ UNCHANGED <<registry, file, near, channel, far, missed, order>>
        /\ UNCHANGED thread \/ (Quiet /\ Goes(t, Doing("refreshing", registry, {}, NoView)))
    BY Calm DEF Beat
  <1>1. CASE UNCHANGED thread
    BY <1>0, <1>1, AsItIs
  <1>2. CASE Quiet /\ Goes(t, Doing("refreshing", registry, {}, NoView))
    <2>1. PICK now \in Works : Goes(t, now) /\ now.at = "refreshing" /\ now.data = registry
      BY <1>2, DoingIsWork, NoViewIsView DEF TypeOK, Places
    <2>2. /\ AllIdle /\ NothingSent /\ asked = {} /\ opening = {}
          /\ \/ up = {} /\ FarGone
             \/ \E l \in Links :
                   /\ up = {l} /\ Linking(l) /\ remote # {}
                   /\ l \in untold \/ \A v \in remote : v.known = registry
      BY <1>2, QuietTurn
    <2>3. /\ Single' /\ thread'[t] = now
          /\ \A u \in Threads \ {t} : thread'[u] = thread[u] /\ thread[u].at = "idle"
      BY <2>1, <2>2, ThreadGoes
    <2>4. thread[t].at = "idle"
      BY <2>2, IdleThreads
    <2>5. Taken' /\ Sent' /\ Filed'
      BY <1>0, <2>1, <2>3, <2>4 DEF Taken, Sent, Filed, Current
    <2>6. NothingSent'
      BY <1>0, <2>2 DEF NothingSent
    <2>7. FarGone => FarGone'
      BY <1>0, <2>2, <2>6 DEF FarGone
    <2>8. ASSUME NEW l \in Links, up = {l}, Linking(l), remote # {},
                 l \in untold \/ \A v \in remote : v.known = registry
          PROVE  Linking(l)'
      <3>1. Informed(l)'
        BY <1>0, <2>8 DEF Informed
      <3> QED
        BY <1>0, <2>2, <2>8, <3>1 DEF Linking
    <2> QED
      BY <2>2, <2>3, <2>5, <2>7, <2>8 DEF InTurn
  <1> QED
    BY <1>0, <1>1, <1>2

\* The link that was asked for is accepted when no thread is at work.
LEMMA AcceptInTurn ==
    ASSUME TypeOK, Single, Taken, Sent, Filed, InTurn, NEW t \in Threads, NEW l \in Links,
           Accept(t, l)
    PROVE  Single' /\ Taken' /\ Sent' /\ Filed' /\ InTurn'
  <1>0. UNCHANGED <<registry, file, channel, opening, farUp, farPeer, chunk, remote,
                    unwritten, order>>
    BY DEF Accept, far, missed
  <1>1. PICK now \in Works : Goes(t, now) /\ now.at = "written" /\ now.to = {l}
    BY DoingIsWork, NoViewIsView DEF Accept, Places
  <1>2. /\ AllIdle /\ asked = {l} /\ up = {} /\ NothingSent
        /\ FarGone \/ Linking(l)
    BY DEF Accept, InTurn, FarGone, Linking, NearGone
  <1>3. asked' = {} /\ peer' = {l} /\ up' = {l}
    BY <1>2 DEF Accept
  <1>4. /\ Single' /\ thread'[t] = now
        /\ \A u \in Threads \ {t} : thread'[u] = thread[u] /\ thread[u].at = "idle"
    BY <1>1, <1>2, ThreadGoes
  <1>5. thread[t].at = "idle"
    BY <1>2, IdleThreads
  <1>6. Taken' /\ Sent' /\ Filed'
    BY <1>0, <1>1, <1>4, <1>5 DEF Taken, Sent, Filed, Current
  <1>7. NothingSent'
    BY <1>0, <1>2 DEF NothingSent
  <1>8. FarGone => FarGone'
    BY <1>0, <1>3, <1>7 DEF FarGone
  <1>9. Informed(l)'
    BY <1>1, <1>4 DEF Informed, Brings
  <1>10. Linking(l) => Linking(l)'
    BY <1>0, <1>3, <1>9 DEF Linking
  <1> QED
    BY <1>2, <1>4, <1>6, <1>8, <1>10 DEF InTurn

\* What an event of the link leaves alone.
LEMMA LinkLeaves ==
    ASSUME Single, Taken, Filed, UNCHANGED <<registry, file, thread, unwritten, order>>
    PROVE  Single' /\ Taken' /\ Filed' /\ AllIdle' = AllIdle /\ Current' = Current
  BY DEF Single, Taken, Filed, AllIdle, Current

\* The events of a link that no snapshot is under way on.
LEMMA LinkInTurn ==
    ASSUME TypeOK, Sent, InTurn, order' # "overlapped", AllIdle' = AllIdle,
           Current' = Current,
           NEW l \in Links, FarOpen(l) \/ FarInstall(l) \/ Drop(l) \/ FarDrop(l)
    PROVE  Sent' /\ InTurn'
  <1> USE DEF near, far, missed
  <1>1. CASE FarOpen(l)
    <2>1. Quiet /\ up = {}
      BY <1>1, Calm
    <2>2. FarGone /\ AllIdle /\ NothingSent /\ asked = {} /\ opening = {} /\ farPeer = peer
      BY <2>1, QuietTurn DEF Quiet
    <2>3. Sent' /\ NothingSent'
      BY <1>1, <2>2 DEF FarOpen, Sent, NothingSent
    <2>4. Linking(l)'
      BY <1>1, <2>1, <2>2, <2>3 DEF FarOpen, Linking, FarGone, NothingSent
    <2> QED
      BY <2>3, <2>4 DEF InTurn
  <1>2. CASE FarInstall(l)
    <2>1. Sent' /\ NothingSent' = NothingSent
      BY <1>2 DEF FarInstall, Sent, NothingSent
    <2>2. FarGone => FarGone'
      BY <1>2, <2>1 DEF FarInstall, FarGone
    <2>3. ASSUME NEW k \in Links, Linking(k) PROVE Linking(k)'
      <3>1. k = l /\ opening' = {} /\ farPeer' = {l} /\ farUp' = {l}
        BY <1>2, <2>3 DEF FarInstall, Linking
      <3>2. Informed(l) => Informed(l)'
        BY <1>2 DEF FarInstall, Informed, Brings
      <3> QED
        BY <1>2, <2>1, <2>3, <3>1, <3>2 DEF FarInstall, Linking
    <2>4. ASSUME NEW k \in Links PROVE ~NearGone(k)
      BY <1>2 DEF FarInstall, NearGone
    <2> QED
      BY <2>1, <2>2, <2>3, <2>4 DEF InTurn
  <1>3. CASE Drop(l)
    <2>1. Sent' /\ NothingSent' = NothingSent
      BY <1>3 DEF Drop, Sent, NothingSent
    <2>2. FarGone => FarGone'
      BY <1>3, <2>1 DEF Drop, FarGone
    <2>3. ASSUME NEW k \in Links, Linking(k) PROVE NearGone(k)'
      <3>1. k = l /\ farUp = {l} /\ up = {l} /\ peer = {l}
        BY <1>3, <2>3 DEF Drop, Linking
      <3>2. Quiet
        BY <1>3, <3>1, Calm
      <3>3. AllIdle /\ NothingSent /\ asked = {} /\ opening = {}
        BY <3>2 DEF Quiet, NothingSent
      <3> QED
        BY <1>3, <2>1, <2>3, <3>1, <3>3 DEF Drop, Linking, NearGone
    <2>4. ASSUME NEW k \in Links PROVE ~NearGone(k)
      BY <1>3 DEF Drop, NearGone
    <2> QED
      BY <2>1, <2>2, <2>3, <2>4 DEF InTurn
  <1>4. CASE FarDrop(l)
    <2>1. ~FarGone
      BY <1>4 DEF FarDrop, FarGone
    <2>2. PICK k \in Links : Linking(k) \/ NearGone(k)
      BY <2>1 DEF InTurn
    <2>3. /\ k = l /\ farUp' = {} /\ NothingSent /\ peer = up
          /\ asked # {} => up = {} /\ AllIdle
          /\ \A i, j \in asked : i = j
          /\ l \in farPeer \/ remote = {}
      <3>1. k = l /\ farUp' = {}
        BY <1>4, <2>2 DEF FarDrop, Linking, NearGone
      <3>2. CASE NearGone(k)
        BY <3>1, <3>2 DEF NearGone
      <3>3. CASE Linking(k) /\ asked # {}
        BY <3>1, <3>3 DEF Linking
      <3>4. CASE Linking(k) /\ asked = {}
        <4>1. Quiet
          BY <1>4, <3>1, <3>4, Calm DEF Linking
        <4>2. NothingSent /\ opening = {}
          BY <4>1 DEF Quiet, NothingSent
        <4> QED
          BY <3>1, <3>4, <4>2 DEF Linking
      <3> QED
        BY <2>2, <3>1, <3>2, <3>3, <3>4
    <2>4. Sent' /\ NothingSent'
      <3>1. <<>> \in Seq(Current)
        OBVIOUS
      <3>2. channel' = [channel EXCEPT ![l] = <<>>] /\ chunk' = chunk
        BY <1>4 DEF FarDrop
      <3>3. \A j \in Links : channel'[j] = <<>>
        BY <2>3, <3>2 DEF NothingSent, TypeOK
      <3> QED
        BY <2>3, <3>1, <3>2, <3>3 DEF Sent, NothingSent
    <2>5. FarGone'
      BY <1>4, <2>3, <2>4 DEF FarDrop, FarGone
    <2> QED
      BY <2>4, <2>5 DEF InTurn
  <1> QED
    BY <1>1, <1>2, <1>3, <1>4

\* Snapshots arrive and are handled on the link there is, and are of the registry.
LEMMA ReadInTurn ==
    ASSUME TypeOK, Sent, InTurn, AllIdle' = AllIdle, Current' = Current, UNCHANGED registry,
           NEW l \in Links, Receive(l) \/ Handle(l)
    PROVE  Sent' /\ InTurn'
  <1> USE DEF near, far, missed
  <1>0. channel[l] \in Seq(Current) /\ chunk[l] \in Seq(Current)
    BY DEF Sent
  <1>1. Linking(l) /\ asked = {} /\ up = {l} /\ peer = {l}
    <2>1. ~NothingSent
      BY DEF Receive, Handle, NothingSent
    <2>2. PICK k \in Links : Linking(k) /\ asked = {} /\ up = {k} /\ peer = {k}
      BY <2>1 DEF InTurn, FarGone, NearGone, Linking
    <2>3. k = l
      BY <2>2 DEF Linking, Receive, Handle
    <2> QED
      BY <2>2, <2>3
  <1>2. UNCHANGED <<up, peer, asked, opening, farUp, farPeer, thread>>
    BY DEF Receive, Handle
  <1>3. CASE Receive(l)
    <2>1. /\ chunk' = [chunk EXCEPT ![l] = channel[l]] /\ channel[l] # <<>>
          /\ channel' = [channel EXCEPT ![l] = <<>>]
      BY <1>3 DEF Receive
    <2>2. /\ chunk'[l] = channel[l] /\ channel'[l] = <<>>
          /\ \A k \in Links \ {l} : chunk'[k] = chunk[k] /\ channel'[k] = channel[k]
      BY <2>1 DEF TypeOK
    <2>3. Sent'
      <3>1. <<>> \in Seq(Current)
        OBVIOUS
      <3> QED
        BY <1>0, <2>2, <3>1 DEF Sent
    <2>4. Informed(l)'
      BY <2>1, <2>2 DEF Informed
    <2>5. Linking(l)'
      BY <1>1, <1>2, <2>2, <2>4 DEF Linking
    <2> QED
      BY <2>3, <2>5 DEF InTurn
  <1>4. CASE Handle(l)
    <2>1. /\ chunk' = [chunk EXCEPT ![l] = Tail(@)] /\ chunk[l] # <<>>
          /\ remote' = {Head(chunk[l])} /\ channel' = channel
      BY <1>4 DEF Handle
    <2>2. chunk'[l] = Tail(chunk[l]) /\ \A k \in Links \ {l} : chunk'[k] = chunk[k]
      BY <2>1 DEF TypeOK
    <2>3. Tail(chunk[l]) \in Seq(Current) /\ Head(chunk[l]) \in Current
      BY <1>0, <2>1
    <2>4. Sent'
      BY <2>1, <2>2, <2>3 DEF Sent
    <2>5. Informed(l)'
      BY <2>1, <2>3 DEF Informed, Current
    <2>6. Linking(l)'
      BY <1>1, <1>2, <2>1, <2>2, <2>5 DEF Linking
    <2> QED
      BY <2>4, <2>6 DEF InTurn
  <1> QED
    BY <1>3, <1>4

LEMMA StepOrderly == TypeOK /\ Orderly /\ [Next]_vars => Orderly'
  <1> SUFFICES ASSUME TypeOK, Orderly, [Next]_vars, order' # "overlapped"
               PROVE  Single' /\ Taken' /\ Sent' /\ Filed' /\ InTurn'
    BY DEF Orderly
  <1>1. ASSUME order # "overlapped" PROVE Single /\ Taken /\ Sent /\ Filed /\ InTurn
    BY <1>1 DEF Orderly
  <1>2. ASSUME NEW t \in Threads, Change(t)
        PROVE  Single' /\ Taken' /\ Sent' /\ Filed' /\ InTurn'
    BY <1>1, <1>2, Calm, ChangeInTurn
  <1>3. ASSUME NEW t \in Threads, Step(t)
        PROVE  Single' /\ Taken' /\ Sent' /\ Filed' /\ InTurn'
    <2>1. UNCHANGED order
      BY <1>3 DEF Step, Render, Write, WriteFails, Snapshot, Send, Refresh, RefreshFails
    <2> QED
      BY <1>1, <1>3, <2>1, StepInTurn
  <1>4. ASSUME NEW t \in Threads, NEW a \in Agents, Beat(t, a)
        PROVE  Single' /\ Taken' /\ Sent' /\ Filed' /\ InTurn'
    BY <1>1, <1>4, Calm, BeatInTurn
  <1>5. ASSUME NEW t \in Threads, NEW l \in Links, Accept(t, l)
        PROVE  Single' /\ Taken' /\ Sent' /\ Filed' /\ InTurn'
    <2>1. UNCHANGED order
      BY <1>5 DEF Accept
    <2> QED
      BY <1>1, <1>5, <2>1, AcceptInTurn
  <1>6. ASSUME NEW a \in Agents, Stalls(a)
        PROVE  Single' /\ Taken' /\ Sent' /\ Filed' /\ InTurn'
    <2>1. UNCHANGED <<registry, file, thread, near, channel, far, missed, order>>
      BY <1>6 DEF Stalls
    <2> QED
      BY <1>1, <2>1, AsItIs
  <1>7. ASSUME NEW l \in Links, FarOpen(l) \/ FarInstall(l) \/ Drop(l) \/ FarDrop(l)
                                \/ Receive(l) \/ Handle(l)
        PROVE  Single' /\ Taken' /\ Sent' /\ Filed' /\ InTurn'
    <2>1. UNCHANGED <<registry, file, thread, unwritten, order>>
      BY <1>7, Calm DEF missed, FarOpen, FarInstall, Drop, FarDrop, Receive, Handle
    <2>2. Single /\ Taken /\ Sent /\ Filed /\ InTurn
      BY <1>1, <2>1
    <2>3. Single' /\ Taken' /\ Filed' /\ AllIdle' = AllIdle /\ Current' = Current
      BY <2>1, <2>2, LinkLeaves
    <2> QED
      BY <1>7, <2>1, <2>2, <2>3, LinkInTurn, ReadInTurn
  <1>8. CASE UNCHANGED vars
    <2>1. UNCHANGED <<registry, file, thread, near, channel, far, missed, order>>
      BY <1>8 DEF vars
    <2> QED
      BY <1>1, <2>1, AsItIs
  <1> QED
    BY <1>2, <1>3, <1>4, <1>5, <1>6, <1>7, <1>8 DEF Next

-----------------------------------------------------------------------------
\* The inductive invariant of the mirror's threads and links.
THEOREM Invariance == Spec => []IInv
  <1>1. IInv /\ [Next]_vars => IInv'
    BY StepType, StepTold DEF IInv
  <1> QED
    BY InitInv, <1>1, PTL DEF Spec

\* Type correctness of the registry's views, for any agents, threads and links.
THEOREM Typing == Spec => []TypeOK
  <1>1. IInv => TypeOK
    BY DEF IInv
  <1> QED
    BY Invariance, <1>1, PTL

\* NoChangeMissed: _persist_and_notify and the links' greetings together send every
\* state of the registry on the link there is, however many links replace each other.
THEOREM EveryChangeIsSent == Spec => []NoChangeMissed
  <1>1. IInv => NoChangeMissed
    BY IdleIsWork DEF IInv, Told, NoChangeMissed, AllIdle, Owed
  <1> QED
    BY Invariance, <1>1, PTL

\* What events one after the other leave between any two of them.
THEOREM OrderlyInvariance == Spec => []Orderly
  <1>1. IInv /\ Orderly /\ [Next]_vars => Orderly'
    BY StepOrderly DEF IInv
  <1> QED
    BY Invariance, InitOrderly, <1>1, PTL DEF Spec

\* OrderlyViewsAreTrue: registers, releases, drops and new links that do not overlap
\* leave a file that names the registered agents and a peer that knows them if and only
\* if it is linked, whatever steps of threads and links each of them takes.
THEOREM ViewsAreTrue == Spec => []OrderlyViewsAreTrue
  <1>1. Orderly => OrderlyViewsAreTrue
    <2> SUFFICES ASSUME Orderly, Quiet, order # "overlapped"
                 PROVE  /\ order = "orderly" => file = registry \/ unwritten
                        /\ remote # {} <=> up # {}
                        /\ up \subseteq untold \/ \A v \in remote : v.known = registry
      BY DEF OrderlyViewsAreTrue
    <2>1. AllIdle /\ InTurn /\ Filed
      BY DEF Quiet, Orderly
    <2>2. order = "orderly" => file = registry \/ unwritten
      BY <2>1, IdleThreads DEF Filed
    <2>3. /\ remote # {} <=> up # {}
          /\ up \subseteq untold \/ \A v \in remote : v.known = registry
      BY <2>1, QuietTurn DEF FarGone
    <2> QED
      BY <2>2, <2>3
  <1> QED
    BY OrderlyInvariance, <1>1, PTL
=============================================================================
