--------------------------- MODULE PeerRelayProofs ---------------------------
(***************************************************************************)
(* Proofs about PeerRelay, for any number of requests and links: a request *)
(* that was sent has one answer, a dead link keeps none waiting, and what  *)
(* its requester is told is what Requests promises.                        *)
(***************************************************************************)
EXTENDS PeerRelay, SequenceTheorems, TLAPS

\* A request is put in the map after it was asked and is out of it when its
\* thread reports; in between it is in one place, the thread that asked
\* notwithstanding.
Enlisted == {"enlisted", "sending", "sent", "dropping", "failed", "raised"}

InOnePlace(r) ==
    \/ r \in pending /\ owed[r] = "none" /\ answers[r] = <<>>
    \/ r \notin pending /\ owed[r] # "none" /\ answers[r] = <<>>
    \/ r \notin pending /\ owed[r] = "none" /\ Len(answers[r]) = 1

Places ==
    \A r \in Reqs :
        /\ req[r] \in Enlisted => InOnePlace(r) /\ via[r] \in Links
        /\ req[r] = "found" => via[r] \in Links
        /\ req[r] \in {"new", "found"} => owed[r] = "none" /\ answers[r] = <<>>
        /\ r \in pending => req[r] \in Enlisted

IInv ==
    /\ TypeOK
    /\ Places
    /\ DeadLinkHoldsNoRequest

LEMMA InitInv == Init => IInv
  <1> SUFFICES ASSUME Init PROVE IInv
    OBVIOUS
  <1> USE LinkAssumption DEF Init
  <1>1. TypeOK
    BY DEF TypeOK, Result
  <1>2. Places /\ DeadLinkHoldsNoRequest
    BY DEF Places, DeadLinkHoldsNoRequest, Enlisted, InOnePlace
  <1> QED
    BY <1>1, <1>2 DEF IInv

\* What a peer may make of a request, and say of it in its ack.
LEMMA HandlingKinds ==
    ASSUME NEW r, NEW handling \in Handlings(r)
    PROVE  /\ handling.how \in {"done", "failed"} /\ handling.ok \in BOOLEAN
           /\ handling.ok => handling.how = "done" \/ r \in Relays
           /\ ~handling.ok => handling.how = "failed" \/ r \in Spawns
  <1>1. \/ handling = [how |-> "done", ok |-> TRUE]
        \/ handling = [how |-> "failed", ok |-> FALSE]
        \/ handling = [how |-> "failed", ok |-> TRUE] /\ r \in Relays
        \/ handling = [how |-> "done", ok |-> FALSE] /\ r \in Spawns
    BY Zenon DEF Handlings
  <1>2. CASE handling = [how |-> "done", ok |-> TRUE]
    BY <1>2
  <1>3. CASE handling = [how |-> "failed", ok |-> FALSE]
    BY <1>3
  <1>4. CASE handling = [how |-> "failed", ok |-> TRUE] /\ r \in Relays
    BY <1>4
  <1>5. CASE handling = [how |-> "done", ok |-> FALSE] /\ r \in Spawns
    BY <1>5
  <1> QED
    BY <1>1, <1>2, <1>3, <1>4, <1>5

LEMMA TypeStep == TypeOK /\ [Next]_vars => TypeOK'
  <1> SUFFICES ASSUME TypeOK, [Next]_vars PROVE TypeOK'
    OBVIOUS
  <1> USE LinkAssumption DEF TypeOK, Result, vars, asking, remote, Goto, TakeOut, Tell, BeginDrop,
                         Connected
  <1>1. ASSUME NEW r \in Reqs, Ask(r) PROVE TypeOK'
    <2>1. CASE FindLink(r)
      BY <2>1 DEF FindLink
    <2>2. CASE Enlist(r)
      BY <2>2 DEF Enlist
    <2>3. CASE CheckLink(r)
      BY <2>3 DEF CheckLink
    <2>4. CASE Transmit(r)
      BY <2>4 DEF Transmit
    <2>5. CASE TransmitFails(r)
      BY <2>5 DEF TransmitFails
    <2>6. CASE SendReturns(r)
      BY <2>6 DEF SendReturns
    <2>7. CASE TransmitLate(r)
      BY <2>7 DEF TransmitLate
    <2>8. CASE Withdraw(r)
      BY <2>8 DEF Withdraw
    <2>9. CASE ReportUnsent(r)
      BY <2>9 DEF ReportUnsent
    <2> QED
      BY <1>1, <2>1, <2>2, <2>3, <2>4, <2>5, <2>6, <2>7, <2>8, <2>9 DEF Ask
  <1>2. ASSUME NEW r \in Reqs, Answer(r) \/ Ages(r) PROVE TypeOK'
    <2>1. CASE Answer(r)
      BY <2>1 DEF Answer, Tell
    <2>2. CASE Ages(r)
      BY <2>2 DEF Ages
    <2> QED
      BY <1>2, <2>1, <2>2
  <1>3. ASSUME NEW l \in Links, LinkOpens(l) \/ LinkDrops(l) \/ PeerDown(l)
        PROVE  TypeOK'
    <2>1. CASE LinkOpens(l)
      BY <2>1 DEF LinkOpens
    <2>2. CASE LinkDrops(l)
      BY <2>2 DEF LinkDrops
    <2>3. CASE PeerDown(l)
      BY <2>3 DEF PeerDown
    <2> QED
      BY <1>3, <2>1, <2>2, <2>3
  <1>4. ASSUME NEW l \in Links, ReadAck(l) PROVE TypeOK'
    <2>1. /\ Head(back[l]) \in [req : Reqs, ok : BOOLEAN]
          /\ Tail(back[l]) \in Seq([req : Reqs, ok : BOOLEAN])
      <3>1. back[l] \in Seq([req : Reqs, ok : BOOLEAN]) /\ back[l] # <<>>
        BY <1>4 DEF ReadAck
      <3> QED
        BY <3>1, HeadTailProperties, Zenon
    <2>2. back' \in [Links -> Seq([req : Reqs, ok : BOOLEAN])]
      BY <1>4, <2>1 DEF ReadAck
    <2>3. owed' \in [Reqs -> Result \cup {"none"}]
      BY <1>4, <2>1 DEF ReadAck
    <2>4. pending' \subseteq Reqs /\ young' \subseteq pending'
      BY <1>4 DEF ReadAck
    <2> QED
      BY <1>4, <2>2, <2>3, <2>4 DEF ReadAck
  <1>5. ASSUME NEW l \in Links, PeerHandles(l) PROVE TypeOK'
    <2>1. Head(out[l]) \in Reqs /\ Tail(out[l]) \in Seq(Reqs)
      <3>1. out[l] \in Seq(Reqs) /\ out[l] # <<>>
        BY <1>5 DEF PeerHandles
      <3> QED
        BY <3>1, HeadTailProperties, Zenon
    <2>2. out' \in [Links -> Seq(Reqs)]
      BY <1>5, <2>1 DEF PeerHandles
    <2>3. ASSUME NEW handling \in Handlings(Head(out[l]))
          PROVE  /\ Append(back[l], [req |-> Head(out[l]), ok |-> handling.ok])
                       \in Seq([req : Reqs, ok : BOOLEAN])
                 /\ handling.how \in {"done", "failed"}
      <3>1. handling.ok \in BOOLEAN /\ handling.how \in {"done", "failed"}
        BY <2>3, HandlingKinds
      <3>2. [req |-> Head(out[l]), ok |-> handling.ok] \in [req : Reqs, ok : BOOLEAN]
        BY <2>1, <3>1
      <3>3. back[l] \in Seq([req : Reqs, ok : BOOLEAN])
        OBVIOUS
      <3>4. Append(back[l], [req |-> Head(out[l]), ok |-> handling.ok])
               \in Seq([req : Reqs, ok : BOOLEAN])
        BY <3>2, <3>3, AppendProperties, Zenon
      <3> QED
        BY <3>1, <3>4
    <2>4. back' \in [Links -> Seq([req : Reqs, ok : BOOLEAN])]
      BY <1>5, <2>3 DEF PeerHandles
    <2>5. outcome' \in [Reqs -> {"none", "done", "failed"}]
      BY <1>5, <2>3 DEF PeerHandles
    <2> QED
      BY <1>5, <2>2, <2>4, <2>5 DEF PeerHandles
  <1>6. CASE Expire
    BY <1>6 DEF Expire
  <1>7. CASE CloseAll
    BY <1>7 DEF CloseAll
  <1>8. CASE Exit
    BY <1>8 DEF Exit
  <1>9. CASE UNCHANGED vars
    BY <1>9
  <1> QED
    BY <1>1, <1>2, <1>3, <1>4, <1>5, <1>6, <1>7, <1>8, <1>9 DEF Next, BrokerStep

\* Type correctness for any requests and links.
THEOREM Typing == Spec => []TypeOK
  <1>1. Init => TypeOK
    BY InitInv DEF IInv
  <1> QED
    BY <1>1, TypeStep, PTL DEF Spec

\* The ack, the drop, the expiry and the shutdown each move a request from
\* pending to owed, and only the thread that owes it answers.
LEMMA PlacesStep == IInv /\ [Next]_vars => Places'
  <1> SUFFICES ASSUME IInv, [Next]_vars PROVE Places'
    OBVIOUS
  <1> USE LinkAssumption DEF IInv, TypeOK, Result, Places, Enlisted, InOnePlace, TakeOut,
                         Tell, BeginDrop, Connected, vars, asking, remote, Goto
  <1>1. ASSUME NEW r \in Reqs, Ask(r) PROVE Places'
    <2>1. CASE FindLink(r)
      BY <2>1 DEF FindLink
    <2>2. CASE Enlist(r)
      BY <2>2 DEF Enlist
    <2>3. CASE CheckLink(r)
      BY <2>3 DEF CheckLink
    <2>4. CASE Transmit(r)
      BY <2>4 DEF Transmit
    <2>5. CASE TransmitFails(r)
      BY <2>5 DEF TransmitFails
    <2>6. CASE SendReturns(r)
      BY <2>6 DEF SendReturns
    <2>7. CASE TransmitLate(r)
      BY <2>7 DEF TransmitLate
    <2>8. CASE Withdraw(r)
      BY <2>8 DEF Withdraw
    <2>9. CASE ReportUnsent(r)
      BY <2>9 DEF ReportUnsent
    <2> QED
      BY <1>1, <2>1, <2>2, <2>3, <2>4, <2>5, <2>6, <2>7, <2>8, <2>9 DEF Ask
  <1>2. ASSUME NEW r \in Reqs, Answer(r) \/ Ages(r) PROVE Places'
    <2>1. CASE Answer(r)
      BY <2>1 DEF Answer, Tell
    <2>2. CASE Ages(r)
      BY <2>2 DEF Ages
    <2> QED
      BY <1>2, <2>1, <2>2
  <1>3. ASSUME NEW l \in Links, LinkOpens(l) \/ LinkDrops(l) \/ PeerDown(l)
        PROVE  Places'
    <2>1. CASE LinkOpens(l)
      BY <2>1 DEF LinkOpens
    <2>2. CASE LinkDrops(l)
      BY <2>2 DEF LinkDrops
    <2>3. CASE PeerDown(l)
      BY <2>3 DEF PeerDown
    <2> QED
      BY <1>3, <2>1, <2>2, <2>3
  <1>4. ASSUME NEW l \in Links, ReadAck(l) PROVE Places'
    BY <1>4 DEF ReadAck
  <1>5. ASSUME NEW l \in Links, PeerHandles(l) PROVE Places'
    BY <1>5 DEF PeerHandles
  <1>6. CASE Expire
    BY <1>6 DEF Expire
  <1>7. CASE CloseAll
    BY <1>7 DEF CloseAll
  <1>8. CASE Exit
    BY <1>8 DEF Exit
  <1>9. CASE UNCHANGED vars
    BY <1>9
  <1> QED
    BY <1>1, <1>2, <1>3, <1>4, <1>5, <1>6, <1>7, <1>8, <1>9 DEF Next, BrokerStep

\* A link goes down in the step that takes its requests out, and no send
\* begins on one that is down.
LEMMA DeadLinkStep == IInv /\ [Next]_vars => DeadLinkHoldsNoRequest'
  <1> SUFFICES ASSUME IInv, [Next]_vars PROVE DeadLinkHoldsNoRequest'
    OBVIOUS
  <1> USE LinkAssumption DEF IInv, TypeOK, Places, Enlisted, InOnePlace, DeadLinkHoldsNoRequest,
                         TakeOut, Tell, BeginDrop, Connected, vars, asking, remote, Goto
  <1>1. ASSUME NEW r \in Reqs, Ask(r) PROVE DeadLinkHoldsNoRequest'
    <2>1. CASE FindLink(r)
      BY <2>1 DEF FindLink
    <2>2. CASE Enlist(r)
      BY <2>2 DEF Enlist
    <2>3. CASE CheckLink(r)
      BY <2>3 DEF CheckLink
    <2>4. CASE Transmit(r)
      BY <2>4 DEF Transmit
    <2>5. CASE TransmitFails(r)
      BY <2>5 DEF TransmitFails
    <2>6. CASE SendReturns(r)
      BY <2>6 DEF SendReturns
    <2>7. CASE TransmitLate(r)
      BY <2>7 DEF TransmitLate
    <2>8. CASE Withdraw(r)
      BY <2>8 DEF Withdraw
    <2>9. CASE ReportUnsent(r)
      BY <2>9 DEF ReportUnsent
    <2> QED
      BY <1>1, <2>1, <2>2, <2>3, <2>4, <2>5, <2>6, <2>7, <2>8, <2>9 DEF Ask
  <1>2. ASSUME NEW r \in Reqs, Answer(r) \/ Ages(r) PROVE DeadLinkHoldsNoRequest'
    <2>1. CASE Answer(r)
      BY <2>1 DEF Answer, Tell
    <2>2. CASE Ages(r)
      BY <2>2 DEF Ages
    <2> QED
      BY <1>2, <2>1, <2>2
  <1>3. ASSUME NEW l \in Links, LinkOpens(l) \/ LinkDrops(l) \/ PeerDown(l)
        PROVE  DeadLinkHoldsNoRequest'
    <2>1. CASE LinkOpens(l)
      BY <2>1 DEF LinkOpens
    <2>2. CASE LinkDrops(l)
      BY <2>2 DEF LinkDrops
    <2>3. CASE PeerDown(l)
      BY <2>3 DEF PeerDown
    <2> QED
      BY <1>3, <2>1, <2>2, <2>3
  <1>4. ASSUME NEW l \in Links, ReadAck(l) PROVE DeadLinkHoldsNoRequest'
    BY <1>4 DEF ReadAck
  <1>5. ASSUME NEW l \in Links, PeerHandles(l) PROVE DeadLinkHoldsNoRequest'
    BY <1>5 DEF PeerHandles
  <1>6. CASE Expire
    BY <1>6 DEF Expire
  <1>7. CASE CloseAll
    BY <1>7 DEF CloseAll
  <1>8. CASE Exit
    BY <1>8 DEF Exit
  <1>9. CASE UNCHANGED vars
    BY <1>9
  <1> QED
    BY <1>1, <1>2, <1>3, <1>4, <1>5, <1>6, <1>7, <1>8, <1>9 DEF Next, BrokerStep

\* IInv is inductive: it holds initially and every step of the relay keeps it.
THEOREM Invariance == Spec => []IInv
  <1>1. IInv /\ [Next]_vars => IInv'
    BY TypeStep, PlacesStep, DeadLinkStep DEF IInv
  <1> QED
    BY InitInv, <1>1, PTL DEF Spec

\* However ack, drop, expiry and shutdown race, a request that was sent is
\* pending, owed one answer, or answered once (_finish_peer_relay, _peer_down,
\* _expire_peer_relays, _close_all).
THEOREM OneAnswer == Spec => []SentRequestHasOneAnswer
  <1>1. IInv => SentRequestHasOneAnswer
    BY DEF IInv, Places, Enlisted, InOnePlace, SentRequestHasOneAnswer
  <1> QED
    BY <1>1, Invariance, PTL

\* No request waits on a link that is down (_peer_down's purge by identity).
THEOREM NoneOnDeadLink == Spec => []DeadLinkHoldsNoRequest
  <1>1. IInv => DeadLinkHoldsNoRequest
    BY DEF IInv
  <1> QED
    BY <1>1, Invariance, PTL

HostStep ==
    current # NoLink /\ current' = NoLink
        => up[current] = "dropping" \/ broker' # broker

LEMMA LinkStep == TypeOK /\ [Next]_vars => HostStep
  <1> SUFFICES ASSUME TypeOK, [Next]_vars PROVE HostStep
    OBVIOUS
  <1> USE LinkAssumption DEF HostStep, TypeOK, TakeOut, Tell, BeginDrop, vars, asking, remote, Goto
  <1>1. ASSUME NEW r \in Reqs, Ask(r) PROVE HostStep
    <2>1. CASE FindLink(r)
      BY <2>1 DEF FindLink
    <2>2. CASE Enlist(r)
      BY <2>2 DEF Enlist
    <2>3. CASE CheckLink(r)
      BY <2>3 DEF CheckLink
    <2>4. CASE Transmit(r)
      BY <2>4 DEF Transmit
    <2>5. CASE TransmitFails(r)
      BY <2>5 DEF TransmitFails
    <2>6. CASE SendReturns(r)
      BY <2>6 DEF SendReturns
    <2>7. CASE TransmitLate(r)
      BY <2>7 DEF TransmitLate
    <2>8. CASE Withdraw(r)
      BY <2>8 DEF Withdraw
    <2>9. CASE ReportUnsent(r)
      BY <2>9 DEF ReportUnsent
    <2> QED
      BY <1>1, <2>1, <2>2, <2>3, <2>4, <2>5, <2>6, <2>7, <2>8, <2>9 DEF Ask
  <1>2. ASSUME NEW r \in Reqs, Answer(r) \/ Ages(r) PROVE HostStep
    <2>1. CASE Answer(r)
      BY <2>1 DEF Answer, Tell
    <2>2. CASE Ages(r)
      BY <2>2 DEF Ages
    <2> QED
      BY <1>2, <2>1, <2>2
  <1>3. ASSUME NEW l \in Links, LinkOpens(l) \/ LinkDrops(l) \/ PeerDown(l)
        PROVE  HostStep
    <2>1. CASE LinkOpens(l)
      BY <2>1 DEF LinkOpens
    <2>2. CASE LinkDrops(l)
      BY <2>2 DEF LinkDrops
    <2>3. CASE PeerDown(l)
      BY <2>3 DEF PeerDown
    <2> QED
      BY <1>3, <2>1, <2>2, <2>3
  <1>4. ASSUME NEW l \in Links, ReadAck(l) PROVE HostStep
    BY <1>4 DEF ReadAck
  <1>5. ASSUME NEW l \in Links, PeerHandles(l) PROVE HostStep
    BY <1>5 DEF PeerHandles
  <1>6. CASE Expire
    BY <1>6 DEF Expire
  <1>7. CASE CloseAll
    BY <1>7 DEF CloseAll
  <1>8. CASE Exit
    BY <1>8 DEF Exit
  <1>9. CASE UNCHANGED vars
    BY <1>9
  <1> QED
    BY <1>1, <1>2, <1>3, <1>4, <1>5, <1>6, <1>7, <1>8, <1>9 DEF Next, BrokerStep

\* A replaced link's drop leaves its successor the host's link (was_current).
THEOREM NewerLinkStays == Spec => HostKeepsNewerLink
  <1>1. TypeOK /\ [Next]_vars => [HostStep]_vars
    BY LinkStep
  <1>2. [][HostStep]_vars <=> HostKeepsNewerLink
    BY PTL DEF HostKeepsNewerLink, HostStep
  <1> QED
    BY <1>1, <1>2, Typing, PTL DEF Spec

-----------------------------------------------------------------------------
(* What the requester is told is what Requests promises                    *)

\* A request the peer has yet to read may still be handled: it can have been
\* given up, and no more than that.
MayYetBeHandled(r) ==
    /\ req[r] = "sent" /\ outcome[r] = "none"
    /\ owed[r] \in {"none", "undeliverable"}
    /\ answers[r] \in {<<>>, Promise!GivenUp}

\* A request goes out once, on the link its thread found.
InTransit ==
    \A l \in Links :
        /\ \A i \in 1..Len(out[l]) :
              MayYetBeHandled(out[l][i]) /\ via[out[l][i]] = l
        /\ \A i, j \in 1..Len(out[l]) : out[l][i] = out[l][j] => i = j

\* What the peer made of a request bears out an ok, or a refusal, of it.
BearsOutOk(r) == outcome[r] = "done" \/ (r \in Relays /\ outcome[r] = "failed")

BearsOutRefusal(r) == outcome[r] = "failed" \/ (r \in Spawns /\ outcome[r] = "done")

BearsOut(r, ok) == IF ok THEN BearsOutOk(r) ELSE BearsOutRefusal(r)

\* The peer handles only what was sent, acks what it has read, and its ack is
\* borne out for good: a request it has handled is not sent again.
Handled ==
    /\ \A r \in Reqs : outcome[r] # "none" => req[r] = "sent"
    /\ \A l \in Links : \A i \in 1..Len(back[l]) :
          /\ req[back[l][i].req] = "sent"
          /\ BearsOut(back[l][i].req, back[l][i].ok)
          /\ \A k \in Links : \A j \in 1..Len(out[k]) : out[k][j] # back[l][i].req
    /\ \A r \in Reqs : /\ owed[r] = "ok" => BearsOutOk(r)
                       /\ owed[r] = "refused" => BearsOutRefusal(r)

\* A request that never left is only ever given up: by its own thread, and
\* once more if another had taken it out before that thread withdrew it.
Unsent ==
    \A r \in Reqs :
        /\ req[r] # "sent" => owed[r] \in {"none", "undeliverable"}
        /\ req[r] \notin {"sent", "unsent"} =>
              \/ answers[r] = <<>>
              \/ owed[r] = "none" /\ answers[r] = Promise!GivenUp
        /\ req[r] = "unsent" /\ owed[r] # "none" => answers[r] = Promise!GivenUp

RelayInv == InTransit /\ Handled /\ Unsent

LEMMA RelayInit == Init => RelayInv
  BY DEF Init, RelayInv, InTransit, Handled, Unsent

LEMMA FirstAnswer == \A answer \in Result : Append(<<>>, answer) = <<answer>>
  BY DEF Result

LEMMA ElementTypes ==
    ASSUME TypeOK, NEW k \in Links
    PROVE  /\ \A i \in 1..Len(out[k]) : out[k][i] \in Reqs
           /\ \A i \in 1..Len(back[k]) :
                 back[k][i].req \in Reqs /\ back[k][i].ok \in BOOLEAN
  <1>1. out[k] \in Seq(Reqs) /\ back[k] \in Seq([req : Reqs, ok : BOOLEAN])
    BY DEF TypeOK
  <1>2. ASSUME NEW i \in 1..Len(out[k]) PROVE out[k][i] \in Reqs
    BY <1>1, ElementOfSeq
  <1>3. ASSUME NEW i \in 1..Len(back[k])
        PROVE  back[k][i].req \in Reqs /\ back[k][i].ok \in BOOLEAN
    <2>1. back[k][i] \in [req : Reqs, ok : BOOLEAN]
      BY <1>1, ElementOfSeq
    <2> QED
      BY <2>1
  <1> QED
    BY <1>2, <1>3

\* While nothing is sent or read it is enough that each request that may yet be
\* handled may still be.
LEMMA StillInTransit ==
    ASSUME IInv, RelayInv, UNCHANGED out,
           \A x \in Reqs : MayYetBeHandled(x) =>
              MayYetBeHandled(x)' /\ via'[x] = via[x]
    PROVE  InTransit'
  <1>1. TypeOK /\ InTransit
    BY DEF IInv, RelayInv
  <1> QED
    BY <1>1, ElementTypes DEF InTransit

\* One that a drop, the sweep or the shutdown takes out may still be.
LEMMA TransitGivenUp ==
    ASSUME IInv, RelayInv, UNCHANGED <<req, via, out, answers, outcome>>,
           NEW rs, TakeOut(rs, "undeliverable")
    PROVE  InTransit'
  <1>1. \A x \in Reqs : MayYetBeHandled(x) => MayYetBeHandled(x)'
    BY DEF MayYetBeHandled, TakeOut
  <1> QED
    BY <1>1, StillInTransit

\* A request goes out for the first time.
LEMMA TransitTransmit ==
    ASSUME IInv, RelayInv, NEW r \in Reqs, Transmit(r)
    PROVE  InTransit'
  <1>1. TypeOK /\ Places /\ InTransit /\ Handled /\ Unsent
    BY DEF IInv, RelayInv
  <1>2. /\ UNCHANGED <<via, owed, answers, outcome>>
        /\ req[r] = "sending" /\ req'[r] = "sent"
        /\ \A x \in Reqs \ {r} : req'[x] = req[x]
        /\ via[r] \in Links
    BY <1>1 DEF Transmit, Goto, TypeOK, Places, Enlisted
  <1>3. /\ \A k \in Links : k # via[r] => out'[k] = out[k]
        /\ Len(out'[via[r]]) = Len(out[via[r]]) + 1
        /\ \A i \in 1..Len(out[via[r]]) : out'[via[r]][i] = out[via[r]][i]
        /\ out'[via[r]][Len(out[via[r]]) + 1] = r
        /\ Len(out[via[r]]) \in Nat
    BY <1>1, <1>2 DEF Transmit, TypeOK
  <1>4. MayYetBeHandled(r)'
    BY <1>1, <1>2 DEF Handled, Unsent, MayYetBeHandled
  <1>5. ASSUME NEW k \in Links, NEW i \in 1..Len(out[k])
        PROVE  /\ out[k][i] \in Reqs \ {r} /\ via[out[k][i]] = k
               /\ MayYetBeHandled(out[k][i])
    BY <1>1, <1>2, ElementTypes DEF InTransit, MayYetBeHandled
  <1>6. ASSUME NEW k \in Links, NEW i \in 1..Len(out'[k])
        PROVE  \/ i \in 1..Len(out[k]) /\ out'[k][i] = out[k][i]
               \/ k = via[r] /\ i = Len(out[k]) + 1 /\ out'[k][i] = r
    BY <1>3
  <1>7. ASSUME NEW k \in Links, NEW i \in 1..Len(out'[k])
        PROVE  (MayYetBeHandled(out[k][i]) /\ via[out[k][i]] = k)'
    <2>1. CASE i \in 1..Len(out[k]) /\ out'[k][i] = out[k][i]
      BY <1>2, <1>5, <2>1 DEF MayYetBeHandled
    <2>2. CASE k = via[r] /\ out'[k][i] = r
      BY <1>2, <1>4, <2>2 DEF MayYetBeHandled
    <2> QED
      BY <1>6, <2>1, <2>2
  <1>8. ASSUME NEW k \in Links, NEW i \in 1..Len(out'[k]), NEW j \in 1..Len(out'[k]),
               out'[k][i] = out'[k][j]
        PROVE  i = j
    <2>1. CASE i \in 1..Len(out[k]) /\ j \in 1..Len(out[k])
      BY <1>1, <1>6, <1>8, <2>1 DEF InTransit
    <2> QED
      BY <1>5, <1>6, <1>8, <2>1
  <1> QED
    BY <1>7, <1>8 DEF InTransit

\* A request in transit that its requester is now told of had been given up.
LEMMA TransitAnswer ==
    ASSUME IInv, RelayInv, NEW r \in Reqs, Answer(r)
    PROVE  InTransit'
  <1>1. UNCHANGED <<req, via, outcome, out>> /\ TypeOK /\ InTransit
    BY DEF Answer, asking, remote, IInv, RelayInv
  <1>2. ASSUME NEW x \in Reqs, MayYetBeHandled(x)
        PROVE  MayYetBeHandled(x)'
    <2>1. CASE x = r
      <3>1. owed[r] = "undeliverable" /\ answers[r] = <<>>
        BY <1>2, <2>1 DEF Answer, MayYetBeHandled, IInv, Places, Enlisted, InOnePlace
      <3>2. answers'[r] = <<"undeliverable">> /\ owed'[r] = "none"
        BY <3>1, FirstAnswer DEF Answer, Tell, IInv, TypeOK, Result
      <3> QED
        BY <1>1, <1>2, <2>1, <3>2 DEF MayYetBeHandled, Promise!GivenUp
    <2>2. CASE x # r
      <3>1. answers'[x] = answers[x] /\ owed'[x] = owed[x]
        BY <2>2 DEF Answer, Tell, IInv, TypeOK
      <3> QED
        BY <1>1, <1>2, <3>1 DEF MayYetBeHandled
    <2> QED
      BY <2>1, <2>2
  <1> QED
    BY <1>1, <1>2, StillInTransit

\* An ack is of a request that has been read, so of none in transit.
LEMMA TransitReadAck ==
    ASSUME IInv, RelayInv, NEW l \in Links, ReadAck(l)
    PROVE  InTransit'
  <1>1. /\ UNCHANGED <<req, via, outcome, out, answers>>
        /\ TypeOK /\ InTransit /\ Handled
    BY DEF ReadAck, asking, IInv, RelayInv
  <1>2. 1 \in 1..Len(back[l]) /\ back[l][1] = Head(back[l])
    BY <1>1 DEF ReadAck, TypeOK
  <1>3. \A x \in Reqs : x # Head(back[l]).req => owed'[x] = owed[x]
    BY DEF ReadAck, TakeOut
  <1>4. ASSUME NEW k \in Links, NEW i \in 1..Len(out[k])
        PROVE  MayYetBeHandled(out[k][i])'
    <2>1. out[k][i] # Head(back[l]).req
      BY <1>1, <1>2 DEF Handled
    <2>2. owed'[out[k][i]] = owed[out[k][i]]
      BY <1>1, <1>3, <2>1, ElementTypes
    <2> QED
      BY <1>1, <2>2 DEF InTransit, MayYetBeHandled
  <1> QED
    BY <1>1, <1>4 DEF InTransit

\* What the peer's broker reads is gone from the link, the rest moves up.
LEMMA PeerReads ==
    ASSUME TypeOK, NEW l \in Links, PeerHandles(l)
    PROVE  /\ 1 \in 1..Len(out[l]) /\ Head(out[l]) = out[l][1]
           /\ \A i \in 1..Len(out'[l]) :
                 i \in Nat /\ i + 1 \in 1..Len(out[l]) /\ out'[l][i] = out[l][i + 1]
           /\ \A k \in Links : k # l => out'[k] = out[k]
           /\ UNCHANGED <<req, via, owed, answers>>
  <1>1. out[l] \in Seq(Reqs) /\ out[l] # <<>> /\ out'[l] = Tail(out[l])
    BY DEF PeerHandles, TypeOK
  <1>2. /\ 1 \in 1..Len(out[l]) /\ Head(out[l]) = out[l][1]
        /\ \A i \in 1..Len(Tail(out[l])) :
              /\ i \in Nat /\ i + 1 \in 1..Len(out[l])
              /\ Tail(out[l])[i] = out[l][i + 1]
    BY <1>1
  <1>3. /\ \A k \in Links : k # l => out'[k] = out[k]
        /\ UNCHANGED <<req, via, owed, answers>>
    BY DEF PeerHandles, TypeOK, asking
  <1> QED
    BY <1>1, <1>2, <1>3

LEMMA TransitPeerHandles ==
    ASSUME IInv, RelayInv, NEW l \in Links, PeerHandles(l)
    PROVE  InTransit'
  <1>1. TypeOK /\ InTransit
    BY DEF IInv, RelayInv
  <1>2. \A x \in Reqs : x # Head(out[l]) => outcome'[x] = outcome[x]
    BY <1>1 DEF PeerHandles, TypeOK
  <1>3. ASSUME NEW k \in Links, NEW i \in 1..Len(out'[k])
        PROVE  (MayYetBeHandled(out[k][i]) /\ via[out[k][i]] = k)'
    <2>1. \E j \in 1..Len(out[k]) : out'[k][i] = out[k][j] /\ (k = l => j # 1)
      <3>1. CASE k = l
        <4>1. i \in Nat /\ i + 1 \in 1..Len(out[l]) /\ out'[l][i] = out[l][i + 1]
          BY <1>1, <3>1, PeerReads
        <4>2. i + 1 # 1
          BY <3>1, <1>3
        <4> QED
          BY <3>1, <4>1, <4>2
      <3>2. CASE k # l
        BY <1>1, <3>2, PeerReads
      <3> QED
        BY <3>1, <3>2
    <2>2. PICK j \in 1..Len(out[k]) : out'[k][i] = out[k][j] /\ (k = l => j # 1)
      BY <2>1
    <2>3. MayYetBeHandled(out[k][j]) /\ via[out[k][j]] = k
      BY <1>1 DEF InTransit
    <2>4. out[k][j] # Head(out[l])
      BY <1>1, <2>2, <2>3, PeerReads DEF InTransit
    <2>5. outcome'[out[k][j]] = "none"
      BY <1>1, <1>2, <2>3, <2>4, ElementTypes DEF MayYetBeHandled
    <2>6. UNCHANGED <<req, via, owed, answers>>
      BY <1>1, PeerReads
    <2>7. (MayYetBeHandled(out[k][i]))'
      BY <2>2, <2>3, <2>5, <2>6 DEF MayYetBeHandled
    <2>8. via'[out'[k][i]] = k
      BY <2>2, <2>3, <2>6
    <2> QED
      BY <2>7, <2>8
  <1>4. ASSUME NEW k \in Links, NEW i \in 1..Len(out'[k]), NEW j \in 1..Len(out'[k]),
               out'[k][i] = out'[k][j]
        PROVE  i = j
    <2>1. CASE k = l
      <3>1. i + 1 = j + 1
        BY <1>1, <1>4, <2>1, PeerReads DEF InTransit
      <3> QED
        BY <1>1, <2>1, <3>1, PeerReads
    <2>2. CASE k # l
      BY <1>1, <1>4, <2>2, PeerReads DEF InTransit
    <2> QED
      BY <2>1, <2>2
  <1> QED
    BY <1>3, <1>4 DEF InTransit

\* Acks stay true while nothing is read, sent or carried out.
LEMMA StillHandled ==
    ASSUME IInv, RelayInv, UNCHANGED <<out, back, outcome>>,
           \A x \in Reqs :
              /\ req[x] = "sent" => req'[x] = "sent"
              /\ owed'[x] \in {"ok", "refused"} => owed[x] = owed'[x]
    PROVE  Handled'
  <1>1. TypeOK /\ Handled
    BY DEF IInv, RelayInv
  <1> QED
    BY <1>1, ElementTypes DEF Handled, BearsOut, BearsOutOk, BearsOutRefusal

\* Only a pending request's ack makes its thread owe a refusal.
LEMMA HandledReadAck ==
    ASSUME IInv, RelayInv, NEW l \in Links, ReadAck(l)
    PROVE  Handled'
  <1>1. /\ UNCHANGED <<req, out, outcome>>
        /\ TypeOK /\ Handled
    BY DEF ReadAck, asking, IInv, RelayInv
  <1>2. /\ back[l] \in Seq([req : Reqs, ok : BOOLEAN]) /\ back[l] # <<>>
        /\ back' = [back EXCEPT ![l] = Tail(@)]
    BY <1>1 DEF ReadAck, TypeOK
  <1>3. /\ 1 \in 1..Len(back[l]) /\ Head(back[l]) = back[l][1]
        /\ \A i \in 1..Len(Tail(back[l])) :
              i + 1 \in 1..Len(back[l]) /\ Tail(back[l])[i] = back[l][i + 1]
    BY <1>2
  <1>4. ASSUME NEW k \in Links, NEW i \in 1..Len(back'[k])
        PROVE  \E j \in 1..Len(back[k]) : back'[k][i] = back[k][j]
    <2>1. CASE k = l
      <3>1. back'[k] = Tail(back[l])
        BY <1>1, <1>2, <2>1 DEF TypeOK
      <3> QED
        BY <1>3, <2>1, <3>1
    <2>2. CASE k # l
      BY <1>1, <1>2, <2>2 DEF TypeOK
    <2> QED
      BY <2>1, <2>2
  <1>5. ASSUME NEW k \in Links, NEW i \in 1..Len(back'[k])
        PROVE  /\ req'[back'[k][i].req] = "sent"
               /\ BearsOut(back[k][i].req, back[k][i].ok)'
               /\ \A n \in Links : \A j \in 1..Len(out'[n]) : out'[n][j] # back'[k][i].req
    BY <1>1, <1>4 DEF Handled, BearsOut, BearsOutOk, BearsOutRefusal
  <1>6. ASSUME NEW x \in Reqs, NEW answer \in {"ok", "refused"}, owed'[x] = answer
        PROVE  BearsOut(x, answer = "ok")
    <2>1. CASE x = Head(back[l]).req /\ answer = (IF Head(back[l]).ok THEN "ok" ELSE "refused")
      <3>1. Head(back[l]).ok \in BOOLEAN
        BY <1>1, <1>3, ElementTypes
      <3>2. Head(back[l]).ok <=> answer = "ok"
        BY <2>1, <3>1
      <3> QED
        BY <1>1, <1>3, <2>1, <3>2 DEF Handled, BearsOut
    <2>2. CASE ~(x = Head(back[l]).req
                    /\ answer = (IF Head(back[l]).ok THEN "ok" ELSE "refused"))
      <3>1. owed[x] = answer
        BY <1>6, <2>2 DEF ReadAck, TakeOut
      <3> QED
        BY <1>1, <1>6, <3>1 DEF Handled, BearsOut
    <2> QED
      BY <2>1, <2>2
  <1>7. ASSUME NEW x \in Reqs
        PROVE  /\ owed'[x] = "ok" => BearsOutOk(x)'
               /\ owed'[x] = "refused" => BearsOutRefusal(x)'
    BY <1>1, <1>6 DEF BearsOut, BearsOutOk, BearsOutRefusal
  <1> QED
    BY <1>1, <1>5, <1>7 DEF Handled

\* A request that goes out now has not been handled before.
LEMMA HandledTransmit ==
    ASSUME IInv, RelayInv, NEW r \in Reqs, Transmit(r)
    PROVE  Handled'
  <1>1. TypeOK /\ Handled
    BY DEF IInv, RelayInv
  <1>2. /\ UNCHANGED <<back, outcome, owed>>
        /\ req[r] # "sent"
        /\ \A x \in Reqs : req[x] = "sent" => req'[x] = "sent"
    BY <1>1 DEF Transmit, Goto, TypeOK
  <1>3. \A k \in Links : \A j \in 1..Len(out'[k]) :
           out'[k][j] = r \/ (j \in 1..Len(out[k]) /\ out'[k][j] = out[k][j])
    BY <1>1 DEF Transmit, TypeOK
  <1>4. \A k \in Links : \A i \in 1..Len(back[k]) : back[k][i].req # r
    BY <1>1, <1>2 DEF Handled
  <1>5. ASSUME NEW k \in Links, NEW i \in 1..Len(back[k])
        PROVE  /\ req'[back[k][i].req] = "sent"
               /\ BearsOut(back[k][i].req, back[k][i].ok)
               /\ \A n \in Links : \A j \in 1..Len(out'[n]) : out'[n][j] # back[k][i].req
    BY <1>1, <1>2, <1>3, <1>4, ElementTypes DEF Handled
  <1> QED
    BY <1>1, <1>2, <1>5 DEF Handled, BearsOut, BearsOutOk, BearsOutRefusal

\* What the peer reads is in transit no more, and its ack says what it did.
LEMMA HandledPeerHandles ==
    ASSUME IInv, RelayInv, NEW l \in Links, PeerHandles(l)
    PROVE  Handled'
  <1> DEFINE h == Head(out[l])
  <1>1. TypeOK /\ InTransit /\ Handled
    BY DEF IInv, RelayInv
  <1>2. PICK handling \in Handlings(h), acked \in BOOLEAN :
           /\ outcome' = [outcome EXCEPT ![h] = handling.how]
           /\ back' = IF acked
                        THEN [back EXCEPT ![l] = Append(@, [req |-> h, ok |-> handling.ok])]
                        ELSE back
    BY DEF PeerHandles
  <1>3. MayYetBeHandled(h) /\ via[h] = l /\ h \in Reqs
    BY <1>1, PeerReads, ElementTypes DEF InTransit
  <1>4. ASSUME NEW k \in Links, NEW j \in 1..Len(out'[k])
        PROVE  /\ out'[k][j] # h
               /\ \E i \in 1..Len(out[k]) : out'[k][j] = out[k][i]
    <2>1. CASE k = l
      <3>1. /\ j \in Nat /\ j + 1 \in 1..Len(out[l]) /\ out'[l][j] = out[l][j + 1]
            /\ j >= 1
        BY <1>1, <2>1, <1>4, PeerReads
      <3>2. out[l][j + 1] # out[l][1]
        <4>1. j + 1 # 1 /\ 1 \in 1..Len(out[l])
          BY <1>1, <3>1, PeerReads
        <4> QED
          BY <1>1, <3>1, <4>1 DEF InTransit
      <3> QED
        BY <1>1, <2>1, <3>1, <3>2, PeerReads
    <2>2. CASE k # l
      BY <1>1, <1>3, <2>2, PeerReads DEF InTransit
    <2> QED
      BY <2>1, <2>2
  <1>5. \A k \in Links : \A i \in 1..Len(back[k]) : back[k][i].req # h
    BY <1>1, PeerReads DEF Handled
  <1>6. ASSUME NEW k \in Links, NEW i \in 1..Len(back'[k])
        PROVE  \/ i \in 1..Len(back[k]) /\ back'[k][i] = back[k][i]
               \/ back'[k][i] = [req |-> h, ok |-> handling.ok]
    BY <1>1, <1>2 DEF TypeOK
  <1>10. outcome'[h] = handling.how /\ \A x \in Reqs : x # h => outcome'[x] = outcome[x]
    BY <1>1, <1>2, <1>3 DEF TypeOK
  <1>7. ASSUME NEW k \in Links, NEW i \in 1..Len(back'[k])
        PROVE  /\ req'[back'[k][i].req] = "sent"
               /\ BearsOut(back[k][i].req, back[k][i].ok)'
               /\ \A n \in Links : \A j \in 1..Len(out'[n]) :
                     out'[n][j] # back'[k][i].req
    <2> DEFINE a == back'[k][i]
    <2>1. req' = req
      BY <1>1, PeerReads
    <2>2. CASE i \in 1..Len(back[k]) /\ a = back[k][i]
      <3>1. /\ req[a.req] = "sent" /\ a.req # h /\ a.req \in Reqs
            /\ BearsOut(back[k][i].req, back[k][i].ok)
            /\ \A n \in Links : \A j \in 1..Len(out[n]) : out[n][j] # a.req
        BY <1>1, <1>5, <2>2, ElementTypes DEF Handled
      <3>2. \A n \in Links : \A j \in 1..Len(out'[n]) : out'[n][j] # a.req
        BY <1>4, <3>1
      <3>3. BearsOut(back[k][i].req, back[k][i].ok)'
        BY <1>10, <2>2, <3>1 DEF BearsOut, BearsOutOk, BearsOutRefusal
      <3> QED
        BY <2>1, <3>1, <3>2, <3>3
    <2>3. CASE a = [req |-> h, ok |-> handling.ok]
      <3>1. a.req = h /\ a.ok = handling.ok
        BY <2>3
      <3>2. BearsOut(back[k][i].req, back[k][i].ok)'
        BY <1>2, <1>3, <1>10, <3>1, HandlingKinds
           DEF BearsOut, BearsOutOk, BearsOutRefusal
      <3>3. req[h] = "sent"
        BY <1>3 DEF MayYetBeHandled
      <3> QED
        BY <1>4, <2>1, <3>1, <3>2, <3>3
    <2> QED
      BY <1>6, <2>2, <2>3
  <1>8. \A r \in Reqs : outcome'[r] # "none" => req'[r] = "sent"
    BY <1>1, <1>3, <1>10, PeerReads DEF Handled, MayYetBeHandled
  <1>9. ASSUME NEW r \in Reqs
        PROVE  /\ owed'[r] = "ok" => BearsOutOk(r)'
               /\ owed'[r] = "refused" => BearsOutRefusal(r)'
    <2>1. owed'[r] = owed[r] /\ (outcome'[r] = outcome[r] \/ r = h)
      BY <1>1, <1>10, PeerReads
    <2>2. r = h => owed[r] = "none" \/ owed[r] = "undeliverable"
      BY <1>3 DEF MayYetBeHandled
    <2> QED
      BY <1>1, <2>1, <2>2 DEF Handled, BearsOutOk, BearsOutRefusal
  <1> HIDE DEF h
  <1> QED
    BY <1>7, <1>8, <1>9 DEF Handled

LEMMA TransitStep == IInv /\ RelayInv /\ [Next]_vars => InTransit'
  <1> SUFFICES ASSUME IInv, RelayInv, [Next]_vars PROVE InTransit'
    OBVIOUS
  <1> USE DEF asking, remote, Goto, MayYetBeHandled
  <1>1. ASSUME NEW r \in Reqs, Ask(r) PROVE InTransit'
    <2>1. CASE FindLink(r)
      BY <2>1, StillInTransit DEF FindLink
    <2>2. CASE Enlist(r)
      BY <2>2, StillInTransit DEF Enlist
    <2>3. CASE CheckLink(r)
      BY <2>3, StillInTransit DEF CheckLink
    <2>4. CASE Transmit(r)
      BY <2>4, TransitTransmit
    <2>5. CASE TransmitFails(r)
      BY <2>5, StillInTransit DEF TransmitFails
    <2>6. CASE SendReturns(r)
      BY <2>6, StillInTransit DEF SendReturns
    <2>7. CASE TransmitLate(r)
      BY <2>7, StillInTransit DEF TransmitLate, IInv, TypeOK
    <2>8. CASE Withdraw(r)
      BY <2>8, StillInTransit DEF Withdraw
    <2>9. CASE ReportUnsent(r)
      BY <2>9, StillInTransit DEF ReportUnsent, Tell, IInv, TypeOK
    <2> QED
      BY <1>1, <2>1, <2>2, <2>3, <2>4, <2>5, <2>6, <2>7, <2>8, <2>9 DEF Ask
  <1>2. ASSUME NEW r \in Reqs, Answer(r) \/ Ages(r) PROVE InTransit'
    <2>1. CASE Answer(r)
      BY <2>1, TransitAnswer
    <2>2. CASE Ages(r)
      BY <2>2, StillInTransit DEF Ages
    <2> QED
      BY <1>2, <2>1, <2>2
  <1>3. ASSUME NEW l \in Links, LinkOpens(l) \/ LinkDrops(l) \/ PeerDown(l)
        PROVE  InTransit'
    <2>1. CASE LinkOpens(l)
      BY <2>1, StillInTransit DEF LinkOpens
    <2>2. CASE LinkDrops(l)
      BY <2>2, StillInTransit DEF LinkDrops
    <2>3. CASE PeerDown(l)
      BY <2>3, TransitGivenUp DEF PeerDown
    <2> QED
      BY <1>3, <2>1, <2>2, <2>3
  <1>4. ASSUME NEW l \in Links, ReadAck(l) PROVE InTransit'
    BY <1>4, TransitReadAck
  <1>5. ASSUME NEW l \in Links, PeerHandles(l) PROVE InTransit'
    BY <1>5, TransitPeerHandles
  <1>6. CASE Expire
    BY <1>6, TransitGivenUp DEF Expire
  <1>7. CASE CloseAll
    BY <1>7, TransitGivenUp DEF CloseAll
  <1>8. CASE Exit
    BY <1>8, StillInTransit DEF Exit
  <1>9. CASE UNCHANGED vars
    BY <1>9, StillInTransit DEF vars
  <1> QED
    BY <1>1, <1>2, <1>3, <1>4, <1>5, <1>6, <1>7, <1>8, <1>9 DEF Next, BrokerStep

LEMMA HandledStep == IInv /\ RelayInv /\ [Next]_vars => Handled'
  <1> SUFFICES ASSUME IInv, RelayInv, [Next]_vars PROVE Handled'
    OBVIOUS
  <1> USE DEF asking, remote, Goto, TakeOut
  <1>1. ASSUME NEW r \in Reqs, Ask(r) PROVE Handled'
    <2>1. CASE FindLink(r)
      BY <2>1, StillHandled DEF FindLink
    <2>2. CASE Enlist(r)
      BY <2>2, StillHandled DEF Enlist
    <2>3. CASE CheckLink(r)
      BY <2>3, StillHandled DEF CheckLink
    <2>4. CASE Transmit(r)
      BY <2>4, HandledTransmit
    <2>5. CASE TransmitFails(r)
      BY <2>5, StillHandled DEF TransmitFails
    <2>6. CASE SendReturns(r)
      BY <2>6, StillHandled DEF SendReturns
    <2>7. CASE TransmitLate(r)
      BY <2>7, StillHandled DEF TransmitLate, IInv, TypeOK
    <2>8. CASE Withdraw(r)
      BY <2>8, StillHandled DEF Withdraw
    <2>9. CASE ReportUnsent(r)
      BY <2>9, StillHandled DEF ReportUnsent
    <2> QED
      BY <1>1, <2>1, <2>2, <2>3, <2>4, <2>5, <2>6, <2>7, <2>8, <2>9 DEF Ask
  <1>2. ASSUME NEW r \in Reqs, Answer(r) \/ Ages(r) PROVE Handled'
    <2>1. CASE Answer(r)
      BY <2>1, StillHandled DEF Answer
    <2>2. CASE Ages(r)
      BY <2>2, StillHandled DEF Ages
    <2> QED
      BY <1>2, <2>1, <2>2
  <1>3. ASSUME NEW l \in Links, LinkOpens(l) \/ LinkDrops(l) \/ PeerDown(l)
        PROVE  Handled'
    <2>1. CASE LinkOpens(l)
      BY <2>1, StillHandled DEF LinkOpens
    <2>2. CASE LinkDrops(l)
      BY <2>2, StillHandled DEF LinkDrops
    <2>3. CASE PeerDown(l)
      BY <2>3, StillHandled DEF PeerDown
    <2> QED
      BY <1>3, <2>1, <2>2, <2>3
  <1>4. ASSUME NEW l \in Links, ReadAck(l) PROVE Handled'
    BY <1>4, HandledReadAck
  <1>5. ASSUME NEW l \in Links, PeerHandles(l) PROVE Handled'
    BY <1>5, HandledPeerHandles
  <1>6. CASE Expire
    BY <1>6, StillHandled DEF Expire
  <1>7. CASE CloseAll
    BY <1>7, StillHandled DEF CloseAll
  <1>8. CASE Exit
    BY <1>8, StillHandled DEF Exit
  <1>9. CASE UNCHANGED vars
    BY <1>9, StillHandled DEF vars
  <1> QED
    BY <1>1, <1>2, <1>3, <1>4, <1>5, <1>6, <1>7, <1>8, <1>9 DEF Next, BrokerStep

LEMMA UnsentStep == IInv /\ RelayInv /\ [Next]_vars => Unsent'
  <1> SUFFICES ASSUME IInv, RelayInv, [Next]_vars PROVE Unsent'
    OBVIOUS
  <1> USE LinkAssumption DEF IInv, TypeOK, Result, Places, Enlisted, InOnePlace, RelayInv,
                         Handled, Unsent, Promise!GivenUp,
                         TakeOut, Tell, BeginDrop, Connected, vars, asking, remote, Goto
  <1>1. ASSUME NEW r \in Reqs, Ask(r) PROVE Unsent'
    <2>1. CASE FindLink(r)
      BY <2>1 DEF FindLink
    <2>2. CASE Enlist(r)
      BY <2>2 DEF Enlist
    <2>3. CASE CheckLink(r)
      BY <2>3 DEF CheckLink
    <2>4. CASE Transmit(r)
      BY <2>4 DEF Transmit
    <2>5. CASE TransmitFails(r)
      BY <2>5 DEF TransmitFails
    <2>6. CASE SendReturns(r)
      BY <2>6 DEF SendReturns
    <2>7. CASE TransmitLate(r)
      BY <2>7 DEF TransmitLate
    <2>8. CASE Withdraw(r)
      BY <2>8 DEF Withdraw
    <2>9. CASE ReportUnsent(r)
      <3>1. /\ UNCHANGED owed
            /\ \A x \in Reqs \ {r} : answers'[x] = answers[x] /\ req'[x] = req[x]
            /\ req[r] = "withdrawn" /\ req'[r] = "unsent"
            /\ answers'[r] = Append(answers[r], "undeliverable")
        BY <2>9 DEF ReportUnsent
      <3>2. owed[r] # "none" => answers'[r] = <<"undeliverable">>
        <4>1. owed[r] # "none" => answers[r] = <<>>
          BY <3>1
        <4> QED
          BY <3>1, <4>1, FirstAnswer
      <3>3. owed[r] \in {"none", "undeliverable"}
        BY <3>1
      <3> QED
        BY <3>1, <3>2, <3>3
    <2> QED
      BY <1>1, <2>1, <2>2, <2>3, <2>4, <2>5, <2>6, <2>7, <2>8, <2>9 DEF Ask
  <1>2. ASSUME NEW r \in Reqs, Answer(r) \/ Ages(r) PROVE Unsent'
    <2>1. CASE Answer(r)
      <3>1. /\ UNCHANGED req
            /\ \A x \in Reqs \ {r} : answers'[x] = answers[x] /\ owed'[x] = owed[x]
            /\ owed[r] # "none" /\ owed'[r] = "none"
            /\ answers'[r] = Append(answers[r], owed[r])
        BY <2>1 DEF Answer
      <3>2. req[r] \notin {"sent", "unsent"} => answers'[r] = <<"undeliverable">>
        <4>1. req[r] \notin {"sent", "unsent"} =>
                 answers[r] = <<>> /\ owed[r] = "undeliverable"
          BY <3>1
        <4> QED
          BY <3>1, <4>1, FirstAnswer
      <3>3. ASSUME NEW x \in Reqs
            PROVE  /\ req[x] # "sent" => owed'[x] \in {"none", "undeliverable"}
                   /\ req[x] \notin {"sent", "unsent"} =>
                         \/ answers'[x] = <<>>
                         \/ owed'[x] = "none" /\ answers'[x] = <<"undeliverable">>
                   /\ req[x] = "unsent" /\ owed'[x] # "none" =>
                         answers'[x] = <<"undeliverable">>
        <4>1. CASE x = r
          BY <3>1, <3>2, <4>1
        <4>2. CASE x # r
          BY <3>1, <4>2
        <4> QED
          BY <4>1, <4>2
      <3> QED
        BY <3>1, <3>3
    <2>2. CASE Ages(r)
      BY <2>2 DEF Ages
    <2> QED
      BY <1>2, <2>1, <2>2
  <1>3. ASSUME NEW l \in Links, LinkOpens(l) \/ LinkDrops(l) \/ PeerDown(l)
        PROVE  Unsent'
    <2>1. CASE LinkOpens(l)
      BY <2>1 DEF LinkOpens
    <2>2. CASE LinkDrops(l)
      BY <2>2 DEF LinkDrops
    <2>3. CASE PeerDown(l)
      BY <2>3 DEF PeerDown
    <2> QED
      BY <1>3, <2>1, <2>2, <2>3
  <1>4. ASSUME NEW l \in Links, ReadAck(l) PROVE Unsent'
    BY <1>4 DEF ReadAck
  <1>5. ASSUME NEW l \in Links, PeerHandles(l) PROVE Unsent'
    BY <1>5 DEF PeerHandles
  <1>6. CASE Expire
    BY <1>6 DEF Expire
  <1>7. CASE CloseAll
    BY <1>7 DEF CloseAll
  <1>8. CASE Exit
    BY <1>8 DEF Exit
  <1>9. CASE UNCHANGED vars
    BY <1>9
  <1> QED
    BY <1>1, <1>2, <1>3, <1>4, <1>5, <1>6, <1>7, <1>8, <1>9 DEF Next, BrokerStep

LEMMA RelayStep == IInv /\ RelayInv /\ [Next]_vars => RelayInv'
  BY TransitStep, HandledStep, UnsentStep DEF RelayInv

\* The invariant that the refinement rests on.
THEOREM RelayInvariance == Spec => [](IInv /\ RelayInv)
  <1>1. Init => IInv /\ RelayInv
    BY InitInv, RelayInit
  <1>2. IInv /\ RelayInv /\ [Next]_vars => (IInv /\ RelayInv)'
    BY RelayStep, TypeStep, PlacesStep, DeadLinkStep DEF IInv
  <1> QED
    BY <1>1, <1>2, PTL DEF Spec

\* The thread that took a request out tells what is so: what the peer's
\* handling bears out, or that it has been given up.
LEMMA AnswerKeepsPromise ==
    ASSUME IInv, RelayInv, NEW r \in Reqs, Answer(r)
    PROVE  Promise!Next
  <1>1. /\ answers' = [answers EXCEPT ![r] = Append(@, owed[r])]
        /\ UNCHANGED outcome
        /\ owed[r] \in {"ok", "refused", "undeliverable"}
    BY DEF Answer, Tell, remote, IInv, TypeOK, Result
  <1>2. Promise!Tell(r, owed[r])
    BY <1>1 DEF Promise!Tell
  <1>3. req[r] \in Enlisted => answers[r] = <<>>
    BY <1>1 DEF IInv, Places, InOnePlace
  <1>4. CASE owed[r] = "ok"
    <2>1. BearsOutOk(r) /\ answers[r] = <<>>
      BY <1>3, <1>4 DEF RelayInv, Handled, Unsent, Enlisted
    <2>2. Promise!Confirm(r)
      BY <1>2, <1>4, <2>1 DEF Promise!Confirm, BearsOutOk
    <2> QED
      BY <2>2 DEF Promise!Next
  <1>5. CASE owed[r] = "refused"
    <2>1. BearsOutRefusal(r) /\ answers[r] = <<>>
      BY <1>3, <1>5 DEF RelayInv, Handled, Unsent, Enlisted
    <2>2. Promise!Refuse(r)
      BY <1>2, <1>5, <2>1 DEF Promise!Refuse, BearsOutRefusal
    <2> QED
      BY <2>2 DEF Promise!Next
  <1>6. CASE owed[r] = "undeliverable"
    <2>1. \/ answers[r] = <<>>
          \/ answers[r] = Promise!GivenUp /\ req[r] # "sent"
      BY <1>1, <1>3 DEF RelayInv, Unsent, Enlisted
    <2>2. req[r] # "sent" => outcome[r] = "none"
      BY DEF RelayInv, Handled
    <2>3. Promise!GiveUp(r)
      BY <1>2, <1>6, <2>1, <2>2 DEF Promise!GiveUp
    <2> QED
      BY <2>3 DEF Promise!Next
  <1> QED
    BY <1>1, <1>4, <1>5, <1>6

\* The thread that withdrew its request gives it up, for the second time if
\* another thread took it out first: it never left.
LEMMA ReportKeepsPromise ==
    ASSUME IInv, RelayInv, NEW r \in Reqs, ReportUnsent(r)
    PROVE  Promise!Next
  <1>1. Promise!Tell(r, "undeliverable")
    BY DEF ReportUnsent, Tell, remote, Promise!Tell
  <1>2. /\ outcome[r] = "none"
        /\ answers[r] = <<>> \/ answers[r] = Promise!GivenUp
    BY DEF ReportUnsent, RelayInv, Handled, Unsent
  <1>3. Promise!GiveUp(r)
    BY <1>1, <1>2 DEF Promise!GiveUp
  <1> QED
    BY <1>3 DEF Promise!Next

\* The peer handles a request once, before it is answered or after it was given
\* up.
LEMMA PeerKeepsPromise ==
    ASSUME IInv, RelayInv, NEW l \in Links, PeerHandles(l)
    PROVE  Promise!Next
  <1> DEFINE h == Head(out[l])
  <1>1. TypeOK /\ InTransit
    BY DEF IInv, RelayInv
  <1>2. /\ UNCHANGED answers
        /\ \E how \in {"done", "failed"} : outcome' = [outcome EXCEPT ![h] = how]
    BY HandlingKinds DEF PeerHandles
  <1>3. MayYetBeHandled(h) /\ h \in Reqs
    BY <1>1, PeerReads, ElementTypes DEF InTransit
  <1>4. Promise!Handle(h)
    BY <1>2, <1>3 DEF Promise!Handle, MayYetBeHandled
  <1> QED
    BY <1>3, <1>4 DEF Promise!Next

LEMMA RequestsInit == Init => Promise!Init
  BY DEF Init, Promise!Init

\* Only answering and the peer's handling show; every other step is a stutter.
LEMMA RequestsStep ==
    IInv /\ RelayInv /\ [Next]_vars => Promise!Next \/ UNCHANGED <<answers, outcome>>
  <1> DEFINE Kept == Promise!Next \/ UNCHANGED <<answers, outcome>>
  <1> SUFFICES ASSUME IInv, RelayInv, [Next]_vars PROVE Kept
    OBVIOUS
  <1>1. ASSUME NEW r \in Reqs, Ask(r) PROVE Kept
    <2>1. CASE ReportUnsent(r)
      BY <2>1, ReportKeepsPromise
    <2>2. CASE FindLink(r) \/ Enlist(r) \/ CheckLink(r) \/ Transmit(r)
      BY <2>2 DEF FindLink, Enlist, CheckLink, Transmit, remote
    <2>3. CASE TransmitFails(r) \/ SendReturns(r) \/ TransmitLate(r) \/ Withdraw(r)
      BY <2>3 DEF TransmitFails, SendReturns, TransmitLate, Withdraw, remote
    <2> QED
      BY <1>1, <2>1, <2>2, <2>3 DEF Ask
  <1>2. ASSUME NEW r \in Reqs, Answer(r) \/ Ages(r) PROVE Kept
    <2>1. CASE Answer(r)
      BY <2>1, AnswerKeepsPromise
    <2>2. CASE Ages(r)
      BY <2>2 DEF Ages, remote
    <2> QED
      BY <1>2, <2>1, <2>2
  <1>3. ASSUME NEW l \in Links,
               LinkOpens(l) \/ LinkDrops(l) \/ PeerDown(l) \/ ReadAck(l)
        PROVE  Kept
    BY <1>3 DEF LinkOpens, LinkDrops, PeerDown, ReadAck, remote
  <1>4. ASSUME NEW l \in Links, PeerHandles(l) PROVE Kept
    BY <1>4, PeerKeepsPromise
  <1>5. CASE Expire \/ CloseAll \/ Exit
    BY <1>5 DEF Expire, CloseAll, Exit, remote
  <1>6. CASE UNCHANGED vars
    BY <1>6 DEF vars, remote
  <1> QED
    BY <1>1, <1>2, <1>3, <1>4, <1>5, <1>6 DEF Next, BrokerStep

\* Whatever the links, the peer, the sweep and the shutdown do, what a
\* requester is told is what Requests promises: the relay implements it.
THEOREM RelayKeepsPromise == Spec => ImplementsRequests
  <1>1. IInv /\ RelayInv /\ [Next]_vars => [Promise!Next]_<<answers, outcome>>
    BY RequestsStep
  <1>2. ImplementsRequests
           <=> Promise!Init /\ [][Promise!Next]_<<answers, outcome>>
    BY DEF ImplementsRequests, Promise!Spec
  <1> QED
    BY RequestsInit, RelayInvariance, <1>1, <1>2, PTL DEF Spec
==============================================================================
