------------------------------ MODULE PeerRelay ------------------------------
(***************************************************************************)
(* A request that one broker forwards to a peer broker and answers to the  *)
(* client that asked: dispatch to a remote id, terminate and spawn on a    *)
(* peer (src/src/team_broker.py, peer_link.py).                            *)
(*                                                                         *)
(* The request waits in _peer_pending until the peer's ack, the drop of    *)
(* its link, the sweep's expiry or the broker's shutdown takes it out, and *)
(* whichever thread took it out answers.  The thread that asked inserts,   *)
(* sends and, when the send fails, withdraws it as separate steps.  The    *)
(* links are the successive connections to one peer host; the peer's own   *)
(* handlers (_deliver_peer, _apply_peer_control) run at their other end.   *)
(***************************************************************************)
EXTENDS Naturals, Sequences

CONSTANTS
    Reqs,       \* the requests, each asked once
    Relays,     \* those of them that relay a message
    Spawns,     \* those that spawn a teammate; the others terminate one
    Links,      \* the links to the peer, each opened once
    NoLink

ASSUME LinkAssumption == NoLink \notin Links

ASSUME KindAssumption ==
    Relays \subseteq Reqs /\ Spawns \subseteq Reqs /\ Relays \cap Spawns = {}

VARIABLES
    current,    \* the host's link (_peers)
    up,         \* each PeerLink: unborn, open, dropping (drop begun), down
    req,        \* where the thread that asked is with its request
    via,        \* the link it found
    pending,    \* the requests in _peer_pending
    young,      \* those of them within the idle window
    owed,       \* the answer a thread took a request out to give, if any
    answers,    \* what each requester was told, in order
    out,        \* the requests sent on a link and not yet read by the peer
    back,       \* the acks sent on it and not yet read here
    outcome,    \* what became of each request at the peer
    broker,     \* running, closing (_close_all begun) or exited
    doomed      \* the link _close_all found and has to drop

asking == <<req, via>>
remote == <<out, back, outcome>>
vars == <<current, up, asking, pending, young, owed, answers, remote, broker,
          doomed>>

-----------------------------------------------------------------------------
\* Until the process ends its threads run, the shutting down ones too.
Running == broker # "exited"

\* PeerLink.connected with its socket.
Connected(l) == l # NoLink /\ up[l] = "open"

Goto(r, l) == req' = [req EXCEPT ![r] = l]

\* Requests leave _peer_pending under the lock; the thread that popped them
\* owes each requester this answer once it has unlocked.
TakeOut(rs, answer) ==
    /\ pending' = pending \ rs
    /\ young' = young \ rs
    /\ owed' = [r \in Reqs |-> IF r \in rs THEN answer ELSE owed[r]]

Tell(r, answer) == answers' = [answers EXCEPT ![r] = Append(@, answer)]

\* drop: under the drop lock the link stops being connected.
BeginDrop(l) == up' = [up EXCEPT ![l] = "dropping"]

Init ==
    /\ current = NoLink
    /\ up = [l \in Links |-> "unborn"]
    /\ req = [r \in Reqs |-> "new"]
    /\ via = [r \in Reqs |-> NoLink]
    /\ pending = {} /\ young = {}
    /\ owed = [r \in Reqs |-> "none"]
    /\ answers = [r \in Reqs |-> <<>>]
    /\ out = [l \in Links |-> <<>>]
    /\ back = [l \in Links |-> <<>>]
    /\ outcome = [r \in Reqs |-> "none"]
    /\ broker = "running"
    /\ doomed = NoLink

-----------------------------------------------------------------------------
(* The thread that asked                                                   *)

\* The host's link is looked up and asked whether it is connected; without
\* one the requester is told at once.
FindLink(r) ==
    /\ Running /\ req[r] = "new"
    /\ via' = [via EXCEPT ![r] = current]
    /\ Goto(r, IF Connected(current) THEN "found" ELSE "withdrawn")
    /\ UNCHANGED <<current, up, pending, young, owed, answers, remote, broker,
                   doomed>>

Enlist(r) ==
    /\ Running /\ req[r] = "found"
    /\ pending' = pending \cup {r}
    /\ young' = young \cup {r}
    /\ Goto(r, "enlisted")
    /\ UNCHANGED <<current, up, via, owed, answers, remote, broker, doomed>>

\* PeerLink.send: not connected is a failed send ...
CheckLink(r) ==
    /\ Running /\ req[r] = "enlisted"
    /\ Goto(r, IF Connected(via[r]) THEN "sending" ELSE "failed")
    /\ UNCHANGED <<current, up, via, pending, young, owed, answers, remote,
                   broker, doomed>>

\* ... a connected link takes the bytes ...
Transmit(r) ==
    /\ Running /\ req[r] = "sending" /\ Connected(via[r])
    /\ out' = [out EXCEPT ![via[r]] = Append(@, r)]
    /\ Goto(r, "sent")
    /\ UNCHANGED <<current, up, via, pending, young, owed, answers, back,
                   outcome, broker, doomed>>

\* ... or refuses them, and this thread drops the link before it goes on ...
TransmitFails(r) ==
    /\ Running /\ req[r] = "sending" /\ Connected(via[r])
    /\ BeginDrop(via[r])
    /\ Goto(r, "dropping")
    /\ UNCHANGED <<current, via, pending, young, owed, answers, remote, broker,
                   doomed>>

SendReturns(r) ==
    /\ Running /\ req[r] = "dropping" /\ up[via[r]] = "down"
    /\ Goto(r, "failed")
    /\ UNCHANGED <<current, up, via, pending, young, owed, answers, remote,
                   broker, doomed>>

\* ... and one dropped since the check fails to send on the closed socket, or
\* finds its socket None: the AttributeError ends the requester's thread.
TransmitLate(r) ==
    /\ Running /\ req[r] = "sending" /\ ~Connected(via[r])
    /\ Goto(r, "failed") \/ Goto(r, "raised")
    /\ UNCHANGED <<current, up, via, pending, young, owed, answers, remote,
                   broker, doomed>>

\* After a failed send the request is popped, if it is still there ...
Withdraw(r) ==
    /\ Running /\ req[r] = "failed"
    /\ pending' = pending \ {r}
    /\ young' = young \ {r}
    /\ Goto(r, "withdrawn")
    /\ UNCHANGED <<current, up, via, owed, answers, remote, broker, doomed>>

\* ... and answered, whether it was or not.
ReportUnsent(r) ==
    /\ Running /\ req[r] = "withdrawn"
    /\ Tell(r, "undeliverable")
    /\ Goto(r, "unsent")
    /\ UNCHANGED <<current, up, via, pending, young, owed, remote, broker, doomed>>

-----------------------------------------------------------------------------
(* The link, in its reader's thread or whichever drops it                  *)

\* A link opens or is accepted and becomes the host's; the one it replaces is
\* dropped by a step of its own (LinkDrops).
LinkOpens(l) ==
    /\ Running /\ up[l] = "unborn"
    /\ up' = [up EXCEPT ![l] = "open"]
    /\ current' = l
    /\ UNCHANGED <<asking, pending, young, owed, answers, remote, broker, doomed>>

\* The stream ended or failed, the peer was removed, or the link replaced.
LinkDrops(l) ==
    /\ Running /\ up[l] = "open"
    /\ BeginDrop(l)
    /\ UNCHANGED <<current, asking, pending, young, owed, answers, remote, broker,
                   doomed>>

\* Mutant: only the host's present link takes its requests down with it.
PeerDownOfCurrent(l) ==
    /\ Running /\ up[l] = "dropping"
    /\ up' = [up EXCEPT ![l] = "down"]
    /\ current' = IF current = l THEN NoLink ELSE current
    /\ TakeOut({r \in pending : via[r] = l /\ l = current}, "undeliverable")
    /\ UNCHANGED <<asking, answers, remote, broker, doomed>>

\* Mutant: the host loses its link whichever link went down.
PeerDownOfHost(l) ==
    /\ Running /\ up[l] = "dropping"
    /\ up' = [up EXCEPT ![l] = "down"]
    /\ current' = NoLink
    /\ TakeOut({r \in pending : via[r] = l}, "undeliverable")
    /\ UNCHANGED <<asking, answers, remote, broker, doomed>>

\* _peer_down: every request waiting on this link goes, the host loses its
\* link only if it is still this one.
PeerDown(l) ==
    /\ Running /\ up[l] = "dropping"
    /\ up' = [up EXCEPT ![l] = "down"]
    /\ current' = IF current = l THEN NoLink ELSE current
    /\ TakeOut({r \in pending : via[r] = l}, "undeliverable")
    /\ UNCHANGED <<asking, answers, remote, broker, doomed>>

\* Mutant: the ack of a request no longer pending is answered too.
ReadAnyAck(l) ==
    /\ Running /\ back[l] # <<>>
    /\ back' = [back EXCEPT ![l] = Tail(@)]
    /\ LET ack == Head(back[l]) IN
         TakeOut({ack.req}, IF ack.ok THEN "ok" ELSE "refused")
    /\ UNCHANGED <<current, up, asking, answers, out, outcome, broker, doomed>>

\* _finish_peer_relay: the ack of a request no longer pending changes nothing.
\* The reader goes through a chunk it has received even if the link drops.
ReadAck(l) ==
    /\ Running /\ back[l] # <<>>
    /\ back' = [back EXCEPT ![l] = Tail(@)]
    /\ LET ack == Head(back[l]) IN
         TakeOut({ack.req} \cap pending, IF ack.ok THEN "ok" ELSE "refused")
    /\ UNCHANGED <<current, up, asking, answers, out, outcome, broker, doomed>>

\* The thread that took a request out answers its requester.
Answer(r) ==
    /\ Running /\ owed[r] # "none"
    /\ Tell(r, owed[r])
    /\ owed' = [owed EXCEPT ![r] = "none"]
    /\ UNCHANGED <<current, up, asking, pending, young, remote, broker, doomed>>

-----------------------------------------------------------------------------
(* The sweep and the shutdown                                              *)

\* Mutant: the expired requests are answered and left pending.
ExpireInPlace ==
    /\ Running /\ pending # young
    /\ owed' = [r \in Reqs |->
          IF r \in pending \ young THEN "undeliverable" ELSE owed[r]]
    /\ UNCHANGED <<current, up, asking, pending, young, answers, remote, broker,
                   doomed>>

\* Mutant: the idle window compared the wrong way round.
ExpireYoung ==
    /\ Running /\ young # {}
    /\ TakeOut(young, "undeliverable")
    /\ UNCHANGED <<current, up, asking, answers, remote, broker, doomed>>

\* _expire_peer_relays, once some request has outlived the idle window.
Expire ==
    /\ Running /\ pending # young
    /\ TakeOut(pending \ young, "undeliverable")
    /\ UNCHANGED <<current, up, asking, answers, remote, broker, doomed>>

\* The locked step of _close_all.
CloseAll ==
    /\ broker = "running"
    /\ broker' = "closing"
    /\ TakeOut(pending, "undeliverable")
    /\ doomed' = current
    /\ current' = NoLink
    /\ UNCHANGED <<up, asking, answers, remote>>

\* Its last step drops the link it found; then the process ends and with it
\* every thread, whatever it had left to answer.
Exit ==
    /\ broker = "closing" /\ ~Connected(doomed)
    /\ broker' = "exited"
    /\ UNCHANGED <<current, up, asking, pending, young, owed, answers, remote,
                   doomed>>

-----------------------------------------------------------------------------
(* The peer, and the clock                                                 *)

\* What the peer's handler may make of a request, and what its ack then says.
\* A relay's says that a connection was found, whatever the write to it did;
\* a terminate's is what the eviction was; a spawn's says ok only of a teammate
\* that proved itself, when one that did not may run all the same.
Handlings(r) ==
    {[how |-> "done", ok |-> TRUE], [how |-> "failed", ok |-> FALSE]}
        \cup IF r \in Relays THEN {[how |-> "failed", ok |-> TRUE]}
             ELSE IF r \in Spawns THEN {[how |-> "done", ok |-> FALSE]} ELSE {}

\* The peer's broker handles the request and acks it.  The ack is lost with the
\* link at either end, or because the handler raised.
PeerHandles(l) ==
    /\ out[l] # <<>>
    /\ out' = [out EXCEPT ![l] = Tail(@)]
    /\ \E handling \in Handlings(Head(out[l])), acked \in BOOLEAN :
        /\ outcome' = [outcome EXCEPT ![Head(out[l])] = handling.how]
        /\ back' = IF acked
                     THEN [back EXCEPT ![l] =
                             Append(@, [req |-> Head(out[l]), ok |-> handling.ok])]
                     ELSE back
    /\ UNCHANGED <<current, up, asking, pending, young, owed, answers, broker,
                   doomed>>

Ages(r) ==
    /\ Running /\ r \in young
    /\ young' = young \ {r}
    /\ UNCHANGED <<current, up, asking, pending, owed, answers, remote, broker,
                   doomed>>

-----------------------------------------------------------------------------
Ask(r) ==
    FindLink(r) \/ Enlist(r) \/ CheckLink(r) \/ Transmit(r) \/ TransmitFails(r)
        \/ SendReturns(r) \/ TransmitLate(r) \/ Withdraw(r) \/ ReportUnsent(r)

BrokerStep ==
    \/ \E r \in Reqs : Ask(r) \/ Answer(r) \/ Ages(r)
    \/ \E l \in Links : LinkOpens(l) \/ LinkDrops(l) \/ PeerDown(l) \/ ReadAck(l)
    \/ Expire \/ CloseAll \/ Exit

Next == BrokerStep \/ \E l \in Links : PeerHandles(l)

\* While the process runs its threads go on, its sweep comes round and time
\* passes.  Nothing is assumed of the peer, of the links or of who asks.
Fairness ==
    /\ \A r \in Reqs : WF_vars(Answer(r)) /\ WF_vars(Ages(r))
    /\ \A l \in Links : WF_vars(PeerDown(l))
    /\ WF_vars(Expire)

Spec == Init /\ [][Next]_vars /\ Fairness

-----------------------------------------------------------------------------
(* Properties                                                              *)

Result == {"ok", "refused", "undeliverable"}

TypeOK ==
    /\ current \in Links \cup {NoLink}
    /\ up \in [Links -> {"unborn", "open", "dropping", "down"}]
    /\ req \in [Reqs -> {"new", "found", "enlisted", "sending", "sent", "dropping",
                        "failed", "withdrawn", "unsent", "raised"}]
    /\ via \in [Reqs -> Links \cup {NoLink}]
    /\ pending \subseteq Reqs /\ young \subseteq pending
    /\ owed \in [Reqs -> Result \cup {"none"}]
    /\ answers \in [Reqs -> Seq(Result)]
    /\ out \in [Links -> Seq(Reqs)]
    /\ back \in [Links -> Seq([req : Reqs, ok : BOOLEAN])]
    /\ outcome \in [Reqs -> {"none", "done", "failed"}]
    /\ broker \in {"running", "closing", "exited"}
    /\ doomed \in Links \cup {NoLink}

\* A request that was sent is in exactly one place: still pending, taken out
\* by one thread that has yet to answer, or answered, once.  The ack, the
\* link's drop, the expiry and the shutdown race for it and one of them wins.
SentRequestHasOneAnswer ==
    \A r \in Reqs : req[r] = "sent" =>
        \/ r \in pending /\ owed[r] = "none" /\ answers[r] = <<>>
        \/ r \notin pending /\ owed[r] # "none" /\ answers[r] = <<>>
        \/ r \notin pending /\ owed[r] = "none" /\ Len(answers[r]) = 1

\* No request is left waiting on a link that is down, where no ack can come:
\* only its own thread, about to fail the send, may still have it there.
DeadLinkHoldsNoRequest ==
    \A r \in pending : up[via[r]] = "down" => req[r] \in {"enlisted", "failed"}

\* What a requester is told is worth what Requests says: of ack, drop, expiry,
\* failed send and shutdown none adds an answer to the first, but for the failed
\* send of a request that never left; and "ok" and "refused" are only said of a
\* request the peer has handled, as its handling bears out.
Promise == INSTANCE Requests

ImplementsRequests == Promise!Spec

\* A link that was replaced takes only itself down: the host loses its link
\* by that link's own drop or the shutdown.
HostKeepsNewerLink ==
    [][current # NoLink /\ current' = NoLink =>
          up[current] = "dropping" \/ broker' # broker]_vars

\* "A silent peer must not ... hang the sender": a request that was sent is
\* answered, whatever the peer and the link do, unless the broker exits.
SentRequestIsAnswered ==
    \A r \in Reqs : req[r] = "sent" ~> answers[r] # <<>> \/ broker = "exited"

-----------------------------------------------------------------------------
(* What the comments promise and the code does not keep                    *)

\* "answer the requester once".
AnsweredOnce == \A r \in Reqs : Len(answers[r]) <= 1

\* "an undeliverable target reports back": no relay is told ok whose message the
\* peer could not write to its target.
OkMeansWritten ==
    \A r \in Relays :
        (\E i \in 1..Len(answers[r]) : answers[r][i] = "ok") => outcome[r] = "done"

\* "the broker reports the failure instead of a phantom teammate": no spawn is
\* told refused that left its teammate running.
RefusedMeansNotRunning ==
    \A r \in Spawns :
        (\E i \in 1..Len(answers[r]) : answers[r][i] = "refused") => outcome[r] # "done"
=============================================================================
