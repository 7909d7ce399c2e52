------------------------------ MODULE Delivery ------------------------------
(***************************************************************************)
(* A send to one local agent id, from the broker's dispatch to the session *)
(* (src/src/team_broker.py, delivery.py, mailbox.py, team_client.py and    *)
(* the hold's reader in extensions/pi-teams/agent.ts).                     *)
(*                                                                         *)
(* The target's hold comes and goes; each of its connections registers the *)
(* id once.  A send finds a connection and writes to it, or parks the      *)
(* message on disk for the next register to replay.  The lookup, the write *)
(* and the park are separate steps of the sender's thread, and a replay is *)
(* a list read, then writes, then deletes, of the registering one's.       *)
(***************************************************************************)
EXTENDS Sequences, Naturals

CONSTANTS
    Msgs,       \* the messages sent, each once
    Conns,      \* the connections of the target's successive holds
    NoConn,
    MaxCrashes, \* how often the broker may crash and be replaced (a bound)
    SeenLimit   \* the ids an instance of the extension remembers (128 in agent.ts)

ASSUME DeliveryAssumption ==
    /\ NoConn \notin Conns /\ "ack" \notin Msgs
    /\ MaxCrashes \in Nat /\ SeenLimit \in Nat

VARIABLES
    client,     \* the connection registered for the target (_clients)
    dropMark,   \* the target dropped within the mailbox ttl (_dropped_at)
    mailbox,    \* the messages parked on disk
    send,       \* how far the dispatch of each message is
    saw,        \* the connection each dispatch found
    thread,     \* the broker thread serving each connection
    batch,      \* the parked messages its replay still has to write
    written,    \* those it wrote and still has to delete
    hold,       \* the hold at the other end of each connection
    wire,       \* what is written to a connection and not yet read
    seen,       \* the extension's last SeenLimit message ids, oldest first
    shown,      \* every message surfaced to the session, oldest first
    start,      \* how many of them an earlier instance of the extension surfaced
    crashes

vars == <<client, dropMark, mailbox, send, saw, thread, batch, written, hold,
          wire, seen, shown, start, crashes>>

broker == <<client, dropMark, thread, batch, written>>
session == <<hold, seen, shown, start>>

-----------------------------------------------------------------------------
Live(c) == hold[c] \in {"joining", "holding"}

BrokerOpen(c) == thread[c] \notin {"closed", "ended"}

\* _write: a closed socket raises; a live peer gets the bytes; with the peer
\* gone the kernel takes the bytes or refuses them, and nobody reads them.
Write(c, item, ok) ==
    \/ /\ BrokerOpen(c) /\ Live(c) /\ ok
       /\ wire' = [wire EXCEPT ![c] = Append(@, item)]
    \/ /\ ~Live(c) /\ (ok => BrokerOpen(c))
       /\ UNCHANGED wire
    \/ /\ ~BrokerOpen(c) /\ ~ok
       /\ UNCHANGED wire

Init ==
    /\ client = NoConn
    /\ dropMark = FALSE
    /\ mailbox = {}
    /\ send = [m \in Msgs |-> "new"]
    /\ saw = [m \in Msgs |-> NoConn]
    /\ thread = [c \in Conns |-> "idle"]
    /\ batch = [c \in Conns |-> {}]
    /\ written = [c \in Conns |-> {}]
    /\ hold = [c \in Conns |-> "absent"]
    /\ wire = [c \in Conns |-> <<>>]
    /\ seen = <<>>
    /\ shown = <<>>
    /\ start = 0
    /\ crashes = 0

-----------------------------------------------------------------------------
(* dispatch, in the sender's thread                                        *)

\* The one locked step: which connection does the target have?
Look(m) ==
    /\ send[m] = "new"
    /\ saw' = [saw EXCEPT ![m] = client]
    /\ send' = [send EXCEPT ![m] = "looked"]
    /\ UNCHANGED <<broker, session, mailbox, wire, crashes>>

\* A connection was found: write to it and ack, whatever the write returned.
Relay(m) ==
    /\ send[m] = "looked" /\ saw[m] # NoConn
    /\ \E ok \in BOOLEAN : Write(saw[m], m, ok)
    /\ send' = [send EXCEPT ![m] = "acked"]
    /\ UNCHANGED <<broker, session, mailbox, saw, crashes>>

\* None was found: does the target still belong to the team (accepts)?
ParkOrFail(m) ==
    /\ send[m] = "looked" /\ saw[m] = NoConn
    /\ send' = [send EXCEPT ![m] =
          IF client # NoConn \/ dropMark THEN "parking" ELSE "refused"]
    /\ UNCHANGED <<broker, session, mailbox, saw, wire, crashes>>

\* Mailbox.enqueue wrote the record; the sender hears it was queued.
Park(m) ==
    /\ send[m] = "parking"
    /\ mailbox' = mailbox \cup {m}
    /\ send' = [send EXCEPT ![m] = "queued"]
    /\ UNCHANGED <<broker, session, saw, wire, crashes>>

\* The record could not be made: enqueue returns "" and dispatch acks the
\* message as queued all the same.
ParkUnwritten(m) ==
    /\ send[m] = "parking"
    /\ send' = [send EXCEPT ![m] = "queued"]
    /\ UNCHANGED <<broker, session, mailbox, saw, wire, crashes>>

\* The scratch write raised: the sender's thread ends without an answer.
ParkRaises(m) ==
    /\ send[m] = "parking"
    /\ send' = [send EXCEPT ![m] = "unanswered"]
    /\ UNCHANGED <<broker, session, mailbox, saw, wire, crashes>>

-----------------------------------------------------------------------------
(* _register and the connection's end, in its serving thread               *)

Register(c) ==
    /\ thread[c] = "idle" /\ hold[c] # "absent"
    /\ client' = c
    /\ thread' = [thread EXCEPT ![c] = "registered"]
    /\ UNCHANGED <<session, dropMark, mailbox, send, saw, batch, written, wire,
                   crashes>>

RegisterAck(c) ==
    /\ thread[c] = "registered"
    /\ \E ok \in BOOLEAN : Write(c, "ack", ok)
    /\ thread' = [thread EXCEPT ![c] = "loading"]
    /\ UNCHANGED <<session, client, dropMark, mailbox, send, saw, batch, written,
                   crashes>>

\* MailboxDelivery.replay reads the parked list once ...
Load(c) ==
    /\ thread[c] = "loading"
    /\ batch' = [batch EXCEPT ![c] = mailbox]
    /\ thread' = [thread EXCEPT ![c] = "replaying"]
    /\ UNCHANGED <<session, client, dropMark, mailbox, send, saw, written, wire,
                   crashes>>

\* Mutant: a failed write counts as a replayed message.
ReplayWriteUnchecked(c, m) ==
    /\ thread[c] \in {"replaying", "closed"} /\ m \in batch[c]
    /\ \E ok \in BOOLEAN : Write(c, m, ok)
    /\ written' = [written EXCEPT ![c] = @ \cup {m}]
    /\ batch' = [batch EXCEPT ![c] = @ \ {m}]
    /\ UNCHANGED <<session, client, dropMark, mailbox, send, saw, thread, crashes>>

\* ... writes each (in an order a same-millisecond tie leaves open), noting
\* the writes that succeeded ...
ReplayWrite(c, m) ==
    /\ thread[c] \in {"replaying", "closed"} /\ m \in batch[c]
    /\ \E ok \in BOOLEAN :
        /\ Write(c, m, ok)
        /\ written' = [written EXCEPT ![c] = IF ok THEN @ \cup {m} ELSE @]
    /\ batch' = [batch EXCEPT ![c] = @ \ {m}]
    /\ UNCHANGED <<session, client, dropMark, mailbox, send, saw, thread, crashes>>

\* ... and only then deletes the written ones.
ReplayDrop(c, m) ==
    /\ batch[c] = {} /\ m \in written[c]
    /\ mailbox' = mailbox \ {m}
    /\ written' = [written EXCEPT ![c] = @ \ {m}]
    /\ UNCHANGED <<session, client, dropMark, send, saw, thread, batch, wire, crashes>>

ReplayDone(c) ==
    /\ thread[c] = "replaying" /\ batch[c] = {} /\ written[c] = {}
    /\ thread' = [thread EXCEPT ![c] = "serving"]
    /\ UNCHANGED <<session, client, dropMark, mailbox, send, saw, batch, written,
                   wire, crashes>>

\* The hold is gone: a drop, and marked as one, if this connection has the id.
EndOfStream(c) ==
    /\ thread[c] = "serving" /\ ~Live(c)
    /\ thread' = [thread EXCEPT ![c] = "ended"]
    /\ client' = IF client = c THEN NoConn ELSE client
    /\ dropMark' = (dropMark \/ client = c)
    /\ UNCHANGED <<session, mailbox, send, saw, batch, written, wire, crashes>>

\* terminate, from another thread: released without a mark, socket closed.
Evict(c) ==
    /\ client = c
    /\ client' = NoConn
    /\ thread' = [thread EXCEPT ![c] = IF @ = "serving" THEN "ended" ELSE "closed"]
    /\ UNCHANGED <<session, dropMark, mailbox, send, saw, batch, written, wire,
                   crashes>>

\* A thread whose socket was closed under it in _register finishes the replay
\* (reading the list, failing to write it) and ends.
ClosedThreadEnds(c) ==
    /\ thread[c] = "closed" /\ batch[c] = {} /\ written[c] = {}
    /\ thread' = [thread EXCEPT ![c] = "ended"]
    /\ UNCHANGED <<session, client, dropMark, mailbox, send, saw, batch, written,
                   wire, crashes>>

-----------------------------------------------------------------------------
(* The sweep, and the broker's death                                       *)

\* Mailbox.prune: a record past the ttl is unlinked, whoever is registered.
Expire(m) ==
    /\ m \in mailbox
    /\ mailbox' = mailbox \ {m}
    /\ UNCHANGED <<broker, session, send, saw, wire, crashes>>

\* MailboxDelivery.prune: the drop mark is past the ttl.
MarkExpires ==
    /\ dropMark
    /\ dropMark' = FALSE
    /\ UNCHANGED <<session, client, mailbox, send, saw, thread, batch, written,
                   wire, crashes>>

\* The broker dies and another takes the root over: the maps and the drop
\* marks are gone, the mailbox and what the sockets hold are not.
Crash ==
    /\ crashes < MaxCrashes
    /\ crashes' = crashes + 1
    /\ client' = NoConn
    /\ dropMark' = FALSE
    /\ thread' = [c \in Conns |-> IF hold[c] = "absent" THEN "idle" ELSE "ended"]
    /\ batch' = [c \in Conns |-> {}]
    /\ written' = [c \in Conns |-> {}]
    /\ send' = [m \in Msgs |->
          IF send[m] \in {"looked", "parking"} THEN "unanswered" ELSE send[m]]
    /\ UNCHANGED <<session, mailbox, saw, wire>>

-----------------------------------------------------------------------------
(* The session: its holds, one at a time, and its extension                *)

\* The extension launches a hold once the last one is stopped or dead.
HoldStarts(c) ==
    /\ hold[c] = "absent" /\ \A d \in Conns : ~Live(d)
    /\ hold' = [hold EXCEPT ![c] = "joining"]
    /\ UNCHANGED <<broker, mailbox, send, saw, wire, seen, shown, start, crashes>>

\* TeamClient.request: until the register's ack, anything else is skipped.
ReadJoining(c) ==
    /\ hold[c] = "joining" /\ wire[c] # <<>>
    /\ hold' = [hold EXCEPT ![c] = IF Head(wire[c]) = "ack" THEN "holding" ELSE @]
    /\ wire' = [wire EXCEPT ![c] = Tail(@)]
    /\ UNCHANGED <<broker, mailbox, send, saw, seen, shown, start, crashes>>

\* Mutant: a message is surfaced whether or not its id is known.
ReadMessageAgain(c) ==
    /\ hold[c] = "holding" /\ wire[c] # <<>>
    /\ wire' = [wire EXCEPT ![c] = Tail(@)]
    /\ shown' = Append(shown, Head(wire[c]))
    /\ UNCHANGED <<broker, hold, mailbox, send, saw, seen, start, crashes>>

\* hold() prints the message, and deliverMessage surfaces it unless its id is
\* among the last SeenLimit ones.
ReadMessage(c) ==
    LET m == Head(wire[c])
        known == \E i \in 1..Len(seen) : seen[i] = m
        longer == Append(seen, m) IN
    /\ hold[c] = "holding" /\ wire[c] # <<>>
    /\ wire' = [wire EXCEPT ![c] = Tail(@)]
    /\ seen' = IF known THEN seen
               ELSE IF Len(longer) > SeenLimit THEN Tail(longer) ELSE longer
    /\ shown' = IF known THEN shown ELSE Append(shown, m)
    /\ UNCHANGED <<broker, hold, mailbox, send, saw, start, crashes>>

\* The hold is stopped or dies; what it has not read is lost with it.
HoldDies(c) ==
    /\ Live(c)
    /\ hold' = [hold EXCEPT ![c] = "gone"]
    /\ wire' = [wire EXCEPT ![c] = <<>>]
    /\ UNCHANGED <<broker, mailbox, send, saw, seen, shown, start, crashes>>

\* The session's extension is reloaded: the old instance stops its hold, and the
\* new one takes over the id and the token but none of the remembered ids.
Reload ==
    /\ hold' = [c \in Conns |-> IF Live(c) THEN "gone" ELSE hold[c]]
    /\ wire' = [c \in Conns |-> IF Live(c) THEN <<>> ELSE wire[c]]
    /\ seen' = <<>>
    /\ start' = Len(shown)
    /\ UNCHANGED <<broker, mailbox, send, saw, shown, crashes>>

-----------------------------------------------------------------------------
Next ==
    \/ \E m \in Msgs :
        \/ Look(m) \/ Relay(m) \/ ParkOrFail(m) \/ Park(m)
        \/ ParkUnwritten(m) \/ ParkRaises(m) \/ Expire(m)
        \/ \E c \in Conns : ReplayWrite(c, m) \/ ReplayDrop(c, m)
    \/ \E c \in Conns :
        \/ Register(c) \/ RegisterAck(c) \/ Load(c) \/ ReplayDone(c)
        \/ EndOfStream(c) \/ Evict(c) \/ ClosedThreadEnds(c)
        \/ HoldStarts(c) \/ ReadJoining(c) \/ ReadMessage(c) \/ HoldDies(c)
    \/ MarkExpires \/ Crash \/ Reload

Spec == Init /\ [][Next]_vars

-----------------------------------------------------------------------------
(* Properties                                                              *)

TypeOK ==
    /\ client \in Conns \cup {NoConn}
    /\ dropMark \in BOOLEAN
    /\ mailbox \subseteq Msgs
    /\ send \in [Msgs -> {"new", "looked", "parking", "acked", "queued",
                         "refused", "unanswered"}]
    /\ saw \in [Msgs -> Conns \cup {NoConn}]
    /\ thread \in [Conns -> {"idle", "registered", "loading", "replaying",
                            "serving", "closed", "ended"}]
    /\ batch \in [Conns -> SUBSET Msgs]
    /\ written \in [Conns -> SUBSET Msgs]
    /\ hold \in [Conns -> {"absent", "joining", "holding", "gone"}]
    /\ wire \in [Conns -> Seq(Msgs \cup {"ack"})]
    /\ seen \in Seq(Msgs)
    /\ shown \in Seq(Msgs)
    /\ start \in 0..Len(shown)
    /\ crashes \in 0..MaxCrashes

OnWire(m, c) == \E i \in 1..Len(wire[c]) : wire[c][i] = m

Shown(m) == \E i \in 1..Len(shown) : shown[i] = m

\* A parked message is about to be deleted only if it is on its way to, or was
\* surfaced by, the hold it was written to, for as long as that hold lives: no
\* failed write counts, and none is written where the client still waits for
\* its register ack and would skip it (delivery.py replay, _register's order).
DeletedMailIsDelivered ==
    \A m \in Msgs, c \in Conns :
        m \in written[c] /\ Live(c) => OnWire(m, c) \/ Shown(m)

\* Overlapping replays, a crash between write and delete and the holds that
\* follow each other surface no message a second time to the instance of the
\* extension that still remembers it, and one its sender heard refused never
\* arrives.
Promise == INSTANCE Mail WITH
    answer <- [m \in Msgs |-> CASE send[m] \in {"acked", "queued"} -> "accepted"
                               [] send[m] = "refused" -> "refused"
                               [] OTHER -> "none"],
    arrived <- shown, Window <- SeenLimit

ImplementsMail == Promise!Spec

-----------------------------------------------------------------------------
(* What the documents promise and the code does not keep                   *)

\* "the broker delivers it when the target registers again": once a target is
\* registered, its replay over and its hold reading, nothing is parked for it
\* (nothing would deliver it before the next register, or the ttl).
ServedTargetHasNoMail ==
    client # NoConn /\ thread[client] = "serving" /\ hold[client] = "holding"
        => mailbox = {}

\* "so the hold-restart window loses nothing": a message that is acked as relayed
\* to a connection the broker has not closed is on the wire to a hold.
RestartWindowLosesNothing ==
    [][\A m \in Msgs :
          send[m] = "looked" /\ send'[m] = "acked" /\ BrokerOpen(saw[m])
              => OnWire(m, saw[m])']_vars

\* "a recent drop, not an eviction": an evicted target does not count as one
\* whose connection dropped, for which the next send would be parked and acked.
EvictionIsNoDrop == [][\A c \in Conns : Evict(c) => ~dropMark']_vars

\* "the second copy must not surface": whatever the session reloads, no message
\* is surfaced to it twice.
SurfacedOnce == \A i, j \in 1..Len(shown) : shown[i] = shown[j] => i = j
=============================================================================
