--------------------------- MODULE DeliveryProofs ---------------------------
(***************************************************************************)
(* Proofs about Delivery, for any messages, connections, crashes, reloads   *)
(* and any limit on remembered ids: mail is deleted only when it is on its *)
(* way, and the whole path implements Mail.                                *)
(***************************************************************************)
EXTENDS Delivery, TLAPS

Items == Msgs \cup {"ack"}

\* The running instance remembers the last SeenLimit messages of those it surfaced.
Remembered ==
    /\ Len(seen) <= SeenLimit /\ Len(seen) <= Len(shown) - start
    /\ Len(seen) = SeenLimit \/ Len(seen) = Len(shown) - start
    /\ \A i \in 1..Len(seen) : seen[i] = shown[Len(shown) - Len(seen) + i]

\* Of a message that was not accepted there is no trace.
Sent(m) == send[m] \in {"acked", "queued"}

Trace(m) ==
    \/ m \in mailbox \/ Shown(m)
    \/ \E c \in Conns : m \in batch[c] \/ m \in written[c] \/ OnWire(m, c)

Traced == \A m \in Msgs : Trace(m) => Sent(m)

OneAck(c) ==
    \A i, j \in 1..Len(wire[c]) : wire[c][i] = "ack" /\ wire[c][j] = "ack" => i = j

\* The register's ack is written once, before anything its replay writes, and is
\* the last line a joining hold skips nothing for.
Acked(c) ==
    /\ thread[c] # "idle" => hold[c] # "absent"
    /\ client = c => thread[c] # "idle"
    /\ thread[c] \in {"idle", "registered", "loading"} => batch[c] = {} /\ written[c] = {}
    /\ thread[c] \in {"idle", "registered"} => hold[c] # "holding" /\ ~OnWire("ack", c)
    /\ hold[c] = "holding" => ~OnWire("ack", c)
    /\ hold[c] = "joining" /\ thread[c] \in {"loading", "replaying", "serving"}
          => OnWire("ack", c)
    /\ OneAck(c)

\* What a replay wrote and is about to delete is behind the ack, on the wire to a
\* hold that reads, or has been surfaced.
BehindAck(m, c) ==
    \E i, j \in 1..Len(wire[c]) : i < j /\ wire[c][i] = "ack" /\ wire[c][j] = m

OnItsWay(m, c) ==
    /\ hold[c] = "joining" => BehindAck(m, c)
    /\ hold[c] = "holding" => OnWire(m, c) \/ Shown(m)

Deleting == \A c \in Conns : \A m \in written[c] : OnItsWay(m, c)

IInv ==
    /\ TypeOK /\ Remembered /\ Traced
    /\ \A c \in Conns : Acked(c)
    /\ Deleting

LEMMA InitInv == Init => IInv
  <1> SUFFICES ASSUME Init PROVE IInv
    OBVIOUS
  <1>1. TypeOK
    <2>1. <<>> \in Seq(Msgs) /\ <<>> \in Seq(Msgs \cup {"ack"})
      OBVIOUS
    <2>2. wire \in [Conns -> Seq(Msgs \cup {"ack"})] /\ seen \in Seq(Msgs)
      BY <2>1 DEF Init
    <2>3. crashes \in 0..MaxCrashes /\ shown \in Seq(Msgs) /\ start \in 0..Len(shown)
      BY <2>1, DeliveryAssumption DEF Init
    <2> QED
      BY <2>2, <2>3 DEF Init, TypeOK
  <1>2. \A c \in Conns : Len(wire[c]) = 0
    BY DEF Init
  <1>3. \A c \in Conns, x \in Items : ~OnWire(x, c)
    BY <1>2 DEF OnWire
  <1>4. Remembered
    BY DeliveryAssumption DEF Init, Remembered
  <1>9. Len(shown) = 0
    BY DEF Init
  <1>5. Traced
    BY <1>2, <1>3, <1>9 DEF Init, Traced, Trace, Items, Shown
  <1>6. \A c \in Conns : Acked(c)
    BY <1>2, <1>3, DeliveryAssumption DEF Init, Acked, OneAck, Items
  <1>7. Deleting
    BY DEF Init, Deleting
  <1> QED
    BY <1>1, <1>4, <1>5, <1>6, <1>7 DEF IInv

-----------------------------------------------------------------------------
(* The wires                                                               *)

LEMMA WireType ==
    ASSUME TypeOK, NEW c \in Conns
    PROVE  wire[c] \in Seq(Items) /\ Len(wire[c]) \in Nat
  BY DEF TypeOK, Items

\* What is written to a connection either is the last item of its wire or
\* changes no wire; it does the former when the write succeeds and a hold lives.
Appended(c, item) ==
    /\ wire' = [wire EXCEPT ![c] = Append(@, item)]
    /\ thread[c] \notin {"closed", "ended"} /\ Live(c)

LEMMA WriteCases ==
    ASSUME NEW c \in Conns, NEW item \in Items, NEW ok \in BOOLEAN, Write(c, item, ok)
    PROVE  /\ Appended(c, item) \/ UNCHANGED wire
           /\ ok /\ Live(c) => Appended(c, item)
           /\ BrokerOpen(c) /\ Live(c) => Appended(c, item)
  BY DEF Write, Appended, BrokerOpen

LEMMA AppendedWire ==
    ASSUME TypeOK, NEW c \in Conns, NEW item \in Items, Appended(c, item)
    PROVE  /\ wire' \in [Conns -> Seq(Items)]
           /\ \A d \in Conns \ {c} : wire'[d] = wire[d]
           /\ Len(wire'[c]) = Len(wire[c]) + 1
           /\ \A i \in 1..Len(wire[c]) : wire'[c][i] = wire[c][i]
           /\ wire'[c][Len(wire[c]) + 1] = item
  <1>1. wire[c] \in Seq(Items)
    BY WireType
  <1>2. wire'[c] = Append(wire[c], item) /\ \A d \in Conns \ {c} : wire'[d] = wire[d]
    BY DEF Appended, TypeOK
  <1>3. wire' \in [Conns -> Seq(Items)]
    BY <1>1 DEF Appended, TypeOK, Items
  <1> QED
    BY <1>1, <1>2, <1>3

\* Reading takes the first item.
Taken(c) == wire[c] # <<>> /\ wire' = [wire EXCEPT ![c] = Tail(@)]

LEMMA TakenWire ==
    ASSUME TypeOK, NEW c \in Conns, Taken(c)
    PROVE  /\ wire' \in [Conns -> Seq(Items)]
           /\ \A d \in Conns \ {c} : wire'[d] = wire[d]
           /\ Len(wire[c]) \in Nat \ {0} /\ Len(wire'[c]) = Len(wire[c]) - 1
           /\ \A i \in 1..Len(wire'[c]) : wire'[c][i] = wire[c][i + 1]
           /\ Head(wire[c]) = wire[c][1] /\ Head(wire[c]) \in Items
  <1>1. wire[c] \in Seq(Items) /\ wire[c] # <<>>
    BY WireType DEF Taken
  <1>2. wire'[c] = Tail(wire[c]) /\ \A d \in Conns \ {c} : wire'[d] = wire[d]
    BY DEF Taken, TypeOK
  <1>3. wire' \in [Conns -> Seq(Items)]
    BY <1>1 DEF Taken, TypeOK, Items
  <1> QED
    BY <1>1, <1>2, <1>3
\* What a hold finds on its wire after a message was written to some connection.
LEMMA WrittenMessage ==
    ASSUME TypeOK, NEW c \in Conns, NEW m \in Msgs, NEW ok \in BOOLEAN, Write(c, m, ok)
    PROVE  /\ wire' \in [Conns -> Seq(Items)]
           /\ \A d \in Conns, x \in Items : OnWire(x, d) => OnWire(x, d)'
           /\ \A d \in Conns, x \in Items : OnWire(x, d)' => OnWire(x, d) \/ x = m
           /\ \A d \in Conns, x \in Items : BehindAck(x, d) => BehindAck(x, d)'
           /\ \A d \in Conns : OneAck(d) => OneAck(d)'
           /\ ok /\ Live(c) => OnWire(m, c)'
           /\ ok /\ Live(c) /\ OnWire("ack", c) => BehindAck(m, c)'
  <1>1. m \in Items /\ m # "ack"
    BY DeliveryAssumption DEF Items
  <1>2. CASE Appended(c, m)
    <2>1. Len(wire[c]) \in Nat
      BY WireType
    <2>2. /\ wire' \in [Conns -> Seq(Items)]
          /\ \A d \in Conns \ {c} : wire'[d] = wire[d]
          /\ Len(wire'[c]) = Len(wire[c]) + 1
          /\ \A i \in 1..Len(wire[c]) : wire'[c][i] = wire[c][i]
          /\ wire'[c][Len(wire[c]) + 1] = m
      BY <1>1, <1>2, AppendedWire
    <2>3. 1..Len(wire'[c]) = 1..Len(wire[c]) \cup {Len(wire[c]) + 1}
      BY <2>1, <2>2
    <2>4. \A x \in Items : OnWire(x, c)' <=> OnWire(x, c) \/ x = m
      BY <2>1, <2>2, <2>3 DEF OnWire
    <2>5. \A x \in Items : BehindAck(x, c) => BehindAck(x, c)'
      BY <2>1, <2>2, <2>3 DEF BehindAck
    <2>6. OneAck(c) => OneAck(c)'
      BY <1>1, <2>1, <2>2, <2>3 DEF OneAck
    <2>7. OnWire("ack", c) => BehindAck(m, c)'
      BY <2>1, <2>2, <2>3 DEF OnWire, BehindAck
    <2>8. \A d \in Conns \ {c}, x \in Items :
              /\ OnWire(x, d)' <=> OnWire(x, d)
              /\ BehindAck(x, d)' <=> BehindAck(x, d)
              /\ OneAck(d)' <=> OneAck(d)
      BY <2>2 DEF OnWire, BehindAck, OneAck
    <2> QED
      BY <1>1, <2>2, <2>4, <2>5, <2>6, <2>7, <2>8
  <1>3. CASE UNCHANGED wire /\ ~(ok /\ Live(c))
    BY <1>3 DEF TypeOK, Items, OnWire, BehindAck, OneAck
  <1> QED
    BY <1>1, <1>2, <1>3, WriteCases

\* What is left of a wire after its first item was read.
LEMMA TakenItem ==
    ASSUME TypeOK, NEW c \in Conns, Taken(c)
    PROVE  /\ \A x \in Items : OnWire(x, c) <=> OnWire(x, c)' \/ x = Head(wire[c])
           /\ OnWire("ack", c) /\ OneAck(c) /\ Head(wire[c]) = "ack" => ~OnWire("ack", c)'
           /\ \A x \in Items : BehindAck(x, c) => OnWire(x, c)'
           /\ Head(wire[c]) # "ack" =>
                 \A x \in Items : BehindAck(x, c) => BehindAck(x, c)'
           /\ OneAck(c) => OneAck(c)'
           /\ \A d \in Conns \ {c}, x \in Items :
                 /\ OnWire(x, d)' <=> OnWire(x, d)
                 /\ BehindAck(x, d)' <=> BehindAck(x, d)
                 /\ OneAck(d)' <=> OneAck(d)
  <1> DEFINE n == Len(wire[c])
  <1>1. /\ n \in Nat \ {0} /\ Len(wire'[c]) = n - 1
        /\ \A i \in 1..(n - 1) : wire'[c][i] = wire[c][i + 1]
        /\ Head(wire[c]) = wire[c][1]
        /\ \A d \in Conns \ {c} : wire'[d] = wire[d]
    BY TakenWire
  <1> HIDE DEF n
  <1>2. \A i \in 2..n : i - 1 \in 1..(n - 1) /\ wire'[c][i - 1] = wire[c][i]
    BY <1>1
  <1>3. \A x \in Items : OnWire(x, c) <=> OnWire(x, c)' \/ x = Head(wire[c])
    <2>1. ASSUME NEW x \in Items, OnWire(x, c), x # Head(wire[c]) PROVE OnWire(x, c)'
      <3>1. PICK i \in 1..n : wire[c][i] = x
        BY <2>1 DEF OnWire, n
      <3>2. i \in 2..n
        BY <1>1, <2>1, <3>1
      <3> QED
        BY <1>1, <1>2, <3>1, <3>2 DEF OnWire
    <2>2. ASSUME NEW x \in Items, OnWire(x, c)' PROVE OnWire(x, c)
      BY <1>1, <2>2 DEF OnWire, n
    <2>3. OnWire(Head(wire[c]), c)
      BY <1>1 DEF OnWire, n
    <2> QED
      BY <2>1, <2>2, <2>3
  <1>4. OnWire("ack", c) /\ OneAck(c) /\ Head(wire[c]) = "ack" => ~OnWire("ack", c)'
    <2> SUFFICES ASSUME OneAck(c), Head(wire[c]) = "ack", OnWire("ack", c)' PROVE FALSE
      OBVIOUS
    <2>1. PICK i \in 1..(n - 1) : wire'[c][i] = "ack"
      BY <1>1 DEF OnWire
    <2>2. i + 1 \in 1..n /\ 1 \in 1..n /\ wire[c][i + 1] = "ack" /\ wire[c][1] = "ack"
      BY <1>1, <2>1
    <2>3. i + 1 = 1
      BY <2>2 DEF OneAck, n
    <2> QED
      BY <2>3
  <1>5. \A x \in Items : BehindAck(x, c) => OnWire(x, c)'
    <2> SUFFICES ASSUME NEW x \in Items, BehindAck(x, c) PROVE OnWire(x, c)'
      OBVIOUS
    <2>1. PICK i, j \in 1..n : i < j /\ wire[c][j] = x
      BY DEF BehindAck, n
    <2>2. j \in 2..n
      BY <1>1, <2>1
    <2> QED
      BY <1>1, <1>2, <2>1, <2>2 DEF OnWire
  <1>6. Head(wire[c]) # "ack" => \A x \in Items : BehindAck(x, c) => BehindAck(x, c)'
    <2> SUFFICES ASSUME Head(wire[c]) # "ack", NEW x \in Items, BehindAck(x, c)
                 PROVE  BehindAck(x, c)'
      OBVIOUS
    <2>1. PICK i, j \in 1..n : i < j /\ wire[c][i] = "ack" /\ wire[c][j] = x
      BY DEF BehindAck, n
    <2>2. i \in 2..n /\ j \in 2..n /\ i - 1 < j - 1
      BY <1>1, <2>1
    <2>3. /\ i - 1 \in 1..(n - 1) /\ wire'[c][i - 1] = "ack"
          /\ j - 1 \in 1..(n - 1) /\ wire'[c][j - 1] = x
      BY <1>2, <2>1, <2>2
    <2>4. i - 1 \in 1..Len(wire'[c]) /\ j - 1 \in 1..Len(wire'[c])
      BY <1>1, <2>3
    <2> QED
      BY <2>2, <2>3, <2>4 DEF BehindAck
  <1>7. OneAck(c) => OneAck(c)'
    <2> SUFFICES ASSUME OneAck(c), NEW i \in 1..(n - 1), NEW j \in 1..(n - 1),
                        wire'[c][i] = "ack", wire'[c][j] = "ack"
                 PROVE  i = j
      BY <1>1 DEF OneAck
    <2>1. /\ i + 1 \in 1..n /\ wire[c][i + 1] = "ack"
          /\ j + 1 \in 1..n /\ wire[c][j + 1] = "ack"
      BY <1>1
    <2>2. i + 1 = j + 1
      BY <2>1 DEF OneAck, n
    <2> QED
      BY <2>2
  <1>8. \A d \in Conns \ {c}, x \in Items :
            /\ OnWire(x, d)' <=> OnWire(x, d)
            /\ BehindAck(x, d)' <=> BehindAck(x, d)
            /\ OneAck(d)' <=> OneAck(d)
    BY <1>1 DEF OnWire, BehindAck, OneAck
  <1> QED
    BY <1>3, <1>4, <1>5, <1>6, <1>7, <1>8
-----------------------------------------------------------------------------
(* Steps that write nothing                                                *)

\* Where the holds and the wires stay as they are, a record may be parked of a
\* message that is accepted, and a replay may take and forget records.
LEMMA StillInv ==
    ASSUME IInv, TypeOK', UNCHANGED <<hold, wire, seen, shown, start>>,
           \A m \in Msgs : Sent(m) => Sent(m)',
           \A m \in mailbox' : m \in mailbox \/ Sent(m)',
           \A c \in Conns : batch'[c] \subseteq batch[c] \cup mailbox,
           \A c \in Conns : written'[c] \subseteq written[c],
           \A c \in Conns : Acked(c)'
    PROVE  IInv'
  <1>1. Remembered'
    BY DEF IInv, Remembered
  <1>2. \A m \in Msgs : Trace(m)' => Trace(m) \/ Sent(m)'
    BY DEF Trace, OnWire, Shown
  <1>3. Traced'
    BY <1>2 DEF IInv, Traced
  <1>4. Deleting'
    BY DEF IInv, Deleting, OnItsWay, BehindAck, OnWire, Shown
  <1> QED
    BY <1>1, <1>3, <1>4 DEF IInv

\* ... which they do when no connection changes either.
LEMMA AnswerInv ==
    ASSUME IInv, TypeOK', UNCHANGED <<hold, wire, seen, shown, start, client, thread, batch, written>>,
           \A m \in Msgs : Sent(m) => Sent(m)',
           \A m \in mailbox' : m \in mailbox \/ Sent(m)'
    PROVE  IInv'
  <1>1. \A c \in Conns : Acked(c)'
    BY DEF IInv, Acked, OneAck, OnWire
  <1> QED
    BY <1>1, StillInv

LEMMA SenderInv ==
    ASSUME IInv, NEW m \in Msgs,
           \/ Look(m) \/ ParkOrFail(m) \/ Park(m) \/ ParkUnwritten(m) \/ ParkRaises(m)
           \/ Expire(m)
    PROVE  IInv'
  <1> USE DEF broker, session
  <1>0. TypeOK
    BY DEF IInv
  <1>1. CASE Look(m)
    <2>1. TypeOK'
      BY <1>0, <1>1 DEF Look, TypeOK
    <2>2. \A x \in Msgs : Sent(x) => Sent(x)'
      BY <1>0, <1>1 DEF Look, TypeOK, Sent
    <2> QED
      BY <1>1, <2>1, <2>2, AnswerInv DEF Look
  <1>2. CASE ParkOrFail(m)
    <2>1. TypeOK'
      BY <1>0, <1>2 DEF ParkOrFail, TypeOK
    <2>2. \A x \in Msgs : Sent(x) => Sent(x)'
      BY <1>0, <1>2 DEF ParkOrFail, TypeOK, Sent
    <2> QED
      BY <1>2, <2>1, <2>2, AnswerInv DEF ParkOrFail
  <1>3. CASE Park(m)
    <2>1. TypeOK'
      BY <1>0, <1>3 DEF Park, TypeOK
    <2>2. (\A x \in Msgs : Sent(x) => Sent(x)') /\ Sent(m)'
      BY <1>0, <1>3 DEF Park, TypeOK, Sent
    <2> QED
      BY <1>3, <2>1, <2>2, AnswerInv DEF Park
  <1>4. CASE ParkUnwritten(m)
    <2>1. TypeOK'
      BY <1>0, <1>4 DEF ParkUnwritten, TypeOK
    <2>2. \A x \in Msgs : Sent(x) => Sent(x)'
      BY <1>0, <1>4 DEF ParkUnwritten, TypeOK, Sent
    <2> QED
      BY <1>4, <2>1, <2>2, AnswerInv DEF ParkUnwritten
  <1>5. CASE ParkRaises(m)
    <2>1. TypeOK'
      BY <1>0, <1>5 DEF ParkRaises, TypeOK
    <2>2. \A x \in Msgs : Sent(x) => Sent(x)'
      BY <1>0, <1>5 DEF ParkRaises, TypeOK, Sent
    <2> QED
      BY <1>5, <2>1, <2>2, AnswerInv DEF ParkRaises
  <1>6. CASE Expire(m)
    <2>1. TypeOK'
      BY <1>0, <1>6 DEF Expire, TypeOK
    <2>2. \A x \in Msgs : Sent(x) => Sent(x)'
      BY <1>6 DEF Expire, Sent
    <2> QED
      BY <1>6, <2>1, <2>2, AnswerInv DEF Expire
  <1> QED
    BY <1>1, <1>2, <1>3, <1>4, <1>5, <1>6

\* The serving threads, but for their writes.
LEMMA ThreadInv ==
    ASSUME IInv, NEW c \in Conns,
           \/ Register(c) \/ Load(c) \/ ReplayDone(c) \/ EndOfStream(c) \/ Evict(c)
           \/ ClosedThreadEnds(c)
    PROVE  IInv'
  <1> USE DEF session
  <1>0. TypeOK /\ (\A d \in Conns : Acked(d)) /\ NoConn \notin Conns
    BY DeliveryAssumption DEF IInv
  <1>1. UNCHANGED <<hold, wire, seen, shown, start, send, mailbox, written>>
    BY DEF Register, Load, ReplayDone, EndOfStream, Evict, ClosedThreadEnds
  <1>2. TypeOK'
    BY <1>0 DEF Register, Load, ReplayDone, EndOfStream, Evict, ClosedThreadEnds, TypeOK
  <1>3. \A d \in Conns : batch'[d] \subseteq batch[d] \cup mailbox
    BY <1>0 DEF Register, Load, ReplayDone, EndOfStream, Evict, ClosedThreadEnds, TypeOK
  <1>4. \A d \in Conns \ {c} :
            thread'[d] = thread[d] /\ batch'[d] = batch[d] /\ (client' = d => client = d)
    BY <1>0 DEF Register, Load, ReplayDone, EndOfStream, Evict, ClosedThreadEnds, TypeOK
  <1>5. \A d \in Conns \ {c} : Acked(d)'
    BY <1>0, <1>1, <1>4 DEF Acked, OneAck, OnWire
  <1>6. Acked(c)'
    <2>1. OneAck(c)' /\ (OnWire("ack", c)' <=> OnWire("ack", c))
      BY <1>0, <1>1 DEF Acked, OneAck, OnWire
    <2>2. CASE Register(c)
      BY <1>0, <1>1, <2>1, <2>2 DEF Register, Acked, TypeOK
    <2>3. CASE Load(c)
      BY <1>0, <1>1, <2>1, <2>3 DEF Load, Acked, TypeOK
    <2>4. CASE ReplayDone(c)
      BY <1>0, <1>1, <2>1, <2>4 DEF ReplayDone, Acked, TypeOK
    <2>5. CASE EndOfStream(c)
      BY <1>0, <1>1, <2>1, <2>5 DEF EndOfStream, Acked, TypeOK
    <2>6. CASE Evict(c)
      BY <1>0, <1>1, <2>1, <2>6 DEF Evict, Acked, TypeOK
    <2>7. CASE ClosedThreadEnds(c)
      BY <1>0, <1>1, <2>1, <2>7 DEF ClosedThreadEnds, Acked, TypeOK
    <2> QED
      BY <2>2, <2>3, <2>4, <2>5, <2>6, <2>7
  <1>7. \A m \in Msgs : Sent(m) => Sent(m)'
    BY <1>1 DEF Sent
  <1> QED
    BY <1>1, <1>2, <1>3, <1>5, <1>6, <1>7, StillInv

LEMMA DropInv ==
    ASSUME IInv, NEW c \in Conns, NEW m \in Msgs, ReplayDrop(c, m)
    PROVE  IInv'
  <1> USE DEF session
  <1>0. TypeOK /\ (\A d \in Conns : Acked(d))
    BY DEF IInv
  <1>1. TypeOK'
    BY <1>0 DEF ReplayDrop, TypeOK
  <1>2. \A d \in Conns : written'[d] \subseteq written[d]
    BY <1>0 DEF ReplayDrop, TypeOK
  <1>3. \A d \in Conns : Acked(d)'
    BY <1>0, <1>2 DEF ReplayDrop, Acked, OneAck, OnWire
  <1>4. \A x \in Msgs : Sent(x) => Sent(x)'
    BY DEF ReplayDrop, Sent
  <1> QED
    BY <1>1, <1>2, <1>3, <1>4, StillInv DEF ReplayDrop

LEMMA CrashInv == IInv /\ Crash => IInv'
  <1> SUFFICES ASSUME IInv, Crash PROVE IInv'
    OBVIOUS
  <1> USE DEF session
  <1>0. TypeOK /\ (\A d \in Conns : Acked(d)) /\ NoConn \notin Conns
    BY DeliveryAssumption DEF IInv
  <1>1. TypeOK'
    <2>1. crashes' \in 0..MaxCrashes
      BY <1>0, DeliveryAssumption DEF Crash, TypeOK
    <2>2. send' \in [Msgs -> {"new", "looked", "parking", "acked", "queued",
                             "refused", "unanswered"}]
      BY <1>0 DEF Crash, TypeOK
    <2> QED
      BY <1>0, <2>1, <2>2 DEF Crash, TypeOK
  <1>2. \A d \in Conns : Acked(d)'
    BY <1>0 DEF Crash, Acked, OneAck, OnWire, TypeOK
  <1>3. \A x \in Msgs : Sent(x) => Sent(x)'
    BY <1>0 DEF Crash, Sent, TypeOK
  <1> QED
    BY <1>1, <1>2, <1>3, StillInv DEF Crash
-----------------------------------------------------------------------------
(* Writes                                                                  *)

\* A message is written to a connection by a sender or by a replay.
LEMMA MessageInv ==
    ASSUME IInv, TypeOK', NEW c \in Conns, NEW m \in Msgs, NEW ok \in BOOLEAN,
           Write(c, m, ok), Sent(m)',
           UNCHANGED <<client, mailbox, thread, hold, seen, shown, start>>,
           \A x \in Msgs : Sent(x) => Sent(x)',
           \A d \in Conns : batch'[d] \subseteq batch[d],
           \A d \in Conns \ {c} : written'[d] = written[d],
           \/ written'[c] = written[c]
           \/ /\ thread[c] \in {"replaying", "closed"}
              /\ written'[c] \subseteq IF ok THEN written[c] \cup {m} ELSE written[c]
    PROVE  IInv'
  <1>0. TypeOK /\ (\A d \in Conns : Acked(d)) /\ m \in Items /\ "ack" \in Items
        /\ Msgs \subseteq Items /\ m # "ack"
    BY DeliveryAssumption DEF IInv, Items
  <1>1. /\ \A d \in Conns, x \in Items : OnWire(x, d) => OnWire(x, d)'
        /\ \A d \in Conns, x \in Items : OnWire(x, d)' => OnWire(x, d) \/ x = m
        /\ \A d \in Conns, x \in Items : BehindAck(x, d) => BehindAck(x, d)'
        /\ \A d \in Conns : OneAck(d) => OneAck(d)'
        /\ ok /\ Live(c) => OnWire(m, c)'
        /\ ok /\ Live(c) /\ OnWire("ack", c) => BehindAck(m, c)'
    BY <1>0, WrittenMessage
  <1>2. Remembered'
    BY DEF IInv, Remembered
  <1>3. \A x \in Msgs : Trace(x)' => Trace(x) \/ Sent(x)'
    <2>1. \A d \in Conns : written'[d] \subseteq written[d] \cup {m}
      OBVIOUS
    <2> QED
      BY <1>0, <1>1, <2>1 DEF Trace, Shown
  <1>4. Traced'
    BY <1>3 DEF IInv, Traced
  <1>5. \A d \in Conns : Acked(d)'
    BY <1>0, <1>1 DEF Acked
  <1>6. Deleting'
    <2>1. \A d \in Conns : \A x \in written[d] : OnItsWay(x, d)'
      BY <1>0, <1>1 DEF IInv, Deleting, OnItsWay, TypeOK, Shown
    <2>2. ASSUME m \in written'[c], m \notin written[c] PROVE OnItsWay(m, c)'
      <3>1. ok /\ thread[c] \in {"replaying", "closed"}
        BY <2>2
      <3>2. Live(c) => BrokerOpen(c) /\ thread[c] = "replaying"
        BY <3>1 DEF Write, BrokerOpen
      <3>3. hold[c] = "joining" => OnWire("ack", c)
        BY <1>0, <3>2 DEF Acked, Live
      <3> QED
        BY <1>1, <3>1, <3>3 DEF OnItsWay, Live
    <2>3. \A d \in Conns : \A x \in written'[d] : x \in written[d] \/ (d = c /\ x = m)
      OBVIOUS
    <2> QED
      BY <2>1, <2>2, <2>3 DEF Deleting
  <1> QED
    BY <1>2, <1>4, <1>5, <1>6 DEF IInv

LEMMA RelayInv ==
    ASSUME IInv, NEW m \in Msgs, Relay(m)
    PROVE  IInv'
  <1> USE DEF broker, session
  <1>0. TypeOK /\ saw[m] \in Conns /\ m \in Items
    BY DEF IInv, Relay, TypeOK, Items
  <1>1. PICK ok \in BOOLEAN : Write(saw[m], m, ok)
    BY DEF Relay
  <1>2. wire' \in [Conns -> Seq(Items)]
    BY <1>0, <1>1, WrittenMessage
  <1>3. TypeOK'
    BY <1>0, <1>2 DEF Relay, TypeOK, Items
  <1>4. Sent(m)' /\ \A x \in Msgs : Sent(x) => Sent(x)'
    BY <1>0 DEF Relay, TypeOK, Sent
  <1> QED
    BY <1>0, <1>1, <1>3, <1>4, MessageInv DEF Relay

LEMMA ReplayInv ==
    ASSUME IInv, NEW c \in Conns, NEW m \in Msgs, ReplayWrite(c, m)
    PROVE  IInv'
  <1> USE DEF session
  <1>0. TypeOK
    BY DEF IInv
  <1>1. PICK ok \in BOOLEAN :
            /\ Write(c, m, ok)
            /\ written' = [written EXCEPT ![c] = IF ok THEN @ \cup {m} ELSE @]
    BY DEF ReplayWrite
  <1>2. wire' \in [Conns -> Seq(Items)]
    BY <1>0, <1>1, WrittenMessage
  <1>3. written' \in [Conns -> SUBSET Msgs] /\ batch' \in [Conns -> SUBSET Msgs]
    BY <1>0, <1>1 DEF ReplayWrite, TypeOK
  <1>4. TypeOK'
    BY <1>0, <1>2, <1>3 DEF ReplayWrite, TypeOK, Items
  <1>5. Sent(m)
    BY DEF IInv, Traced, Trace, ReplayWrite
  <1>6. \A x \in Msgs : Sent(x) => Sent(x)'
    BY DEF ReplayWrite, Sent
  <1>7. /\ \A d \in Conns : batch'[d] \subseteq batch[d]
        /\ \A d \in Conns \ {c} : written'[d] = written[d]
        /\ written'[c] \subseteq IF ok THEN written[c] \cup {m} ELSE written[c]
        /\ thread[c] \in {"replaying", "closed"}
    BY <1>0, <1>1 DEF ReplayWrite, TypeOK
  <1>8. UNCHANGED <<client, mailbox, thread, hold, seen, shown, start>>
    BY DEF ReplayWrite
  <1> QED
    BY <1>1, <1>4, <1>5, <1>6, <1>7, <1>8, MessageInv

LEMMA RegisterAckInv ==
    ASSUME IInv, NEW c \in Conns, RegisterAck(c)
    PROVE  IInv'
  <1> USE DEF session
  <1>0. TypeOK /\ (\A d \in Conns : Acked(d)) /\ "ack" \in Items /\ Msgs \subseteq Items
        /\ "ack" \notin Msgs
    BY DeliveryAssumption DEF IInv, Items
  <1>1. PICK ok \in BOOLEAN : Write(c, "ack", ok)
    BY DEF RegisterAck
  <1>2. /\ UNCHANGED <<client, mailbox, hold, seen, shown, start, send, batch, written>>
        /\ thread[c] = "registered" /\ thread'[c] = "loading"
        /\ \A d \in Conns \ {c} : thread'[d] = thread[d]
    BY <1>0 DEF RegisterAck, TypeOK
  <1>3. /\ batch[c] = {} /\ written[c] = {} /\ hold[c] \notin {"holding", "absent"}
        /\ ~OnWire("ack", c) /\ OneAck(c)
    BY <1>0, <1>2 DEF Acked
  <1>4. Remembered' /\ \A x \in Msgs : Sent(x) => Sent(x)'
    BY <1>2 DEF IInv, Remembered, Sent
  <1>5. CASE Appended(c, "ack")
    <2> DEFINE n == Len(wire[c])
    <2>1. /\ wire' \in [Conns -> Seq(Items)]
          /\ \A d \in Conns \ {c} : wire'[d] = wire[d]
          /\ Len(wire'[c]) = n + 1 /\ n \in Nat
          /\ \A i \in 1..n : wire'[c][i] = wire[c][i]
          /\ wire'[c][n + 1] = "ack"
      BY <1>0, <1>5, AppendedWire, WireType
    <2> HIDE DEF n
    <2>2. 1..Len(wire'[c]) = 1..n \cup {n + 1}
      BY <2>1
    <2>3. TypeOK'
      BY <1>0, <2>1 DEF RegisterAck, TypeOK, Items
    <2>4. OnWire("ack", c)' /\ OneAck(c)'
      <3>1. \A i \in 1..n : wire[c][i] # "ack"
        BY <1>3 DEF OnWire, n
      <3> QED
        BY <2>1, <2>2, <3>1 DEF OnWire, OneAck
    <2>5. \A x \in Msgs : OnWire(x, c)' => OnWire(x, c)
      BY <1>0, <2>1, <2>2 DEF OnWire, n
    <2>6. \A d \in Conns \ {c}, x \in Items :
              /\ OnWire(x, d)' <=> OnWire(x, d)
              /\ BehindAck(x, d)' <=> BehindAck(x, d)
              /\ OneAck(d)' <=> OneAck(d)
      BY <2>1 DEF OnWire, BehindAck, OneAck
    <2>7. \A x \in Msgs : Trace(x)' => Trace(x)
      BY <1>0, <1>2, <2>5, <2>6 DEF Trace, Shown
    <2>8. Traced'
      BY <1>4, <2>7 DEF IInv, Traced
    <2>9. \A d \in Conns : Acked(d)'
      <3>1. Acked(c)'
        BY <1>2, <1>3, <2>4 DEF Acked
      <3>2. \A d \in Conns \ {c} : Acked(d)'
        BY <1>0, <1>2, <2>6 DEF Acked
      <3> QED
        BY <3>1, <3>2
    <2>10. Deleting'
      BY <1>0, <1>2, <1>3, <2>6 DEF IInv, Deleting, OnItsWay, TypeOK, Shown
    <2> QED
      BY <1>4, <2>3, <2>8, <2>9, <2>10 DEF IInv
  <1>6. CASE UNCHANGED wire /\ ~(BrokerOpen(c) /\ Live(c))
    <2>1. TypeOK'
      BY <1>0, <1>6 DEF RegisterAck, TypeOK
    <2>2. hold[c] # "joining"
      BY <1>2, <1>6 DEF BrokerOpen, Live
    <2>3. \A d \in Conns : Acked(d)'
      BY <1>0, <1>2, <1>3, <1>6, <2>2 DEF Acked, OneAck, OnWire
    <2> QED
      BY <1>2, <1>4, <1>6, <2>1, <2>3, StillInv
  <1> QED
    BY <1>0, <1>1, <1>5, <1>6, WriteCases
-----------------------------------------------------------------------------
(* The session                                                             *)

LEMMA HoldStartsInv ==
    ASSUME IInv, NEW c \in Conns, HoldStarts(c)
    PROVE  IInv'
  <1> USE DEF broker
  <1>0. TypeOK /\ (\A d \in Conns : Acked(d))
    BY DEF IInv
  <1>1. /\ UNCHANGED <<client, thread, batch, written, wire, seen, shown, start, send, mailbox>>
        /\ hold[c] = "absent" /\ hold'[c] = "joining"
        /\ \A d \in Conns \ {c} : hold'[d] = hold[d]
    BY <1>0 DEF HoldStarts, TypeOK
  <1>2. TypeOK'
    BY <1>0 DEF HoldStarts, TypeOK
  <1>3. thread[c] = "idle" /\ written[c] = {}
    BY <1>0, <1>1 DEF Acked
  <1>4. \A d \in Conns : Acked(d)'
    BY <1>0, <1>1, <1>3 DEF Acked, OneAck, OnWire
  <1>5. Remembered'
    BY <1>1 DEF IInv, Remembered
  <1>6. Traced'
    BY <1>1 DEF IInv, Traced, Trace, OnWire, Sent, Shown
  <1>7. Deleting'
    BY <1>1, <1>3 DEF IInv, Deleting, OnItsWay, BehindAck, OnWire, Shown
  <1> QED
    BY <1>2, <1>4, <1>5, <1>6, <1>7 DEF IInv

LEMMA HoldDiesInv ==
    ASSUME IInv, NEW c \in Conns, HoldDies(c)
    PROVE  IInv'
  <1> USE DEF broker
  <1>0. TypeOK /\ (\A d \in Conns : Acked(d)) /\ Msgs \subseteq Items
    BY DEF IInv, Items
  <1>1. /\ UNCHANGED <<client, thread, batch, written, seen, shown, start, send, mailbox>>
        /\ hold'[c] = "gone" /\ wire'[c] = <<>> /\ hold[c] # "absent"
        /\ \A d \in Conns \ {c} : hold'[d] = hold[d] /\ wire'[d] = wire[d]
    BY <1>0 DEF HoldDies, TypeOK, Live
  <1>2. TypeOK'
    <2>1. <<>> \in Seq(Msgs \cup {"ack"})
      OBVIOUS
    <2> QED
      BY <1>0, <2>1 DEF HoldDies, TypeOK
  <1>3. \A x \in Items : ~OnWire(x, c)'
    <2>1. Len(wire'[c]) = 0
      BY <1>1
    <2> QED
      BY <2>1 DEF OnWire
  <1>4. OneAck(c)'
    <2>1. Len(wire'[c]) = 0
      BY <1>1
    <2> QED
      BY <2>1 DEF OneAck
  <1>5. \A d \in Conns \ {c}, x \in Items :
            /\ OnWire(x, d)' <=> OnWire(x, d)
            /\ BehindAck(x, d)' <=> BehindAck(x, d)
            /\ OneAck(d)' <=> OneAck(d)
    BY <1>1 DEF OnWire, BehindAck, OneAck
  <1>6. \A d \in Conns : Acked(d)'
    <2>1. Acked(c)'
      BY <1>0, <1>1, <1>3, <1>4 DEF Acked, Items
    <2>2. \A d \in Conns \ {c} : Acked(d)'
      BY <1>0, <1>1, <1>5 DEF Acked, Items
    <2> QED
      BY <2>1, <2>2
  <1>7. Remembered'
    BY <1>1 DEF IInv, Remembered
  <1>8. \A x \in Msgs : Trace(x)' => Trace(x)
    BY <1>0, <1>1, <1>3, <1>5 DEF Trace, Shown
  <1>9. Traced'
    BY <1>1, <1>8 DEF IInv, Traced, Sent
  <1>10. Deleting'
    BY <1>0, <1>1, <1>5 DEF IInv, Deleting, OnItsWay, TypeOK, Shown
  <1> QED
    BY <1>2, <1>6, <1>7, <1>9, <1>10 DEF IInv

LEMMA ReadJoiningInv ==
    ASSUME IInv, NEW c \in Conns, ReadJoining(c)
    PROVE  IInv'
  <1> USE DEF broker
  <1>0. TypeOK /\ (\A d \in Conns : Acked(d)) /\ Msgs \subseteq Items /\ "ack" \in Items
    BY DEF IInv, Items
  <1>1. /\ UNCHANGED <<client, thread, batch, written, seen, shown, start, send, mailbox>>
        /\ hold[c] = "joining" /\ Taken(c)
        /\ hold'[c] = IF Head(wire[c]) = "ack" THEN "holding" ELSE "joining"
        /\ \A d \in Conns \ {c} : hold'[d] = hold[d]
    BY <1>0 DEF ReadJoining, TypeOK, Taken
  <1>2. /\ wire' \in [Conns -> Seq(Items)]
        /\ Head(wire[c]) \in Items
    BY <1>0, <1>1, TakenWire
  <1>3. TypeOK'
    BY <1>0, <1>2 DEF ReadJoining, TypeOK, Items
  <1>4. /\ \A x \in Items : OnWire(x, c) <=> OnWire(x, c)' \/ x = Head(wire[c])
        /\ OnWire("ack", c) /\ OneAck(c) /\ Head(wire[c]) = "ack" => ~OnWire("ack", c)'
        /\ \A x \in Items : BehindAck(x, c) => OnWire(x, c)'
        /\ Head(wire[c]) # "ack" => \A x \in Items : BehindAck(x, c) => BehindAck(x, c)'
        /\ OneAck(c) => OneAck(c)'
        /\ \A d \in Conns \ {c}, x \in Items :
              /\ OnWire(x, d)' <=> OnWire(x, d)
              /\ BehindAck(x, d)' <=> BehindAck(x, d)
              /\ OneAck(d)' <=> OneAck(d)
    BY <1>0, <1>1, TakenItem
  <1>5. Acked(c)'
    <2>1. CASE Head(wire[c]) = "ack"
      <3>1. OnWire("ack", c)
        BY <1>0, <1>4, <2>1
      <3> QED
        BY <1>0, <1>1, <1>4, <2>1, <3>1 DEF Acked
    <2>2. CASE Head(wire[c]) # "ack"
      BY <1>0, <1>1, <1>4, <2>2 DEF Acked
    <2> QED
      BY <2>1, <2>2
  <1>6. \A d \in Conns \ {c} : Acked(d)'
    BY <1>0, <1>1, <1>4 DEF Acked
  <1>7. Remembered'
    BY <1>1 DEF IInv, Remembered
  <1>8. \A x \in Msgs : Trace(x)' => Trace(x)
    BY <1>0, <1>1, <1>4 DEF Trace, Shown
  <1>9. Traced'
    BY <1>1, <1>8 DEF IInv, Traced, Sent
  <1>10. Deleting'
    <2>1. \A x \in written[c] : OnItsWay(x, c)'
      BY <1>0, <1>1, <1>4 DEF IInv, Deleting, OnItsWay, TypeOK
    <2>2. \A d \in Conns \ {c} : \A x \in written[d] : OnItsWay(x, d)'
      BY <1>0, <1>1, <1>4 DEF IInv, Deleting, OnItsWay, TypeOK, Shown
    <2> QED
      BY <1>1, <2>1, <2>2 DEF Deleting
  <1> QED
    BY <1>3, <1>5, <1>6, <1>7, <1>9, <1>10 DEF IInv

\* What the instance remembers is what Mail calls recent.
LEMMA KnownIsRecent ==
    ASSUME TypeOK, Remembered, NEW m \in Msgs
    PROVE  (\E i \in 1..Len(seen) : seen[i] = m) <=> Promise!Recent(m)
  <1> DEFINE n == Len(seen)
             total == Len(shown)
  <1>1. /\ n \in Nat /\ total \in Nat /\ start \in Nat /\ SeenLimit \in Nat
        /\ n <= SeenLimit /\ n <= total - start
        /\ n = SeenLimit \/ n = total - start
        /\ \A i \in 1..n : seen[i] = shown[total - n + i]
    BY DeliveryAssumption DEF TypeOK, Remembered
  <1> HIDE DEF n, total
  <1>2. ASSUME NEW i \in 1..n, seen[i] = m PROVE Promise!Recent(m)
    <2>1. /\ total - n + i \in (start + 1)..total
          /\ total - (total - n + i) < SeenLimit
      BY <1>1
    <2> QED
      BY <1>1, <1>2, <2>1 DEF Promise!Recent, total
  <1>3. ASSUME Promise!Recent(m) PROVE \E i \in 1..n : seen[i] = m
    <2>1. PICK i \in (start + 1)..total : total - i < SeenLimit /\ shown[i] = m
      BY <1>3 DEF Promise!Recent, total
    <2>2. i - (total - n) \in 1..n /\ total - n + (i - (total - n)) = i
      BY <1>1, <2>1
    <2> QED
      BY <1>1, <2>1, <2>2
  <1> QED
    BY <1>2, <1>3 DEF n

\* Reading a message surfaces it unless it is remembered, and it then is the last
\* one remembered.
LEMMA ReadFacts ==
    ASSUME IInv, NEW c \in Conns, ReadMessage(c)
    PROVE  \E m \in Msgs :
           /\ Taken(c) /\ m = Head(wire[c])
           /\ seen' \in Seq(Msgs) /\ shown' \in Seq(Msgs) /\ start' \in 0..Len(shown')
           /\ Remembered'
           /\ Shown(m)' /\ \A x \in Msgs \ {m} : Shown(x)' <=> Shown(x)
           /\ \/ shown' = shown
              \/ shown' = Append(shown, m) /\ ~Promise!Recent(m)
  <1> DEFINE n == Len(seen)
             total == Len(shown)
  <1>0. TypeOK /\ Remembered /\ Acked(c) /\ Taken(c) /\ hold[c] = "holding"
    BY DEF IInv, ReadMessage, Taken
  <1>1. /\ Head(wire[c]) \in Items /\ n \in Nat /\ seen \in Seq(Msgs) /\ SeenLimit \in Nat
        /\ total \in Nat /\ shown \in Seq(Msgs) /\ start \in 0..total
    BY <1>0, TakenWire, DeliveryAssumption DEF TypeOK
  <1>2. PICK m \in Msgs : m = Head(wire[c])
    <2>1. OnWire(Head(wire[c]), c)
      BY <1>0, <1>1, TakenItem
    <2> QED
      BY <1>0, <1>1, <2>1 DEF Acked, Items
  <1> DEFINE known == \E i \in 1..n : seen[i] = m
  <1>3. start' = start
    BY DEF ReadMessage
  <1>4. CASE known
    <2>1. seen' = seen /\ shown' = shown
      BY <1>2, <1>4 DEF ReadMessage
    <2>2. PICK i \in 1..n : seen[i] = m
      BY <1>4
    <2>3. total - n + i \in 1..total /\ shown[total - n + i] = m
      BY <1>0, <1>1, <2>2 DEF Remembered
    <2>4. Shown(m)
      BY <2>3 DEF Shown
    <2> QED
      BY <1>0, <1>1, <1>2, <1>3, <2>1, <2>4 DEF Remembered, Shown
  <1>5. CASE ~known
    <2> DEFINE longer == Append(seen, m)
    <2>1. /\ seen' = IF Len(longer) > SeenLimit THEN Tail(longer) ELSE longer
          /\ shown' = Append(shown, m)
      BY <1>2, <1>5 DEF ReadMessage
    <2>2. ~Promise!Recent(m)
      BY <1>0, <1>2, <1>5, KnownIsRecent
    <2> HIDE DEF known
    <2>3. /\ longer \in Seq(Msgs) /\ Len(longer) = n + 1 /\ longer[n + 1] = m
          /\ \A i \in 1..n : longer[i] = seen[i]
      BY <1>1, <1>2
    <2>4. /\ shown' \in Seq(Msgs) /\ Len(shown') = total + 1 /\ shown'[total + 1] = m
          /\ \A i \in 1..total : shown'[i] = shown[i]
      BY <1>1, <1>2, <2>1
    <2> HIDE DEF longer
    <2>5. /\ Shown(m)' /\ \A x \in Msgs \ {m} : Shown(x)' <=> Shown(x)
      <3>1. 1..(total + 1) = 1..total \cup {total + 1}
        BY <1>1
      <3> QED
        BY <1>1, <2>4, <3>1 DEF Shown
    <2>6. n <= SeenLimit /\ n <= total - start /\ (n = SeenLimit \/ n = total - start)
          /\ \A i \in 1..n : seen[i] = shown[total - n + i]
      BY <1>0 DEF Remembered
    <2>7. seen' \in Seq(Msgs) /\ Remembered'
      <3>1. CASE n + 1 > SeenLimit
        <4>1. seen' = Tail(longer) /\ longer # <<>> /\ n = SeenLimit
          BY <1>1, <2>1, <2>3, <2>6, <3>1
        <4>2. /\ seen' \in Seq(Msgs) /\ Len(seen') = n
              /\ \A i \in 1..n : seen'[i] = longer[i + 1]
          BY <1>1, <2>3, <4>1
        <4>3. ASSUME NEW i \in 1..n PROVE seen'[i] = shown'[total + 1 - n + i]
          <5>1. CASE i = n
            BY <1>1, <2>3, <2>4, <4>2, <5>1
          <5>2. CASE i # n
            <6>1. /\ i + 1 \in 1..n
                  /\ total + 1 - n + i = total - n + (i + 1)
                  /\ total - n + (i + 1) \in 1..total
              BY <1>1, <2>6, <5>2
            <6>2. seen'[i] = longer[i + 1] /\ longer[i + 1] = seen[i + 1]
              BY <2>3, <4>2, <6>1
            <6>3. seen[i + 1] = shown[total - n + (i + 1)]
              BY <2>6, <6>1
            <6>4. shown[total - n + (i + 1)] = shown'[total - n + (i + 1)]
              BY <2>4, <6>1
            <6> QED
              BY <6>1, <6>2, <6>3, <6>4
          <5> QED
            BY <5>1, <5>2
        <4>4. \A i \in 1..Len(seen') : seen'[i] = shown'[Len(shown') - Len(seen') + i]
          BY <2>4, <4>2, <4>3
        <4> HIDE DEF n, total
        <4>5. /\ Len(seen') <= SeenLimit /\ Len(seen') <= Len(shown') - start'
              /\ Len(seen') = SeenLimit
          BY <1>1, <1>3, <2>4, <2>6, <4>1, <4>2
        <4> QED
          BY <4>2, <4>4, <4>5 DEF Remembered
      <3>2. CASE ~(n + 1 > SeenLimit)
        <4>1. seen' = longer /\ n = total - start
          BY <1>1, <2>1, <2>3, <2>6, <3>2
        <4>2. ASSUME NEW i \in 1..(n + 1)
              PROVE  seen'[i] = shown'[total + 1 - (n + 1) + i]
          <5>1. CASE i = n + 1
            BY <1>1, <2>3, <2>4, <4>1, <5>1
          <5>2. CASE i # n + 1
            <6>1. /\ i \in 1..n
                  /\ total + 1 - (n + 1) + i = total - n + i
                  /\ total - n + i \in 1..total
              BY <1>1, <2>6, <5>2
            <6> QED
              BY <2>3, <2>4, <2>6, <4>1, <6>1
          <5> QED
            BY <5>1, <5>2
        <4>3. \A i \in 1..Len(seen') : seen'[i] = shown'[Len(shown') - Len(seen') + i]
          BY <2>3, <2>4, <4>1, <4>2
        <4> HIDE DEF n, total
        <4>4. /\ Len(seen') <= SeenLimit /\ Len(seen') <= Len(shown') - start'
              /\ Len(seen') = Len(shown') - start'
          BY <1>1, <1>3, <2>3, <2>4, <2>6, <3>2, <4>1
        <4> QED
          BY <2>3, <4>1, <4>3, <4>4 DEF Remembered
      <3> QED
        BY <3>1, <3>2
    <2>8. start' \in 0..Len(shown')
      BY <1>1, <1>3, <2>4
    <2> QED
      BY <1>0, <1>2, <2>1, <2>2, <2>4, <2>5, <2>7, <2>8
  <1> QED
    BY <1>4, <1>5

LEMMA ReadMessageInv ==
    ASSUME IInv, NEW c \in Conns, ReadMessage(c)
    PROVE  IInv'
  <1> USE DEF broker
  <1>0. TypeOK /\ (\A d \in Conns : Acked(d)) /\ Msgs \subseteq Items /\ "ack" \in Items
    BY DEF IInv, Items
  <1>1. /\ UNCHANGED <<client, thread, batch, written, hold, send, mailbox>>
        /\ hold[c] = "holding"
    BY DEF ReadMessage
  <1>2. PICK m \in Msgs :
        /\ Taken(c) /\ m = Head(wire[c])
        /\ seen' \in Seq(Msgs) /\ shown' \in Seq(Msgs) /\ start' \in 0..Len(shown')
        /\ Remembered'
        /\ Shown(m)' /\ \A x \in Msgs \ {m} : Shown(x)' <=> Shown(x)
    BY ReadFacts
  <1>3. wire' \in [Conns -> Seq(Items)]
    BY <1>0, <1>2, TakenWire
  <1>4. TypeOK'
    BY <1>0, <1>2, <1>3 DEF ReadMessage, TypeOK, Items
  <1>5. /\ \A x \in Items : OnWire(x, c) <=> OnWire(x, c)' \/ x = m
        /\ OneAck(c) => OneAck(c)'
        /\ \A d \in Conns \ {c}, x \in Items :
              /\ OnWire(x, d)' <=> OnWire(x, d)
              /\ BehindAck(x, d)' <=> BehindAck(x, d)
              /\ OneAck(d)' <=> OneAck(d)
    BY <1>0, <1>2, TakenItem
  <1>6. \A d \in Conns : Acked(d)'
    <2>1. Acked(c)'
      BY <1>0, <1>1, <1>5 DEF Acked
    <2>2. \A d \in Conns \ {c} : Acked(d)'
      BY <1>0, <1>1, <1>5 DEF Acked
    <2> QED
      BY <2>1, <2>2
  <1>7. Shown(m)' /\ \A x \in Msgs \ {m} : Shown(x)' <=> Shown(x)
    BY <1>2
  <1>8. \A x \in Msgs : Trace(x)' => Trace(x)
    BY <1>0, <1>1, <1>2, <1>5, <1>7 DEF Trace
  <1>9. Traced'
    BY <1>1, <1>8 DEF IInv, Traced, Sent
  <1>10. Deleting'
    <2>1. \A x \in written[c] : OnItsWay(x, c)'
      BY <1>0, <1>1, <1>5, <1>7 DEF IInv, Deleting, OnItsWay, TypeOK
    <2>2. \A d \in Conns \ {c} : \A x \in written[d] : OnItsWay(x, d)'
      BY <1>0, <1>1, <1>5, <1>7 DEF IInv, Deleting, OnItsWay, TypeOK
    <2> QED
      BY <1>1, <2>1, <2>2 DEF Deleting
  <1> QED
    BY <1>2, <1>4, <1>6, <1>9, <1>10 DEF IInv

LEMMA ReloadInv == IInv /\ Reload => IInv'
  <1> SUFFICES ASSUME IInv, Reload PROVE IInv'
    OBVIOUS
  <1> USE DEF broker
  <1>0. TypeOK /\ (\A d \in Conns : Acked(d)) /\ Msgs \subseteq Items
    BY DEF IInv, Items
  <1>1. /\ UNCHANGED <<client, thread, batch, written, shown, send, mailbox>>
        /\ seen' = <<>> /\ start' = Len(shown)
    BY DEF Reload
  <1>10. \A d \in Conns : /\ hold'[d] = IF Live(d) THEN "gone" ELSE hold[d]
                         /\ wire'[d] = IF Live(d) THEN <<>> ELSE wire[d]
    BY DEF Reload
  <1>2. TypeOK'
    <2>1. <<>> \in Seq(Msgs \cup {"ack"}) /\ <<>> \in Seq(Msgs) /\ Len(shown) \in Nat
      BY <1>0 DEF TypeOK
    <2>2. start' \in 0..Len(shown')
      BY <1>1, <1>10, <2>1
    <2>3. wire' \in [Conns -> Seq(Msgs \cup {"ack"})]
      BY <1>0, <2>1 DEF Reload, TypeOK
    <2>4. hold' \in [Conns -> {"absent", "joining", "holding", "gone"}]
      BY <1>0 DEF Reload, TypeOK
    <2> QED
      BY <1>0, <1>1, <1>10, <2>1, <2>2, <2>3, <2>4 DEF Reload, TypeOK
  <1>3. \A d \in Conns : Live(d) => /\ \A x \in Items : ~OnWire(x, d)'
                                  /\ OneAck(d)'
    <2>1. \A d \in Conns : Live(d) => Len(wire'[d]) = 0
      BY <1>1, <1>10
    <2> QED
      BY <2>1 DEF OnWire, OneAck
  <1>4. \A d \in Conns, x \in Items : ~Live(d) =>
            /\ OnWire(x, d)' <=> OnWire(x, d)
            /\ BehindAck(x, d)' <=> BehindAck(x, d)
            /\ OneAck(d)' <=> OneAck(d)
    BY <1>1, <1>10 DEF OnWire, BehindAck, OneAck
  <1>5. \A d \in Conns : Acked(d)'
    <2> SUFFICES ASSUME NEW d \in Conns PROVE Acked(d)'
      OBVIOUS
    <2>1. CASE Live(d)
      BY <1>0, <1>1, <1>10, <1>3, <2>1 DEF Acked, Items, Live
    <2>2. CASE ~Live(d)
      <3>1. hold'[d] = hold[d]
        BY <1>1, <1>10, <2>2
      <3>2. /\ OnWire("ack", d)' <=> OnWire("ack", d)
            /\ OneAck(d)' <=> OneAck(d)
        BY <1>4, <2>2 DEF Items
      <3> QED
        BY <1>0, <1>1, <1>10, <3>1, <3>2 DEF Acked
    <2> QED
      BY <2>1, <2>2
  <1>6. Remembered'
    <2>1. Len(seen') = 0 /\ Len(shown') \in Nat /\ start' = Len(shown')
      BY <1>0, <1>1, <1>10 DEF TypeOK
    <2> QED
      BY <2>1, DeliveryAssumption DEF Remembered
  <1>7. \A x \in Msgs : Trace(x)' => Trace(x)
    BY <1>0, <1>1, <1>10, <1>3, <1>4 DEF Trace, Shown
  <1>8. Traced'
    BY <1>1, <1>10, <1>7 DEF IInv, Traced, Sent
  <1>9. Deleting'
    <2> SUFFICES ASSUME NEW d \in Conns, NEW x \in written[d], ~Live(d) PROVE OnItsWay(x, d)'
      BY <1>1, <1>10 DEF Deleting, OnItsWay
    <2>1. hold'[d] = hold[d]
      BY <1>1, <1>10
    <2> QED
      BY <2>1 DEF OnItsWay, Live
  <1> QED
    BY <1>2, <1>5, <1>6, <1>8, <1>9 DEF IInv

LEMMA NextInv == IInv /\ [Next]_vars => IInv'
  <1> SUFFICES ASSUME IInv, [Next]_vars PROVE IInv'
    OBVIOUS
  <1>0. TypeOK
    BY DEF IInv
  <1>1. ASSUME NEW m \in Msgs,
               \/ Look(m) \/ ParkOrFail(m) \/ Park(m) \/ ParkUnwritten(m)
               \/ ParkRaises(m) \/ Expire(m)
        PROVE  IInv'
    BY <1>1, SenderInv
  <1>2. ASSUME NEW m \in Msgs, Relay(m) PROVE IInv'
    BY <1>2, RelayInv
  <1>3. ASSUME NEW c \in Conns, NEW m \in Msgs, ReplayWrite(c, m) \/ ReplayDrop(c, m)
        PROVE  IInv'
    BY <1>3, ReplayInv, DropInv
  <1>4. ASSUME NEW c \in Conns,
               \/ Register(c) \/ Load(c) \/ ReplayDone(c) \/ EndOfStream(c) \/ Evict(c)
               \/ ClosedThreadEnds(c)
        PROVE  IInv'
    BY <1>4, ThreadInv
  <1>5. ASSUME NEW c \in Conns, RegisterAck(c) PROVE IInv'
    BY <1>5, RegisterAckInv
  <1>6. ASSUME NEW c \in Conns,
               HoldStarts(c) \/ ReadJoining(c) \/ ReadMessage(c) \/ HoldDies(c)
        PROVE  IInv'
    BY <1>6, HoldStartsInv, ReadJoiningInv, ReadMessageInv, HoldDiesInv
  <1>7. CASE MarkExpires
    <2>1. TypeOK'
      BY <1>0, <1>7 DEF MarkExpires, TypeOK, session
    <2> QED
      BY <1>7, <2>1, AnswerInv DEF MarkExpires, session, Sent
  <1>8. CASE Crash \/ Reload
    BY <1>8, CrashInv, ReloadInv
  <1>9. CASE UNCHANGED vars
    <2>1. TypeOK'
      BY <1>0, <1>9 DEF vars, TypeOK
    <2> QED
      BY <1>9, <2>1, AnswerInv DEF vars, Sent
  <1> QED
    BY <1>1, <1>2, <1>3, <1>4, <1>5, <1>6, <1>7, <1>8, <1>9 DEF Next

-----------------------------------------------------------------------------
(* Delivery implements Mail                                                *)

\* What the sender of each message was told, in Mail's words.
Answer(m) == CASE send[m] \in {"acked", "queued"} -> "accepted"
               [] send[m] = "refused" -> "refused"
               [] OTHER -> "none"

Answers == [m \in Msgs |-> Answer(m)]

LEMMA AnswerIs ==
    ASSUME NEW m \in Msgs
    PROVE  /\ Answer(m) = "accepted" <=> Sent(m)
           /\ Answer(m) = "refused" <=> send[m] = "refused"
           /\ Answer(m) = "none" <=> ~Sent(m) /\ send[m] # "refused"
           /\ Answer(m) \in {"accepted", "refused", "none"}
  BY DEF Answer, Sent

LEMMA MailInit == Init => Promise!Init
  <1> SUFFICES ASSUME Init PROVE Promise!Init
    OBVIOUS
  <1>1. \A m \in Msgs : Answer(m) = "none"
    BY DEF Init, Answer
  <1>2. Answers = [m \in Msgs |-> "none"] /\ shown = <<>> /\ start = 0
    BY <1>1 DEF Answers, Init
  <1> QED
    BY <1>2 DEF Promise!Init, Answers, Answer

\* The steps of Mail, in terms of Answers.
MailStep(m) ==
    \/ /\ Answers[m] = "none" /\ Answers' = [Answers EXCEPT ![m] = "accepted"]
       /\ UNCHANGED <<shown, start>>
    \/ /\ Answers[m] = "none" /\ ~Shown(m)
       /\ Answers' = [Answers EXCEPT ![m] = "refused"]
       /\ UNCHANGED <<shown, start>>
    \/ /\ Answers[m] # "refused" /\ ~Promise!Recent(m)
       /\ shown' = Append(shown, m)
       /\ UNCHANGED <<Answers, start>>

LEMMA MailStepIsNext ==
    ASSUME NEW m \in Msgs, MailStep(m)
    PROVE  Promise!Next
  BY DEF MailStep, Promise!Next, Promise!Accept, Promise!Refuse, Promise!Arrive,
     Promise!Arrived, Shown, Answers, Answer

\* A sender's answer in Mail changes only when its dispatch answers.
LEMMA SameAnswers ==
    ASSUME TypeOK, TypeOK',
           \A m \in Msgs : Answer(m)' = Answer(m)
    PROVE  UNCHANGED Answers
  BY DEF Answers

LEMMA OneAnswers ==
    ASSUME NEW m \in Msgs, \A x \in Msgs \ {m} : Answer(x)' = Answer(x)
    PROVE  Answers' = [Answers EXCEPT ![m] = Answer(m)'] /\ Answers[m] = Answer(m)
  BY DEF Answers

LEMMA MailNext ==
    IInv /\ IInv' /\ [Next]_vars => Promise!Next \/ UNCHANGED <<Answers, shown, start>>
  <1> SUFFICES ASSUME IInv, IInv', [Next]_vars
               PROVE  Promise!Next \/ UNCHANGED <<Answers, shown, start>>
    OBVIOUS
  <1> USE DEF broker, session
  <1>0. TypeOK /\ TypeOK'
    BY DEF IInv
  <1>1. ASSUME NEW m \in Msgs, Look(m) \/ ParkRaises(m)
        PROVE  UNCHANGED <<Answers, shown, start>>
    <2>1. \A x \in Msgs : Answer(x)' = Answer(x)
      BY <1>0, <1>1 DEF Look, ParkRaises, Answer, TypeOK
    <2> QED
      BY <1>0, <1>1, <2>1, SameAnswers DEF Look, ParkRaises
  <1>2. ASSUME NEW m \in Msgs, Relay(m) \/ Park(m) \/ ParkUnwritten(m)
        PROVE  Promise!Next
    <2>1. \A x \in Msgs \ {m} : Answer(x)' = Answer(x)
      BY <1>0, <1>2 DEF Relay, Park, ParkUnwritten, Answer, TypeOK
    <2>2. Answer(m) = "none" /\ Answer(m)' = "accepted"
      BY <1>0, <1>2 DEF Relay, Park, ParkUnwritten, Answer, TypeOK
    <2>3. shown' = shown /\ start' = start
      BY <1>2 DEF Relay, Park, ParkUnwritten
    <2> QED
      BY <2>1, <2>2, <2>3, OneAnswers, MailStepIsNext DEF MailStep
  <1>3. ASSUME NEW m \in Msgs, ParkOrFail(m)
        PROVE  Promise!Next \/ UNCHANGED <<Answers, shown, start>>
    <2>1. /\ \A x \in Msgs \ {m} : Answer(x)' = Answer(x)
          /\ Answer(m) = "none" /\ Answer(m)' \in {"none", "refused"}
      BY <1>0, <1>3 DEF ParkOrFail, Answer, TypeOK
    <2>2. shown' = shown /\ start' = start
      BY <1>3 DEF ParkOrFail
    <2>3. ~Shown(m)
      BY <1>3 DEF IInv, Traced, Trace, Sent, ParkOrFail
    <2>4. CASE Answer(m)' = "refused"
      BY <2>1, <2>2, <2>3, <2>4, OneAnswers, MailStepIsNext DEF MailStep
    <2>5. CASE Answer(m)' = "none"
      BY <1>0, <2>1, <2>2, <2>5, SameAnswers
    <2> QED
      BY <2>1, <2>4, <2>5
  <1>4. ASSUME NEW c \in Conns, ReadMessage(c)
        PROVE  Promise!Next \/ UNCHANGED <<Answers, shown, start>>
    <2>1. PICK m \in Msgs :
          /\ Taken(c) /\ m = Head(wire[c])
          /\ shown' = shown \/ (shown' = Append(shown, m) /\ ~Promise!Recent(m))
          /\ start' = start
      BY <1>4, ReadFacts DEF ReadMessage
    <2>2. UNCHANGED Answers
      BY <1>4 DEF ReadMessage, Answers, Answer
    <2>3. Answers[m] # "refused"
      <3>1. OnWire(m, c)
        BY <1>0, <2>1, TakenItem DEF Items
      <3>2. Sent(m)
        BY <2>1, <3>1 DEF IInv, Traced, Trace
      <3> QED
        BY <2>1, <3>2, AnswerIs DEF Answers
    <2> QED
      BY <2>1, <2>2, <2>3, MailStepIsNext DEF MailStep
  <1>5. CASE Crash
    <2>1. \A x \in Msgs : Answer(x)' = Answer(x)
      BY <1>0, <1>5 DEF Crash, Answer, TypeOK
    <2> QED
      BY <1>0, <1>5, <2>1, SameAnswers DEF Crash
  <1>10. ASSUME Reload PROVE Promise!Next
    <2>1. UNCHANGED <<send, shown>> /\ start' = Len(shown)
      BY <1>10 DEF Reload
    <2> QED
      BY <2>1 DEF Promise!Next, Promise!Renew, Answer
  <1>6. ASSUME UNCHANGED <<send, shown, start>> PROVE UNCHANGED <<Answers, shown, start>>
    BY <1>6 DEF Answers, Answer
  <1>7. ASSUME NEW c \in Conns,
               \/ Register(c) \/ RegisterAck(c) \/ Load(c) \/ ReplayDone(c)
               \/ EndOfStream(c) \/ Evict(c) \/ ClosedThreadEnds(c)
               \/ HoldStarts(c) \/ ReadJoining(c) \/ HoldDies(c)
        PROVE  UNCHANGED <<send, shown, start>>
    BY <1>7 DEF Register, RegisterAck, Load, ReplayDone, EndOfStream, Evict,
       ClosedThreadEnds, HoldStarts, ReadJoining, HoldDies
  <1>8. ASSUME NEW m \in Msgs,
               Expire(m) \/ \E c \in Conns : ReplayWrite(c, m) \/ ReplayDrop(c, m)
        PROVE  UNCHANGED <<send, shown, start>>
    BY <1>8 DEF Expire, ReplayWrite, ReplayDrop
  <1>9. MarkExpires \/ UNCHANGED vars => UNCHANGED <<send, shown, start>>
    BY DEF MarkExpires, vars
  <1> QED
    BY <1>1, <1>2, <1>3, <1>4, <1>5, <1>6, <1>7, <1>8, <1>9, <1>10 DEF Next

-----------------------------------------------------------------------------
(* Theorems                                                                *)

\* The inductive invariant holds in every reachable state.
THEOREM Invariance == Spec => []IInv
  BY InitInv, NextInv, PTL DEF Spec

\* The maps, threads, wires and memories hold what they are meant to.
THEOREM Typing == Spec => []TypeOK
  <1>1. IInv => TypeOK
    BY DEF IInv
  <1> QED
    BY <1>1, Invariance, PTL

\* Mail is deleted only when it is on its way to a hold that reads, or was shown.
THEOREM DeletedOnItsWay == Spec => []DeletedMailIsDelivered
  <1>1. IInv => DeletedMailIsDelivered
    <2> SUFFICES ASSUME IInv, NEW m \in Msgs, NEW c \in Conns, m \in written[c], Live(c)
                 PROVE  OnWire(m, c) \/ Shown(m)
      BY DEF DeletedMailIsDelivered
    <2>1. OnItsWay(m, c)
      BY DEF IInv, Deleting
    <2>2. BehindAck(m, c) => OnWire(m, c)
      BY DEF BehindAck, OnWire
    <2> QED
      BY <2>1, <2>2 DEF OnItsWay, Live
  <1> QED
    BY <1>1, Invariance, PTL

\* From dispatch to session, over parks, replays, crashes, reloads and holds that
\* follow each other, no message arrives that the running instance remembers, and
\* none after a refusal.
THEOREM DeliversAsMail == Spec => ImplementsMail
  <1>1. IInv /\ IInv' /\ [Next]_vars => [Promise!Next]_<<Answers, shown, start>>
    BY MailNext
  <1> QED
    BY <1>1, MailInit, Invariance, PTL DEF Spec, ImplementsMail, Promise!Spec, Answers, Answer
=============================================================================
