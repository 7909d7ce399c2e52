-------------------------- MODULE WaitInboxProofs --------------------------
(***************************************************************************)
(* Proofs about the two parts of a session's extension.  WaitInbox, for    *)
(* any calls, teammates and messages: no message is lost or taken twice in *)
(* a row, an ended call holds nothing, a message wakes the wait that is    *)
(* alone, and none outlives the session.                                   *)
(* HoldSupervision, for any loads and hold processes: the session has one  *)
(* hold.                                                                   *)
(***************************************************************************)
EXTENDS WaitInbox, HoldSupervision, TLAPS

\* What is registered anywhere is of a call that waits, and each that waits is
\* in some teammate's waiters, where cancelAll finds it.
Enrolled ==
    /\ hook \subseteq Waiting /\ timer \subseteq Waiting
    /\ \A w \in poll \cup listening : w \in Waiting \/ (phase[w] = "done" /\ w \in overdue)
    /\ \A m \in Mates : waiters[m] \subseteq Waiting
    /\ \A w \in Waiting : \E m \in Mates : w \in waiters[m]
    /\ closed => Waiting = {}

\* A buffered result is of one teammate and in no outcome, and calls that wait
\* at once know of each other.
Results ==
    /\ \A w \in Waits : phase[w] # "done" => outcome[w] = {}
    /\ \A w \in Waits : outcome[w] \subseteq arrived
    /\ \A m \in Mates : buffered[m] \subseteq arrived
    /\ \A m \in Mates, w \in Waits : buffered[m] \cap outcome[w] = {}
    /\ \A m, n \in Mates : m # n => buffered[m] \cap buffered[n] = {}
    /\ \A v, w \in Waiting : v # w => v \in alongside[w]
    /\ NoMessageLost /\ NotTakenAgain

IInv == TypeOK /\ Enrolled /\ Results

LEMMA InitInv == Init => IInv
  BY DEF Init, IInv, TypeOK, Enrolled, Results, Waiting, NoMessageLost, NotTakenAgain

-----------------------------------------------------------------------------
(* The end of waits                                                        *)

\* The types of what Finish sets, and who waits after it.
LEMMA FinishType ==
    ASSUME TypeOK, NEW E \in SUBSET Waiting, NEW R \in SUBSET Messages, Finish(E, R)
    PROVE  /\ phase' \in [Waits -> {"to come", "waiting", "done"}]
           /\ outcome' \in [Waits -> SUBSET Messages]
           /\ hook' \subseteq Waits /\ timer' \subseteq Waits
           /\ poll' \subseteq Waits /\ listening' \subseteq Waits
           /\ waiters' \in [Mates -> SUBSET Waits]
           /\ Waiting' = Waiting \ E
  BY DEF TypeOK, Finish, Waiting

\* Waits that finish take all they registered with them.
LEMMA FinishRegistered ==
    ASSUME TypeOK, Enrolled, NEW E \in SUBSET Waiting, NEW R \in SUBSET Messages,
           Finish(E, R), overdue' = overdue, closed' => closed \/ Waiting \subseteq E
    PROVE  Enrolled'
  <1>1. Waiting' = Waiting \ E
    BY FinishType
  <1>2. hook' \subseteq Waiting' /\ timer' \subseteq Waiting'
    BY <1>1 DEF Finish, Enrolled
  <1>3. \A w \in (poll \cup listening)' :
            w \in Waiting' \/ (phase'[w] = "done" /\ w \in overdue')
    BY <1>1 DEF Finish, Enrolled, TypeOK
  <1>4. \A m \in Mates : waiters'[m] \subseteq Waiting'
    BY <1>1 DEF Finish, Enrolled
  <1>5. \A w \in Waiting' : \E m \in Mates : w \in waiters'[m]
    BY <1>1 DEF Finish, Enrolled
  <1>6. closed' => Waiting' = {}
    BY <1>1 DEF Enrolled
  <1> QED
    BY <1>2, <1>3, <1>4, <1>5, <1>6 DEF Enrolled

\* Waits that finish without a result leave the results as they are, but for
\* those the end of the session throws out of the buffer.
LEMMA FinishResults ==
    ASSUME TypeOK, Results, NEW E \in SUBSET Waiting, Finish(E, {}),
           \A m \in Mates : buffered'[m] \subseteq buffered[m],
           UNCHANGED <<arrived, surfaced, refused, alongside>>
    PROVE  Results'
  <1>1. Waiting' = Waiting \ E
    BY FinishType
  <1>2. \A w \in Waits : outcome'[w] = outcome[w]
    BY DEF Finish, Results, Waiting, TypeOK
  <1>3. \A w \in Waits : phase'[w] # "done" => phase[w] # "done"
    BY DEF Finish
  <1> QED
    BY <1>1, <1>2, <1>3 DEF Results, NoMessageLost, NotTakenAgain

\* A message that is a turn of its own is not lost, whatever waits it ends and
\* whether or not it is buffered as well.
LEMMA SurfacedResults ==
    ASSUME TypeOK, Results, NEW E \in SUBSET Waiting, Finish(E, {}), NEW x \in Messages,
           NEW m \in Mates, Arrives(x), surfaced' = surfaced \cup {x},
           \A n \in Mates : buffered'[n] = buffered[n] \/ (n = m /\ buffered'[n] = {x}),
           UNCHANGED <<refused, alongside>>
    PROVE  Results'
  <1>1. Waiting' = Waiting \ E
    BY FinishType
  <1>2. \A w \in Waits : outcome'[w] = outcome[w]
    BY DEF Finish, Results, Waiting, TypeOK
  <1>3. \A w \in Waits : phase'[w] # "done" => phase[w] # "done"
    BY DEF Finish
  <1>4. arrived' = arrived \cup {x}
    BY DEF Arrives
  <1>5. NoMessageLost'
    BY <1>2, <1>4 DEF Results, NoMessageLost
  <1>6. NotTakenAgain'
    BY <1>2 DEF Results, NotTakenAgain
  <1>7. \A n \in Mates : x \notin buffered[n]
    BY DEF Arrives, Results
  <1>8. \A w \in Waits : x \notin outcome'[w]
    BY <1>2 DEF Arrives, Results
  <1>9. /\ \A n \in Mates : buffered'[n] \subseteq arrived'
        /\ \A n \in Mates, w \in Waits : buffered'[n] \cap outcome'[w] = {}
    BY <1>2, <1>4, <1>8 DEF Results
  <1>10. \A n, o \in Mates : n # o => buffered'[n] \cap buffered'[o] = {}
    BY <1>7 DEF Results
  <1> QED
    BY <1>1, <1>2, <1>3, <1>4, <1>5, <1>6, <1>9, <1>10 DEF Results

-----------------------------------------------------------------------------
(* Calls                                                                   *)

LEMMA CallInv ==
    ASSUME IInv, NEW w \in Waits, NEW S \in (SUBSET Mates) \ {{}},
           TakeBuffered(w, S) \/ Refuse(w, S) \/ Wait(w, S) \/ WaitLate(w, S)
    PROVE  IInv'
  <1> USE DEF inbox, armed, clock, heard
  <1>0. TypeOK /\ Enrolled /\ Results
    BY DEF IInv
  <1>1. CASE TakeBuffered(w, S)
    <2>0a. \A x \in Held(S) : \E m \in S : x \in buffered[m]
      BY DEF Held
    <2>0b. S \subseteq Mates
      OBVIOUS
    <2>0. Held(S) \subseteq Messages /\ \A x \in Held(S) : \E m \in S : x \in buffered[m]
      BY <1>0, <2>0a, <2>0b DEF TypeOK
    <2>1. TypeOK'
      BY <1>0, <1>1, <2>0 DEF TakeBuffered, TypeOK
    <2>2. Waiting' = Waiting
      BY <1>0, <1>1 DEF TakeBuffered, Waiting, TypeOK
    <2>3. Enrolled'
      BY <1>0, <1>1, <2>2 DEF TakeBuffered, Enrolled, TypeOK
    <2>4. outcome[w] = {}
      BY <1>0, <1>1 DEF TakeBuffered, Results
    <2>5. \A v \in Waits : outcome'[v] = IF v = w THEN Held(S) ELSE outcome[v]
      BY <1>0, <1>1 DEF TakeBuffered, TypeOK
    <2>5a. \A v \in Waits : phase'[v] = IF v = w THEN "done" ELSE phase[v]
      BY <1>0, <1>1 DEF TakeBuffered, TypeOK
    <2>5b. UNCHANGED <<arrived, surfaced, refused, alongside>>
      BY <1>1 DEF TakeBuffered
    <2>6. \A v \in Waits \ {w} : Held(S) \cap outcome[v] = {}
      BY <1>0, <2>0 DEF Results
    <2>7. NoMessageLost'
      BY <1>0, <2>4, <2>5, <2>5b DEF NoMessageLost, Results
    <2>8. NotTakenAgain'
      BY <1>0, <2>5, <2>5b, <2>6 DEF NotTakenAgain, Results
    <2>9. \A m \in Mates : buffered'[m] = IF m \in S THEN {} ELSE buffered[m]
      BY <1>1 DEF TakeBuffered
    <2>10. \A m \in Mates : buffered'[m] \cap Held(S) = {}
      BY <1>0, <2>0, <2>9 DEF Results
    <2>11. \A m \in Mates, v \in Waits : buffered'[m] \cap outcome'[v] = {}
      BY <1>0, <2>5, <2>9, <2>10 DEF Results, TypeOK
    <2>12. Held(S) \subseteq arrived
      BY <1>0, <2>0 DEF Results
    <2>13. /\ \A v \in Waits : phase'[v] # "done" => outcome'[v] = {}
           /\ \A v \in Waits : outcome'[v] \subseteq arrived'
      BY <1>0, <2>5, <2>5a, <2>5b, <2>12 DEF Results
    <2>14. /\ \A m \in Mates : buffered'[m] \subseteq arrived'
           /\ \A m, n \in Mates : m # n => buffered'[m] \cap buffered'[n] = {}
      BY <1>0, <1>1, <2>9 DEF TakeBuffered, Results
    <2>15. \A u, v \in Waiting' : u # v => u \in alongside'[v]
      BY <1>0, <1>1, <2>2 DEF TakeBuffered, Results
    <2> QED
      BY <2>1, <2>3, <2>7, <2>8, <2>11, <2>13, <2>14, <2>15 DEF IInv, Results
  <1>2. CASE Refuse(w, S)
    <2>1. TypeOK'
      BY <1>0, <1>2 DEF Refuse, TypeOK
    <2>2. Waiting' = Waiting
      BY <1>0, <1>2 DEF Refuse, Waiting, TypeOK
    <2>3. Enrolled'
      BY <1>0, <1>2, <2>2 DEF Refuse, Enrolled, TypeOK
    <2>4. Results'
      BY <1>0, <1>2, <2>2 DEF Refuse, Results, NoMessageLost, NotTakenAgain, TypeOK
    <2> QED
      BY <2>1, <2>3, <2>4 DEF IInv
  <1>3. CASE Wait(w, S)
    <2>1. TypeOK'
      BY <1>0, <1>3 DEF Wait, MayWait, Joins, Waiting, TypeOK
    <2>2. Waiting' = Waiting \cup {w}
      BY <1>0, <1>3 DEF Wait, Waiting, TypeOK
    <2>3. \A m \in Mates : waiters'[m] = IF m \in S THEN waiters[m] \cup {w} ELSE waiters[m]
      BY <1>3 DEF Wait
    <2>4. \E m \in Mates : m \in S
      <3>1. S # {} /\ S \subseteq Mates
        OBVIOUS
      <3> QED
        BY <3>1, Zenon
    <2>5. \A v \in Waiting' : \E n \in Mates : v \in waiters'[n]
      BY <1>0, <2>2, <2>3, <2>4 DEF Enrolled
    <2>6. Enrolled'
      BY <1>0, <1>3, <2>2, <2>3, <2>5 DEF Wait, MayWait, Enrolled, TypeOK
    <2>7. \A u, v \in Waiting' : u # v => u \in alongside'[v]
      BY <1>0, <1>3, <2>2 DEF Wait, Joins, Results, Waiting
    <2>8. \A v \in Waits : v # w => alongside[v] \subseteq alongside'[v]
      BY <1>0, <1>3 DEF Wait, Joins, TypeOK
    <2>9. outcome[w] = {}
      BY <1>0, <1>3 DEF Wait, MayWait, Results
    <2>10. NotTakenAgain'
      BY <1>0, <1>3, <2>8, <2>9 DEF Wait, NotTakenAgain, Results
    <2>11. NoMessageLost'
      BY <1>0, <1>3 DEF Wait, NoMessageLost, Results
    <2>12. \A v \in Waits : phase'[v] # "done" => outcome'[v] = {}
      BY <1>0, <1>3, <2>9 DEF Wait, Results, TypeOK
    <2> QED
      BY <1>0, <1>3, <2>1, <2>6, <2>7, <2>10, <2>11, <2>12 DEF IInv, Results, Wait
  <1>4. CASE WaitLate(w, S)
    <2>1. TypeOK'
      BY <1>0, <1>4 DEF WaitLate, MayWait, Joins, Waiting, TypeOK
    <2>2. Waiting' = Waiting
      BY <1>0, <1>4 DEF WaitLate, MayWait, Waiting, TypeOK
    <2>2a. \A v \in Waits : phase'[v] = IF v = w THEN "done" ELSE phase[v]
      BY <1>0, <1>4 DEF WaitLate, TypeOK
    <2>2b. /\ poll' \subseteq poll \cup {w} /\ listening' \subseteq listening \cup {w}
           /\ w \in overdue' /\ overdue \subseteq overdue'
           /\ hook' = {} /\ timer' = timer /\ waiters' = waiters /\ closed' = closed
      BY <1>4 DEF WaitLate
    <2>2c. \A v \in (poll \cup listening)' :
              v \in Waiting' \/ (phase'[v] = "done" /\ v \in overdue')
      BY <1>0, <2>2, <2>2a, <2>2b DEF Enrolled, TypeOK
    <2>3. Enrolled'
      BY <1>0, <2>2, <2>2b, <2>2c DEF Enrolled
    <2>4. \A v \in Waits : v # w => alongside[v] \subseteq alongside'[v]
      BY <1>0, <1>4 DEF WaitLate, Joins, TypeOK
    <2>5. outcome[w] = {} /\ w \notin Waiting
      BY <1>0, <1>4 DEF WaitLate, MayWait, Results, Waiting
    <2>6. NotTakenAgain'
      BY <1>0, <1>4, <2>4, <2>5 DEF WaitLate, NotTakenAgain, Results
    <2>7. NoMessageLost'
      BY <1>0, <1>4 DEF WaitLate, NoMessageLost, Results
    <2>8. \A v \in Waits : phase'[v] # "done" => outcome'[v] = {}
      BY <1>0, <1>4, <2>2a, <2>5 DEF WaitLate, Results
    <2>9. \A u, v \in Waiting' : u # v => u \in alongside'[v]
      BY <1>0, <2>2, <2>4, <2>5 DEF Results, Waiting
    <2> QED
      BY <1>0, <1>4, <2>1, <2>3, <2>6, <2>7, <2>8, <2>9 DEF IInv, Results, WaitLate
  <1> QED
    BY <1>1, <1>2, <1>3, <1>4
-----------------------------------------------------------------------------
(* Messages                                                                *)

\* A result that ends the waits on its sender is theirs and no one else's.
LEMMA AwaitedResults ==
    ASSUME TypeOK, Enrolled, Results, NEW x \in Messages, NEW m \in Mates,
           ResultIsAwaited(x, m)
    PROVE  Results'
  <1>1. waiters[m] \subseteq Waiting /\ waiters[m] # {} /\ x \notin arrived
    BY DEF ResultIsAwaited, Enrolled, Arrives
  <1>1a. Finish(waiters[m], {x}) /\ waiters[m] \in SUBSET Waiting /\ {x} \in SUBSET Messages
    BY <1>1 DEF ResultIsAwaited
  <1>2. Waiting' = Waiting \ waiters[m]
    BY <1>1a, FinishType
  <1>3. \A w \in Waits : outcome'[w] = IF w \in waiters[m] THEN {x} ELSE outcome[w]
    BY DEF ResultIsAwaited, Finish
  <1>4. \A w \in Waits : phase'[w] # "done" => phase[w] # "done" /\ w \notin waiters[m]
    BY DEF ResultIsAwaited, Finish
  <1>5. arrived' = arrived \cup {x} /\ UNCHANGED <<buffered, surfaced, refused, alongside>>
    BY DEF ResultIsAwaited, Arrives
  <1>6. \A w \in waiters[m] : w \in Waits /\ outcome[w] = {}
    BY <1>1 DEF Results, Waiting
  <1>7. NoMessageLost'
    <2>1. \A y \in arrived \ refused : y \in surfaced \/ \E w \in Waits : y \in outcome'[w]
      BY <1>3, <1>6 DEF Results, NoMessageLost
    <2>2. \E w \in Waits : x \in outcome'[w]
      <3>1. PICK w \in waiters[m] : TRUE
        BY <1>1, Zenon
      <3> QED
        BY <1>3, <1>6, <3>1
    <2> QED
      BY <1>5, <2>1, <2>2 DEF NoMessageLost
  <1>8. NotTakenAgain'
    <2>1. \A v, w \in waiters[m] : v # w => v \in alongside[w]
      BY <1>1 DEF Results
    <2>2. \A w \in Waits : x \notin outcome[w]
      BY <1>1 DEF Results
    <2> QED
      BY <1>3, <1>5, <2>1, <2>2 DEF Results, NotTakenAgain
  <1>9. /\ \A w \in Waits : phase'[w] # "done" => outcome'[w] = {}
        /\ \A w \in Waits : outcome'[w] \subseteq arrived'
        /\ \A n \in Mates : buffered'[n] \subseteq arrived'
    BY <1>3, <1>4, <1>5 DEF Results
  <1>10. \A n \in Mates, w \in Waits : buffered'[n] \cap outcome'[w] = {}
    BY <1>1, <1>3, <1>5 DEF Results
  <1>11. \A n, o \in Mates : n # o => buffered'[n] \cap buffered'[o] = {}
    BY <1>5 DEF Results
  <1>12. \A v, w \in Waiting' : v # w => v \in alongside'[w]
    BY <1>2, <1>5 DEF Results
  <1> QED
    BY <1>7, <1>8, <1>9, <1>10, <1>11, <1>12 DEF Results

\* A message that no wait hears of, and is a turn or refused, changes no wait.
LEMMA TurnInv ==
    ASSUME IInv, NEW x \in Messages, Arrives(x),
           \/ surfaced' = surfaced \cup {x} /\ refused' = refused
           \/ refused' = refused \cup {x} /\ surfaced' = surfaced,
           stalled' \subseteq Waits,
           UNCHANGED <<phase, ids, inbox, armed, overdue, aborted, nudged, closed, outcome,
                       alongside>>
    PROVE  IInv'
  <1> USE DEF inbox, armed
  <1>1. TypeOK /\ Enrolled /\ Results /\ Waiting' = Waiting
    BY DEF IInv, Waiting
  <1>2. arrived' = arrived \cup {x}
    BY DEF Arrives
  <1>3. TypeOK'
    BY <1>1, <1>2 DEF TypeOK
  <1>4. Enrolled'
    BY <1>1 DEF Enrolled
  <1>5. NoMessageLost' /\ NotTakenAgain'
    BY <1>1, <1>2 DEF Results, NoMessageLost, NotTakenAgain
  <1>6. Results'
    BY <1>1, <1>2, <1>5 DEF Results
  <1> QED
    BY <1>3, <1>4, <1>6 DEF IInv

LEMMA HearInv ==
    ASSUME IInv, NEW x \in Messages, NEW m \in Mates, Hear(x, m)
    PROVE  IInv'
  <1> USE DEF inbox, armed, clock, heard
  <1>0. TypeOK /\ Enrolled /\ Results /\ hook \in SUBSET Waiting
    BY DEF IInv, Enrolled
  <1>1. Contact(m) /\ Arrives(x) => stalled' \subseteq Waits /\ arrived' \subseteq Messages
    BY <1>0 DEF Contact, Arrives, TypeOK
  <1>2. CASE ResultIsAwaited(x, m)
    <2>1. waiters[m] \in SUBSET Waiting /\ {x} \in SUBSET Messages
      BY <1>0 DEF Enrolled
    <2>2. Finish(waiters[m], {x})
      BY <1>2 DEF ResultIsAwaited
    <2>3. TypeOK'
      BY <1>0, <1>1, <1>2, <2>1, <2>2, FinishType DEF ResultIsAwaited, TypeOK
    <2>4. Enrolled'
      BY <1>0, <1>2, <2>1, <2>2, FinishRegistered DEF ResultIsAwaited
    <2>5. Results'
      BY <1>0, <1>2, AwaitedResults
    <2> QED
      BY <2>3, <2>4, <2>5 DEF IInv
  <1>3. CASE ResultIsEarly(x, m)
    <2>1. Finish(hook, {})
      BY <1>3 DEF ResultIsEarly
    <2>2. TypeOK'
      BY <1>0, <1>1, <1>3, <2>1, FinishType DEF ResultIsEarly, TypeOK
    <2>3. Enrolled'
      BY <1>0, <1>3, <2>1, FinishRegistered DEF ResultIsEarly
    <2>4. \A n \in Mates : buffered'[n] = buffered[n] \/ (n = m /\ buffered'[n] = {x})
      BY <1>0, <1>3 DEF ResultIsEarly, TypeOK
    <2>5. Results'
      BY <1>0, <1>3, <2>1, <2>4, SurfacedResults DEF ResultIsEarly
    <2> QED
      BY <2>2, <2>3, <2>5 DEF IInv
  <1>4. CASE Direct(x, m)
    <2>1. Finish(hook, {})
      BY <1>4 DEF Direct
    <2>2. TypeOK'
      BY <1>0, <1>1, <1>4, <2>1, FinishType DEF Direct, TypeOK
    <2>3. Enrolled'
      BY <1>0, <1>4, <2>1, FinishRegistered DEF Direct
    <2>4. Results'
      BY <1>0, <1>4, <2>1, SurfacedResults DEF Direct
    <2> QED
      BY <2>2, <2>3, <2>4 DEF IInv
  <1>5. CASE OtherwiseAddressed(x, m)
    <2>1. stalled' \subseteq Waits
      BY <1>0, <1>1, <1>5 DEF OtherwiseAddressed
    <2> QED
      BY <1>5, <2>1, TurnInv DEF OtherwiseAddressed
  <1> QED
    BY <1>2, <1>3, <1>4, <1>5 DEF Hear

-----------------------------------------------------------------------------
(* Timers, signals and the end of the session                              *)

\* A wait that ends by itself.
LEMMA EndInv ==
    ASSUME IInv, NEW w \in Waiting, Finish({w}, {}),
           UNCHANGED <<ids, buffered, clock, nudged, closed, heard, alongside>>,
           aborted' \subseteq Waits
    PROVE  IInv'
  <1> USE DEF clock, heard
  <1>1. TypeOK /\ Enrolled /\ Results /\ {w} \in SUBSET Waiting
    BY DEF IInv
  <1>2. TypeOK'
    BY <1>1, FinishType DEF TypeOK
  <1>3. Enrolled'
    BY <1>1, FinishRegistered
  <1>4. Results'
    BY <1>1, FinishResults
  <1> QED
    BY <1>2, <1>3, <1>4 DEF IInv

\* What touches no wait, result or waiter set.
LEMMA AsideInv ==
    ASSUME IInv, UNCHANGED <<phase, ids, inbox, hook, timer, poll, closed, outcome,
                             heard, alongside>>,
           listening' \subseteq listening, overdue \subseteq overdue',
           overdue' \subseteq Waits, stalled' \subseteq Waits, aborted' \subseteq Waits,
           nudged' \subseteq Waits
    PROVE  IInv'
  <1> USE DEF inbox, heard
  <1>1. TypeOK /\ Enrolled /\ Results /\ Waiting' = Waiting
    BY DEF IInv, Waiting
  <1>2. TypeOK'
    BY <1>1 DEF TypeOK
  <1>3. Enrolled'
    BY <1>1 DEF Enrolled
  <1>4. Results'
    BY <1>1 DEF Results, NoMessageLost, NotTakenAgain
  <1> QED
    BY <1>2, <1>3, <1>4 DEF IInv

LEMMA CancelInv == IInv /\ CancelAll => IInv'
  <1> SUFFICES ASSUME IInv, CancelAll PROVE IInv'
    OBVIOUS
  <1> USE DEF clock, heard
  <1> DEFINE E == UNION {waiters[m] : m \in Mates}
  <1>1. TypeOK /\ Enrolled /\ Results
    BY DEF IInv
  <1>2. Finish(E, {})
    BY DEF CancelAll
  <1>3. E \in SUBSET Waiting /\ Waiting \subseteq E
    BY <1>1 DEF Enrolled
  <1> HIDE DEF E
  <1>4. TypeOK'
    BY <1>1, <1>2, <1>3, FinishType DEF CancelAll, TypeOK
  <1>5. Enrolled'
    BY <1>1, <1>2, <1>3, FinishRegistered DEF CancelAll
  <1>6. \A m \in Mates : buffered'[m] \subseteq buffered[m]
    BY DEF CancelAll
  <1>7. Results'
    BY <1>1, <1>2, <1>3, <1>6, FinishResults DEF CancelAll
  <1> QED
    BY <1>4, <1>5, <1>7 DEF IInv

LEMMA NextInv == IInv /\ [Next]_vars => IInv'
  <1> SUFFICES ASSUME IInv, [Next]_vars PROVE IInv'
    OBVIOUS
  <1> USE DEF inbox, armed, clock, heard
  <1>0. TypeOK
    BY DEF IInv
  <1>1. ASSUME NEW w \in Waits, Call(w) PROVE IInv'
    BY <1>1, CallInv DEF Call
  <1>2. ASSUME NEW w \in Waits, TimeoutFires(w) PROVE IInv'
    <2>1. w \in Waiting
      BY <1>2 DEF TimeoutFires, IInv, Enrolled
    <2> QED
      BY <1>0, <1>2, <2>1, EndInv DEF TimeoutFires, Unheard, TypeOK
  <1>3. ASSUME NEW w \in Waits, PollStops(w) PROVE IInv'
    <2>1. w \in Waiting
      BY <1>3 DEF PollStops, Waiting
    <2> QED
      BY <1>0, <1>3, <2>1, EndInv DEF PollStops, Unheard, TypeOK
  <1>4. ASSUME NEW w \in Waits, PollNudges(w) PROVE IInv'
    BY <1>0, <1>4, AsideInv DEF PollNudges, TypeOK
  <1>5. ASSUME NEW w \in Waits, Abort(w) PROVE IInv'
    <2>1. aborted' \subseteq Waits
      BY <1>0, <1>5 DEF Abort, TypeOK
    <2>2. CASE w \in listening /\ phase[w] = "waiting"
      <3>1. w \in Waiting
        BY <2>2 DEF Waiting
      <3> QED
        BY <1>5, <2>1, <2>2, <3>1, EndInv DEF Abort
    <2>3. CASE ~(w \in listening /\ phase[w] = "waiting")
      BY <1>0, <1>5, <2>1, <2>3, AsideInv DEF Abort, TypeOK
    <2> QED
      BY <2>2, <2>3
  <1>6. ASSUME NEW w \in Waits, BoundPasses(w) \/ StallPasses(w) PROVE IInv'
    BY <1>0, <1>6, AsideInv DEF BoundPasses, StallPasses, TypeOK
  <1>7. ASSUME NEW x \in Messages, NEW m \in Mates, Hear(x, m) PROVE IInv'
    BY <1>7, HearInv
  <1>11. ASSUME NEW x \in Messages, ReapRequest(x) \/ Attach(x) PROVE IInv'
    BY <1>0, <1>11, TurnInv DEF ReapRequest, Attach, TypeOK
  <1>8. ASSUME NEW m \in Mates, Notice(m) PROVE IInv'
    BY <1>0, <1>8, AsideInv DEF Notice, Contact, TypeOK
  <1>9. CASE CancelAll
    BY <1>9, CancelInv
  <1>10. CASE UNCHANGED vars
    BY <1>0, <1>10, AsideInv DEF vars, TypeOK
  <1> QED
    BY <1>1, <1>2, <1>3, <1>4, <1>5, <1>6, <1>7, <1>8, <1>9, <1>10, <1>11 DEF Next

-----------------------------------------------------------------------------
(* The hooks of a wait that is alone                                       *)

\* The only wait there is, and was while it waited, has the hooks.
Hooked == \A w \in Waiting : Lone(w) => hook = {w}

\* Waits that end leave the hooks to none but a wait they were not alone with.
LEMMA FinishHooked ==
    ASSUME IInv, Hooked, NEW E \in SUBSET Waiting, NEW R \in SUBSET Messages,
           Finish(E, R), UNCHANGED alongside
    PROVE  Hooked'
  <1>1. Waiting' = Waiting \ E
    BY FinishType DEF IInv
  <1>2. ASSUME NEW w \in Waiting \ E, Lone(w) PROVE E = {}
    BY <1>2 DEF IInv, Results, Lone
  <1>3. E = {} => hook' = hook
    BY DEF Finish
  <1> QED
    BY <1>1, <1>2, <1>3 DEF Hooked, Lone

\* A step that ends no wait and moves no hook.
LEMMA AsideHooked ==
    ASSUME Hooked, UNCHANGED <<hook, alongside>>, Waiting' = Waiting
    PROVE  Hooked'
  BY DEF Hooked, Lone

LEMMA CallHooked ==
    ASSUME IInv, Hooked, NEW w \in Waits, Call(w)
    PROVE  Hooked'
  <1> USE DEF armed
  <1>0. TypeOK
    BY DEF IInv
  <1>1. PICK S \in (SUBSET Mates) \ {{}} :
            TakeBuffered(w, S) \/ Refuse(w, S) \/ Wait(w, S) \/ WaitLate(w, S)
    BY DEF Call
  <1>2. CASE TakeBuffered(w, S) \/ Refuse(w, S)
    <2>1. UNCHANGED <<hook, alongside>> /\ phase[w] = "to come"
          /\ phase' = [phase EXCEPT ![w] = "done"]
      BY <1>2 DEF TakeBuffered, Refuse
    <2>2. Waiting' = Waiting
      BY <1>0, <2>1 DEF Waiting, TypeOK
    <2> QED
      BY <2>1, <2>2, AsideHooked
  <1>3. CASE Wait(w, S) \/ WaitLate(w, S)
    <2>1. /\ Joins(w) /\ w \notin Waiting /\ Waiting' \subseteq Waiting \cup {w}
          /\ w \in Waiting' => hook' = {w}
      BY <1>0, <1>3 DEF Wait, WaitLate, MayWait, Waiting, TypeOK
    <2>2. \A v \in Waiting : v \in Waits /\ v # w
      BY <2>1 DEF Waiting
    <2>3. \A v \in Waiting : w \in alongside'[v]
      BY <2>1, <2>2 DEF Joins
    <2>4. ASSUME NEW v \in Waiting', Lone(v)' PROVE hook' = {v}
      <3>1. v \in Waiting => w \in alongside'[v]
        BY <2>3
      <3>2. v = w
        BY <2>1, <2>4, <3>1 DEF Lone
      <3> QED
        BY <2>1, <2>4, <3>2
    <2> QED
      BY <2>4 DEF Hooked
  <1> QED
    BY <1>1, <1>2, <1>3

LEMMA NextHooked == IInv /\ Hooked /\ [Next]_vars => Hooked'
  <1> SUFFICES ASSUME IInv, Hooked, [Next]_vars PROVE Hooked'
    OBVIOUS
  <1> USE DEF armed, Unheard
  <1>0. /\ TypeOK /\ Enrolled /\ hook \in SUBSET Waiting
        /\ \A m \in Mates : waiters[m] \in SUBSET Waiting
        /\ {} \in SUBSET Messages
    BY DEF IInv, Enrolled
  <1>1. ASSUME NEW w \in Waits, Call(w) PROVE Hooked'
    BY <1>1, CallHooked
  <1>2. ASSUME NEW w \in Waits, TimeoutFires(w) \/ PollStops(w) PROVE Hooked'
    <2>1. {w} \in SUBSET Waiting /\ Finish({w}, {}) /\ UNCHANGED alongside
      BY <1>0, <1>2 DEF TimeoutFires, PollStops, Enrolled, Waiting
    <2> QED
      BY <1>0, <2>1, FinishHooked
  <1>3. ASSUME NEW w \in Waits, Abort(w) PROVE Hooked'
    <2>1. CASE w \in listening /\ phase[w] = "waiting"
      <3>1. {w} \in SUBSET Waiting /\ Finish({w}, {}) /\ UNCHANGED alongside
        BY <1>3, <2>1 DEF Abort, Waiting
      <3> QED
        BY <1>0, <3>1, FinishHooked
    <2>2. CASE ~(w \in listening /\ phase[w] = "waiting")
      <3>1. UNCHANGED <<hook, alongside, phase>>
        BY <1>3, <2>2 DEF Abort
      <3> QED
        BY <3>1, AsideHooked DEF Waiting
    <2> QED
      BY <2>1, <2>2
  <1>4. ASSUME NEW w \in Waits, PollNudges(w) \/ BoundPasses(w) \/ StallPasses(w)
        PROVE  Hooked'
    BY <1>4, AsideHooked DEF PollNudges, BoundPasses, StallPasses, Waiting
  <1>5. ASSUME NEW x \in Messages, ReapRequest(x) \/ Attach(x) PROVE Hooked'
    BY <1>5, AsideHooked DEF ReapRequest, Attach, Waiting
  <1>6. ASSUME NEW x \in Messages, NEW m \in Mates, Hear(x, m) PROVE Hooked'
    <2>1. CASE ResultIsAwaited(x, m)
      <3>1. Finish(waiters[m], {x}) /\ UNCHANGED alongside /\ {x} \in SUBSET Messages
        BY <2>1 DEF ResultIsAwaited
      <3> QED
        BY <1>0, <3>1, FinishHooked
    <2>2. CASE ResultIsEarly(x, m) \/ Direct(x, m)
      <3>1. Finish(hook, {}) /\ UNCHANGED alongside
        BY <2>2 DEF ResultIsEarly, Direct
      <3> QED
        BY <1>0, <3>1, FinishHooked
    <2>3. CASE OtherwiseAddressed(x, m)
      BY <2>3, AsideHooked DEF OtherwiseAddressed, Waiting
    <2> QED
      BY <1>6, <2>1, <2>2, <2>3 DEF Hear
  <1>7. ASSUME NEW m \in Mates, Notice(m) PROVE Hooked'
    BY <1>7, AsideHooked DEF Notice, Waiting
  <1>8. CASE CancelAll
    <2> DEFINE E == UNION {waiters[m] : m \in Mates}
    <2>1. E \in SUBSET Waiting
      BY <1>0
    <2>2. Finish(E, {}) /\ UNCHANGED alongside
      BY <1>8 DEF CancelAll
    <2> HIDE DEF E
    <2> QED
      BY <1>0, <2>1, <2>2, FinishHooked
  <1>9. CASE UNCHANGED vars
    BY <1>9, AsideHooked DEF vars, Waiting
  <1> QED
    BY <1>1, <1>2, <1>3, <1>4, <1>5, <1>6, <1>7, <1>8, <1>9 DEF Next

-----------------------------------------------------------------------------
(* Theorems                                                                *)

\* The inductive invariant holds in every reachable state.
THEOREM Invariance == Spec => []IInv
  BY InitInv, NextInv, PTL DEF Spec

\* The controller's tables hold what they are meant to.
THEOREM Typing == Spec => []TypeOK
  <1>1. IInv => TypeOK
    BY DEF IInv
  <1> QED
    BY <1>1, Invariance, PTL

\* Every message the hold prints is a call's result or a turn of its own.
THEOREM NothingLost == Spec => []NoMessageLost
  <1>1. IInv => NoMessageLost
    BY DEF IInv, Results
  <1> QED
    BY <1>1, Invariance, PTL

\* Calls that did not wait together never return the same result.
THEOREM TakenOnce == Spec => []NotTakenAgain
  <1>1. IInv => NotTakenAgain
    BY DEF IInv, Results
  <1> QED
    BY <1>1, Invariance, PTL

\* A call that has returned is out of the inbox, the hooks and the timers.
THEOREM EndedLetsGo == Spec => []EndedHoldsNothing
  <1>1. IInv => EndedHoldsNothing
    BY DEF IInv, Enrolled, EndedHoldsNothing, Waiting, TypeOK
  <1> QED
    BY <1>1, Invariance, PTL

\* No call outlives the session that made it.
THEOREM ClosedEnds == Spec => []ClosedEndsAll
  <1>1. IInv => ClosedEndsAll
    BY DEF IInv, Enrolled, ClosedEndsAll
  <1> QED
    BY <1>1, Invariance, PTL

\* MessageWakesLoneWait: a text, or a result that nobody waits for, ends the wait that
\* was alone while it waited: onMessage finds that wait's hook.
THEOREM LoneWaitWakes == Spec => MessageWakesLoneWait
  <1>1. Init => Hooked
    BY DEF Init, Hooked, Waiting
  <1>2. ASSUME Hooked,
               NEW x \in Messages, NEW m \in Mates, Direct(x, m) \/ ResultIsEarly(x, m),
               NEW w \in Waiting, Lone(w)
        PROVE  phase'[w] = "done"
    <2>1. hook = {w} /\ Finish(hook, {}) /\ w \in Waits
      BY <1>2 DEF Hooked, Direct, ResultIsEarly, Waiting
    <2> QED
      BY <2>1 DEF Finish
  <1>3. IInv /\ Hooked /\ [Next]_vars => Hooked'
    BY NextHooked
  <1>4. Hooked => [\A x \in Messages, m \in Mates : Direct(x, m) \/ ResultIsEarly(x, m) =>
                     \A w \in Waiting : Lone(w) => phase'[w] = "done"]_vars
    BY <1>2
  <1> QED
    BY Invariance, <1>1, <1>3, <1>4, PTL DEF Spec, MessageWakesLoneWait

-----------------------------------------------------------------------------
(* The supervision of the hold (HoldSupervision)                             *)

\* The instances loaded so far, of which all but the last are over; timers end
\* with pi.
Succession ==
    /\ closedApps \subseteq used
    /\ app # NoApp => app \in used /\ used \ {app} \subseteq closedApps
    /\ app = NoApp => timers = {}

\* An instance's hold was launched by it, and its exit has not been told.
HoldsAreTheirs ==
    \A e \in Apps :
        /\ holdProc[e] \in Holds => by[holdProc[e]] = e /\ proc[holdProc[e]] # "gone"
        /\ e \in closedApps \/ e \notin used => holdProc[e] = NoHold

\* Of every process and every timer the instance is known.
HaveLaunchers == \A h \in Holds : proc[h] # "gone" \/ h \in timers => by[h] \in used

\* A hold nobody stopped is its instance's, and pi goes on.
Kept ==
    /\ stopped \subseteq Running
    /\ \A h \in Running \ stopped : app # NoApp /\ holdProc[by[h]] = h

HoldInv == HoldTypeOK /\ Succession /\ HoldsAreTheirs /\ HaveLaunchers /\ Kept

-----------------------------------------------------------------------------
(* Launching a hold                                                        *)

FileType ==
    endpoint \in {"none", "stale", "live"} /\ probes \subseteq {"stale", "live"}
    /\ launching \in BOOLEAN

LEMMA EnsureType == HoldTypeOK /\ EnsureBroker => FileType'
  BY DEF HoldTypeOK, FileType, EnsureBroker

\* The launch stops the former hold and gives the instance one that was spare.
LEMMA HoldFacts ==
    ASSUME HoldTypeOK, NEW e \in Apps, Hold(e, timers')
    PROVE  /\ stopped' = StoppedBy(e) /\ sock' = sock
           /\ \/ /\ failed' = failed \cup {e}
                 /\ UNCHANGED <<proc, by>>
                 /\ \E none \in {NoHold, Dud} : holdProc' = [holdProc EXCEPT ![e] = none]
              \/ /\ failed' = failed \ {e}
                 /\ \E h \in Holds \ timers' :
                      /\ proc[h] = "gone"
                      /\ proc' = [proc EXCEPT ![h] = "starting"]
                      /\ by' = [by EXCEPT ![h] = e]
                      /\ holdProc' = [holdProc EXCEPT ![e] = h]
  <1> DEFINE free == CHOOSE g \in Spare(timers') : TRUE
  <1>1. Spare(timers') # {} => free \in Spare(timers')
    OBVIOUS
  <1>2. Spare(timers') \subseteq Holds \ timers' /\ \A g \in Spare(timers') : proc[g] = "gone"
    BY DEF Spare
  <1> QED
    BY <1>1, <1>2 DEF Hold

LEMMA HoldKeeps ==
    ASSUME HoldInv, app # NoApp, app \notin closedApps, Hold(app, timers'), FileType',
           timers' \subseteq timers,
           UNCHANGED <<app, used, closedApps, surrendered, current, broker>>
    PROVE  HoldInv'
  <1> USE NullAssumption
  <1>0. HoldTypeOK /\ Succession /\ HoldsAreTheirs /\ HaveLaunchers /\ Kept
    BY DEF HoldInv
  <1>1. app \in Apps /\ app \in used
    BY <1>0 DEF HoldTypeOK, Succession
  <1>2. /\ stopped' = StoppedBy(app) /\ sock' = sock
        /\ \/ /\ failed' = failed \cup {app}
              /\ UNCHANGED <<proc, by>>
              /\ \E none \in {NoHold, Dud} : holdProc' = [holdProc EXCEPT ![app] = none]
           \/ /\ failed' = failed \ {app}
              /\ \E h \in Holds \ timers' :
                   /\ proc[h] = "gone"
                   /\ proc' = [proc EXCEPT ![h] = "starting"]
                   /\ by' = [by EXCEPT ![h] = app]
                   /\ holdProc' = [holdProc EXCEPT ![app] = h]
    BY <1>0, <1>1, HoldFacts
  <1>3. stopped' \subseteq Running /\ stopped \subseteq stopped'
    BY <1>0, <1>2 DEF StoppedBy, Kept
  <1>4. \A h \in Running \ stopped : holdProc[app] = h /\ by[h] = app
    <2> SUFFICES ASSUME NEW h \in Running \ stopped PROVE holdProc[app] = h /\ by[h] = app
      OBVIOUS
    <2>1. h \in Holds /\ proc[h] # "gone" /\ holdProc[by[h]] = h /\ by[h] \in used
      BY <1>0 DEF Kept, Running, HaveLaunchers
    <2>2. by[h] \in Apps /\ by[h] \notin closedApps
      BY <1>0, <2>1 DEF HoldTypeOK, HoldsAreTheirs
    <2> QED
      BY <1>0, <2>1, <2>2 DEF Succession
  <1>5. Running \subseteq stopped'
    BY <1>2, <1>4 DEF StoppedBy
  <1>6. CASE UNCHANGED <<proc, by>>
    <2>1. PICK none \in {NoHold, Dud} : holdProc' = [holdProc EXCEPT ![app] = none]
      BY <1>0, <1>1, <1>2, <1>6 DEF HoldTypeOK
    <2>2. HoldTypeOK'
      BY <1>0, <1>1, <1>2, <1>3, <1>6, <2>1 DEF HoldTypeOK, FileType, Running
    <2>3. Running' = Running
      BY <1>6 DEF Running
    <2> QED
      BY <1>0, <1>1, <1>3, <1>5, <1>6, <2>1, <2>2, <2>3
      DEF HoldInv, HoldTypeOK, Succession, HoldsAreTheirs, HaveLaunchers, Kept
  <1>7. ASSUME NEW h \in Holds \ timers', proc[h] = "gone",
               proc' = [proc EXCEPT ![h] = "starting"], by' = [by EXCEPT ![h] = app],
               holdProc' = [holdProc EXCEPT ![app] = h],
               failed' = failed \ {app}
        PROVE  HoldInv'
    <2>1. HoldTypeOK'
      BY <1>0, <1>1, <1>2, <1>3, <1>7 DEF HoldTypeOK, FileType, Running
    <2>2. Running' = Running \cup {h}
      BY <1>0, <1>7 DEF Running, HoldTypeOK
    <2>3. HoldsAreTheirs'
      BY <1>0, <1>1, <1>7 DEF HoldsAreTheirs, HoldTypeOK
    <2>4. HaveLaunchers'
      BY <1>0, <1>1, <1>7 DEF HaveLaunchers, HoldTypeOK
    <2>5. Kept'
      BY <1>0, <1>1, <1>3, <1>5, <1>7, <2>2 DEF Kept, HoldTypeOK
    <2>6. Succession'
      BY <1>0, <1>1 DEF Succession
    <2> QED
      BY <2>1, <2>3, <2>4, <2>5, <2>6 DEF HoldInv
  <1> QED
    BY <1>2, <1>6, <1>7

-----------------------------------------------------------------------------
(* The invariant                                                           *)

LEMMA HoldInitInv == HoldInit => HoldInv
  BY NullAssumption
  DEF HoldInit, HoldInv, HoldTypeOK, Succession, HoldsAreTheirs, HaveLaunchers, Kept, Running

\* Nothing of the session's instances, processes and timers changes.
LEMMA ElsewhereKeeps ==
    ASSUME HoldInv, UNCHANGED <<session, process>>, HoldTypeOK'
    PROVE  HoldInv'
  BY DEF HoldInv, session, process, Succession, HoldsAreTheirs, HaveLaunchers, Kept, Running

\* The steps of the broker and of its threads.
LEMMA BrokerKeeps ==
    ASSUME HoldInv,
           \/ \E p \in probes : Settle(p)
           \/ BrokerStarts \/ BrokerStartFails \/ BrokerEnds \/ Reaped \/ Dropped
           \/ \E h \in Holds : Registered(h) \/ EndOfStream(h)
    PROVE  HoldInv'
  <1>0. HoldTypeOK
    BY DEF HoldInv
  <1> USE DEF session, process, file, HoldTypeOK, Running
  <1>1. ASSUME NEW p \in probes, Settle(p) PROVE HoldTypeOK' /\ UNCHANGED <<session, process>>
    BY <1>0, <1>1 DEF Settle
  <1>2. CASE BrokerStarts \/ BrokerStartFails
    BY <1>0, <1>2, ElsewhereKeeps DEF BrokerStarts, BrokerStartFails
  <1>3. CASE BrokerEnds
    <2>1. sock' \in [Holds -> {"none", "asked", "served", "over"}]
      BY <1>3 DEF BrokerEnds
    <2>2. probes' \subseteq {"stale", "live"}
      BY <1>3 DEF BrokerEnds
    <2> QED
      BY <1>0, <1>3, <2>1, <2>2, ElsewhereKeeps DEF BrokerEnds
  <1>4. CASE Reaped \/ Dropped
    BY <1>0, <1>4, ElsewhereKeeps DEF Reaped, Dropped
  <1>5. ASSUME NEW h \in Holds, Registered(h) \/ EndOfStream(h)
        PROVE  HoldTypeOK' /\ UNCHANGED <<session, process>>
    BY <1>0, <1>5 DEF Registered, EndOfStream
  <1> QED
    BY <1>1, <1>2, <1>3, <1>4, <1>5, ElsewhereKeeps

\* The steps of a hold's process, and its exit being told.
LEMMA ProcessKeeps ==
    ASSUME HoldInv, NEW h \in Holds,
           Connect(h) \/ Joined(h) \/ Ends(h) \/ Fails(h) \/ HoldDied(h)
    PROVE  HoldInv'
  <1>0. HoldTypeOK /\ Succession /\ HoldsAreTheirs /\ HaveLaunchers /\ Kept
    BY DEF HoldInv
  <1> USE NullAssumption DEF session, process, file
  <1>1. CASE Connect(h) \/ Joined(h)
    <2>1. HoldTypeOK'
      BY <1>0, <1>1 DEF HoldTypeOK, Connect, Joined
    <2>2. Running' = Running /\ proc[h] # "gone"
      BY <1>0, <1>1 DEF Running, HoldTypeOK, Connect, Joined
    <2>3. /\ UNCHANGED <<app, used, closedApps, holdProc, by, timers, stopped>>
          /\ \A g \in Holds : proc'[g] = "gone" <=> proc[g] = "gone"
      BY <1>0, <1>1 DEF HoldTypeOK, Connect, Joined
    <2> QED
      BY <1>0, <2>1, <2>2, <2>3 DEF HoldInv, Succession, HoldsAreTheirs, HaveLaunchers, Kept
  <1>2. CASE Ends(h) \/ Fails(h)
    <2>1. h \in Running /\ Exits(h)
      BY <1>2 DEF Ends, Fails
    <2>2. HoldTypeOK'
      BY <1>0, <2>1 DEF HoldTypeOK, Exits
    <2>3. Running' = Running \ {h} /\ proc[h] # "gone"
      BY <1>0, <2>1 DEF Running, HoldTypeOK, Exits
    <2>4. /\ UNCHANGED <<app, used, closedApps, holdProc, by, timers>>
          /\ stopped' = stopped \ {h}
          /\ \A g \in Holds : proc'[g] = "gone" <=> proc[g] = "gone"
      BY <1>0, <2>1, <2>3 DEF HoldTypeOK, Exits
    <2> QED
      BY <1>0, <2>2, <2>3, <2>4 DEF HoldInv, Succession, HoldsAreTheirs, HaveLaunchers, Kept
  <1>3. CASE HoldDied(h)
    <2>1. /\ proc[h] = "dead" /\ app # NoApp /\ proc' = [proc EXCEPT ![h] = "gone"]
          /\ by[h] \in Apps /\ by[h] \in used
          /\ UNCHANGED <<app, used, closedApps, by, stopped>>
      BY <1>0, <1>3 DEF HoldDied, HaveLaunchers, HoldTypeOK
    <2>2. Running' = Running
      BY <1>0, <2>1 DEF Running, HoldTypeOK
    <2>3. CASE holdProc[by[h]] = h
      <3>1. /\ holdProc' = [holdProc EXCEPT ![by[h]] = NoHold]
            /\ timers' \in {timers, timers \cup {h}}
        BY <1>3, <2>3 DEF HoldDied
      <3>2. HoldTypeOK'
        BY <1>0, <1>3, <2>1, <3>1 DEF HoldTypeOK, HoldDied
      <3>3. HoldsAreTheirs'
        <4> SUFFICES ASSUME NEW e \in Apps
                     PROVE  /\ holdProc'[e] \in Holds
                                => by[holdProc'[e]] = e /\ proc'[holdProc'[e]] # "gone"
                            /\ e \in closedApps \/ e \notin used => holdProc'[e] = NoHold
          BY <2>1 DEF HoldsAreTheirs
        <4>1. CASE e = by[h]
          BY <1>0, <2>1, <3>1, <4>1 DEF HoldTypeOK
        <4>2. CASE e # by[h]
          <5>1. holdProc'[e] = holdProc[e]
            BY <1>0, <3>1, <4>2 DEF HoldTypeOK
          <5>2. holdProc[e] # h
            BY <1>0, <4>2 DEF HoldsAreTheirs
          <5> QED
            BY <1>0, <2>1, <5>1, <5>2 DEF HoldsAreTheirs, HoldTypeOK
        <4> QED
          BY <4>1, <4>2
      <3>4. HaveLaunchers'
        BY <1>0, <2>1, <3>1 DEF HaveLaunchers, HoldTypeOK
      <3>5. Kept'
        <4> SUFFICES ASSUME NEW g \in Running \ stopped PROVE holdProc'[by[g]] = g
          BY <1>0, <2>1, <2>2 DEF Kept
        <4>1. holdProc[by[g]] = g /\ g # h
          BY <1>0, <2>1 DEF Kept, Running
        <4> QED
          BY <1>0, <2>3, <3>1, <4>1 DEF HoldTypeOK
      <3>6. Succession'
        BY <1>0, <2>1 DEF Succession
      <3> QED
        BY <3>2, <3>3, <3>4, <3>5, <3>6 DEF HoldInv
    <2>4. CASE holdProc[by[h]] # h
      <3>1. UNCHANGED <<holdProc, timers>>
        BY <1>3, <2>4 DEF HoldDied
      <3>2. HoldTypeOK'
        BY <1>0, <1>3, <2>1, <3>1 DEF HoldTypeOK, HoldDied
      <3>3. HoldsAreTheirs'
        <4>1. \A e \in Apps : holdProc[e] # h
          BY <1>0, <2>4 DEF HoldsAreTheirs
        <4> QED
          BY <1>0, <2>1, <3>1, <4>1 DEF HoldsAreTheirs, HoldTypeOK
      <3>4. HaveLaunchers'
        BY <1>0, <2>1, <3>1 DEF HaveLaunchers, HoldTypeOK
      <3> QED
        BY <1>0, <2>1, <2>2, <3>1, <3>2, <3>3, <3>4 DEF HoldInv, Succession, Kept
    <2> QED
      BY <2>3, <2>4
  <1> QED
    BY <1>1, <1>2, <1>3

\* An instance that hands over or deregisters stops its hold.
LEMMA LettingGoKeeps ==
    ASSUME HoldInv, NEW e \in used, app # NoApp,
           app' # NoApp /\ app' \in used' /\ used' \ {app'} \subseteq closedApps',
           used \subseteq used', used' \subseteq Apps,
           closedApps' = closedApps \cup {e}, holdProc' = [holdProc EXCEPT ![e] = NoHold],
           stopped' = StoppedBy(e), UNCHANGED <<timers, by, proc>>, HoldTypeOK'
    PROVE  HoldInv'
  <1>0. HoldTypeOK /\ Succession /\ HoldsAreTheirs /\ HaveLaunchers /\ Kept
    BY DEF HoldInv
  <1>1. e \in Apps /\ Running' = Running /\ stopped \subseteq stopped'
        /\ stopped' \subseteq Running
    BY <1>0 DEF HoldTypeOK, Running, StoppedBy, Kept
  <1>2. HoldsAreTheirs'
    BY <1>0, <1>1, NullAssumption DEF HoldsAreTheirs, HoldTypeOK
  <1>3. Kept'
    <2> SUFFICES ASSUME NEW h \in Running \ stopped' PROVE holdProc'[by[h]] = h
      BY <1>1 DEF Kept
    <2>1. holdProc[by[h]] = h /\ by[h] \in Apps
      BY <1>0, <1>1 DEF Kept, HaveLaunchers, Running, HoldTypeOK
    <2>2. by[h] # e
      BY <2>1 DEF StoppedBy
    <2> QED
      BY <1>0, <2>1, <2>2 DEF HoldTypeOK
  <1>4. Succession' /\ HaveLaunchers'
    BY <1>0 DEF Succession, HaveLaunchers
  <1> QED
    BY <1>2, <1>3, <1>4 DEF HoldInv

\* Session events, loads, restarts by timers and the end of pi.
LEMMA SessionKeeps ==
    ASSUME HoldInv,
           Session \/ PiEnds \/ \E h \in Holds : TimerFires(h)
    PROVE  HoldInv'
  <1>0. HoldTypeOK /\ Succession /\ HoldsAreTheirs /\ HaveLaunchers /\ Kept
    BY DEF HoldInv
  <1> USE NullAssumption
  <1>1. CASE SessionStart
    <2>1. app # NoApp /\ app \notin closedApps
      BY <1>1 DEF SessionStart, Open
    <2>2. FileType' /\ Hold(app, timers') /\ timers' = timers
      BY <1>0, <1>1, EnsureType DEF SessionStart
    <2> QED
      BY <1>1, <2>1, <2>2, HoldKeeps DEF SessionStart
  <1>2. ASSUME NEW h \in Holds, TimerFires(h) PROVE HoldInv'
    <2>1. /\ h \in timers /\ timers' = timers \ {h}
          /\ UNCHANGED <<app, used, closedApps, surrendered, current, broker>>
      BY <1>2 DEF TimerFires
    <2>2. by[h] \in used /\ app # NoApp
      BY <1>0, <2>1 DEF HaveLaunchers, Succession
    <2>3. CASE by[h] \in closedApps \/ holdProc[by[h]] # NoHold
      <3>1. UNCHANGED <<holdProc, by, proc, stopped, failed, sock, endpoint, probes, launching>>
        BY <1>2, <2>3 DEF TimerFires, file
      <3> QED
        BY <1>0, <2>1, <3>1
        DEF HoldInv, HoldTypeOK, Succession, HoldsAreTheirs, HaveLaunchers, Kept, Running
    <2>4. CASE ~(by[h] \in closedApps \/ holdProc[by[h]] # NoHold)
      <3>1. EnsureBroker /\ Hold(by[h], timers')
        BY <1>2, <2>4 DEF TimerFires
      <3>2. by[h] = app
        BY <1>0, <2>2, <2>4 DEF Succession
      <3> QED
        BY <1>0, <2>1, <2>2, <2>4, <3>1, <3>2, EnsureType, HoldKeeps
    <2> QED
      BY <2>3, <2>4
  <1>3. ASSUME NEW e \in Apps, Load(e) PROVE HoldInv'
    <2>1. HoldTypeOK'
      BY <1>0, <1>3 DEF Load, HoldTypeOK, file, StoppedBy, Running
    <2>2. CASE app = NoApp
      <3>1. used = {} /\ app' = e /\ used' = {e}
            /\ UNCHANGED <<closedApps, holdProc, stopped, timers, by, proc>>
        BY <1>0, <1>3, <2>2 DEF Load
      <3>2. Running = {}
        BY <1>0, <3>1 DEF HaveLaunchers, Running
      <3> QED
        BY <1>0, <2>1, <2>2, <3>1, <3>2
        DEF HoldInv, Succession, HoldsAreTheirs, HaveLaunchers, Kept, Running, HoldTypeOK
    <2>3. CASE app # NoApp
      <3>1. /\ app' = e /\ used' = used \cup {e} /\ closedApps' = closedApps \cup {app}
            /\ holdProc' = [holdProc EXCEPT ![app] = NoHold]
            /\ stopped' = StoppedBy(app) /\ UNCHANGED <<timers, by, proc>>
        BY <1>3, <2>3 DEF Load
      <3>2. app \in used /\ e # NoApp /\ used' \ {app'} \subseteq closedApps'
        BY <1>0, <1>3, <2>3, <3>1 DEF Succession
      <3> QED
        BY <1>0, <2>1, <2>3, <3>1, <3>2, LettingGoKeeps DEF HoldTypeOK
    <2> QED
      BY <2>2, <2>3
  <1>4. ASSUME NEW e \in Apps, Deregister(e) PROVE HoldInv'
    <2>1. HoldTypeOK'
      BY <1>0, <1>4 DEF Deregister, HoldTypeOK, file, StoppedBy, Running
    <2>2. /\ e \in used /\ app # NoApp /\ UNCHANGED <<app, used, timers, by, proc>>
          /\ closedApps' = closedApps \cup {e} /\ holdProc' = [holdProc EXCEPT ![e] = NoHold]
          /\ stopped' = StoppedBy(e)
      BY <1>4 DEF Deregister
    <2>3. app' # NoApp /\ app' \in used' /\ used' \ {app'} \subseteq closedApps'
      BY <1>0, <2>2 DEF Succession
    <2> QED
      BY <1>0, <2>1, <2>2, <2>3, LettingGoKeeps DEF HoldTypeOK
  <1>5. CASE PiEnds
    <2>1. /\ app' = NoApp /\ timers' = {} /\ probes' = {} /\ stopped' = Running
          /\ UNCHANGED <<used, closedApps, surrendered, failed, holdProc, by, proc, sock,
                         current, broker, endpoint, launching>>
      BY <1>5 DEF PiEnds
    <2> QED
      BY <1>0, <2>1
      DEF HoldInv, HoldTypeOK, Succession, HoldsAreTheirs, HaveLaunchers, Kept, Running
  <1> QED
    BY <1>1, <1>2, <1>3, <1>4, <1>5 DEF Session

LEMMA HoldStepInv == HoldInv /\ [HoldNext]_holdVars => HoldInv'
  <1> SUFFICES ASSUME HoldInv, [HoldNext]_holdVars PROVE HoldInv'
    OBVIOUS
  <1>1. CASE Disturbance
    BY <1>1, BrokerKeeps, SessionKeeps, ProcessKeeps DEF Disturbance
  <1>2. ASSUME NEW h \in Holds, Course(h) PROVE HoldInv'
    BY <1>2, BrokerKeeps, SessionKeeps, ProcessKeeps DEF Course
  <1>3. CASE BrokerStarts \/ \E p \in probes : Settle(p)
    BY <1>3, BrokerKeeps
  <1>4. CASE UNCHANGED holdVars
    BY <1>4, ElsewhereKeeps DEF holdVars, session, process, file, HoldInv, HoldTypeOK
  <1> QED
    BY <1>1, <1>2, <1>3, <1>4 DEF HoldNext

-----------------------------------------------------------------------------
\* The inductive invariant of a session's holds, for any loads and holds.
THEOREM HoldInvariance == HoldSpec => []HoldInv
  BY HoldInitInv, HoldStepInv, PTL DEF HoldSpec

\* Type correctness of the session, its holds and what it meets of the broker.
THEOREM HoldTyping == HoldSpec => []HoldTypeOK
  <1>1. HoldInv => HoldTypeOK
    BY DEF HoldInv
  <1> QED
    BY HoldInvariance, <1>1, PTL

\* OneHold.
THEOREM HoldIsOne == HoldSpec => []OneHold
  <1>1. HoldInv => OneHold
    <2> SUFFICES ASSUME HoldInv, NEW h \in Running \ stopped
                 PROVE  Open(app) /\ holdProc[app] = h
      BY DEF OneHold
    <2>1. h \in Holds /\ proc[h] # "gone" /\ app # NoApp /\ holdProc[by[h]] = h
          /\ by[h] \in used
      BY DEF HoldInv, Kept, Running, HaveLaunchers
    <2>2. by[h] \in Apps /\ by[h] \notin closedApps
      BY <2>1, NullAssumption DEF HoldInv, HoldTypeOK, HoldsAreTheirs
    <2>3. by[h] = app
      BY <2>1, <2>2 DEF HoldInv, Succession
    <2> QED
      BY <2>1, <2>2, <2>3 DEF Open
  <1> QED
    BY HoldInvariance, <1>1, PTL
=============================================================================
