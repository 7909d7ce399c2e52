----------------------------- MODULE WaitInbox -----------------------------
(***************************************************************************)
(* A session's team_wait calls (extensions/pi-teams/wait.ts), the inbox of *)
(* teammates' results they share (inbox.ts) and the handler that feeds     *)
(* both from the hold's output (agent.ts).                                 *)
(*                                                                         *)
(* Each action is one callback of the event loop: nothing runs between the *)
(* end of a wait and the return of its outcome but other such callbacks,   *)
(* and those that a finished wait left registered still run.  The two      *)
(* hooks of the controller are set and cleared together, and are one       *)
(* variable here.                                                          *)
(***************************************************************************)
EXTENDS FiniteSets

CONSTANTS
    Waits,      \* the calls of team_wait
    Mates,      \* the teammates
    Messages    \* the results and the messages the teammates send

VARIABLES
    phase,      \* a call is to come, waits, or has returned
    ids,        \* the teammates it waits on
    waiters,    \* ResultInbox.waiters
    buffered,   \* ResultInbox.buffered: at most one result of each teammate
    hook,       \* the wait whose activityHook and messageHook are set
    timer,      \* the waits with a timeout armed
    poll,       \* the waits with an interval armed
    listening,  \* the waits with a listener on their abort signal
    overdue,    \* the waits whose deadline has passed
    aborted,    \* the waits whose signal has aborted
    stalled,    \* the waits whose lastActivity is older than the stall bound
    nudged,     \* the waits that have nudged their teammates
    closed,     \* the agent has deregistered or handed over
    outcome,    \* the results a call returned with
    surfaced,   \* messages given to the agent as turns of their own
    refused,    \* messages of the removed attach protocol, consumed
    arrived,    \* history: messages the hold has printed
    alongside   \* history: the waits that were there while this one waited

inbox == <<waiters, buffered>>
armed == <<hook, timer, poll, listening>>
clock == <<overdue, stalled>>
heard == <<surfaced, refused, arrived>>
vars == <<phase, ids, inbox, armed, clock, aborted, nudged, closed, outcome,
          heard, alongside>>

Waiting == {w \in Waits : phase[w] = "waiting"}
Lone(w) == alongside[w] = {}

-----------------------------------------------------------------------------
Init ==
    /\ phase = [w \in Waits |-> "to come"]
    /\ ids = [w \in Waits |-> {}]
    /\ waiters = [m \in Mates |-> {}]
    /\ buffered = [m \in Mates |-> {}]
    /\ hook = {} /\ timer = {} /\ poll = {} /\ listening = {}
    /\ overdue = {} /\ stalled = {}
    /\ aborted = {} /\ nudged = {} /\ closed = FALSE
    /\ outcome = [w \in Waits |-> {}]
    /\ surfaced = {} /\ refused = {} /\ arrived = {}
    /\ alongside = [w \in Waits |-> {}]

\* Mutant: a finished wait stays in the inbox.
FinishKeepingWaiters(E, R) ==
    /\ phase' = [w \in Waits |-> IF w \in E THEN "done" ELSE phase[w]]
    /\ outcome' = [w \in Waits |-> IF w \in E THEN R ELSE outcome[w]]
    /\ hook' = IF E = {} THEN hook ELSE {}
    /\ timer' = timer \ E /\ poll' = poll \ E /\ listening' = listening \ E
    /\ UNCHANGED waiters

\* Mutant: the timers belong to the controller, as its hooks do.
FinishSharingTimers(E, R) ==
    /\ phase' = [w \in Waits |-> IF w \in E THEN "done" ELSE phase[w]]
    /\ outcome' = [w \in Waits |-> IF w \in E THEN R ELSE outcome[w]]
    /\ IF E = {} THEN UNCHANGED <<hook, timer, poll>>
                 ELSE hook' = {} /\ timer' = {} /\ poll' = {}
    /\ listening' = listening \ E
    /\ waiters' = [m \in Mates |-> waiters[m] \ E]

\* The waits of E let go of everything they hold and return with results of
\* R; the hooks go with them, whosever they are.
Finish(E, R) ==
    /\ phase' = [w \in Waits |-> IF w \in E THEN "done" ELSE phase[w]]
    /\ outcome' = [w \in Waits |-> IF w \in E THEN R ELSE outcome[w]]
    /\ hook' = IF E = {} THEN hook ELSE {}
    /\ timer' = timer \ E /\ poll' = poll \ E /\ listening' = listening \ E
    /\ waiters' = [m \in Mates |-> waiters[m] \ E]

-----------------------------------------------------------------------------
(* A call of team_wait                                                     *)

Held(S) == UNION {buffered[m] : m \in S}

\* Mutant: a taken result stays buffered.
TakeKeeping(w, S) ==
    /\ phase[w] = "to come" /\ Held(S) # {}
    /\ phase' = [phase EXCEPT ![w] = "done"]
    /\ ids' = [ids EXCEPT ![w] = S]
    /\ outcome' = [outcome EXCEPT ![w] = Held(S)]
    /\ UNCHANGED <<inbox, armed, clock, aborted, nudged, closed, heard,
                   alongside>>

\* The results that came before the call are taken, and end it at once.
TakeBuffered(w, S) ==
    /\ phase[w] = "to come" /\ Held(S) # {}
    /\ phase' = [phase EXCEPT ![w] = "done"]
    /\ ids' = [ids EXCEPT ![w] = S]
    /\ outcome' = [outcome EXCEPT ![w] = Held(S)]
    /\ buffered' = [m \in Mates |-> IF m \in S THEN {} ELSE buffered[m]]
    /\ UNCHANGED <<waiters, armed, clock, aborted, nudged, closed, heard,
                   alongside>>

\* A closed agent, an aborted signal or a queued user message: no wait.
Refuse(w, S) ==
    /\ phase[w] = "to come" /\ Held(S) = {}
    /\ phase' = [phase EXCEPT ![w] = "done"]
    /\ ids' = [ids EXCEPT ![w] = S]
    /\ UNCHANGED <<inbox, armed, clock, aborted, nudged, closed, outcome, heard,
                   alongside>>

MayWait(w, S) ==
    phase[w] = "to come" /\ Held(S) = {} /\ ~closed /\ w \notin aborted

Joins(w) ==
    alongside' = [v \in Waits |-> IF v = w THEN Waiting
                                  ELSE IF v \in Waiting THEN alongside[v] \cup {w}
                                  ELSE alongside[v]]

\* The hooks go to the newest wait, whatever wait they were of.
Wait(w, S) ==
    /\ MayWait(w, S)
    /\ phase' = [phase EXCEPT ![w] = "waiting"]
    /\ ids' = [ids EXCEPT ![w] = S]
    /\ waiters' = [m \in Mates |-> IF m \in S THEN waiters[m] \cup {w} ELSE waiters[m]]
    /\ hook' = {w}
    /\ timer' = timer \cup {w} /\ poll' = poll \cup {w}
    /\ listening' = listening \cup {w}
    /\ Joins(w)
    /\ UNCHANGED <<buffered, clock, aborted, nudged, closed, outcome, heard>>

\* The bound has passed before the timer is armed: the wait finishes first
\* and arms its interval and its listener after.
WaitLate(w, S) ==
    /\ MayWait(w, S)
    /\ phase' = [phase EXCEPT ![w] = "done"]
    /\ ids' = [ids EXCEPT ![w] = S]
    /\ hook' = {}
    /\ poll' = poll \cup {w} /\ listening' = listening \cup {w}
    /\ overdue' = overdue \cup {w}
    /\ Joins(w)
    /\ UNCHANGED <<inbox, timer, stalled, aborted, nudged, closed, outcome,
                   heard>>

-----------------------------------------------------------------------------
(* Messages from the hold                                                  *)

Contact(m) == stalled' = stalled \ {w \in hook : m \in ids[w]}

Arrives(x) == x \notin arrived /\ arrived' = arrived \cup {x}

\* A result goes to the waits on its sender, which it ends, and to no one else.
ResultIsAwaited(x, m) ==
    /\ waiters[m] # {}
    /\ Arrives(x)
    /\ Contact(m)
    /\ Finish(waiters[m], {x})
    /\ UNCHANGED <<ids, buffered, overdue, aborted, nudged, closed, surfaced, refused, alongside>>

\* Mutant: a buffered result waits for the next call.
ResultIsKept(x, m) ==
    /\ waiters[m] = {}
    /\ Arrives(x)
    /\ buffered' = [buffered EXCEPT ![m] = {x}]
    /\ Contact(m)
    /\ UNCHANGED <<phase, ids, waiters, armed, overdue, aborted, nudged, closed,
                   outcome, surfaced, refused, alongside>>

\* One nobody waits on is buffered over an older one, wakes the wait there is
\* and is a turn of its own.
ResultIsEarly(x, m) ==
    /\ waiters[m] = {}
    /\ Arrives(x)
    /\ buffered' = [buffered EXCEPT ![m] = {x}]
    /\ surfaced' = surfaced \cup {x}
    /\ Contact(m)
    /\ Finish(hook, {})
    /\ UNCHANGED <<ids, overdue, aborted, nudged, closed, refused, alongside>>

\* Mutant: only the teammates a wait is on wake it.
DirectOfMate(x, m) ==
    /\ Arrives(x)
    /\ surfaced' = surfaced \cup {x}
    /\ Contact(m)
    /\ Finish({w \in hook : m \in ids[w]}, {})
    /\ UNCHANGED <<ids, buffered, overdue, aborted, nudged, closed, refused, alongside>>

\* A text or a steer, addressed by the session's id.
Direct(x, m) ==
    /\ Arrives(x)
    /\ surfaced' = surfaced \cup {x}
    /\ Contact(m)
    /\ Finish(hook, {})
    /\ UNCHANGED <<ids, buffered, overdue, aborted, nudged, closed, refused, alongside>>

\* Addressed by the host-labelled form of an id registered bare, which is not the
\* session's id to its own eyes: contact and a turn, and no wait hears of it.
OtherwiseAddressed(x, m) ==
    /\ Arrives(x)
    /\ surfaced' = surfaced \cup {x}
    /\ Contact(m)
    /\ UNCHANGED <<phase, ids, inbox, armed, overdue, aborted, nudged, closed, outcome,
                   refused, alongside>>

\* gc-reap: a turn of its own, and no wait hears of it.
ReapRequest(x) ==
    /\ Arrives(x)
    /\ surfaced' = surfaced \cup {x}
    /\ UNCHANGED <<phase, ids, inbox, armed, clock, aborted, nudged, closed, outcome,
                   refused, alongside>>

\* attach, attach-ack, attach-error: refused or consumed.
Attach(x) ==
    /\ Arrives(x)
    /\ refused' = refused \cup {x}
    /\ UNCHANGED <<phase, ids, inbox, armed, clock, aborted, nudged, closed, outcome,
                   surfaced, alongside>>

\* A notice is contact and wakes no one.
Notice(m) ==
    /\ Contact(m)
    /\ UNCHANGED <<phase, ids, inbox, armed, overdue, aborted, nudged, closed, outcome,
                   heard, alongside>>

-----------------------------------------------------------------------------
(* Timers, signals and the end of the session                              *)

Unheard == <<ids, buffered, clock, aborted, nudged, closed, heard, alongside>>

\* armTimeout: finish, or arm again for the rest of a bound no timer can hold.
TimeoutFires(w) ==
    /\ w \in timer /\ w \in overdue
    /\ Finish({w}, {})
    /\ UNCHANGED Unheard

\* The interval's stop checks; a finished wait's does nothing.
PollStops(w) ==
    /\ w \in poll /\ phase[w] = "waiting"
    /\ Finish({w}, {})
    /\ UNCHANGED Unheard

\* No stop: a wait silent past the bound nudges its teammates, once.
PollNudges(w) ==
    /\ w \in poll /\ phase[w] = "waiting"
    /\ w \notin overdue \cup aborted /\ ~closed
    /\ w \in stalled /\ w \notin nudged
    /\ nudged' = nudged \cup {w}
    /\ UNCHANGED <<phase, ids, inbox, armed, clock, aborted, closed, outcome, heard,
                   alongside>>

Abort(w) ==
    /\ w \notin aborted
    /\ aborted' = aborted \cup {w}
    /\ IF w \in listening /\ phase[w] = "waiting"
       THEN Finish({w}, {})
       ELSE /\ listening' = listening \ {w}
            /\ UNCHANGED <<phase, waiters, hook, timer, poll, outcome>>
    /\ UNCHANGED <<ids, buffered, clock, nudged, closed, heard, alongside>>

\* deregister and handover: every waiter is released and nothing stays buffered.
CancelAll ==
    /\ closed' = TRUE
    /\ Finish(UNION {waiters[m] : m \in Mates}, {})
    /\ buffered' = [m \in Mates |-> {}]
    /\ UNCHANGED <<ids, clock, aborted, nudged, heard, alongside>>

\* Time.
BoundPasses(w) ==
    /\ phase[w] = "waiting" /\ w \notin overdue
    /\ overdue' = overdue \cup {w}
    /\ UNCHANGED <<phase, ids, inbox, armed, stalled, aborted, nudged, closed,
                   outcome, heard, alongside>>

\* A wait is stalled until it hears of a teammate: the one with the hooks does.
StallPasses(w) ==
    /\ phase[w] = "waiting" /\ w \notin stalled
    /\ stalled' = stalled \cup {w}
    /\ UNCHANGED <<phase, ids, inbox, armed, overdue, aborted, nudged, closed, outcome,
                   heard, alongside>>

-----------------------------------------------------------------------------
Call(w) == \E S \in (SUBSET Mates) \ {{}} :
    TakeBuffered(w, S) \/ Refuse(w, S) \/ Wait(w, S) \/ WaitLate(w, S)

Hear(x, m) == ResultIsAwaited(x, m) \/ ResultIsEarly(x, m) \/ Direct(x, m)
                  \/ OtherwiseAddressed(x, m)

Next ==
    \/ \E w \in Waits :
        \/ Call(w) \/ TimeoutFires(w) \/ PollStops(w) \/ PollNudges(w) \/ Abort(w)
        \/ BoundPasses(w) \/ StallPasses(w)
    \/ \E x \in Messages : ReapRequest(x) \/ Attach(x) \/ \E m \in Mates : Hear(x, m)
    \/ \E m \in Mates : Notice(m)
    \/ CancelAll

\* Time passes, and a timer that is due fires.
Fairness == \A w \in Waits : WF_vars(BoundPasses(w)) /\ WF_vars(TimeoutFires(w))

Spec == Init /\ [][Next]_vars /\ Fairness

-----------------------------------------------------------------------------
(* Properties                                                              *)

TypeOK ==
    /\ phase \in [Waits -> {"to come", "waiting", "done"}]
    /\ ids \in [Waits -> SUBSET Mates]
    /\ waiters \in [Mates -> SUBSET Waits]
    /\ buffered \in [Mates -> SUBSET Messages]
    /\ hook \subseteq Waits /\ timer \subseteq Waits /\ poll \subseteq Waits
    /\ listening \subseteq Waits /\ overdue \subseteq Waits
    /\ stalled \subseteq Waits
    /\ aborted \subseteq Waits /\ nudged \subseteq Waits
    /\ closed \in BOOLEAN
    /\ outcome \in [Waits -> SUBSET Messages]
    /\ surfaced \subseteq Messages /\ refused \subseteq Messages
    /\ arrived \subseteq Messages
    /\ alongside \in [Waits -> SUBSET Waits]

\* "No report is ever lost": of what the hold prints, all but the removed attach
\* protocol's traffic is what some call returned or a turn of its own, however a
\* wait's end, a later wait and the session's end fall between the message and its
\* reader.
NoMessageLost ==
    \A x \in arrived \ refused : x \in surfaced \/ \E w \in Waits : x \in outcome[w]

\* "A result is consumed exactly once" by calls one after the other: two calls
\* return with the same result only if they waited together.
NotTakenAgain ==
    \A v, w \in Waits : outcome[v] \cap outcome[w] # {} => v = w \/ v \in alongside[w]

\* "An ended wait can never leak them": a call that has returned is in no waiter
\* set, has no hook and no timer.  A wait that was over before it began is the
\* exception: it arms an interval after it has finished.
EndedHoldsNothing ==
    \A w \in Waits : phase[w] = "done" =>
        /\ w \notin hook \cup timer
        /\ \A m \in Mates : w \notin waiters[m]
        /\ w \in poll \cup listening => w \in overdue

\* No call outlives the session that made it.
ClosedEndsAll == closed => Waiting = {}

\* A message to the session does not sit behind a blocked tool: a text or a result that
\* becomes a turn ends the wait that was the only one while it waited, whoever sent it.
MessageWakesLoneWait ==
    [][\A x \in Messages, m \in Mates : Direct(x, m) \/ ResultIsEarly(x, m) =>
          \A w \in Waiting : Lone(w) => phase'[w] = "done"]_vars

\* A wait ends, also when the hooks it had went to another.
WaitEnds == \A w \in Waits : phase[w] = "waiting" ~> phase[w] = "done"

\* Claimed: "all wait timers and watchers live here, so an ended wait can never
\* leak them", "an instant wait still releases them all".  A bound that has passed
\* when the timer is armed leaves the interval and the abort listener.
EndedReleasesAll ==
    \A w \in Waits : phase[w] = "done" => w \notin poll \cup listening

\* Claimed: "A direct message must not sit behind a blocked team_wait".  Of two
\* calls at once it ends the newer, and the other's hooks are gone.
MessageWakesEveryWait ==
    [][surfaced' # surfaced => \A w \in Waiting : phase'[w] = "done"]_vars

\* Claimed: the same.  A reap request is a turn that no wait hears of, and so is a
\* message addressed by the other form of a bare id.
TurnWakesLoneWait ==
    [][surfaced' # surfaced => \A w \in Waiting : Lone(w) => phase'[w] = "done"]_vars

\* Claimed: "A result is consumed exactly once".  One that came before the wait is
\* a turn and the next call's result.
ConsumedOnce == \A w \in Waits : outcome[w] \cap surfaced = {}
=============================================================================
