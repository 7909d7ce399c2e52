-------------------------- MODULE HoldSupervision --------------------------
(***************************************************************************)
(* How a pi session keeps its connection to the broker                     *)
(* (extensions/pi-teams/agent.ts, src/src/team_client.py): the extension   *)
(* launches a hold, a client process that registers the session and stays, *)
(* and when it exits launches another after a pause, having made sure that *)
(* a broker runs.  A session event replaces the hold, a reload the whole   *)
(* extension.                                                              *)
(*                                                                         *)
(* The broker is here what one session meets of it: a process that comes   *)
(* and goes (BrokerLock), an endpoint file, and a thread per connection    *)
(* that reads a register and an end of stream when it gets to them         *)
(* (Registration).  A register takes the session's id over and leaves the  *)
(* connection that had it open.                                            *)
(*                                                                         *)
(* No name here is one of WaitInbox, the other part of a session's         *)
(* extension, so that one module of proofs extends the two.                *)
(***************************************************************************)
CONSTANTS
    Apps,       \* instances of the extension, one per load
    Holds,      \* hold processes; one that left no trace is launched again
    NoApp, NoHold,
    Dud         \* a process object whose launch failed: it emits no exit

ASSUME NullAssumption ==
    /\ NoApp \notin Apps
    /\ NoHold \notin Holds /\ Dud \notin Holds /\ NoHold # Dud

VARIABLES
    app,        \* the instance loaded last, until pi ends
    used,       \* the instances loaded so far
    closedApps, \* those that deregistered or handed over
    surrendered,\* those that handed over
    holdProc,   \* each instance's hold
    timers,     \* the holds whose end armed a restart that is still to come
    by,         \* the instance that launched a hold
    proc,       \* where each hold process is
    stopped,    \* holds killed, or whose stdin has ended
    sock,       \* its connection at the broker
    current,    \* the connection that holds the session's id
    broker,     \* up or down
    endpoint,   \* the endpoint file: none, or of a broker that is stale or live
    probes,     \* what the probes under way have read in it
    launching,  \* a broker process has been launched
    failed      \* history: instances whose last launch of a hold failed

session == <<app, used, closedApps, surrendered, failed>>
process == <<holdProc, timers, by, proc, stopped>>
file == <<endpoint, probes, launching>>
holdVars == <<session, process, sock, current, broker, file>>

Running == {h \in Holds : proc[h] \in {"starting", "joining", "holding"}}
Open(e) == e # NoApp /\ e \notin closedApps

-----------------------------------------------------------------------------
HoldInit ==
    /\ app = NoApp /\ used = {} /\ closedApps = {} /\ surrendered = {} /\ failed = {}
    /\ holdProc = [e \in Apps |-> NoHold]
    /\ timers = {} /\ by = [h \in Holds |-> NoApp]
    /\ proc = [h \in Holds |-> "gone"] /\ stopped = {}
    /\ sock = [h \in Holds |-> "none"] /\ current = NoHold
    /\ broker = "down" /\ endpoint \in {"none", "stale"}
    /\ probes = {} /\ launching = FALSE

-----------------------------------------------------------------------------
(* The broker, as the extension sees to it                                 *)

\* Mutant: a published endpoint is trusted.
EnsureWithoutProbe ==
    /\ launching' = (launching \/ endpoint = "none")
    /\ UNCHANGED <<endpoint, probes>>

\* ensureBroker: start one if nothing is published, probe what is.
EnsureBroker ==
    /\ IF endpoint = "none" THEN launching' = TRUE /\ UNCHANGED probes
                            ELSE probes' = probes \cup {endpoint} /\ UNCHANGED launching
    /\ UNCHANGED endpoint

\* A probe's answer: a refusal unlinks the file, whoever's it is by now.
Settle(p) ==
    /\ p \in probes /\ probes' = probes \ {p}
    /\ IF p = "stale" THEN endpoint' = "none" /\ launching' = TRUE
                      ELSE UNCHANGED <<endpoint, launching>>
    /\ UNCHANGED <<session, process, sock, current, broker>>

\* The launched process serves, or finds the lock held.
BrokerStarts ==
    /\ launching /\ launching' = FALSE
    /\ IF broker = "down" THEN broker' = "up" /\ endpoint' = "live"
                          ELSE UNCHANGED <<broker, endpoint>>
    /\ UNCHANGED <<session, process, sock, current, probes>>

BrokerStartFails ==
    /\ launching /\ broker = "down" /\ launching' = FALSE
    /\ UNCHANGED <<session, process, sock, current, broker, endpoint, probes>>

\* The broker stops, removing its endpoint, or is killed: every connection ends.
BrokerEnds ==
    /\ broker = "up" /\ broker' = "down"
    /\ endpoint' \in IF endpoint = "live" THEN {"none", "stale"} ELSE {endpoint}
    /\ probes' = {"stale" : p \in probes}
    /\ sock' = [h \in Holds |-> IF sock[h] # "none" /\ h \in Running THEN "over" ELSE "none"]
    /\ current' = NoHold
    /\ UNCHANGED <<session, process, launching>>

-----------------------------------------------------------------------------
(* The extension                                                           *)

\* Processes nobody knows of any more, which stand for one to be launched.
Spare(armed) == {h \in Holds : proc[h] = "gone" /\ sock[h] = "none" /\ h \notin armed}

\* What stopHold leaves of an instance's hold.
StoppedBy(e) == stopped \cup ({holdProc[e]} \cap Running)

\* hold: the former one is stopped; the launch gives a process, throws, or gives
\* one that will only emit an error.
Hold(e, armed) ==
    /\ Spare(armed) # {}
    /\ stopped' = StoppedBy(e)
    /\ \/ /\ LET h == CHOOSE free \in Spare(armed) : TRUE IN
                /\ proc' = [proc EXCEPT ![h] = "starting"]
                /\ by' = [by EXCEPT ![h] = e]
                /\ holdProc' = [holdProc EXCEPT ![e] = h]
          /\ failed' = failed \ {e}
       \/ /\ \E none \in {NoHold, Dud} : holdProc' = [holdProc EXCEPT ![e] = none]
          /\ failed' = failed \cup {e}
          /\ UNCHANGED <<proc, by>>
    /\ UNCHANGED sock

SessionStart ==
    /\ Open(app)
    /\ EnsureBroker /\ Hold(app, timers)
    /\ UNCHANGED <<app, used, closedApps, surrendered, timers, current, broker>>

\* A load of the extension: the instance before hands over.
Load(e) ==
    /\ e \notin used /\ (used # {} => app # NoApp)
    /\ app' = e /\ used' = used \cup {e}
    /\ IF app = NoApp
       THEN UNCHANGED <<closedApps, surrendered, holdProc, stopped>>
       ELSE /\ closedApps' = closedApps \cup {app} /\ surrendered' = surrendered \cup {app}
            /\ holdProc' = [holdProc EXCEPT ![app] = NoHold]
            /\ stopped' = StoppedBy(app)
    /\ UNCHANGED <<failed, timers, by, proc, sock, current, broker, file>>

\* session_shutdown, before or after a load that took over.
Deregister(e) ==
    /\ e \in used \ surrendered /\ app # NoApp
    /\ closedApps' = closedApps \cup {e}
    /\ holdProc' = [holdProc EXCEPT ![e] = NoHold]
    /\ stopped' = StoppedBy(e)
    /\ UNCHANGED <<app, used, surrendered, failed, timers, by, proc, sock, current, broker,
                   file>>

\* Mutant: any exit counts as that of the present hold.
DiedOfAny(h) ==
    /\ proc[h] = "dead" /\ app # NoApp
    /\ proc' = [proc EXCEPT ![h] = "gone"]
    /\ IF by[h] \notin closedApps
       THEN holdProc' = [holdProc EXCEPT ![by[h]] = NoHold] /\ timers' = timers \cup {h}
       ELSE UNCHANGED <<holdProc, timers>>
    /\ UNCHANGED <<session, by, stopped, sock, current, broker, file>>

\* The exit of a hold: one that was replaced or stopped is nobody's any more.
HoldDied(h) ==
    /\ proc[h] = "dead" /\ app # NoApp
    /\ proc' = [proc EXCEPT ![h] = "gone"]
    /\ IF holdProc[by[h]] = h
       THEN /\ holdProc' = [holdProc EXCEPT ![by[h]] = NoHold]
            /\ timers' = IF by[h] \in closedApps \cup surrendered
                         THEN timers ELSE timers \cup {h}
       ELSE UNCHANGED <<holdProc, timers>>
    /\ UNCHANGED <<session, by, stopped, sock, current, broker, file>>

\* The restart a death armed, after a pause that grows to 30 s: nothing if the
\* instance is over or has a hold again.
TimerFires(h) ==
    /\ h \in timers /\ timers' = timers \ {h}
    /\ IF by[h] \in closedApps \/ holdProc[by[h]] # NoHold
       THEN UNCHANGED <<holdProc, by, proc, stopped, failed, sock, file>>
       ELSE EnsureBroker /\ Hold(by[h], timers')
    /\ UNCHANGED <<app, used, closedApps, surrendered, current, broker>>

\* Mutant: the hold does not watch its stdin.
PiEndsUnwatched ==
    /\ app # NoApp /\ app' = NoApp
    /\ timers' = {} /\ probes' = {}
    /\ UNCHANGED <<used, closedApps, surrendered, failed, holdProc, by, proc, stopped, sock,
                   current, broker, endpoint, launching>>

\* pi ends without a word: its timers and probes go, every hold reads the end of
\* its stdin, and nobody is told of exits.
PiEnds ==
    /\ app # NoApp /\ app' = NoApp
    /\ timers' = {} /\ probes' = {}
    /\ stopped' = Running
    /\ UNCHANGED <<used, closedApps, surrendered, failed, holdProc, by, proc, sock, current,
                   broker, endpoint, launching>>

-----------------------------------------------------------------------------
(* The hold's process                                                      *)

\* connect and the register request.
Connect(h) ==
    /\ proc[h] = "starting" /\ endpoint = "live"
    /\ proc' = [proc EXCEPT ![h] = "joining"]
    /\ sock' = [sock EXCEPT ![h] = "asked"]
    /\ UNCHANGED <<session, holdProc, timers, by, stopped, current, broker, file>>

\* The register's ack.
Joined(h) ==
    /\ proc[h] = "joining" /\ sock[h] = "served"
    /\ proc' = [proc EXCEPT ![h] = "holding"]
    /\ UNCHANGED <<session, holdProc, timers, by, stopped, sock, current, broker, file>>

Exits(h) ==
    /\ proc' = [proc EXCEPT ![h] = "dead"]
    /\ stopped' = stopped \ {h}
    /\ sock' = [sock EXCEPT ![h] = IF @ = "over" THEN "none" ELSE @]
    /\ UNCHANGED <<session, holdProc, timers, by, current, broker, file>>

\* No broker to connect to, the end of the connection, the kill or the end of stdin.
Due(h) == h \in stopped \/ (proc[h] = "starting" /\ endpoint # "live") \/ sock[h] = "over"

Ends(h) == h \in Running /\ Due(h) /\ Exits(h)

\* The hold is killed by others, or its request times out.
Fails(h) == h \in Running /\ ~Due(h) /\ Exits(h)

-----------------------------------------------------------------------------
(* The broker's threads                                                    *)

\* The register is read, whether or not its sender is still there.
Registered(h) ==
    /\ sock[h] = "asked" /\ broker = "up"
    /\ sock' = [sock EXCEPT ![h] = "served"]
    /\ current' = h
    /\ UNCHANGED <<session, process, broker, file>>

\* The end of stream releases the id if it is still this connection's.
EndOfStream(h) ==
    /\ sock[h] = "served" /\ h \notin Running
    /\ sock' = [sock EXCEPT ![h] = "none"]
    /\ current' = IF current = h THEN NoHold ELSE current
    /\ UNCHANGED <<session, process, broker, file>>

\* gc-reap: the session's own request leaves the connection as it is.
Reaped ==
    /\ app # NoApp /\ current # NoHold /\ current' = NoHold
    /\ UNCHANGED <<session, process, sock, broker, file>>

\* A terminate or the sweep ends the registration and its connection.
Dropped ==
    /\ current \in Running /\ current' = NoHold
    /\ sock' = [sock EXCEPT ![current] = "over"]
    /\ UNCHANGED <<session, process, broker, file>>

-----------------------------------------------------------------------------
Session == SessionStart \/ \E e \in Apps : Load(e) \/ Deregister(e)

\* What may keep the session from its registration.
Disturbance ==
    \/ Session \/ PiEnds
    \/ BrokerEnds \/ BrokerStartFails \/ Reaped \/ Dropped
    \/ \E h \in Holds : Fails(h)

Course(h) ==
    \/ HoldDied(h) \/ TimerFires(h) \/ Connect(h) \/ Joined(h) \/ Ends(h)
    \/ Registered(h) \/ EndOfStream(h)

HoldNext ==
    \/ Disturbance
    \/ \E h \in Holds : Course(h)
    \/ \E p \in probes : Settle(p)
    \/ BrokerStarts

\* Callbacks run, timers fire, processes and the broker's threads go on.
HoldFairness ==
    /\ \A h \in Holds :
        /\ WF_holdVars(HoldDied(h)) /\ WF_holdVars(TimerFires(h)) /\ WF_holdVars(Connect(h))
        /\ WF_holdVars(Joined(h)) /\ WF_holdVars(Ends(h))
        /\ WF_holdVars(Registered(h)) /\ WF_holdVars(EndOfStream(h))
    /\ \A p \in {"stale", "live"} : WF_holdVars(Settle(p))
    /\ WF_holdVars(BrokerStarts)

HoldSpec == HoldInit /\ [][HoldNext]_holdVars /\ HoldFairness

-----------------------------------------------------------------------------
(* Properties                                                              *)

HoldTypeOK ==
    /\ app \in Apps \cup {NoApp} /\ used \subseteq Apps
    /\ closedApps \subseteq Apps /\ surrendered \subseteq closedApps /\ failed \subseteq Apps
    /\ holdProc \in [Apps -> Holds \cup {NoHold, Dud}]
    /\ timers \subseteq Holds /\ by \in [Holds -> Apps \cup {NoApp}]
    /\ proc \in [Holds -> {"gone", "starting", "joining", "holding", "dead"}]
    /\ stopped \subseteq Holds
    /\ sock \in [Holds -> {"none", "asked", "served", "over"}]
    /\ current \in Holds \cup {NoHold}
    /\ broker \in {"up", "down"} /\ endpoint \in {"none", "stale", "live"}
    /\ probes \subseteq {"stale", "live"} /\ launching \in BOOLEAN

\* A session has one hold: any other that runs was told to stop, also when exits,
\* restarts armed by earlier deaths, session events and loads cross each other.
OneHold ==
    \A h \in Running \ stopped : Open(app) /\ holdProc[app] = h

\* The session's id is its present hold's.
Served == Open(app) /\ current = holdProc[app] /\ current # NoHold

\* What no restart mends: a launch that failed, a broker whose endpoint a probe
\* unlinked, a hold whose id a stopped one took over and gave up, or
\* that was reaped.
Stuck ==
    \/ Open(app) /\ app \in failed
    \/ broker = "up" /\ endpoint = "none"
    \/ Open(app) /\ \E h \in Holds :
            holdProc[app] = h /\ proc[h] \in {"joining", "holding"} /\ sock[h] = "served"
            /\ current # h

Asks == Open(app) /\ (holdProc[app] # NoHold \/ \E h \in timers : by[h] = app)

\* "A restarted broker must always be able to bring the session back": once the
\* session asks and nothing disturbs it any more, its hold holds its id for good.
ServedInTheEnd ==
    \/ []<><<Disturbance>>_holdVars
    \/ <>[](Asks => Served \/ Stuck)

\* "Closing it drops the endpoint instead of leaving an orphan pinging for ever":
\* a session whose pi has ended is not registered for long.
OrphanLeaves == (used # {} /\ app = NoApp) ~> current = NoHold

\* Claimed: the same without an exception.  The launch that failed is one, as no
\* exit follows it, and the two that Stuck names besides.
RestartBringsBack ==
    \/ []<><<Disturbance>>_holdVars
    \/ <>[](Asks => Served)

\* Claimed: "the reloaded-away instance stops re-registering because its
\* replacement handed its identity over".  A register its hold had sent may be
\* read after the replacement's, whose id is then released with it.
ReplacedStaysOut == [][\A h \in Holds : Registered(h) => ~Served]_holdVars
=============================================================================
