------------------------------ MODULE IdleReap ------------------------------
(***************************************************************************)
(* The one idle policy (src/src/gc_reaper.py): the sweep asks a reachable  *)
(* session without work contact for gc_idle to reap itself, once per idle  *)
(* episode, unless it waits or a present provider hosts it.                *)
(*                                                                         *)
(* The sweep probes the provider, takes the due ids under the lock and     *)
(* asks them one by one without it, while pings, sends, releases and       *)
(* registers run in the connections' threads; a work contact marks the     *)
(* entry under the lock and forgets the request after it.                  *)
(*                                                                         *)
(* Time is one fact per entry, aged: last_work is older than gc_idle       *)
(* (hours).  It comes after a pass of the sweep (a second apart) and after *)
(* the end of any forget_request that was under way.                       *)
(*                                                                         *)
(* No name here is one of Registration, whose entries these are, so that   *)
(* one module of proofs extends the two.                                   *)
(***************************************************************************)
EXTENDS FiniteSets

CONSTANTS
    Sessions,   \* the sessions, by id
    Hosted,     \* those a session-host provider marked
    Speakers    \* those that send messages by clients of their own

ASSUME AgentAssumption == Hosted \subseteq Sessions /\ Speakers \subseteq Sessions

VARIABLES
    link,       \* out, or registered on a connection that is up or going
    waiting,    \* the entry's flag
    aged,       \* last_work is older than gc_idle
    forgetting, \* ids a thread has released or marked and will forget next
    requested,  \* _requested
    present,    \* a live provider's endpoint can be read
    stage,      \* asleep, probed, asking, noting
    deferred,   \* what this pass probed
    due,        \* the ids of this pass still to go through
    noting,     \* the id asked whose mark is not made yet
    swept,      \* history: ids the sweep has seen since their episode began
    told,       \* history: what the session was asked in this episode
    spoke       \* history: ids that sent a message since the last pass

entries == <<link, waiting, aged>>
pass == <<stage, deferred, due, noting>>
idleVars == <<entries, forgetting, requested, present, pass, swept, told, spoke>>

In(a) == link[a] # "out"

-----------------------------------------------------------------------------
IdleInit ==
    /\ link = [a \in Sessions |-> "out"]
    /\ waiting = [a \in Sessions |-> FALSE]
    /\ aged = [a \in Sessions |-> FALSE]
    /\ forgetting = {} /\ requested = {}
    /\ present = FALSE
    /\ stage = "asleep" /\ deferred = FALSE /\ due = {} /\ noting = {}
    /\ swept = {}
    /\ told = [a \in Sessions |-> "nothing"]
    /\ spoke = {}

\* Work or a departure ends the idle episode.
NewEpisode(a) ==
    /\ aged' = [aged EXCEPT ![a] = FALSE]
    /\ swept' = swept \ {a}
    /\ told' = [told EXCEPT ![a] = "nothing"]

-----------------------------------------------------------------------------
(* The connections' threads                                                *)

\* The entry is made anew, whether or not the id had one; nothing is
\* forgotten of an id that is registered over.
Registers(a) ==
    /\ link' = [link EXCEPT ![a] = "up"]
    /\ waiting' = [waiting EXCEPT ![a] = FALSE]
    /\ NewEpisode(a)
    /\ UNCHANGED <<forgetting, requested, present, pass, spoke>>

\* A contact that bears work: a busy ping, an operation on the session's own
\* connection, a spawn.
Work(a) ==
    /\ In(a)
    /\ NewEpisode(a)
    /\ forgetting' = forgetting \cup {a}
    /\ UNCHANGED <<link, requested, present, pass, spoke>>

\* A ping brings the session's present state: busy, waiting or neither.
Ping(a) ==
    \/ waiting' = [waiting EXCEPT ![a] = FALSE] /\ Work(a)
    \/ /\ In(a)
       /\ waiting' = [waiting EXCEPT ![a] = FALSE]
       /\ UNCHANGED <<link, aged, forgetting, requested, present, pass, swept, told, spoke>>
    \/ /\ In(a)
       /\ waiting' = [waiting EXCEPT ![a] = TRUE]
       /\ told' = [told EXCEPT ![a] = IF @ = "asked" THEN "paused" ELSE @]
       /\ UNCHANGED <<link, aged, forgetting, requested, present, pass, swept, spoke>>

Contact(a) == UNCHANGED waiting /\ Work(a)

\* A message sent by a client of its own (team.py) has the session's token
\* but no registered connection: it touches no entry.
SendByClient(a) ==
    /\ a \in Speakers /\ In(a)
    /\ spoke' = spoke \cup {a}
    /\ UNCHANGED <<entries, forgetting, requested, present, pass, swept, told>>

\* Every release path.
Leave(a) ==
    /\ In(a)
    /\ link' = [link EXCEPT ![a] = "out"]
    /\ NewEpisode(a)
    /\ forgetting' = forgetting \cup {a}
    /\ UNCHANGED <<waiting, requested, present, pass, spoke>>

\* forget_request, after the unlock.
Forget(a) ==
    /\ a \in forgetting
    /\ forgetting' = forgetting \ {a}
    /\ requested' = requested \ {a}
    /\ UNCHANGED <<entries, present, pass, swept, told, spoke>>

-----------------------------------------------------------------------------
(* The sweep                                                               *)

\* Before the lock: is a provider present?
Probe ==
    /\ stage = "asleep"
    /\ stage' = "probed"
    /\ deferred' = present
    /\ UNCHANGED <<entries, forgetting, requested, present, due, noting, swept, told,
                   spoke>>

\* Mutant: a present provider defers the sessions it does not host too.
DueWithoutProvider(a) == In(a) /\ ~waiting[a] /\ aged[a] /\ ~deferred

\* The ids to ask, and of the ids asked before only those still due.
Due(a) == In(a) /\ ~waiting[a] /\ aged[a] /\ ~(deferred /\ a \in Hosted)

\* Mutant: marks are cleared by work and departures alone.
ScanKeepingMarks ==
    /\ stage = "probed"
    /\ stage' = "asking"
    /\ due' = {a \in Sessions : Due(a)}
    /\ swept' = {a \in Sessions : In(a)}
    /\ spoke' = {}
    /\ UNCHANGED <<entries, forgetting, requested, present, deferred, noting, told>>

Scan ==
    /\ stage = "probed"
    /\ stage' = "asking"
    /\ due' = {a \in Sessions : Due(a)}
    /\ requested' = requested \cap due'
    /\ swept' = {a \in Sessions : In(a)}
    /\ told' = [a \in Sessions |->
                  IF told[a] = "asked" /\ ~Due(a) THEN "paused" ELSE told[a]]
    /\ spoke' = {}
    /\ UNCHANGED <<entries, forgetting, present, deferred, noting>>

\* What the request means to the session's episode: one the sweep has not
\* seen is not what was asked about.
Asked(a) ==
    told' = [told EXCEPT ![a] =
               CASE a \notin swept -> @
                 [] @ \in {"asked", "doubled"} -> "doubled"
                 [] @ \in {"paused", "reasked"} -> "reasked"
                 [] OTHER -> "asked"]

Skip(a) ==
    /\ stage = "asking" /\ a \in due /\ a \in requested
    /\ due' = due \ {a}
    /\ UNCHANGED <<entries, forgetting, requested, present, stage, deferred, noting,
                   swept, told, spoke>>

\* _request_reap: the connection the id has now takes the request.
Ask(a) ==
    /\ stage = "asking" /\ a \in due /\ a \notin requested /\ In(a)
    /\ due' = due \ {a}
    /\ noting' = {a} /\ stage' = "noting"
    /\ Asked(a)
    /\ UNCHANGED <<entries, forgetting, requested, present, deferred, swept, spoke>>

\* An id without a connection, or with one that is going, is left to the
\* next pass.
AskFails(a) ==
    /\ stage = "asking" /\ a \in due /\ a \notin requested /\ link[a] # "up"
    /\ due' = due \ {a}
    /\ UNCHANGED <<entries, forgetting, requested, present, stage, deferred, noting,
                   swept, told, spoke>>

\* Mutant: the request is sent and not remembered.
NoteNothing ==
    /\ stage = "noting"
    /\ noting' = {} /\ stage' = "asking"
    /\ UNCHANGED <<entries, forgetting, requested, present, deferred, due, swept, told,
                   spoke>>

\* Only then is the id marked as asked.
Note ==
    /\ stage = "noting"
    /\ requested' = requested \cup noting
    /\ noting' = {} /\ stage' = "asking"
    /\ UNCHANGED <<entries, forgetting, present, deferred, due, swept, told, spoke>>

PassEnds ==
    /\ stage = "asking" /\ due = {}
    /\ stage' = "asleep"
    /\ UNCHANGED <<entries, forgetting, requested, present, deferred, due, noting,
                   swept, told, spoke>>

-----------------------------------------------------------------------------
(* The world                                                               *)

Ages(a) ==
    /\ In(a) /\ a \in swept /\ a \notin forgetting
    /\ ~aged[a]
    /\ aged' = [aged EXCEPT ![a] = TRUE]
    /\ UNCHANGED <<link, waiting, forgetting, requested, present, pass, swept, told,
                   spoke>>

ConnectionGoes(a) ==
    /\ link[a] = "up"
    /\ link' = [link EXCEPT ![a] = "going"]
    /\ UNCHANGED <<waiting, aged, forgetting, requested, present, pass, swept, told,
                   spoke>>

ProviderChanges ==
    /\ Hosted # {}
    /\ present' = ~present
    /\ UNCHANGED <<entries, forgetting, requested, pass, swept, told, spoke>>

IdleStep ==
    \/ Probe \/ Scan \/ Note \/ PassEnds
    \/ \E a \in Sessions : Skip(a) \/ Ask(a) \/ AskFails(a)

Serve(a) == Registers(a) \/ Ping(a) \/ Contact(a) \/ SendByClient(a) \/ Leave(a) \/ Forget(a)

IdleNext ==
    \/ \E a \in Sessions : Serve(a) \/ Ages(a) \/ ConnectionGoes(a)
    \/ IdleStep
    \/ ProviderChanges

\* The sweep's loop goes on, a thread that marked an entry forgets, and a
\* connection that is going ends.
IdleFairness ==
    /\ WF_idleVars(IdleStep)
    /\ \A a \in Sessions :
          /\ WF_idleVars(Forget(a))
          /\ WF_idleVars(link[a] = "going" /\ Leave(a))

IdleSpec == IdleInit /\ [][IdleNext]_idleVars /\ IdleFairness

-----------------------------------------------------------------------------
(* Properties                                                              *)

IdleTypeOK ==
    /\ link \in [Sessions -> {"out", "up", "going"}]
    /\ waiting \in [Sessions -> BOOLEAN] /\ aged \in [Sessions -> BOOLEAN]
    /\ forgetting \subseteq Sessions /\ requested \subseteq Sessions
    /\ present \in BOOLEAN /\ deferred \in BOOLEAN
    /\ stage \in {"asleep", "probed", "asking", "noting"}
    /\ due \subseteq Sessions /\ noting \subseteq Sessions
    /\ swept \subseteq Sessions /\ spoke \subseteq Sessions
    /\ told \in [Sessions -> {"nothing", "asked", "paused", "reasked", "doubled"}]
\* "Asked once is not asked again": two requests of one episode always have a
\* wait or a provider between them, whatever the pings, releases and registers
\* do between a pass's snapshot, its request and its mark.
NotAskedTwice == \A a \in Sessions : told[a] # "doubled"

\* A mark that a pass has seen is of a request of the same episode: a mark made
\* after the work that should have cleared it does not outlive the next pass,
\* where it would keep the session from ever being asked.
MarkMeansAsked == \A a \in requested : a \in swept => told[a] # "nothing"

\* A reachable idle session is asked, or stops being one: "a False answer is
\* retryable on the next sweep".
Idle(a) == In(a) /\ ~waiting[a] /\ aged[a] /\ ~(present /\ a \in Hosted)

IdleIsAsked == \A a \in Sessions : Idle(a) ~> told[a] # "nothing" \/ ~Idle(a)

\* Claimed: "a session asked once is not asked again until it works again or
\* leaves".  A wait or a provider that comes and goes clears the mark.
OneRequestPerEpisode == \A a \in Sessions : told[a] # "reasked"

\* Claimed: "any message the fork sends counts too".  One sent by a client of
\* its own does not, and the next pass asks its sender.
MessageKeepsAlive ==
    [][stage = "probed" /\ stage' = "asking" => due' \cap spoke = {}]_idleVars
=============================================================================
