----------------------------- MODULE BrokerLock -----------------------------
(***************************************************************************)
(* How a root gets, keeps and loses its one broker: the lock directory     *)
(* with its pid record and the endpoint file (src/src/team_root.py,        *)
(* team_broker.py run), and the sessions that probe the endpoint and start *)
(* brokers (extensions/pi-teams/agent.ts ensureBroker).                    *)
(*                                                                         *)
(* Every system call on the lock or the endpoint is a step of its own, for *)
(* processes share nothing but the file system.  A process dies at any     *)
(* point and leaves the files as they are.  Pids are not reused: the start *)
(* mark in the record tells a reused pid from the process it names.        *)
(***************************************************************************)
EXTENDS Naturals, FiniteSets

CONSTANTS
    Procs,      \* the broker processes that may be started, each once
    Sessions,   \* the pi sessions that look for a broker
    NoProc,
    MaxCrashes  \* how many processes may die without cleaning up (a bound)

ASSUME LockAssumption == NoProc \notin Procs /\ MaxCrashes \in Nat

VARIABLES
    dir,        \* does .broker.lock exist?
    rec,        \* whose record its pid file is, if there is one
    endpoint,   \* whose endpoint file is published, if any
    pc,         \* where each process is
    attempt,    \* which of acquire_lock's two attempts it is on
    judged,     \* the holder its _reap_stale_lock read
    session,    \* what each session's ensureBroker is doing
    probed,     \* the endpoint it read
    crashes,
    maker,      \* history: who made the lock directory that is there
    wrongReap,  \* history: a reap took a record or directory it had not judged,
                \* or an undo a directory it had not made
    torn        \* history: a process died with a lock directory to record or remove

files == <<dir, rec, maker>>
vars == <<dir, rec, endpoint, pc, attempt, judged, session, probed, crashes,
          maker, wrongReap, torn>>

Init ==
    /\ dir = FALSE /\ rec = NoProc /\ endpoint = NoProc
    /\ pc = [p \in Procs |-> "absent"]
    /\ attempt = [p \in Procs |-> 1]
    /\ judged = [p \in Procs |-> NoProc]
    /\ session = [s \in Sessions |-> "idle"]
    /\ probed = [s \in Sessions |-> NoProc]
    /\ crashes = 0
    /\ maker = NoProc
    /\ wrongReap = FALSE /\ torn = FALSE

-----------------------------------------------------------------------------
Over == {"absent", "exited", "crashed"}

\* _pid_alive with the recorded start mark.
Alive(p) == pc[p] \notin Over

\* The steps between a successful acquire_lock and the end of release_lock.
Owning == {"publish", "serving", "unpublish", "unlink-endpoint", "unlock"}

Owner(p) == pc[p] \in Owning

\* The steps that record a lock directory or remove it.
Attending == {"record", "undo", "reap-dir", "unlock-dir"}

Goto(p, l) == pc' = [pc EXCEPT ![p] = l]

-----------------------------------------------------------------------------
(* acquire_lock                                                            *)

\* mkdir of the lock directory: made, or somebody's is there already.
Mkdir(p) ==
    /\ pc[p] = "mkdir"
    /\ IF dir
         THEN /\ Goto(p, "read")
              /\ UNCHANGED files
         ELSE /\ Goto(p, "record")
              /\ dir' = TRUE /\ maker' = p
              /\ UNCHANGED rec
    /\ UNCHANGED <<endpoint, attempt, judged, session, probed, crashes, wrongReap, torn>>

\* _write_lock_record, into whatever directory is there now.
WriteRecord(p) ==
    /\ pc[p] = "record" /\ dir
    /\ rec' = p
    /\ Goto(p, "publish")
    /\ UNCHANGED <<dir, endpoint, attempt, judged, session, probed, crashes, maker,
                   wrongReap, torn>>

\* The write raises: the directory is gone, or the disk refuses the file ...
WriteRaises(p) ==
    /\ pc[p] = "record"
    /\ Goto(p, "undo")
    /\ UNCHANGED <<files, endpoint, attempt, judged, session, probed, crashes,
                   wrongReap, torn>>

\* Mutant: a failed write leaves the directory it was for.
UndoNothing(p) ==
    /\ pc[p] = "undo"
    /\ Goto(p, "exited")
    /\ UNCHANGED <<files, endpoint, attempt, judged, session, probed, crashes, wrongReap, torn>>

\* ... and acquire_lock removes the directory, if it is there and empty,
\* before the exception ends the process.
UndoDir(p) ==
    /\ pc[p] = "undo"
    /\ IF dir /\ rec = NoProc
         THEN /\ dir' = FALSE /\ maker' = NoProc
              /\ wrongReap' = (wrongReap \/ maker # p)
         ELSE UNCHANGED <<dir, maker, wrongReap>>
    /\ Goto(p, "exited")
    /\ UNCHANGED <<rec, endpoint, attempt, judged, session, probed, crashes, torn>>

\* _lock_record, read for a quarter of a second: a record, or none to judge by,
\* in which case the directory is left as it is and the process gives way.
ReadRecord(p) ==
    /\ pc[p] = "read"
    /\ judged' = [judged EXCEPT ![p] = rec]
    /\ Goto(p, IF rec = NoProc THEN "exited" ELSE "judge")
    /\ UNCHANGED <<files, endpoint, attempt, session, probed, crashes, wrongReap, torn>>

\* Mutant: the holder's liveness is not asked.
JudgeLiveToo(p) ==
    /\ pc[p] = "judge"
    /\ Goto(p, "reap")
    /\ UNCHANGED <<files, endpoint, attempt, judged, session, probed, crashes,
                   wrongReap, torn>>

\* A live holder keeps its lock.
Judge(p) ==
    /\ pc[p] = "judge"
    /\ Goto(p, IF Alive(judged[p]) THEN "exited" ELSE "reap")
    /\ UNCHANGED <<files, endpoint, attempt, judged, session, probed, crashes,
                   wrongReap, torn>>

\* Mutant: the record is left, so that the rmdir fails on it.
ReapNoRecord(p) ==
    /\ pc[p] = "reap"
    /\ Goto(p, "reap-dir")
    /\ UNCHANGED <<files, endpoint, attempt, judged, session, probed, crashes,
                   wrongReap, torn>>

\* The pid file is unlinked by name, whosever record it is by now ...
ReapRecord(p) ==
    /\ pc[p] = "reap"
    /\ rec' = NoProc
    /\ wrongReap' = (wrongReap \/ (rec # NoProc /\ maker # judged[p]))
    /\ Goto(p, "reap-dir")
    /\ UNCHANGED <<dir, endpoint, attempt, judged, session, probed, crashes, maker, torn>>

\* Mutant: one attempt; the reaped lock is left for another starter.
ReapDirAndGo(p) ==
    /\ pc[p] = "reap-dir"
    /\ IF dir /\ rec = NoProc
         THEN /\ dir' = FALSE /\ maker' = NoProc
              /\ wrongReap' = (wrongReap \/ maker # judged[p])
         ELSE UNCHANGED <<dir, maker, wrongReap>>
    /\ Goto(p, "exited")
    /\ UNCHANGED <<rec, endpoint, attempt, judged, session, probed, crashes, torn>>

\* ... and so is the directory, if it is there and empty.
ReapDir(p) ==
    /\ pc[p] = "reap-dir"
    /\ IF dir /\ rec = NoProc
         THEN /\ dir' = FALSE /\ maker' = NoProc
              /\ wrongReap' = (wrongReap \/ maker # judged[p])
              /\ Goto(p, IF attempt[p] = 1 THEN "mkdir" ELSE "exited")
              /\ attempt' = [attempt EXCEPT ![p] = 2]
         ELSE /\ Goto(p, "exited")
              /\ UNCHANGED <<dir, maker, wrongReap, attempt>>
    /\ UNCHANGED <<rec, endpoint, judged, session, probed, crashes, torn>>

-----------------------------------------------------------------------------
(* run, after the lock is acquired                                         *)

\* Bind, listen and publish the endpoint.
Publish(p) ==
    /\ pc[p] = "publish"
    /\ endpoint' = p
    /\ Goto(p, "serving")
    /\ UNCHANGED <<files, attempt, judged, session, probed, crashes, wrongReap, torn>>

\* The bind, the listen or the endpoint's write raised.
PublishFails(p) ==
    /\ pc[p] = "publish"
    /\ Goto(p, "unpublish")
    /\ UNCHANGED <<files, endpoint, attempt, judged, session, probed, crashes,
                   wrongReap, torn>>

\* A shutdown request, or the restart policy: the listening socket closes.
Stop(p) ==
    /\ pc[p] = "serving"
    /\ Goto(p, "unpublish")
    /\ UNCHANGED <<files, endpoint, attempt, judged, session, probed, crashes,
                   wrongReap, torn>>

\* _remove_endpoint reads whose it is and unlinks it if it is its own.
CheckEndpoint(p) ==
    /\ pc[p] = "unpublish"
    /\ Goto(p, IF endpoint = p THEN "unlink-endpoint" ELSE "unlock")
    /\ UNCHANGED <<files, endpoint, attempt, judged, session, probed, crashes,
                   wrongReap, torn>>

UnlinkEndpoint(p) ==
    /\ pc[p] = "unlink-endpoint"
    /\ endpoint' = NoProc
    /\ Goto(p, "unlock")
    /\ UNCHANGED <<files, attempt, judged, session, probed, crashes, wrongReap, torn>>

\* release_lock: unlink the record, then rmdir; a failure ends it quietly.
UnlinkRecord(p) ==
    /\ pc[p] = "unlock"
    /\ rec' = NoProc
    /\ Goto(p, IF rec = NoProc THEN "exited" ELSE "unlock-dir")
    /\ UNCHANGED <<dir, endpoint, attempt, judged, session, probed, crashes, maker,
                   wrongReap, torn>>

RemoveDir(p) ==
    /\ pc[p] = "unlock-dir"
    /\ IF dir /\ rec = NoProc
         THEN dir' = FALSE /\ maker' = NoProc
         ELSE UNCHANGED <<dir, maker>>
    /\ Goto(p, "exited")
    /\ UNCHANGED <<rec, endpoint, attempt, judged, session, probed, crashes, wrongReap, torn>>

\* SIGKILL, or the machine goes down, at any point.
Crash(p) ==
    /\ crashes < MaxCrashes /\ Alive(p)
    /\ crashes' = crashes + 1
    /\ torn' = (torn \/ pc[p] \in Attending)
    /\ Goto(p, "crashed")
    /\ UNCHANGED <<files, endpoint, attempt, judged, session, probed, wrongReap>>

-----------------------------------------------------------------------------
(* ensureBroker, in each session                                           *)

\* startBroker launches a process; its run begins at acquire_lock.
Launch == \E p \in Procs : pc[p] = "absent" /\ Goto(p, "mkdir")

\* No endpoint file: start a broker.
StartMissing(s) ==
    /\ session[s] = "idle" /\ endpoint = NoProc
    /\ Launch
    /\ UNCHANGED <<files, endpoint, attempt, judged, session, probed, crashes,
                   wrongReap, torn>>

\* An endpoint file: connect to the port it names.
ReadEndpoint(s) ==
    /\ session[s] = "idle" /\ endpoint # NoProc
    /\ probed' = [probed EXCEPT ![s] = endpoint]
    /\ session' = [session EXCEPT ![s] = "connecting"]
    /\ UNCHANGED <<files, endpoint, pc, attempt, judged, crashes, wrongReap, torn>>

\* Only a refused connection makes the endpoint stale.
Connect(s) ==
    /\ session[s] = "connecting"
    /\ session' = [session EXCEPT ![s] =
          IF pc[probed[s]] = "serving" THEN "idle" ELSE "refused"]
    /\ UNCHANGED <<files, endpoint, pc, attempt, judged, probed, crashes, wrongReap, torn>>

\* The file is unlinked by name and a replacement started.
SweepEndpoint(s) ==
    /\ session[s] = "refused"
    /\ endpoint' = NoProc
    /\ session' = [session EXCEPT ![s] = "idle"]
    /\ Launch \/ ((\A p \in Procs : pc[p] # "absent") /\ UNCHANGED pc)
    /\ UNCHANGED <<files, attempt, judged, probed, crashes, wrongReap, torn>>

-----------------------------------------------------------------------------
Acquire(p) ==
    Mkdir(p) \/ WriteRecord(p) \/ WriteRaises(p) \/ UndoDir(p) \/ ReadRecord(p)
        \/ Judge(p) \/ ReapRecord(p) \/ ReapDir(p)

Serve(p) ==
    Publish(p) \/ PublishFails(p) \/ CheckEndpoint(p) \/ UnlinkEndpoint(p)
        \/ UnlinkRecord(p) \/ RemoveDir(p)

Next ==
    \/ \E p \in Procs : Acquire(p) \/ Serve(p) \/ Stop(p) \/ Crash(p)
    \/ \E s \in Sessions :
        StartMissing(s) \/ ReadEndpoint(s) \/ Connect(s) \/ SweepEndpoint(s)

\* A process that can go on does; nobody has to stop, die or look for a broker.
Spec == Init /\ [][Next]_vars /\ \A p \in Procs : WF_vars(Acquire(p) \/ Serve(p))

-----------------------------------------------------------------------------
(* Properties                                                              *)

TypeOK ==
    /\ dir \in BOOLEAN
    /\ rec \in Procs \cup {NoProc}
    /\ endpoint \in Procs \cup {NoProc}
    /\ pc \in [Procs -> Over \cup Owning \cup {"mkdir", "record", "undo", "read",
                                           "judge", "reap", "reap-dir", "unlock-dir"}]
    /\ attempt \in [Procs -> {1, 2}]
    /\ judged \in [Procs -> Procs \cup {NoProc}]
    /\ session \in [Sessions -> {"idle", "connecting", "refused"}]
    /\ probed \in [Sessions -> Procs \cup {NoProc}]
    /\ crashes \in 0..MaxCrashes
    /\ maker \in Procs \cup {NoProc}
    /\ wrongReap \in BOOLEAN /\ torn \in BOOLEAN
    /\ \A p \in Procs : pc[p] \in {"judge", "reap", "reap-dir"} => judged[p] \in Procs
    /\ \A s \in Sessions : session[s] = "connecting" => probed[s] \in Procs

\* Two brokers own the root only after a reap took what it had not judged:
\* neither a crash, nor a lost race, nor a release in the middle of another's
\* acquire makes two owners by itself.
TwoOwnersOnlyByWrongReap ==
    ~wrongReap => \A p, q \in Procs : Owner(p) /\ Owner(q) => p = q

\* Until such a reap a running broker's lock stays its own: the directory
\* stands and holds its record (so every later starter finds it alive).
OwnerKeepsLock ==
    ~wrongReap => \A p \in Procs : Owner(p) => dir /\ rec = p /\ maker = p

\* A lock directory without a record, which no starter judges, is some running process's
\* to record or to remove: however undos, reaps, releases and late records cross, only
\* the death of a process before that step leaves one behind.
BareDirIsAttended ==
    dir /\ rec = NoProc => torn \/ \E p \in Procs : pc[p] \in Attending

\* A dead holder's recorded lock does not outlive a starter, however many race for it:
\* the directory goes, or is recorded by another, unless one more process dies on the way.
StaleLockGoes ==
    \A p, q \in Procs, n \in 0..MaxCrashes :
        pc[p] = "mkdir" /\ attempt[p] = 1 /\ dir /\ rec = q /\ ~Alive(q) /\ crashes = n
            ~> ~dir \/ rec \notin {q, NoProc} \/ crashes > n

\* "reaped so the root never becomes permanently unstartable": a starter alone
\* with a dead holder's recorded lock comes to own the root, unless it dies or
\* the disk refuses its record.
Alone(p) == \A q \in Procs \ {p} : ~Alive(q)
LoneStarterRecovers ==
    \A p \in Procs :
        pc[p] = "mkdir" /\ attempt[p] = 1 /\ Alone(p) /\ rec # NoProc
            ~> Owner(p) \/ ~Alone(p) \/ pc[p] \in {"undo", "crashed"}

-----------------------------------------------------------------------------
(* What the documents promise and the code does not keep                   *)

\* "reaped so the root never becomes permanently unstartable": a starter alone
\* comes to own the root, whatever the last holder left.
LoneStarterStarts ==
    \A p \in Procs :
        pc[p] = "mkdir" /\ attempt[p] = 1 /\ Alone(p)
            ~> Owner(p) \/ ~Alone(p) \/ pc[p] \in {"undo", "crashed"}

\* "One broker per root", "even when many sessions race at startup".
OneBrokerPerRoot ==
    \A p, q \in Procs : pc[p] = "serving" /\ pc[q] = "serving" => p = q

\* "unlinks it and starts a replacement only when nothing is listening": no
\* session unlinks the endpoint of a broker that serves.
ListeningEndpointStays ==
    [][\A s \in Sessions :
          session[s] = "refused" /\ session'[s] = "idle" /\ endpoint # NoProc
              => pc[endpoint] # "serving"]_vars
=============================================================================
