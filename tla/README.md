# TLA+ models of pi-teams

pi-teams runs a broker per user and machine (`src/src/team_broker.py`). Every
pi session keeps one connection to it through a small client process, the
*hold* (`team_client.py`, launched by `extensions/pi-teams/agent.ts`), and asks
for everything else (send, terminate, gc-reap, spawn) through short-lived
clients. Brokers on different machines forward requests to each other over
*peer links*. The modules here model the broker's concurrent core, the processes
it starts, its links to other brokers and the session's wait, check them with
TLC on small instances and prove most of their safety with TLAPS for all
instances.

Paths below are relative to the repository.

## Inventory

| Component | State | Operations | Hard behaviour | What makes it correct |
|---|---|---|---|---|
| Registry and release (`team_broker.py`, `send_gate.py`, `gc_reaper.py`) | `_registry`, `_clients`, gate tokens, busy files | register, deregister, end of stream, terminate, gc-reap, two sweeps | a thread per connection plus the sweep; locked step, then unlocked tail; the mirror write may raise | one served holder per id, one id per session, secret of the holder, releases only for cause, closed or dead things leave |
| Store-and-forward (`delivery.py`, `mailbox.py`, dispatch, hold, extension filter) | parked files, drop marks, replay in progress, seen ids | dispatch, park, replay, prune | lookup/park and list/write/delete are not atomic; holds restart; extensions reload; broker crashes | nothing deleted undelivered, no copy surfaced while the first is remembered, refused means never |
| Broker lock and endpoint (`team_root.py`, `run`, `ensureBroker`) | lock directory, pid record, endpoint file | acquire, reap stale, publish, release, probe | processes share only the file system and die anywhere | one owner, stale locks go, no lock is left that nobody may judge, a live broker stays reachable |
| Peer relay (`_peer_pending`, `peer_link.py`) | pending requests, links | forward, ack, drop, expire, close | four threads race to answer one request; silent peers | one answer per request, eventually, and worth what it says |
| Idle reap (`gc_reaper.py`) | asked ids, work times, waiting and hosted flags | request, mark, forget | flags and work change between the snapshot, the request and the mark | asked once per undisturbed episode, and asked at all |
| Registry mirror (`registry.py`, `_persist_and_notify`, `_peer_up`) | `registry.json`, peers' copies | render, write, notify, refresh, greet | snapshot in the lock, write outside, where it may fail or raise; links replaced in between | every change is sent, the views become true |
| Peer linking (`peer_transport.py`, `peer_tunnel.py`, `_accept_peer`) | links, tunnels, owners | add, accept, remove, tunnel exit | both hosts add each other, ssh dies, a host restarts | settles on one link and tunnel, what stays can be removed |
| Spawn and self-host (`session_spawn.py`, `self_host.py`, `session_keeper.py`, `session_host.py`) | provider sessions, keepers' specs and states, processes | spawn, confirm, reclaim, abandon, collect | provider fails half way, keepers start late, zombies, the broker dies | no lost spec, no keeper out of reach, what was given up stops |
| Wait and inbox (`wait.ts`, `inbox.ts`, `deliverMessage`) | waiters, buffered results, hooks, timers | wait, deliver, nudge, abort, cancel | callbacks of several waits share one pair of hooks | nothing lost, an ended wait holds nothing, every wait ends |
| Hold supervision (`agent.ts`, `hold` of `team_client.py`) | hold process, restart timers, handover | hold, holdDied, stop, deregister, handover, ensureBroker | exits of former holds, timers and loads cross; brokers come and go; a stopped hold's register is still read | one hold per session, served again in the end, nothing left after pi |
| Framing (`wire.py`, `_messages`) | byte buffer | push, next line | chunk boundaries, malformed lines | not modelled, see below |
| Client and CLI, guard, settings, process launch, views, scripts | per process | | little or none shared | not modelled, see below |

They interact so: sessions start the broker (lock, endpoint) and launch holds;
a hold's register enters the registry, triggers the replay, and has the mirror
written and peers notified; a send goes from the gate to dispatch, which writes
to a connection, parks, or forwards over a peer link; what a hold prints reaches
the session's inbox and may end a wait; a spawn starts a provider's session or a
keeper, which registers as any other; the sweep thread calls the reapers, the
idle policy, the mailbox's prune and the relay's expiry. All of the broker's
maps are under one reentrant lock; every file, socket and signal is touched
outside it.

## Modules

| Module | Models | Checked by | Proved in |
|---|---|---|---|
| `Registration` | the registry and every release path | `MCRegistration`, two configurations | `RegistrationProofs` |
| `Mail` | what store-and-forward promises (abstract) | refined by `Delivery` | |
| `Delivery` | dispatch, mailbox, replay, hold, duplicate filter | `MCDelivery` | `DeliveryProofs` |
| `BrokerLock` | lock, endpoint, ensureBroker | `BrokerLock.cfg`, `BrokerLockTwo.cfg` | `BrokerLockProofs` |
| `Requests` | what a relayed request's answers are worth (abstract) | refined by `PeerRelay` | |
| `PeerRelay` | requests forwarded to a peer | `PeerRelay.cfg` | `PeerRelayProofs` |
| `IdleReap` | the idle policy | `IdleReap.cfg` | `RegistrationProofs` |
| `Mirror` | registry.json and a peer's view | `Mirror.cfg` | `MirrorProofs` |
| `Spawn` | provider, own host, keeper | `MCSpawn` | `SpawnProofs` |
| `WaitInbox` | team_wait and the result inbox | `WaitInbox.cfg` | `WaitInboxProofs` |
| `PeerLinking` | two brokers' adds, links and tunnels | `PeerLinking.cfg` | `PeerLinkingProofs` |
| `HoldSupervision` | a session's hold, its restarts and reloads | `HoldSupervision.cfg` | `WaitInboxProofs` |

The idle policy is proved about beside the registry whose entries it reads, and
the hold beside the inbox of the same extension. A module that extends two of
them needs names that are apart, so `IdleReap` says `IdleSpec`, `Sessions`,
`Registers` and `stage` where `Registration` says `Spec`, `Agents`, `Register` and
`sweep`, and `HoldSupervision` says `HoldSpec` and `closedApps`.

An action is one stretch of code that nothing of the same process can come into:
what runs under the broker's lock, one system call where processes share files,
one callback of the extension's event loop.

**Registration.** `registry`, `clients` and `gate` are the three maps; the
connection that registered stands for the entry object, since `_release`
compares entries by identity and a hold registers its connection once. One
action is one locked step (`Register`, `Deregister`, `EndOfStream`, `Terminate`,
`GcReap`, `DropDeadAgent`) or the unlocked tail after it (`Joined`, `Left`,
`Dropped`, `Terminated`, `Reaped`, `DroppedDead`). `JoinRaises` and
`DropDeadRaises` are the tails in which `write_atomic` raises. `AskTerminate` and
`AskReap` are the gate's check, which the code makes without the lock. Time is
two facts: which registrations are `young` (within `liveness_grace`) and which
busy files have aged past `busy_grace`. A refused operation changes nothing and
is left out.

**Delivery.** One target id and the connections of its successive holds. The
three steps of a dispatch are `Look`, `Relay` or `ParkOrFail`, `Park`; the
registering thread goes `Register`, `RegisterAck`, `Load`, `ReplayWrite` for each,
`ReplayDrop` for each, `ReplayDone`. A write to a live hold is read in order; a
write to one that is going may succeed or fail. `Crash` loses the broker's
memory and keeps the mailbox; a hold that outlives its broker may still read
what it was sent. The duplicate filter `seen` is of one instance of the extension and
keeps its last `SeenLimit` ids: it outlives a hold, and `Reload` empties it, for the
new instance takes over the id and the token only. `shown` is the history of what was
surfaced, `start` how much of it former instances surfaced. `Mail` is the abstract
specification, with `answer` for what `send` told the sender and `arrived` for
`shown`: what arrives is not among the last `Window` messages that the loaded instance
was shown, and a message that was refused never arrives. That a copy may surface again
after a reload is SurfacedOnce, under Departures.

**BrokerLock.** Each system call on the lock directory, its pid file and the
endpoint is an action, and `Crash` stops a process at any of them. `maker`, `wrongReap` and
`torn` are history variables: whose directory is there, whether a reap (or the undo of
a failed record) ever removed one it had not judged (or made), and whether a process
died with a directory it had still to record or to remove (at one of the steps
`Attending`). A directory without a record is never judged, so whoever finds it gives
way; BareDirIsAttended says that nothing but such a death leaves one for good, and
LoneStarterStarts, under Departures, what happens then.

**PeerRelay.** The requester's thread is `FindLink`, `Enlist`, `CheckLink`,
`Transmit` (or a failure), `Withdraw`, `ReportUnsent`. Whoever takes a request
out of `pending` owes it one answer (`owed`), which it gives after the unlock
(`Answer`). The peer and its network are the other end of `out` and `back`.
`PeerHandles` is the peer's handler. What it does and what its ack says are two
things, and `Handlings` lists the pairs: `_deliver_peer` acks a relay for which it
found a connection whether or not it could write to it; a terminate's ack is what the
eviction was; a spawn's is ok only of a teammate that proved itself, while one that
was given up may run (UnprovedIsReclaimed of Spawn says how).
`Requests` is the abstract specification, of `answers` and `outcome` alone: a request
is handled at most once; "ok" and "refused" are said only of one that was handled,
"ok" of one carried out unless it is a relay, "refused" of one that was not unless it
is a spawn; and one that was given up may have been handled, unless it is given up
twice. The two exceptions are OkMeansWritten and RefusedMeansNotRunning, under
Departures.

**IdleReap.** A pass of the sweep is `Probe` (provider present, read without the
lock), `Scan` (the due ids, under it), and an `Ask` and a `Note` per id, each its
own step; contacts that bear work, waits, releases and registers run between
them, and `Forget` is the unlocked tail of those that end an episode. Time is
`aged`. `told` remembers what a session was asked in its present episode, and
distinguishes a repetition after a wait or a provider ("reasked") from one
without ("doubled").

**Mirror.** A register or release is `Change`, after which the thread renders
the file and lists the links under the lock, writes, takes the snapshot for the
peers, and sends; a heartbeat may start the file's refresh. `write_atomic` may return
False, which nobody looks at, or raise, which ends the handler before the snapshot and
the sends (`WriteFails`, `RefreshFails`): `unwritten` remembers that the file was left
as it was by its last write, `untold` the links that the last change was to go to and
did not. The other broker
opens the link (`FarOpen`, `FarInstall`), reads it in chunks (`Receive`) and
handles their lines (`Handle`), and either end drops it. `order` says whether the
events so far came one after another, each after the last had run its course.

**Spawn.** A request's thread goes through the provider (`Resolve`, `Start`,
`Confirm`, `Reclaim`) and, when that raises, the broker's own host (`Collect`,
`WriteSpec`, `Launch`, `Prove`, `Abandon`, `DropSpec`). The keeper is a process:
`Load` reads its spec, `Consume` unlinks it, `StartChild`, `Publish`, `Leave`; a
signal is handled at its next step and before its handler is installed it kills.
`BrokerDies` loses every thread. The provider is external and may fail a call
before or after it did what it was asked.

**WaitInbox.** `Call` is all of `wait` up to its promise: take what is buffered,
watch the rest, set the hooks, arm the timers, listen to the abort signal.
`Hear`, `ReapRequest`, `Attach` and `Notice` are the branches of `deliverMessage`: a
result goes to the waiters or the buffer, another message addressed by the session's
id to the wait's hook and the agent; one addressed by the host-labelled form of a bare
id (`OtherwiseAddressed`) and a gc-reap request are turns that no wait hears of, and
the removed attach protocol's traffic is refused or swallowed. `TimeoutFires`, `PollStops`,
`PollNudges`, `Abort` and `CancelAll` are the other callbacks. `finish`
is the operator `Finish`, used in each.

**PeerLinking.** A try is one add with the tunnel and link it makes. `Add` goes
through the steps of `PeerTransport.add` (`Begin`, `Start`, `Check`, `Open`,
`Install`, `Own`); `Serve` is the other broker's
accept with its tie-break, its read loops and the tunnels' exit callbacks;
`SshExits`, `Remove` and `Restart` disturb them. `trouble` remembers which of the
four named disturbances happened, so that a property can say which it survives.

**HoldSupervision.** An instance of the extension is one load of it; `app` is the
latest, `closedApps` and `surrendered` those that deregistered or handed over. A
hold is a process, and its name stands again for a new launch once its process, its
connection and its timer are gone, so a session may launch any number. `timers`
has the deaths that armed a restart still to come: several may be pending, since
`holdDied` arms one without clearing the last. `Hold` is the launch with its three
outcomes (a process, a throw, an object that only emits "error"), a conjunct of
`SessionStart` and `TimerFires`; `EnsureBroker` starts a probe, whose answer
`Settle` may come after other steps. `Due` says when a hold's process ends by
itself. The broker is what one session meets of it: `BrokerStarts`, `BrokerEnds`,
and a thread per connection (`Registered`, `EndOfStream`) that reads what a dead
hold had sent.

The modules describe one broker each from the side of one concern; what one
needs of another it has as an environment action. PeerRelay's link drops and
replacements are those of PeerLinking, Mirror's changes those of Registration,
Delivery's hold restarts those that HoldSupervision
makes and Registration serves.

## Runs

| Run | Instance | Shows |
|---|---|---|
| `registration` | a fork, a main taking the fork's id, the main again under a fresh id without a token; one caller thread, two owners | HolderIsServed, OneRegistrationPerSession, SecretIsTheHolders, ReleasedForCause |
| `registration_live` | a fork and its restarted hold | ClosedConnectionLeaves, DeadOwnerLeaves |
| `delivery` | 3 messages, 2 successive holds, reloads, 1 broker crash, a filter of 2 ids | DeletedMailIsDelivered, and Delivery implements Mail |
| `broker_lock` | 3 broker processes, 1 session, 2 crashes | TwoOwnersOnlyByWrongReap, BareDirIsAttended, StaleLockGoes, LoneStarterRecovers |
| `peer_relay` | a relay and a spawn, 2 links | SentRequestHasOneAnswer, DeadLinkHoldsNoRequest, HostKeepsNewerLink, SentRequestIsAnswered, and PeerRelay implements Requests |
| `idle_reap` | 2 sessions, one hosted by a provider, one sending by clients of its own | NotAskedTwice, MarkMeansAsked, IdleIsAsked |
| `spawn` | 2 requests, one from its start, one that found no provider | HeldIsFindable, GivenUpIsStopped, FallbackReclaims, SpawnAnswered, EndedLeavesNoState |
| `peer_linking` | 1 add by the smaller host, 2 by the other under two labels; overlaps, ssh exits, removals, restarts | OwnerIsKnown, AddsSettle, OneSideKeepsTunnel, ClosedTunnelIsSilent |
| `hold_supervision` | one session, one reload, two hold processes at a time, any number of restarts | OneHold, ServedInTheEnd, OrphanLeaves |
| `wait_inbox` | 2 calls, 2 teammates, 2 messages | NoMessageLost, NotTakenAgain, EndedHoldsNothing, MessageWakesLoneWait, WaitEnds |
| `mirror` | 1 agent, 2 threads, 1 link of 1 snapshot | OrderlyViewsAreTrue, NoChangeMissed, FileCatchesUp |
| `two_brokers` | as `broker_lock`, with 1 crash | "one broker per root" does not hold: a reap removes a lock made since it judged |

Each module states its type invariant; each is proved for every instance and not
run again.

**Bounds.** The interesting cases need few actors. A takeover needs a second
holder of an id; a session with two ids and a foreign session need a third
connection; the caller thread serves requests one after another, so one is
enough to race a terminate or a reap with all the rest (a second caller only
repeats it). Two holds let the one's replay overlap the other's, and one crash falls
between any write and delete; with three messages and a filter of two ids the first
is forgotten when the third is shown, which the code's 128 does as well (no relation
between the two is assumed). The wrong reap needs the judged
holder, the reaper and the maker of the new directory: three processes; two crashes
are a dead holder and the death of one that reaps it. A terminate's handlings are
those that a relay and a spawn have in common, so a request of each of these covers the
three kinds. Two
links are an old one and its replacement, and each request is independent of
the others but for its link. Two sessions are enough for a pass that asks one
while the other changes. One request's collection and launch meet the other's
keeper in `spawn`; the second starts past the provider, whose calls no other
request shares (its providerless start is the first's, which takes every path).
The second add of the larger host is a retry, or a second label; with the
smaller's they are the two adds that cross and one after them. Two loads are a
reload; two hold processes are a hold and the one it replaced, and a launch waits
until one of the two names is free, which is the bound on holds that overlap. Two waits overlap
or follow each other, and a second message finds the first buffered. `mirror`
has two threads whose writes cross; a second link or agent takes it past the
time of a run, and the theorems EveryChangeIsSent and ViewsAreTrue cover any
number of both. PeerLinking's and HoldSupervision's bounds, too, are the run's
only: their safety is proved for any number of adds, loads and holds.

The modules name these bounds: `Publishers` (which sessions write busy files),
`MaxCrashes`, `SeenLimit` (the filter's 128),
`MaxQueued` (snapshots in a link's socket) and `Troubles` (what may disturb the
adds). Delivery uses symmetry of messages and holds, which its safety properties
and the refinement (no fairness in `Mail`) do not tell apart. Deadlock is not
checked in any run: each connection, process, message, request, call and link is
used once, or waits for a session event, so all of these systems rightly stop.

**Fairness.** Nothing is assumed of sessions, clients, disks, providers and
peers. What is assumed:

- Registration: threads that can go on do, the sweep's loop never ends because
  `_sweep` catches what a pass raises, and time passes. `JoinRaises` and
  `DropDeadRaises` may happen for ever or never; the latter still releases one
  entry each time, which is why DeadOwnerLeaves survives it.
- BrokerLock: a process in acquire, publish or release goes on; none has to stop,
  die or be started.
- PeerRelay: the threads that took a request out answer it, the drop's
  `_peer_down` follows, time passes and the sweep comes round.
- IdleReap: the sweep's loop, a thread that is about to forget, a connection that
  is going.
- Spawn: each call of a request's thread returns or raises (all have timeouts), a
  keeper runs, and a teammate whose keeper is gone exits (its stdin closes).
- WaitInbox: a bound passes and an armed timeout fires. Polls, aborts and messages
  need not come.
- Mirror: the threads run, a link is read, and while an agent is registered a
  heartbeat comes in every cadence window. FileCatchesUp supposes in itself that not
  every write fails.
- HoldSupervision: callbacks run, armed timers fire, a probe is answered, a
  process goes on (a hold that can connect does, one that is due to end ends), a
  launched broker starts or fails, and the broker's threads read. Every failure,
  session event and end of a broker is a `Disturbance`; ServedInTheEnd speaks of
  the time after the last of them.
- Delivery, Mail, Requests and PeerLinking have none, for they promise only safety.

Two timing facts stand in guards. In IdleReap `Ages` comes after a pass and after
a `forget` that was under way: `gc_idle` is hours and a pass runs every second.
In PeerLinking `Start` comes after the broker has read the end of a link whose
tunnel it killed: the read returns at once and a start is two ssh logins. An add
that begins while another, an exit or an unread end is under way is marked as
"overlap" in `trouble`, so what is said of undisturbed adds is of those that let
the one before finish.

## Proofs

Eight modules hold the proofs, two of them about two components. Each proves
`Typing` (`TypeOK` is invariant), `Invariance` (the inductive `IInv` is) and from it
what the runs check on an instance: every invariant and every action property of
every passing run, and both refinements, are theorems. The constants are any that satisfy the module's named assumption.

**RegistrationProofs** (`IdentityAssumption`: ids, roles, tokens and owners are
functions of the connection, and the null values are not members of their sets).
`IInv` joins the checked invariants with what makes them inductive: the two maps
agree (`MapsAgree`), a holder is a connection of that id whose thread is joining,
serving or raised (`HolderFits`), and the sweep's list of judged entries holds
only connections with a dead owner (`WorkList`, which `DropDeadAgent` relies on
one step after the snapshot; owners do not come back to life). `HolderServed`,
`OnePerSession`, `SecretFollowsHolder` follow; `ReleaseHasCause` is the action
property, by a case split: only the five kinds of release change `registry` away
from a holder. `Register` and the release of a set of ids are the only changes to
the three maps, so the lemmas `RegisterKeeps`, `ReleaseKeeps` and
`UnreleasedKeeps` treat them once and `RegistryStep` has a case per action.

Of the idle policy (`IdleReap`; `AgentAssumption`: hosted sessions and speakers are
sessions) the same module proves `AskedOnce` and `NoStaleMark`, from `IdleInv`.
`Aging` says that an entry that has aged was
seen by the sweep since its episode began and is about to be forgotten by nobody;
`Marks`, that a mark made or about to be made is of a request of this episode or
of an episode the sweep has not seen, and that whoever was asked is marked or
about to be.

**BrokerLockProofs** (`LockAssumption`: the null process is none of them) proves
`OwnerHolds` and `Exclusion`: the lock excludes until a reap takes one it had not
judged. `OwnerKeepsLock` alone is not inductive; `IInv` adds

- `FilesAgree`: a directory has a maker, a record a process that was started;
- `ReapersAreRight`: a process about to reap has judged one that is over for good;
- in `OwnersFit`, that a process between its mkdir and its record has a directory
  of its own without a record (`Unrecorded`), so that writing the record makes it
  the owner of nobody else's.

Every step that takes a directory away from its maker sets `wrongReap`, which is
what the case of each reaping action comes down to. `BareDirHasAttendant` holds with and
without wrong reaps: BareDirIsAttended is inductive with the types (`BareStep`), because
whoever makes a directory or unlinks a record goes on to a step of `Attending`, and
leaves it only when the directory is gone or has a record, or by dying.

**PeerRelayProofs** (`LinkAssumption`: the null link is none of them;
`KindAssumption`: relays and spawns are requests, and none is both) proves
`OneAnswer`, `NoneOnDeadLink` and `NewerLinkStays`. `IInv` joins the
checked invariants with `Places` (a request whose thread has inserted it is in
exactly one of pending, owed and answered, and one not yet inserted in none).
`OneAnswer` needs `Places` for the states before "sent": the ack, the drop and
the expiry may each take the request between its insertion and its send.
`RelayKeepsPromise` is the refinement: `PeerRelay` implements `Requests`. It needs
more than `IInv`, in three parts that `RelayInvariance` adds (`RelayInv`):

- `InTransit`: a request goes out once, on the link its thread found, and while it
  is unread nobody has handled it and it was told at most that it was given up;
- `Handled`: only what was sent is handled; an ack on its way, and an answer owed, is
  borne out by the outcome as its kind of request allows (`BearsOut`); and what is
  acked is in transit on no link, so it stays borne out;
- `Unsent`: a request that never left is only given up, by whoever took it out and
  once more by its own thread.

An answer, the report of a failed send and the peer's handling are a lemma each
(`AnswerKeepsPromise`, `ReportKeepsPromise`, `PeerKeepsPromise`); every other step
is a stutter.

**DeliveryProofs** (`DeliveryAssumption`: a null connection outside the set and a
register's ack that is no message; any number of messages, and any limit on the
remembered ids) proves
`DeletedOnItsWay` and `DeliversAsMail`, that `Delivery` implements `Mail`. `IInv`
has

- `Remembered`: the filter holds the last of what the loaded instance surfaced, all of
  it or as much as its limit;
- `Traced`: a message that was not accepted is nowhere on its way;
- `Acked`: a register's ack is written once, before anything its replay writes;
- `Deleting`: what a replay wrote and has not yet deleted is behind that ack, on
  the wire of a hold that reads, or surfaced.

`Remembered` makes what the filter lets through no recent message, which is Mail's
arrival; `Traced` makes it come after an acceptance. `MailInit` and `MailNext` are the
refinement: an answer is Mail's answer, a surfacing its arrival, a reload its `Renew`,
every other step a stutter.

**MirrorProofs** (`MaxQueuedAssumption`) proves `EveryChangeIsSent`. `Told`: a
link that is up and in use was sent the registry as it is, or some thread
still owes it that (it has changed the registry and not yet taken its list, or
has the link in its list and the present registry in hand or still to take), or it is
one of those that the last change was to go to when its write raised.

`ViewsAreTrue` is about the states between two events that did not overlap, and
its invariant `Orderly` about all the states in which nothing has overlapped yet.
At most one thread is at work (`Single`), what it holds and what is on the wire is
the registry as it is (`Taken`, `Sent`), the file is right, about to be or `unwritten`
(`Filed`),
and the two ends of the link are in one of three phases (`InTurn`): the peer's end
is gone (`FarGone`); link l is opened, accepted, installed and greeted
(`Linking(l)`, in whatever order the ends take these steps); or this end is gone and
the peer has still to read it (`NearGone(l)`). `Informed(l)` is what the property
comes down to: the peer knows the registry, or a thread, the wire or the chunk in
hand is about to bring it. OrderlyViewsAreTrue itself speaks only of quiet states
and says nothing of a step, so none of this can be left out. `StepInTurn`,
`AcceptInTurn`, `LinkInTurn` and `ReadInTurn` take the actions by kind, and `Calm`
says what a step that overlaps nothing may be.

**WaitInboxProofs** proves `NothingLost`, `TakenOnce`, `EndedLetsGo`, `ClosedEnds` and
the action property `LoneWaitWakes` for any calls, teammates and messages. `Registered`: whatever is in
the hooks, timers and waiters is of a call that waits, and each that waits is in
some teammate's waiters, where `cancelAll` finds it. `Results`: a buffered result
is of one teammate and in no outcome, and calls that wait at once know of each
other; `NotTakenAgain` needs that one.

Of the hold (`HoldSupervision`; `NullAssumption`: the null values and the object of a
failed launch are no instances and no holds) the same module proves `HoldIsOne` for
any number of loads, deaths and pending restarts. OneHold says that a hold nobody
stopped is the latest instance's own; what makes `HoldInv` inductive is

- `Succession`: every instance but the latest is over (`closedApps`), and once pi
  has ended no timer is armed, so a late restart finds its instance over;
- `HoldsAreTheirs`: an instance's hold was launched by it and its exit has not been
  told, and an instance that is over or not yet loaded has none, so that a death
  takes the hold from the instance that launched it and no other;
- `HaveLaunchers`: every process and every timer has an instance that was loaded;
- `Kept`: a process that runs unstopped is the hold of its instance, which therefore
  is not over and, by `Succession`, the latest.

A launch keeps all this (`HoldKeeps`) as it happens only where the instance has no
hold or after the one it had was stopped.

**PeerLinkingProofs** (`TryAssumption`: the two hosts' adds are apart, the null add is
neither's) proves `TypeOK` and the four properties of its run for any number of adds.
`OwnersAreKnown` and `ClosedTunnelsAreSilent` need `Known` only, and hold under all
four disturbances: a tunnel the broker knows was kept by an add that is done and
was not closed, and a link's owner is such a tunnel of the same host.
`UndisturbedAddsSettle` and `OneTunnelStays` are of adds that nothing disturbed, where
`LinksAreConnected` and `InTurn` hold of every step: no add has begun; one has the
only tunnel (`Alone`); one comes to its link while another's is in use (`Beside`);
or the smaller host's takes the place of the larger's, whose tunnel stays until
the larger host has accepted and yielded (`Overtaken`). All others have not begun
(`Fresh`) or were closed and are read to their end (`Gone`). There is a lemma per
phase (`AloneBegins`, `AloneAdds`, `AloneServes`, `BesideSteps`, `OvertakenSteps`) that
says which phases its steps lead to; `Settled` reads the properties off them when
all is quiet.

**SpawnProofs** proves `HeldFound`, `GivenUpStopped` and `FellBackReclaimed` for any
number of requests. `NoneYet`: no keeper before the launch, no session before the
start. `Told`: a keeper that runs on after its abandon was signalled or had not
been seen. A collection of one request changes another's files, so
`OthersSound` gives what an action must leave of the keys it is not about.

Only model-checked is liveness: ClosedConnectionLeaves, DeadOwnerLeaves,
StaleLockGoes, LoneStarterRecovers, SentRequestIsAnswered, IdleIsAsked,
SpawnAnswered, EndedLeavesNoState, ServedInTheEnd, OrphanLeaves, WaitEnds and
FileCatchesUp. Each rests on the fairness of
actions, so on ENABLED, which is out of the prover's reach. The proofs of safety use
no fairness.

## Departures

Where a comment or document says more than the code does, the module states the
claim as it is written, under a comment that begins with its words. Each of these
formulas is false of the model; putting it in the configuration named here, in
place of its properties, makes TLC show how. (`MCDelivery.cfg` then without
`SYMMETRY`.)
One is a run of the project with its finding in PROJECT.json: OneBrokerPerRoot
(`two_brokers`).

| Claim | Kind, configuration | What the code does, and where the claim is |
|---|---|---|
| OneRequestPerEpisode | INVARIANT, `IdleReap.cfg` | `src/gc_reaper.py:75`: _requested is intersected with the ids due in this pass, so a wait, or a provider that is present for a pass, clears the mark without any work and the session is asked again in the same episode. src/src/gc_reaper.py:59-61 says "A session asked once is not asked again until it works again or leaves", src/README.md:122-124 "A session is asked once per idle episode: any work contact resets the clock and earns a fresh request". |
| MessageKeepsAlive | PROPERTY, `IdleReap.cfg` | `src/team_broker.py:353`: A send by a transient client (team.py) is admitted by its sender's token, and then _touch gets the connection's agent_id, which is None: no entry's last_work moves. src/README.md:133-134 says "Any message the fork sends counts too". |
| UnprovedIsReclaimed | INVARIANT, `MCSpawn.cfg` | `src/session_spawn.py:98`: abandon finds the keeper by its state file. A keeper that has read its spec and not yet published its state has neither file to stop it by: it is not signalled, starts the teammate and publishes, after the spawn was answered as failed. src/src/session_spawn.py:90-91 says "a keeper that did not prove itself is reclaimed". |
| OneSessionPerId | INVARIANT, `MCSpawn.cfg` | `src/session_spawn.py:83`: The reclaim follows only a window that ran out. A start whose reply is lost, or a client.state that raises OSError, leaves _serve_by_provider past it, and spawn goes on to the own host with the same id: two sessions run under it. src/src/session_spawn.py:72-73 says "a session that started but did not prove itself is reclaimed". |
| DeadIsCollected | PROPERTY, `MCSpawn.cfg` | `src/self_host.py:64`: gc runs before the launch, and a keeper that was killed stays the broker's zombie until subprocess reaps it in the next Popen: os.kill(pid, 0) finds it alive and its state is kept. src/src/self_host.py:62-63 says "Reclaim keepers that died since the last spawn before adding another entry to the tree". |
| RestartRebuilds | INVARIANT, `PeerLinking.cfg` | `src/team_broker.py:881`: The end of a link forgets no tunnel: when the larger host's broker restarts, the smaller host's ssh lives on, so its _accept_peer refuses the restarted peer's link and never opens one of its own. src/README.md:187-188 says "both sides persist the config and rebuild on restart". |
| OneTunnelPerPeer | INVARIANT, `PeerLinking.cfg` | `src/peer_transport.py:98`: add looks for another tunnel to the host among the registered ones, and registers its own last: of two adds under two labels that overlap neither sees the other and both tunnels stay. src/src/peer_transport.py:96-97 says "One host has one live link; a tunnel under another label for the same host is released before the new one takes ownership". |
| ClosedConnectionEndsItsAgent | INVARIANT, `MCRegistration.cfg` | `src/team_broker.py:532`: _register publishes the entry, then _persist_and_notify may raise (write_atomic on a full or read-only state directory). The exception leaves _register before it returns the id, so _serve's _drop_conn(agent_id) gets None and releases nothing: the id stays registered with a closed connection and sends to it are acked. src/src/team_broker.py:5-6 says "liveness is connection liveness: a closed connection ends its agent". |
| RegisteredKeepBusyFile | PROPERTY, `MCRegistration.cfg` | `src/gc_reaper.py:148`: _sweep goes through files it listed before it left the lock and unlinks each by its age, without asking again whether its id is registered by then. src/src/gc_reaper.py:117-119 says "one neither registered nor touched within the grace belongs to an old session. A registered agent keeps its file". |
| ReapNamesRegistration | PROPERTY, `MCRegistration.cfg` | `src/team_broker.py:423`: The gate is asked without the lock, and _drop_entry(target) then releases whichever registration has the id, with no expected connection or entry. A session that took the id in between is dropped by the former one's gc-reap. src/src/team_broker.py:421-422 says "The token names the registration rather than the connection". |
| ServedTargetHasNoMail | INVARIANT, `MCDelivery.cfg` | `src/team_broker.py:679`: dispatch looks the target's connection up under the lock, then parks outside it. A target that registers and replays in between is served with the message still parked, and nothing replays it before the next register or the ttl. src/README.md:199-201 says of a parked message that "the broker delivers it when the target registers again", src/src/team_broker.py:674-677 that "the hold-restart window loses nothing". |
| RestartWindowLosesNothing | PROPERTY, `MCDelivery.cfg` | `src/team_broker.py:671`: dispatch drops what _write returns: a write to a connection whose hold is gone, but whose end of stream was not read yet, fails or goes nowhere, and the sender is acked. Nothing is parked. src/src/team_broker.py:674-676 says a target whose connection dropped recently has its message parked "so the hold-restart window loses nothing". |
| EvictionIsNoDrop | PROPERTY, `MCDelivery.cfg` | `src/delivery.py:34`: A register and an eviction leave _dropped_at alone, so for the rest of the ttl after a dropped connection accepts holds for an id that was evicted since: the send is parked and acked as queued. src/src/delivery.py:4-5 says that "a recent drop, not an eviction" makes a connection-less target one of the team. |
| ListeningEndpointStays | PROPERTY, `BrokerLock.cfg` | `extensions/pi-teams/agent.ts:201`: verifyEndpoint reads the endpoint file, connects to its port, and on a refusal unlinks the file by name. A broker that published its own endpoint in between loses it while it listens. src/extensions/pi-teams/agent.ts:183-184 says it "unlinks it and starts a replacement only when nothing is listening". |
| LoneStarterStarts | PROPERTY, `BrokerLock.cfg` | `src/team_root.py:244`: acquire_lock makes the directory and then writes the record. A broker killed in between leaves a directory without one, for which _reap_stale_lock returns False every time: each later starter gives way to nobody. src/src/team_root.py:235-237 says "A lock left by a crashed or SIGKILLed broker is reaped so the root never becomes permanently unstartable". |
| AnsweredOnce | INVARIANT, `PeerRelay.cfg` | `src/team_broker.py:763`: A request is put in _peer_pending before peer.send. When the link drops then, _peer_down pops it and answers undeliverable, send returns False, and the requester's thread pops nothing and answers undeliverable again; a client that keeps its connection takes the second answer for the reply to its next request. src/src/team_broker.py:738-739 says of terminate "answer the requester once". |
| EndedReleasesAll | INVARIANT, `WaitInbox.cfg` | `extensions/pi-teams/wait.ts:186`: finish removes what was registered when it runs. A wait whose bound has passed by the time armTimeout first runs finishes there, and the rest of the executor then arms the interval, and listens to the abort signal, for a call that has ended; neither is removed, since finish returns at once when it is called again. src/extensions/pi-teams/wait.ts:3-4 says "All wait timers and watchers live here, so an ended wait can never leak them", :173-174 "an instant wait still releases them all". |
| ConsumedOnce | INVARIANT, `WaitInbox.cfg` | `extensions/pi-teams/inbox.ts:21`: deliver buffers a result that nobody waits for and answers false, so the agent also surfaces it as a turn; the next wait on its sender returns it again. src/extensions/pi-teams/inbox.ts:10-12 says "A result is consumed exactly once: by a registered waiter, or buffered for the next wait". |
| MessageWakesEveryWait | PROPERTY, `WaitInbox.cfg` | `extensions/pi-teams/wait.ts:157`: The controller has one pair of hooks: of two calls at once the second replaces the first's, and the first to end clears both. A direct message then leaves a call blocked. src/extensions/pi-teams/agent.ts:376-377 says "A direct message must not sit behind a blocked team_wait: end the wait so the steer below surfaces now". |
| FileIsNeverFrozen | PROPERTY, `Mirror.cfg` | `src/registry.py:35`: Two threads write what they rendered in any order, and only a heartbeat writes again; when the last agent has gone nothing does. src/src/registry.py:14-15 says "readers of the file never see a snapshot frozen at the last registry event". |
| StalledNeverOnline | INVARIANT, `Mirror.cfg` | `src/registry.py:28`: `online` is computed when a snapshot is taken, and a peer keeps the snapshot of the last change. src/src/registry.py:29-31 says "online is computed, never stored [...] so a stalled client never reads online"; of a peer's agents it is stored. |
| LinkOwnsRemoteView | PROPERTY, `Mirror.cfg` | `src/peer_link.py:88`: The reader goes through the lines of a chunk without asking whether the link was dropped in between, and a registry notice sets the host's remote view by name. src/src/team_broker.py:1081-1082 says "only the current link owns its host's remote view and reaping". |
| MutualAddsSettle | INVARIANT, `PeerLinking.cfg` | `src/team_broker.py:881`: _accept_peer looks for a tunnel that add has registered, but add registers it only after its link is open. Two adds that overlap pass each other's test, replace each other's link and can leave the pair without one. src/src/team_broker.py:878-880 says "Keep the deterministic winner [...] so the pair settles on one link instead of flapping". |
| RestartBringsBack | PROPERTY, `HoldSupervision.cfg` | `extensions/pi-teams/agent.ts:255`: Only "exit" arms a restart. A launch that throws, or gives a process that emits "error", is followed by none; a probe that was refused by a broker that ended may unlink the endpoint of the next one (:201); and a hold whose id was taken over by the late register of the one it replaced, or reaped, keeps its connection and pings an id nobody has. src/extensions/pi-teams/agent.ts:281-282 says "No retry cap: a restarted broker must always be able to bring the session back". |
| ReplacedStaysOut | PROPERTY, `HoldSupervision.cfg` | `src/team_broker.py:527`: _register sets the id's connection to its own, whatever order the connections came in. The register of a hold that was stopped may be read after that of its replacement; its end of stream then releases the id, and the live hold is registered nowhere. src/src/team_broker.py:545-548 says "the registering connection wins, and the reloaded-away instance stops re-registering because its replacement handed its identity over". |
| SurfacedOnce | INVARIANT, `MCDelivery.cfg` | `extensions/pi-teams/agent.ts:655`: seenMessageIds is a field of one TeamAgent (:73), and inheritIdentity hands the id and the token to the instance that replaces it after a reload, not the remembered ids; within one instance the filter forgets the oldest of more than 128. A message that is replayed again after a reload, since the broker died before its delete or two replays overlap, surfaces a second time. src/extensions/pi-teams/agent.ts:70-72 says of a redelivery "the second copy must not surface". |
| OkMeansWritten | INVARIANT, `PeerRelay.cfg` | `src/team_broker.py:1054`: _deliver_peer acks ok=conn is not None and drops what _write returned: a relay to a connection that is going is told ok. src/README.md:194-195 says "an undeliverable target reports back". |
| RefusedMeansNotRunning | INVARIANT, `PeerRelay.cfg` | `src/team_broker.py:1036`: A spawn on a peer is refused when spawn raises OSError, which it does after it has abandoned a keeper it could not confirm (src/session_spawn.py:98); that keeper's teammate may run on, as UnprovedIsReclaimed shows. src/src/session_spawn.py:50-52 says "Only a teammate whose host proved it running is reported; when no path can host it this raises, so the broker reports the failure instead of a phantom teammate". |
| MemoryIsTold | INVARIANT, `Mirror.cfg` | `src/team_broker.py:567`: write_atomic creates the root and the scratch file before its try (src/team_root.py:47-53), so a root that vanishes before or during that, or a full disk, raises, and _persist_and_notify is left before the snapshot, the broadcast and the peer sends: the registry in memory has changed and the linked peer is not told until the next change. src/src/team_root.py:66-67 says of a root that vanished "memory stays authoritative". |
| TurnWakesLoneWait | PROPERTY, `WaitInbox.cfg` | `extensions/pi-teams/agent.ts:360`: The gc-reap branch surfaces its request as a turn and returns before the wait's hooks are told, and the broker may ask a session whose waiting flag has not reached it; a message addressed by the host-labelled form of a bare id passes the test of :379 by. Either turn waits for a blocked call to end. src/extensions/pi-teams/agent.ts:376-377 says "A direct message must not sit behind a blocked team_wait: end the wait so the steer below surfaces now". |

## Not modelled

- In hold supervision: the length of the pauses (1 s doubling to 30 s, reset after
  a minute), the busy state file, names and ids; probes under way at once that
  read the same in the endpoint are one probe; an endpoint left by a dead broker whose
  port another process listens on by now, or whose probe fails otherwise than by a
  refusal (`agent.ts:210-213`): verifyEndpoint then takes the broker for alive and starts
  none. ServedInTheEnd, whose exceptions are a launch that failed, an endpoint swept from
  under a broker that runs and an id that was taken over, does not speak of that.
- *The client's heartbeat* (`team_client.py`): close bumps a generation that the
  heartbeat thread reads when it wakes. A register that follows a close within one
  interval finds the old thread alive, starts none, and the old one then retires;
  the hold closes once, at its end.
- *Framing and handshake* (`wire.py`, `_messages`): accumulate-and-split with one
  reader per stream, which its tests cover by example. After a malformed line the
  complete lines behind it wait for the next chunk.
- In the registry: a second register on one connection under another id, which
  leaves the first id to the sweep; the shutdown of the whole registry; pid reuse.
- In delivery: the order of messages parked in one millisecond, ids whose
  flattened names collide.
- In the relay: what the peer's local write, eviction and spawn consist of; their
  outcome is chosen. In the mirror: the scratch files of a failed write.
- In the lock: the pid file beside the endpoint, which a broker that ends removes
  if it is its own; write_atomic's scratch files; reused pids.
- In peer linking: the durable config, more than two hosts; in spawning: a
  provider's activation command, the broker's reuse of a pid.
- *Guard, settings, roles and prompts, process launch, views, scripts*: text
  processing, reading of files and one-shot calls, with no state that two actors
  share.

## Plan

1. An abstract registry (who holds an id, released for a cause) that
   Registration implements, proved as DeliversAsMail is, and of which Mirror and
   Delivery are clients.
2. The client's heartbeat generations, as the environment of `Registration`'s
   liveness window.
