----------------------------- MODULE PeerLinking -----------------------------
(***************************************************************************)
(* Two brokers that link to each other (src/src/peer_transport.py,         *)
(* peer_tunnel.py, peer_link.py, team_broker.py): an add opens an ssh      *)
(* tunnel and a link through it, replaces whatever served the peer, and    *)
(* when both hosts add each other one link is to stay, that of the host    *)
(* whose name is smaller.                                                  *)
(*                                                                         *)
(* A try is one add with the tunnel and the link it makes.  Each broker    *)
(* runs its adds, its peer's connections, its read loops and its tunnels'  *)
(* exits in threads of their own.  An end of a link that is closed, or the *)
(* end of the ssh that carries it, is read as EOF at the other end later.  *)
(***************************************************************************)
CONSTANTS
    SmallTries,     \* the adds of the host with the smaller name
    LargeTries,     \* those of the other
    OtherLabel,     \* those of either that name the peer by a second label
    Troubles,       \* what may disturb them
    NoTry

Tries == SmallTries \cup LargeTries
Hosts == {"small", "large"}

ASSUME TryAssumption ==
    /\ SmallTries \cap LargeTries = {} /\ OtherLabel \subseteq Tries
    /\ NoTry \notin Tries
    /\ Troubles \subseteq {"overlap", "exit", "remove", "restart"}

VARIABLES
    step,       \* where each add is
    ssh,        \* its tunnel's process
    heard,      \* tunnels whose exit the broker was told of
    near, far,  \* its link, at the broker that opened it and at the other
    current,    \* the link each host uses (_peers)
    tunnels,    \* the tries in _tunnels
    owner,      \* the tunnel that owns each host's link (_peer_owner)
    closed,     \* history: tunnels their broker closed
    trouble     \* history: what disturbed one add after another

link == <<near, far, current>>
transport == <<ssh, tunnels, owner, closed>>
vars == <<step, heard, link, transport, trouble>>

By(t) == IF t \in SmallTries THEN "small" ELSE "large"
Peer(h) == CHOOSE g \in Hosts : g # h
Mine(h) == {t \in Tries : By(t) = h}
SameLabel(t) == {u \in Mine(By(t)) : u \in OtherLabel <=> t \in OtherLabel}

\* The link's end at a host, and whether it is connected there.
End(h, t) == IF By(t) = h THEN near[t] ELSE far[t]
Connected(h, t) == t # NoTry /\ End(h, t) \in {"open", "accepted"}

Goes(t, from, to) == step[t] = from /\ step' = [step EXCEPT ![t] = to]

\* Tunnels a broker closes.
Close(ts) ==
    /\ ssh' = [u \in Tries |-> IF u \in ts /\ ssh[u] = "up" THEN "dead" ELSE ssh[u]]
    /\ closed' = closed \cup ts

\* tunnel_for: one of the host's tunnels, if it has any.
TunnelFor(h) ==
    LET mine == tunnels \cap Mine(h) IN
    IF mine = {} THEN {{}} ELSE {{u} : u \in mine}

\* Links whose end at h is dropped.
Drop(h, ts) ==
    /\ near' = [u \in Tries |-> IF u \in ts /\ By(u) = h THEN "closed" ELSE near[u]]
    /\ far' = [u \in Tries |-> IF u \in ts /\ By(u) # h THEN "closed" ELSE far[u]]

-----------------------------------------------------------------------------
Init ==
    /\ step = [t \in Tries |-> "new"]
    /\ ssh = [t \in Tries |-> "none"]
    /\ heard = {}
    /\ near = [t \in Tries |-> "none"] /\ far = [t \in Tries |-> "none"]
    /\ current = [h \in Hosts |-> NoTry]
    /\ tunnels = {} /\ owner = [h \in Hosts |-> NoTry]
    /\ closed = {} /\ trouble = {}

\* Nothing is under way at either host.
EndsUnread(t) ==
    \/ near[t] = "open" /\ (far[t] = "closed" \/ ssh[t] = "dead")
    \/ far[t] = "open" /\ (near[t] = "closed" \/ ssh[t] = "dead")

Quiet ==
    \A t \in Tries :
        /\ step[t] \in {"new", "done", "spent", "failed"}
        /\ ~EndsUnread(t) /\ ~(near[t] # "none" /\ far[t] \in {"none", "accepted"})
        /\ ssh[t] = "dead" => t \in heard

Disturb(what) == what \subseteq Troubles /\ trouble' = trouble \cup what

-----------------------------------------------------------------------------
(* PeerTransport.add                                                       *)

\* A tunnel of the same label is released.
Begin(t) ==
    LET old == tunnels \cap SameLabel(t) IN
    /\ Goes(t, "new", "starting")
    /\ tunnels' = tunnels \ old
    /\ owner' = [owner EXCEPT ![By(t)] = IF @ \in old THEN NoTry ELSE @]
    /\ Close(old)
    /\ Disturb(IF Quiet THEN {} ELSE {"overlap"})
    /\ UNCHANGED <<heard, link>>

\* Two ssh logins, in which a broker reads the end of a tunnel it had killed.
Start(t) ==
    /\ \A u \in closed \cap Mine(By(t)) : ~(near[u] = "open" /\ ssh[u] = "dead")
    /\ \/ Goes(t, "starting", "started") /\ ssh' = [ssh EXCEPT ![t] = "up"]
          /\ UNCHANGED trouble
       \/ Goes(t, "starting", "failed") /\ UNCHANGED ssh /\ Disturb({"exit"})
    /\ UNCHANGED <<heard, link, tunnels, owner, closed>>

\* Mutant: the larger host links whatever serves the peer.
CheckNothing(t) ==
    /\ Goes(t, "started", "checked")
    /\ UNCHANGED <<heard, link, transport, trouble>>

\* The larger host keeps a connected link it does not own and spends the tunnel.
Check(t) ==
    LET h == By(t)
        keep == Connected(h, current[h]) /\ owner[h] = NoTry /\ h = "large" IN
    /\ \/ keep /\ Goes(t, "started", "spent") /\ Close({t})
       \/ ~keep /\ Goes(t, "started", "checked") /\ UNCHANGED <<ssh, closed>>
    /\ UNCHANGED <<heard, link, tunnels, owner, trouble>>

\* Mutant: the tunnel of another label stays the link's owner.
OpenOwned(t) ==
    /\ \E other \in TunnelFor(By(t)) :
        /\ tunnels' = tunnels \ other
        /\ \/ /\ ssh[t] = "up" /\ Goes(t, "checked", "opened")
              /\ near' = [near EXCEPT ![t] = "open"]
              /\ Close(other) /\ UNCHANGED trouble
           \/ /\ Goes(t, "checked", "failed") /\ UNCHANGED near
              /\ Close(other \cup {t}) /\ Disturb({"exit"})
    /\ UNCHANGED <<heard, far, current, owner>>

\* A tunnel of another label is released, and the link opened: hello and peer
\* are on their way.  A tunnel that has gone fails the add.
Open(t) ==
    /\ \E other \in TunnelFor(By(t)) :
        /\ tunnels' = tunnels \ other
        /\ owner' = [owner EXCEPT ![By(t)] = IF other # {} THEN NoTry ELSE @]
        /\ \/ /\ ssh[t] = "up" /\ Goes(t, "checked", "opened")
              /\ near' = [near EXCEPT ![t] = "open"]
              /\ Close(other) /\ UNCHANGED trouble
           \/ /\ Goes(t, "checked", "failed") /\ UNCHANGED near
              /\ Close(other \cup {t}) /\ Disturb({"exit"})
    /\ UNCHANGED <<heard, far, current>>

\* The link becomes the current one and the old one is dropped.
Install(t) ==
    LET h == By(t) IN
    /\ Goes(t, "opened", "installed")
    /\ current' = [current EXCEPT ![h] = t]
    /\ Drop(h, {current[h]} \ {NoTry})
    /\ UNCHANGED <<heard, transport, trouble>>

\* Only then is the tunnel known by its label and the owner of the link.
Own(t) ==
    /\ Goes(t, "installed", "done")
    /\ tunnels' = (tunnels \ SameLabel(t)) \cup {t}
    /\ owner' = [owner EXCEPT ![By(t)] = t]
    /\ UNCHANGED <<heard, link, ssh, closed, trouble>>

-----------------------------------------------------------------------------
(* The other host                                                          *)

\* The smaller host refuses while it has a tunnel of its own.
Accept(t) ==
    LET g == Peer(By(t)) IN
    /\ near[t] # "none" /\ far[t] = "none"
    /\ IF g = "small" /\ tunnels \cap Mine(g) # {}
       THEN far' = [far EXCEPT ![t] = "closed"] /\ UNCHANGED current
       ELSE /\ current' = [current EXCEPT ![g] = t]
            /\ far' = [u \in Tries |-> IF u = t THEN "accepted"
                                       ELSE IF u = current[g] /\ By(u) # g THEN "closed"
                                       ELSE far[u]]
    /\ near' = [u \in Tries |-> IF current'[g] = t /\ u = current[g] /\ By(u) = g
                                THEN "closed" ELSE near[u]]
    /\ UNCHANGED <<step, heard, transport, trouble>>

\* Mutant: the redundant tunnel is kept.
YieldNothing(t) ==
    /\ far[t] = "accepted" /\ far' = [far EXCEPT ![t] = "open"]
    /\ owner' = [owner EXCEPT ![Peer(By(t))] = NoTry]
    /\ UNCHANGED <<step, heard, near, current, ssh, tunnels, closed, trouble>>

\* Then nobody owns the link here, and the larger host's tunnel is redundant.
Yield(t) ==
    LET g == Peer(By(t)) IN
    /\ far[t] = "accepted" /\ far' = [far EXCEPT ![t] = "open"]
    /\ owner' = [owner EXCEPT ![g] = NoTry]
    /\ \E redundant \in IF g = "large" THEN TunnelFor(g) ELSE {{}} :
        /\ tunnels' = tunnels \ redundant
        /\ Close(redundant)
    /\ UNCHANGED <<step, heard, near, current, trouble>>

\* _peer_down: a link that is still the current one leaves its host unlinked.
Unlink(h, t) == current' = [current EXCEPT ![h] = IF @ = t THEN NoTry ELSE @]

ReadEnd(t) ==
    \/ /\ near[t] = "open" /\ (far[t] = "closed" \/ ssh[t] = "dead")
       /\ near' = [near EXCEPT ![t] = "closed"]
       /\ Unlink(By(t), t)
       /\ UNCHANGED <<far, step, heard, transport, trouble>>
    \/ /\ far[t] = "open" /\ (near[t] = "closed" \/ ssh[t] = "dead")
       /\ far' = [far EXCEPT ![t] = "closed"]
       /\ Unlink(Peer(By(t)), t)
       /\ UNCHANGED <<near, step, heard, transport, trouble>>

-----------------------------------------------------------------------------
(* Tunnels and hosts that go                                               *)

SshExits(t) ==
    /\ ssh[t] = "up"
    /\ ssh' = [ssh EXCEPT ![t] = "dead"]
    /\ Disturb({"exit"})
    /\ UNCHANGED <<step, heard, link, tunnels, owner, closed>>

\* Mutant: the current link is dropped, whoever owns it.
TunnelDownAlways(t) ==
    LET h == By(t) IN
    /\ ssh[t] = "dead" /\ t \notin heard
    /\ heard' = heard \cup {t}
    /\ tunnels' = tunnels \ {t}
    /\ owner' = [owner EXCEPT ![h] = IF @ = t THEN NoTry ELSE @]
    /\ Drop(h, {current[h]} \ {NoTry}) /\ current' = [current EXCEPT ![h] = NoTry]
    /\ UNCHANGED <<step, ssh, closed, trouble>>

\* _wait calls _tunnel_down after every exit, of a tunnel that was closed too;
\* the current link is dropped when this tunnel owns it.
TunnelDown(t) ==
    LET h == By(t) IN
    /\ ssh[t] = "dead" /\ t \notin heard
    /\ heard' = heard \cup {t}
    /\ tunnels' = tunnels \ {t}
    /\ IF owner[h] = t
       THEN /\ owner' = [owner EXCEPT ![h] = NoTry]
            /\ Drop(h, {current[h]} \ {NoTry})
            /\ current' = [current EXCEPT ![h] = NoTry]
       ELSE UNCHANGED <<owner, link>>
    /\ UNCHANGED <<step, ssh, closed, trouble>>

\* team_peer remove.
Remove(t) ==
    LET h == By(t) IN
    /\ t \in tunnels
    /\ tunnels' = tunnels \ {t}
    /\ owner' = [owner EXCEPT ![h] = IF @ = t THEN NoTry ELSE @]
    /\ Close({t})
    /\ Drop(h, {current[h]} \ {NoTry}) /\ current' = [current EXCEPT ![h] = NoTry]
    /\ Disturb({"remove"})
    /\ UNCHANGED <<step, heard>>

\* A broker ends and starts again: its adds, tunnels and links are gone, and
\* its stored peers are added anew (Begin).
Restart(h) ==
    LET ran == {t \in Mine(h) : step[t] # "new"} IN
    /\ ran # {}
    /\ step' = [t \in Tries |-> IF t \in ran THEN "failed" ELSE step[t]]
    /\ ssh' = [t \in Tries |-> IF t \in ran THEN "dead" ELSE ssh[t]]
    /\ heard' = heard \cup ran
    /\ near' = [t \in Tries |-> IF t \in ran /\ near[t] = "open" THEN "closed" ELSE near[t]]
    /\ far' = [t \in Tries |-> IF By(t) # h /\ near[t] # "none" THEN "closed" ELSE far[t]]
    /\ current' = [current EXCEPT ![h] = NoTry]
    /\ tunnels' = tunnels \ ran
    /\ owner' = [owner EXCEPT ![h] = NoTry]
    /\ Disturb({"restart"} \cup IF Quiet THEN {} ELSE {"overlap"})
    /\ UNCHANGED closed

-----------------------------------------------------------------------------
Add(t) == Begin(t) \/ Start(t) \/ Check(t) \/ Open(t) \/ Install(t) \/ Own(t)
Serve(t) == Accept(t) \/ Yield(t) \/ ReadEnd(t) \/ TunnelDown(t)

Next ==
    \/ \E t \in Tries : Add(t) \/ Serve(t) \/ SshExits(t) \/ Remove(t)
    \/ \E h \in Hosts : Restart(h)

Spec == Init /\ [][Next]_vars

-----------------------------------------------------------------------------
(* Properties                                                              *)

TypeOK ==
    /\ step \in [Tries -> {"new", "starting", "started", "checked", "opened",
                           "installed", "done", "spent", "failed"}]
    /\ ssh \in [Tries -> {"none", "up", "dead"}]
    /\ heard \subseteq Tries /\ tunnels \subseteq Tries /\ closed \subseteq Tries
    /\ near \in [Tries -> {"none", "open", "closed"}]
    /\ far \in [Tries -> {"none", "accepted", "open", "closed"}]
    /\ current \in [Hosts -> Tries \cup {NoTry}]
    /\ owner \in [Hosts -> Tries \cup {NoTry}]
    /\ trouble \subseteq Troubles

\* The link's owner is a tunnel the broker still knows by its label: no add,
\* accept or exit leaves an owner nobody can remove.
OwnerIsKnown == \A h \in Hosts : owner[h] # NoTry => owner[h] \in tunnels

\* The two hosts use one link, open at both ends.
Linked ==
    /\ current["small"] = current["large"] /\ current["small"] # NoTry
    /\ \A h \in Hosts : End(h, current[h]) = "open"

Added == \E t \in Tries : step[t] \in {"done", "spent"}

\* Adds one after the other, by either host and under either label, end with the
\* pair linked: whoever adds second, one link stays.
AddsSettle == Quiet /\ Added /\ trouble = {} => Linked

\* The smaller host's tunnel wins: when all is quiet the two hosts do not both
\* keep a tunnel to each other.
OneSideKeepsTunnel ==
    Quiet /\ trouble = {} =>
        \E h \in Hosts : tunnels \cap Mine(h) = {}

\* The exit of a tunnel that its broker closed, for a replacement or for a link
\* the peer opened, takes no link down.
ClosedTunnelIsSilent ==
    [][\A t \in closed : TunnelDown(t) => UNCHANGED link]_vars

\* Claimed: "Keep the deterministic winner [...] so the pair settles on one link
\* instead of flapping."  Adds that overlap can drop each other's link.
MutualAddsSettle == Quiet /\ Added /\ trouble \subseteq {"overlap"} => Linked

\* Every host that added its peer has done so again since it last started.
Rebuilt ==
    \A h \in Hosts :
        \/ \A t \in Mine(h) : step[t] = "new"
        \/ \E t \in Mine(h) : step[t] \in {"done", "spent"}

\* Claimed: "both sides persist the config and rebuild on restart".  A smaller
\* host whose tunnel is up refuses the restarted peer and does not link again.
RestartRebuilds ==
    Quiet /\ Added /\ Rebuilt /\ trouble \subseteq {"restart"} => Linked

\* Claimed: "One host has one live link; a tunnel under another label for the same
\* host is released before the new one takes ownership".  The tunnel of an add
\* that is still under way is not, and both run on.
OneTunnelPerPeer ==
    Quiet /\ trouble \subseteq {"overlap"} =>
        \A h \in Hosts : \A t, u \in Mine(h) :
            ssh[t] = "up" /\ ssh[u] = "up" => t = u
=============================================================================
