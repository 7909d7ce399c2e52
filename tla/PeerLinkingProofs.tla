-------------------------- MODULE PeerLinkingProofs --------------------------
(***************************************************************************)
(* Proofs about PeerLinking, for any number of adds by either host: an     *)
(* owner is a tunnel that can be removed, a closed tunnel takes no link    *)
(* down, and adds that come one after the other leave the pair on one link *)
(* and one tunnel.                                                         *)
(***************************************************************************)
EXTENDS PeerLinking, TLAPS

\* A tunnel the broker knows was kept by an add that is done, nobody has closed it,
\* and it is the host's own, as is the tunnel that owns the host's link.
Known ==
    /\ \A t \in tunnels : step[t] = "done" /\ t \notin closed
    /\ \A t \in closed : step[t] \in {"done", "spent", "failed"}
    /\ \A h \in Hosts : owner[h] # NoTry => owner[h] \in tunnels /\ By(owner[h]) = h

\* A host's link is connected at its own end.
LinksAreConnected ==
    \A h \in Hosts : current[h] # NoTry => End(h, current[h]) \in {"accepted", "open"}

-----------------------------------------------------------------------------
(* What undisturbed adds go through                                        *)

Active == {"starting", "started", "checked", "opened", "installed"}
Reached(t, s) ==
    \/ s = "opened" /\ step[t] \in {"opened", "installed", "done"}
    \/ s = "installed" /\ step[t] \in {"installed", "done"}

\* An add that has not begun, and one whose tunnel was closed: what is left of its
\* link is read and forgotten.
Fresh(t) ==
    /\ step[t] = "new" /\ ssh[t] = "none"
    /\ near[t] = "none" /\ far[t] = "none" /\ t \notin tunnels

Gone(t) ==
    /\ step[t] \in {"done", "spent"} /\ ssh[t] = "dead" /\ t \in closed /\ t \notin tunnels
    /\ \/ near[t] = "none" /\ far[t] = "none"
       \/ near[t] \in {"open", "closed"} /\ far[t] \in {"open", "closed"}

Past(live) == \A t \in Tries \ live : Fresh(t) \/ Gone(t)

\* A tunnel that is up, or about to be.
Tunnelled(t) ==
    /\ ssh[t] = IF step[t] = "starting" THEN "none" ELSE "up"
    /\ near[t] = IF Reached(t, "opened") THEN "open" ELSE "none"
    /\ far[t] \in IF near[t] = "open" THEN {"none", "accepted", "open"} ELSE {"none"}

\* The latest add is the only one with a tunnel.  Until it opens its link the ends
\* of the one before are read; then each host takes the new one in its own time.
Alone(t) ==
    /\ Past({t})
    /\ step[t] \in Active \cup {"done"} /\ Tunnelled(t)
    /\ tunnels = {u \in {t} : step[u] = "done"}
    /\ step[t] = "done" => owner[By(t)] = t
    /\ current[By(t)] = t <=> Reached(t, "installed")
    /\ current[Peer(By(t))] = t <=> far[t] \in {"accepted", "open"}
    /\ step[t] = "starting" /\ current[By(t)] # NoTry => By(current[By(t)]) = By(t)
    /\ step[t] \in {"started", "checked"} => current[By(t)] = NoTry

\* The pair is linked by c, whose tunnel its host keeps, while add t comes to its link.
Beside(c, t) ==
    /\ c # t /\ Past({c, t})
    /\ step[c] = "done" /\ ssh[c] = "up" /\ near[c] = "open" /\ far[c] = "open"
    /\ tunnels = {c} /\ owner[By(c)] = c /\ \A h \in Hosts : current[h] = c
    /\ step[t] \in {"starting", "started", "checked"} /\ Tunnelled(t)
    /\ By(t) = "large" /\ By(c) = "small" => step[t] # "checked"

\* The smaller host's link t takes the place of the larger's c, whose tunnel is
\* redundant until the larger host has accepted and yielded.
Overtaken(c, t) ==
    /\ By(c) = "large" /\ By(t) = "small" /\ Past({c, t})
    /\ step[c] = "done" /\ ssh[c] = "up"
    /\ near[c] \in {"open", "closed"} /\ far[c] \in {"open", "closed"}
    /\ Reached(t, "opened") /\ Tunnelled(t) /\ far[t] # "open"
    /\ tunnels = {c} \cup {u \in {t} : step[u] = "done"}
    /\ owner["large"] = c
    /\ step[t] = "done" => owner["small"] = t
    /\ IF Reached(t, "installed") THEN current["small"] = t
                                  ELSE current["small"] \in {c, NoTry}
    /\ IF far[t] = "accepted" THEN current["large"] = t
                              ELSE current["large"] \in {c, NoTry}

InTurn ==
    \/ \A t \in Tries : Fresh(t)
    \/ \E t \in Tries : Alone(t)
    \/ \E c, t \in Tries : Beside(c, t) \/ Overtaken(c, t)

IInv == TypeOK /\ Known /\ (trouble = {} => LinksAreConnected /\ InTurn)

-----------------------------------------------------------------------------
(* The two hosts                                                           *)

LEMMA Sides ==
    /\ \A t : By(t) \in Hosts
    /\ \A h \in Hosts : Peer(h) \in Hosts /\ Peer(h) # h
    /\ \A g, h \in Hosts : g = h \/ g = Peer(h)
    /\ Hosts = {"small", "large"}
  <1>1. \A h \in Hosts : \E g \in Hosts : g # h
    BY DEF Hosts
  <1>2. \A h \in Hosts : Peer(h) \in Hosts /\ Peer(h) # h
    BY <1>1 DEF Peer
  <1> QED
    BY <1>2 DEF Hosts, By

\* Of one host's tunnels at most one is chosen, and none only if it has none.
LEMMA TunnelForHost ==
    ASSUME NEW h \in Hosts, NEW other \in TunnelFor(h)
    PROVE  /\ other \subseteq tunnels \cap Mine(h)
           /\ \A u \in tunnels \cap Mine(h) : tunnels \cap Mine(h) = {u} => other = {u}
           /\ tunnels \cap Mine(h) # {} => other # {}
  BY DEF TunnelFor

-----------------------------------------------------------------------------
(* Types                                                                   *)

LEMMA InitTypes == Init => TypeOK /\ Known
  BY Sides DEF Init, TypeOK, Known

\* Type correctness of each action.
LEMMA AddType ==
    ASSUME TypeOK, NEW t \in Tries, Add(t)
    PROVE  TypeOK'
  <1> USE DEF TypeOK, link, transport, Goes
  <1>0. By(t) \in Hosts
    BY Sides
  <1>1. CASE Begin(t)
    BY <1>0, <1>1 DEF Begin, Close, Disturb
  <1>2. CASE Start(t)
    BY <1>2 DEF Start, Disturb
  <1>3. CASE Check(t)
    BY <1>3 DEF Check, Close
  <1>4. CASE Open(t)
    <2>1. PICK other \in TunnelFor(By(t)) :
            /\ tunnels' = tunnels \ other
            /\ owner' = [owner EXCEPT ![By(t)] = IF other # {} THEN NoTry ELSE @]
            /\ \/ /\ ssh[t] = "up" /\ Goes(t, "checked", "opened")
                  /\ near' = [near EXCEPT ![t] = "open"]
                  /\ Close(other) /\ UNCHANGED trouble
               \/ /\ Goes(t, "checked", "failed") /\ UNCHANGED near
                  /\ Close(other \cup {t}) /\ Disturb({"exit"})
      BY <1>4 DEF Open
    <2>2. other \subseteq Tries
      BY <1>0, <2>1, TunnelForHost
    <2> QED
      BY <1>0, <1>4, <2>1, <2>2 DEF Open, Close, Disturb
  <1>5. CASE Install(t)
    BY <1>0, <1>5 DEF Install, Drop
  <1>6. CASE Own(t)
    BY <1>0, <1>6 DEF Own
  <1> QED
    BY <1>1, <1>2, <1>3, <1>4, <1>5, <1>6 DEF Add

LEMMA ServeType ==
    ASSUME TypeOK, NEW t \in Tries, Serve(t) \/ SshExits(t) \/ Remove(t)
    PROVE  TypeOK'
  <1> USE DEF TypeOK, link, transport
  <1>0. By(t) \in Hosts /\ Peer(By(t)) \in Hosts
    BY Sides
  <1>1. CASE Accept(t)
    BY <1>0, <1>1 DEF Accept
  <1>2. CASE Yield(t)
    <2>1. PICK redundant \in (IF Peer(By(t)) = "large" THEN TunnelFor(Peer(By(t))) ELSE {{}}) :
            tunnels' = tunnels \ redundant /\ Close(redundant)
      BY <1>2 DEF Yield
    <2>2. redundant \subseteq Tries
      BY <1>0, <2>1, TunnelForHost
    <2> QED
      BY <1>0, <1>2, <2>1, <2>2 DEF Yield, Close
  <1>3. CASE ReadEnd(t)
    BY <1>0, <1>3 DEF ReadEnd, Unlink
  <1>4. CASE TunnelDown(t)
    BY <1>0, <1>4 DEF TunnelDown, Drop
  <1>5. CASE SshExits(t)
    BY <1>5 DEF SshExits, Disturb
  <1>6. CASE Remove(t)
    BY <1>0, <1>6 DEF Remove, Close, Drop, Disturb
  <1> QED
    BY <1>1, <1>2, <1>3, <1>4, <1>5, <1>6 DEF Serve

LEMMA StepType == TypeOK /\ [Next]_vars => TypeOK'
  <1> SUFFICES ASSUME TypeOK, [Next]_vars PROVE TypeOK'
    OBVIOUS
  <1>1. ASSUME NEW h \in Hosts, Restart(h) PROVE TypeOK'
    BY <1>1 DEF TypeOK, Restart, Disturb, Mine
  <1>2. CASE UNCHANGED vars
    BY <1>2 DEF vars, link, transport, TypeOK
  <1> QED
    BY <1>1, <1>2, AddType, ServeType DEF Next

-----------------------------------------------------------------------------
(* Tunnels and owners                                                      *)

\* Tunnels are only closed as they are forgotten, and with them their owner.
LEMMA AddKnown ==
    ASSUME TypeOK, Known, NEW t \in Tries, Add(t)
    PROVE  Known'
  <1> USE TryAssumption DEF link, transport, Goes
  <1>0. /\ By(t) \in Hosts /\ Hosts = {"small", "large"} /\ NoTry \notin Tries
        /\ tunnels \subseteq Tries /\ closed \subseteq Tries
        /\ owner \in [Hosts -> Tries \cup {NoTry}] /\ DOMAIN step = Tries
    BY Sides DEF TypeOK
  <1>1. CASE Begin(t)
    BY <1>0, <1>1 DEF Begin, Close, Known, SameLabel, Mine
  <1>2. CASE Start(t)
    BY <1>0, <1>2 DEF Start, Known
  <1>3. CASE Check(t)
    BY <1>0, <1>3 DEF Check, Close, Known
  <1>4. CASE Open(t)
    <2>1. PICK other \in TunnelFor(By(t)) :
            /\ tunnels' = tunnels \ other
            /\ owner' = [owner EXCEPT ![By(t)] = IF other # {} THEN NoTry ELSE @]
            /\ \/ Goes(t, "checked", "opened") /\ Close(other)
               \/ Goes(t, "checked", "failed") /\ Close(other \cup {t})
      BY <1>4 DEF Open
    <2>2. other \subseteq tunnels \cap Mine(By(t))
      BY <1>0, <2>1, TunnelForHost
    <2> QED
      BY <1>0, <2>1, <2>2 DEF Close, Known, Mine
  <1>5. CASE Install(t)
    BY <1>0, <1>5 DEF Install, Known
  <1>6. CASE Own(t)
    BY <1>0, <1>6 DEF Own, Known, SameLabel, Mine
  <1> QED
    BY <1>1, <1>2, <1>3, <1>4, <1>5, <1>6 DEF Add

LEMMA ServeKnown ==
    ASSUME TypeOK, Known, NEW t \in Tries, Serve(t) \/ SshExits(t) \/ Remove(t)
    PROVE  Known'
  <1> USE TryAssumption DEF link, transport
  <1>0. /\ By(t) \in Hosts /\ Peer(By(t)) \in Hosts /\ NoTry \notin Tries
        /\ tunnels \subseteq Tries /\ closed \subseteq Tries
        /\ owner \in [Hosts -> Tries \cup {NoTry}]
    BY Sides DEF TypeOK
  <1>1. CASE Accept(t) \/ ReadEnd(t) \/ SshExits(t)
    BY <1>1 DEF Accept, ReadEnd, SshExits, Known
  <1>2. CASE Yield(t)
    <2>1. PICK redundant \in (IF Peer(By(t)) = "large" THEN TunnelFor(Peer(By(t))) ELSE {{}}) :
            tunnels' = tunnels \ redundant /\ Close(redundant)
      BY <1>2 DEF Yield
    <2>2. redundant \subseteq tunnels \cap Mine(Peer(By(t)))
      BY <1>0, <2>1, TunnelForHost
    <2> QED
      BY <1>0, <1>2, <2>1, <2>2 DEF Yield, Close, Known, Mine
  <1>3. CASE TunnelDown(t)
    BY <1>0, <1>3 DEF TunnelDown, Known
  <1>4. CASE Remove(t)
    BY <1>0, <1>4 DEF Remove, Close, Known
  <1> QED
    BY <1>1, <1>2, <1>3, <1>4 DEF Serve

LEMMA StepKnown == TypeOK /\ Known /\ [Next]_vars => Known'
  <1> SUFFICES ASSUME TypeOK, Known, [Next]_vars PROVE Known'
    OBVIOUS
  <1>1. ASSUME NEW h \in Hosts, Restart(h) PROVE Known'
    BY <1>1, TryAssumption DEF TypeOK, Restart, Mine, Known
  <1>2. CASE UNCHANGED vars
    BY <1>2 DEF vars, link, transport, Known
  <1> QED
    BY <1>1, <1>2, AddKnown, ServeKnown DEF Next

-----------------------------------------------------------------------------
(* Adds that come one after the other                                      *)

\* Ended adds stay ended, and new ones new, whatever is read of their links.
LEMMA PastKept ==
    ASSUME TypeOK, NEW live, Past(live), closed \subseteq closed',
           \A u \in Tries \ live :
                /\ step'[u] = step[u] /\ ssh'[u] = ssh[u]
                /\ u \in tunnels' => u \in tunnels
                /\ near'[u] = near[u] \/ (near[u] = "open" /\ near'[u] = "closed")
                /\ far'[u] = far[u] \/ (far[u] = "open" /\ far'[u] = "closed")
    PROVE  \A u \in Tries \ live : Fresh(u)' \/ Gone(u)'
  BY DEF Past, Fresh, Gone

\* Nobody begins, accepts, yields or goes on in an add that is past or to come; and
\* what its tunnel's exit tells changes no link.
LEMMA PastIsQuiet ==
    ASSUME TypeOK, Known, NEW live, Past(live), NEW u \in Tries \ live
    PROVE  /\ ~Start(u) /\ ~Check(u) /\ ~Open(u) /\ ~Install(u) /\ ~Own(u)
           /\ ~Accept(u) /\ ~Yield(u)
           /\ TunnelDown(u) => UNCHANGED <<step, ssh, near, far, current, owner, tunnels,
                                           closed, trouble>>
           /\ ReadEnd(u) => Gone(u) /\ u \notin tunnels
  <1>1. Fresh(u) \/ Gone(u)
    BY DEF Past
  <1>2. ~Start(u) /\ ~Check(u) /\ ~Open(u) /\ ~Install(u) /\ ~Own(u)
    BY <1>1 DEF Fresh, Gone, Start, Check, Open, Install, Own, Goes
  <1>3. ~Accept(u) /\ ~Yield(u)
    BY <1>1 DEF Fresh, Gone, Accept, Yield
  <1>4. TunnelDown(u) => UNCHANGED <<step, ssh, near, far, current, owner, tunnels,
                                     closed, trouble>>
    <2>1. u \notin tunnels /\ owner[By(u)] # u
      BY <1>1, Sides, TryAssumption DEF Fresh, Gone, Known
    <2> QED
      BY <2>1 DEF TunnelDown, link
  <1>5. ReadEnd(u) => Gone(u) /\ u \notin tunnels
    BY <1>1 DEF Fresh, Gone, ReadEnd
  <1> QED
    BY <1>2, <1>3, <1>4, <1>5

\* An add disturbed by nothing begins when all is quiet and does not fail.
LEMMA InOrder ==
    ASSUME TypeOK, NEW t \in Tries, trouble' = {}
    PROVE  /\ Begin(t) => Quiet
           /\ Start(t) => Goes(t, "starting", "started") /\ ssh' = [ssh EXCEPT ![t] = "up"]
           /\ ~SshExits(t) /\ ~Remove(t)
           /\ \A h \in Hosts : ~Restart(h)
           /\ Add(t) \/ Serve(t) => trouble = {}
  BY DEF Begin, Start, Check, Open, Install, Own, Accept, Yield, ReadEnd, TunnelDown,
         SshExits, Remove, Restart, Disturb, Add, Serve

\* The opening of a link: the other label's tunnel, if there is one, is closed.
LEMMA Opening ==
    ASSUME TypeOK, NEW t \in Tries, trouble' = {}, Open(t)
    PROVE  \E other \in TunnelFor(By(t)) :
                /\ tunnels' = tunnels \ other
                /\ owner' = [owner EXCEPT ![By(t)] = IF other # {} THEN NoTry ELSE @]
                /\ Goes(t, "checked", "opened") /\ near' = [near EXCEPT ![t] = "open"]
                /\ Close(other) /\ UNCHANGED <<far, current>>
  BY DEF Open, Disturb

\* What an end that is read leaves: the link forgotten at that end.
LEMMA Reading ==
    ASSUME TypeOK, NEW t \in Tries, ReadEnd(t)
    PROVE  /\ UNCHANGED <<step, ssh, tunnels, owner, closed, trouble>>
           /\ \A u \in Tries \ {t} : near'[u] = near[u] /\ far'[u] = far[u]
           /\ \/ /\ near[t] = "open" /\ (far[t] = "closed" \/ ssh[t] = "dead")
                 /\ near' = [near EXCEPT ![t] = "closed"] /\ far' = far
                 /\ Unlink(By(t), t)
              \/ /\ far[t] = "open" /\ (near[t] = "closed" \/ ssh[t] = "dead")
                 /\ far' = [far EXCEPT ![t] = "closed"] /\ near' = near
                 /\ Unlink(Peer(By(t)), t)
  BY DEF ReadEnd, transport, TypeOK

LEMMA ReadingKeepsLinks ==
    ASSUME TypeOK, LinksAreConnected, NEW t \in Tries, ReadEnd(t)
    PROVE  LinksAreConnected'
  <1> SUFFICES ASSUME NEW h \in Hosts, current'[h] # NoTry
               PROVE  End(h, current[h])' \in {"accepted", "open"}
    BY DEF LinksAreConnected
  <1>1. By(t) \in Hosts /\ Peer(By(t)) \in Hosts /\ Peer(By(t)) # By(t)
        /\ (h = By(t) \/ h = Peer(By(t)))
    BY Sides
  <1>2. current'[h] = current[h] /\ current[h] \in Tries
    BY <1>1, Reading DEF Unlink, TypeOK
  <1>3. End(h, current[h]) \in {"accepted", "open"}
    BY <1>2 DEF LinksAreConnected
  <1> QED
    BY <1>1, <1>2, <1>3, Reading DEF Unlink, TypeOK, End

LEMMA InitTurn == Init => LinksAreConnected /\ InTurn
  BY DEF Init, LinksAreConnected, InTurn, Fresh

\* No add has begun: the first leaves the pair to itself.
LEMMA FirstBegins ==
    ASSUME TypeOK, Known, LinksAreConnected, \A t \in Tries : Fresh(t),
           NEW u \in Tries, Add(u) \/ Serve(u), trouble' = {}
    PROVE  LinksAreConnected' /\ InTurn'
  <1> USE TryAssumption
  <1>1. Past({})
    BY DEF Past
  <1>2. Begin(u) \/ TunnelDown(u) \/ ReadEnd(u)
    BY <1>1, PastIsQuiet DEF Add, Serve
  <1>3. ~TunnelDown(u) /\ ~ReadEnd(u)
    BY DEF Fresh, TunnelDown, ReadEnd
  <1>4. tunnels = {} /\ \A h \in Hosts : current[h] = NoTry
    <2>1. tunnels = {}
      BY DEF TypeOK, Fresh
    <2>2. ASSUME NEW h \in Hosts, current[h] # NoTry PROVE FALSE
      BY <2>2 DEF TypeOK, LinksAreConnected, End, Fresh
    <2> QED
      BY <2>1, <2>2
  <1>5. /\ step' = [step EXCEPT ![u] = "starting"] /\ tunnels' = {}
        /\ \A v \in Tries : ssh'[v] = ssh[v]
        /\ UNCHANGED <<near, far, current>> /\ closed \subseteq closed'
    BY <1>2, <1>3, <1>4 DEF Begin, Goes, Close, link
  <1>6. \A v \in Tries \ {u} : Fresh(v)'
    BY <1>4, <1>5 DEF Fresh, TypeOK
  <1>7. Alone(u)'
    BY <1>4, <1>5, <1>6, Sides DEF Alone, Past, Tunnelled, Reached, Active, Fresh, TypeOK
  <1>8. LinksAreConnected'
    BY <1>4, <1>5 DEF LinksAreConnected
  <1> QED
    BY <1>7, <1>8 DEF InTurn

\* One add has a tunnel: it goes on, or it has settled and the next one begins.
LEMMA AloneBegins ==
    ASSUME TypeOK, Known, LinksAreConnected, NEW t \in Tries, Alone(t),
           NEW u \in Tries, Begin(u), trouble' = {}
    PROVE  LinksAreConnected' /\ InTurn'
  <1> USE TryAssumption
  <1>0. Quiet /\ step[u] = "new"
    BY InOrder DEF Begin, Goes
  <1>1. /\ u # t /\ step[t] = "done" /\ near[t] = "open" /\ far[t] = "open" /\ ssh[t] = "up"
        /\ \A h \in Hosts : current[h] = t
        /\ tunnels = {t} /\ owner[By(t)] = t /\ Fresh(u)
    BY <1>0, Sides DEF Alone, Active, Quiet, Tunnelled, Reached, Past, Gone
  <1>2. /\ step' = [step EXCEPT ![u] = "starting"]
        /\ UNCHANGED <<near, far, current>>
        /\ closed' = closed \cup (tunnels \cap SameLabel(u))
        /\ tunnels' = tunnels \ (tunnels \cap SameLabel(u))
        /\ owner' = [owner EXCEPT ![By(u)] = IF @ \in tunnels \cap SameLabel(u) THEN NoTry
                                                                                ELSE @]
        /\ \A v \in Tries : ssh'[v] = IF v \in tunnels \cap SameLabel(u) /\ ssh[v] = "up"
                                      THEN "dead" ELSE ssh[v]
    BY DEF Begin, Goes, Close, link
  <1>3. LinksAreConnected'
    BY <1>2 DEF LinksAreConnected, End
  <1>4. \A v \in Tries \ {u, t} : Fresh(v)' \/ Gone(v)'
    <2>1. Past({u, t})
      BY DEF Alone, Past
    <2>2. \A v \in Tries \ {u, t} : step'[v] = step[v] /\ ssh'[v] = ssh[v]
      BY <1>1, <1>2 DEF TypeOK
    <2> QED
      BY <1>2, <2>1, <2>2, PastKept
  <1>5. /\ step'[u] = "starting" /\ step'[t] = "done" /\ ssh'[u] = "none"
        /\ near'[u] = "none" /\ far'[u] = "none" /\ u \notin tunnels'
        /\ near'[t] = "open" /\ far'[t] = "open"
    BY <1>1, <1>2 DEF TypeOK, Fresh
  <1>6. CASE t \in SameLabel(u)
    <2>1. By(t) = By(u) /\ ssh'[t] = "dead" /\ t \in closed' /\ tunnels' = {}
      BY <1>1, <1>2, <1>6 DEF SameLabel, Mine
    <2>2. Gone(t)'
      BY <1>1, <1>2, <1>5, <2>1 DEF Gone
    <2>3. Past({u})'
      BY <1>4, <2>2 DEF Past
    <2>4. Alone(u)'
      BY <1>1, <1>2, <1>5, <2>1, <2>3, Sides DEF Alone, Tunnelled, Reached, Active
    <2> QED
      BY <1>3, <2>4 DEF InTurn
  <1>7. CASE t \notin SameLabel(u)
    <2>1. ssh'[t] = "up" /\ tunnels' = {t} /\ owner'[By(t)] = t
      <3>1. By(t) \in Hosts /\ By(u) \in Hosts
        BY Sides
      <3> QED
        BY <1>1, <1>2, <1>7, <3>1 DEF TypeOK
    <2>2. Past({t, u})'
      BY <1>4 DEF Past
    <2>3. Beside(t, u)'
      BY <1>1, <1>2, <1>5, <2>1, <2>2 DEF Beside, Tunnelled, Reached
    <2> QED
      BY <1>3, <2>3 DEF InTurn
  <1> QED
    BY <1>6, <1>7

\* The latest add comes to its link.
LEMMA AloneAdds ==
    ASSUME TypeOK, Known, LinksAreConnected, NEW t \in Tries, Alone(t), trouble' = {},
           Start(t) \/ Check(t) \/ Open(t) \/ Install(t) \/ Own(t)
    PROVE  LinksAreConnected' /\ InTurn'
  <1> USE TryAssumption
  <1> DEFINE h == By(t)
             g == Peer(h)
  <1>0. h \in Hosts /\ g \in Hosts /\ h # g /\ \A k \in Hosts : k = h \/ k = g
    BY Sides
  <1>1. CASE Start(t)
    <2>1. step[t] = "starting" /\ step' = [step EXCEPT ![t] = "started"]
          /\ ssh' = [ssh EXCEPT ![t] = "up"]
          /\ UNCHANGED <<near, far, current, tunnels, owner, closed>>
      BY <1>1, InOrder DEF Start, Goes, link
    <2>2. Past({t})'
      BY <2>1, PastKept DEF Alone, Past, TypeOK
    <2>3. current[h] = NoTry
      <3> SUFFICES ASSUME current[h] # NoTry PROVE FALSE
        OBVIOUS
      <3>1. current[h] \in Tries /\ By(current[h]) = h /\ near[current[h]] \in {"open", "accepted"}
        BY <1>0, <2>1 DEF Alone, TypeOK, LinksAreConnected, End
      <3>2. current[h] # t
        BY <2>1 DEF Alone, Reached
      <3>3. Gone(current[h])
        BY <3>1, <3>2 DEF Alone, Past, Fresh
      <3> QED
        BY <1>1, <3>1, <3>3 DEF Start, Gone, Mine
    <2>4. Alone(t)'
      BY <1>0, <2>1, <2>2, <2>3 DEF Alone, Tunnelled, Reached, Active, TypeOK
    <2>5. LinksAreConnected'
      BY <2>1 DEF LinksAreConnected, End
    <2> QED
      BY <2>4, <2>5 DEF InTurn
  <1>2. CASE Check(t)
    <2>1. step[t] = "started"
      BY <1>2 DEF Check, Goes
    <2>2. ~Connected(h, current[h])
      BY <2>1 DEF Connected, Alone
    <2>3. step' = [step EXCEPT ![t] = "checked"]
          /\ UNCHANGED <<ssh, near, far, current, tunnels, owner, closed>>
      BY <1>2, <2>2 DEF Check, Goes, link
    <2>4. Past({t})'
      BY <2>3, PastKept DEF Alone, Past, TypeOK
    <2>5. Alone(t)'
      BY <1>0, <2>1, <2>3, <2>4 DEF Alone, Tunnelled, Reached, Active, TypeOK
    <2>6. LinksAreConnected'
      BY <2>3 DEF LinksAreConnected, End
    <2> QED
      BY <2>5, <2>6 DEF InTurn
  <1>3. CASE Open(t)
    <2>1. PICK other \in TunnelFor(h) :
            /\ tunnels' = tunnels \ other
            /\ Goes(t, "checked", "opened") /\ near' = [near EXCEPT ![t] = "open"]
            /\ Close(other) /\ UNCHANGED <<far, current>>
      BY <1>3, Opening
    <2>2. step[t] = "checked" /\ tunnels = {}
      BY <2>1 DEF Goes, Alone
    <2>3. other = {}
      BY <1>0, <2>2, TunnelForHost
    <2>4. /\ step' = [step EXCEPT ![t] = "opened"] /\ tunnels' = {}
          /\ \A v \in Tries : ssh'[v] = ssh[v]
          /\ closed' = closed
      BY <2>1, <2>2, <2>3 DEF Goes, Close
    <2>5. Past({t})'
      BY <2>1, <2>4, PastKept DEF Alone, Past, TypeOK
    <2>6. Alone(t)'
      BY <1>0, <2>1, <2>2, <2>4, <2>5 DEF Alone, Tunnelled, Reached, Active, TypeOK
    <2>7. LinksAreConnected'
      BY <2>1 DEF LinksAreConnected, End, TypeOK
    <2> QED
      BY <2>6, <2>7 DEF InTurn
  <1>4. CASE Install(t)
    <2>1. /\ step[t] = "opened" /\ step' = [step EXCEPT ![t] = "installed"]
          /\ current' = [current EXCEPT ![h] = t]
          /\ UNCHANGED <<ssh, tunnels, owner, closed>>
          /\ \A v \in Tries :
                /\ near'[v] = IF v = current[h] /\ By(v) = h THEN "closed" ELSE near[v]
                /\ far'[v] = IF v = current[h] /\ By(v) # h THEN "closed" ELSE far[v]
      BY <1>4 DEF Install, Goes, Drop, transport
    <2>2. current[h] # t /\ near[t] = "open"
      BY <2>1 DEF Alone, Reached, Tunnelled
    <2>3. Past({t})'
      <3>1. ASSUME NEW v \in Tries \ {t}, v = current[h]
            PROVE  near[v] \in {"open", "closed"} /\ far[v] \in {"open", "closed"}
                   /\ End(h, v) = "open"
        BY <1>0, <3>1 DEF Alone, Past, Fresh, Gone, LinksAreConnected, End
      <3>2. ASSUME NEW v \in Tries \ {t}
            PROVE  /\ near'[v] = near[v] \/ (near[v] = "open" /\ near'[v] = "closed")
                   /\ far'[v] = far[v] \/ (far[v] = "open" /\ far'[v] = "closed")
        BY <2>1, <3>1 DEF End
      <3>3. \A v \in Tries \ {t} : step'[v] = step[v]
        BY <2>1 DEF TypeOK
      <3> QED
        BY <2>1, <3>2, <3>3, PastKept DEF Alone, Past
    <2>4. near'[t] = near[t] /\ far'[t] = far[t]
      BY <2>1, <2>2
    <2>5. Alone(t)'
      <3>1. step'[t] = "installed" /\ current'[h] = t /\ current'[g] = current[g]
        BY <1>0, <2>1 DEF TypeOK
      <3>2. Tunnelled(t)' /\ tunnels' = {}
        BY <2>1, <2>2, <2>4, <3>1 DEF Alone, Tunnelled, Reached
      <3>3. current'[g] = t <=> far'[t] \in {"accepted", "open"}
        BY <2>4, <3>1 DEF Alone
      <3> QED
        BY <2>3, <3>1, <3>2, <3>3 DEF Alone, Reached, Active
    <2>6. LinksAreConnected'
      <3>1. current'[h] = t /\ End(h, t)' = "open"
        BY <1>0, <2>1, <2>2, <2>4 DEF TypeOK, End
      <3>2. current'[g] = current[g]
        BY <1>0, <2>1 DEF TypeOK
      <3>3. ASSUME current[g] # NoTry PROVE End(g, current[g])' \in {"accepted", "open"}
        <4>1. current[g] \in Tries /\ End(g, current[g]) \in {"accepted", "open"}
          BY <1>0, <3>3 DEF TypeOK, LinksAreConnected
        <4> QED
          BY <1>0, <2>1, <3>2, <4>1, Sides DEF End
      <3> QED
        BY <1>0, <3>1, <3>2, <3>3 DEF LinksAreConnected
    <2> QED
      BY <2>5, <2>6 DEF InTurn
  <1>5. CASE Own(t)
    <2>1. /\ step[t] = "installed" /\ step' = [step EXCEPT ![t] = "done"]
          /\ owner' = [owner EXCEPT ![h] = t]
          /\ tunnels' = {t}
          /\ UNCHANGED <<ssh, near, far, current, closed>>
      BY <1>5 DEF Own, Goes, link, Alone
    <2>2. Past({t})'
      BY <2>1, PastKept DEF Alone, Past, TypeOK
    <2>3. Alone(t)'
      BY <1>0, <2>1, <2>2 DEF Alone, Tunnelled, Reached, Active, TypeOK
    <2>4. LinksAreConnected'
      BY <2>1 DEF LinksAreConnected, End
    <2> QED
      BY <2>3, <2>4 DEF InTurn
  <1> QED
    BY <1>1, <1>2, <1>3, <1>4, <1>5

\* The other host takes the link, and the ends of past links are read.
LEMMA AloneServes ==
    ASSUME TypeOK, Known, LinksAreConnected, NEW t \in Tries, Alone(t), trouble' = {},
           NEW u \in Tries, Serve(u)
    PROVE  LinksAreConnected' /\ InTurn'
  <1> USE TryAssumption
  <1> DEFINE h == By(t)
             g == Peer(h)
  <1>0. h \in Hosts /\ g \in Hosts /\ h # g /\ \A k \in Hosts : k = h \/ k = g
    BY Sides
  <1>p. Past({t})
    BY DEF Alone
  <1>1. CASE Accept(u)
    <2>1. u = t
      BY <1>1, <1>p, PastIsQuiet
    <2>2. near[t] = "open" /\ far[t] = "none" /\ current[g] # t
      BY <1>1, <2>1 DEF Accept, Alone, Tunnelled
    <2>3. tunnels \cap Mine(g) = {}
      BY <1>0 DEF Alone, Mine
    <2>4. /\ current' = [current EXCEPT ![g] = t]
          /\ UNCHANGED <<step, ssh, tunnels, owner, closed>>
          /\ \A v \in Tries :
                /\ far'[v] = IF v = t THEN "accepted"
                             ELSE IF v = current[g] /\ By(v) # g THEN "closed" ELSE far[v]
                /\ near'[v] = IF v = current[g] /\ By(v) = g THEN "closed" ELSE near[v]
      BY <1>0, <1>1, <2>1, <2>3 DEF Accept, transport, TypeOK
    <2>5. Past({t})'
      <3>1. ASSUME NEW v \in Tries \ {t}, v = current[g]
            PROVE  near[v] \in {"open", "closed"} /\ far[v] \in {"open", "closed"}
                   /\ End(g, v) = "open"
        BY <1>0, <1>p, <3>1 DEF Past, Fresh, Gone, LinksAreConnected, End
      <3>2. ASSUME NEW v \in Tries \ {t}
            PROVE  /\ near'[v] = near[v] \/ (near[v] = "open" /\ near'[v] = "closed")
                   /\ far'[v] = far[v] \/ (far[v] = "open" /\ far'[v] = "closed")
        BY <2>4, <3>1 DEF End
      <3> QED
        BY <1>p, <2>4, <3>2, PastKept DEF Past
    <2>6. near'[t] = near[t] /\ far'[t] = "accepted"
      BY <1>0, <2>2, <2>4
    <2>7. Alone(t)'
      BY <1>0, <2>2, <2>4, <2>5, <2>6 DEF Alone, Tunnelled, Reached, Active, TypeOK
    <2>8. LinksAreConnected'
      <3>1. current'[g] = t /\ End(g, t)' = "accepted"
        BY <1>0, <2>4, <2>6 DEF TypeOK, End
      <3>2. current'[h] = current[h]
        BY <1>0, <2>4 DEF TypeOK
      <3>3. ASSUME current[h] # NoTry PROVE End(h, current[h])' \in {"accepted", "open"}
        <4>1. current[h] \in Tries /\ End(h, current[h]) \in {"accepted", "open"}
          BY <1>0, <3>3 DEF TypeOK, LinksAreConnected
        <4> QED
          BY <1>0, <2>2, <2>4, <3>2, <4>1, Sides DEF End
      <3> QED
        BY <1>0, <3>1, <3>2, <3>3 DEF LinksAreConnected
    <2> QED
      BY <2>7, <2>8 DEF InTurn
  <1>2. CASE Yield(u)
    <2>1. u = t
      BY <1>2, <1>p, PastIsQuiet
    <2>2. PICK redundant \in (IF g = "large" THEN TunnelFor(g) ELSE {{}}) :
            tunnels' = tunnels \ redundant /\ Close(redundant)
      BY <1>2, <2>1 DEF Yield
    <2>3. redundant = {}
      BY <1>0, <2>2, TunnelForHost DEF Alone, Mine
    <2>4. /\ far[t] = "accepted" /\ far' = [far EXCEPT ![t] = "open"]
          /\ owner' = [owner EXCEPT ![g] = NoTry]
          /\ tunnels' = tunnels /\ closed' = closed /\ \A v \in Tries : ssh'[v] = ssh[v]
          /\ UNCHANGED <<step, near, current>>
      BY <1>2, <2>1, <2>2, <2>3 DEF Yield, Close
    <2>5. Past({t})'
      BY <1>p, <2>4, PastKept DEF Past, TypeOK
    <2>6. Alone(t)'
      BY <1>0, <2>4, <2>5 DEF Alone, Tunnelled, Reached, Active, TypeOK
    <2>7. LinksAreConnected'
      BY <2>4 DEF LinksAreConnected, End, TypeOK
    <2> QED
      BY <2>6, <2>7 DEF InTurn
  <1>3. CASE ReadEnd(u)
    <2>1. u # t
      BY <1>3 DEF ReadEnd, Alone, Tunnelled, Reached
    <2>2. UNCHANGED <<step, ssh, tunnels, owner, closed>>
          /\ near'[t] = near[t] /\ far'[t] = far[t]
      BY <1>3, <2>1, Reading
    <2>3. Past({t})'
      <3>1. ASSUME NEW v \in Tries \ {t}
            PROVE  /\ near'[v] = near[v] \/ (near[v] = "open" /\ near'[v] = "closed")
                   /\ far'[v] = far[v] \/ (far[v] = "open" /\ far'[v] = "closed")
        BY <1>3, Reading DEF TypeOK
      <3> QED
        BY <1>p, <2>2, <3>1, PastKept DEF Past
    <2>4. \A k \in Hosts : /\ current'[k] = t <=> current[k] = t
                           /\ current'[k] \in {current[k], NoTry}
      BY <1>0, <1>3, <2>1, Sides, Reading DEF Unlink, TypeOK
    <2>5. Alone(t)'
      BY <1>0, <2>2, <2>3, <2>4 DEF Alone, Tunnelled, Reached, Active
    <2> QED
      BY <1>3, <2>5, ReadingKeepsLinks DEF InTurn
  <1>4. CASE TunnelDown(u)
    <2>1. u # t
      BY <1>4 DEF TunnelDown, Alone, Tunnelled
    <2>2. UNCHANGED <<step, ssh, near, far, current, owner, tunnels, closed, trouble>>
      BY <1>4, <1>p, <2>1, PastIsQuiet
    <2>3. Past({t})'
      BY <1>p, <2>2 DEF Past, Fresh, Gone
    <2>4. Alone(t)'
      BY <2>2, <2>3 DEF Alone, Tunnelled, Reached
    <2>5. LinksAreConnected'
      BY <2>2 DEF LinksAreConnected, End
    <2> QED
      BY <2>4, <2>5 DEF InTurn
  <1> QED
    BY <1>1, <1>2, <1>3, <1>4 DEF Serve

\* A pair that is linked, while an add comes to its link: the add is spent, or
\* closes its host's former tunnel, or overtakes the larger host's link.
LEMMA BesideSteps ==
    ASSUME TypeOK, Known, LinksAreConnected, NEW c \in Tries, NEW t \in Tries, Beside(c, t),
           NEW u \in Tries, Add(u) \/ Serve(u), trouble' = {}
    PROVE  LinksAreConnected' /\ InTurn'
  <1> USE TryAssumption
  <1> DEFINE h == By(t)
  <1>0. /\ h \in Hosts /\ By(c) \in Hosts /\ Hosts = {"small", "large"}
        /\ Peer(h) \in Hosts /\ Peer(h) # h
    BY Sides
  <1>p. Past({c, t})
    BY DEF Beside
  <1>1. CASE Start(t)
    <2>1. step[t] = "starting" /\ step' = [step EXCEPT ![t] = "started"]
          /\ ssh' = [ssh EXCEPT ![t] = "up"]
          /\ UNCHANGED <<near, far, current, tunnels, owner, closed>>
      BY <1>1, InOrder DEF Start, Goes, link
    <2>2. Past({c, t})'
      BY <1>p, <2>1, PastKept DEF Past, TypeOK
    <2>3. Beside(c, t)'
      BY <2>1, <2>2 DEF Beside, Tunnelled, Reached, TypeOK
    <2>4. LinksAreConnected'
      BY <2>1 DEF LinksAreConnected, End
    <2> QED
      BY <2>3, <2>4 DEF InTurn
  <1>2. CASE Check(t)
    <2>1. step[t] = "started" /\ UNCHANGED <<near, far, current, tunnels, owner>>
      BY <1>2 DEF Check, Goes, link
    <2>2. LinksAreConnected'
      BY <2>1 DEF LinksAreConnected, End
    <2>3. CASE h = "large" /\ By(c) = "small"
      <3>1. owner[h] = NoTry /\ Connected(h, current[h])
        BY <1>0, <2>3 DEF Known, Beside, Connected, End
      <3>2. step' = [step EXCEPT ![t] = "spent"] /\ closed' = closed \cup {t}
            /\ \A v \in Tries : ssh'[v] = IF v = t /\ ssh[v] = "up" THEN "dead" ELSE ssh[v]
        BY <1>2, <2>3, <3>1 DEF Check, Goes, Close
      <3>3. \A v \in Tries \ {c, t} : Fresh(v)' \/ Gone(v)'
        BY <1>p, <2>1, <3>2, PastKept DEF TypeOK
      <3>4. Gone(t)'
        BY <2>1, <3>2 DEF Gone, Beside, Tunnelled, Reached, TypeOK
      <3>5. Past({c})'
        BY <3>3, <3>4 DEF Past
      <3>6. step'[c] = "done" /\ ssh'[c] = "up"
        BY <3>2 DEF Beside, TypeOK
      <3>7. Alone(c)'
        BY <1>0, <2>1, <3>5, <3>6, Sides DEF Beside, Alone, Tunnelled, Reached
      <3> QED
        BY <2>2, <3>7 DEF InTurn
    <2>4. CASE ~(h = "large" /\ By(c) = "small")
      <3>1. ~(owner[h] = NoTry /\ h = "large")
        BY <1>0, <2>4 DEF Beside
      <3>2. step' = [step EXCEPT ![t] = "checked"] /\ UNCHANGED <<ssh, closed>>
        BY <1>2, <3>1 DEF Check, Goes
      <3>3. Past({c, t})'
        BY <1>p, <2>1, <3>2, PastKept DEF Past, TypeOK
      <3>4. Beside(c, t)'
        BY <2>1, <2>4, <3>2, <3>3 DEF Beside, Tunnelled, Reached, TypeOK
      <3> QED
        BY <2>2, <3>4 DEF InTurn
    <2> QED
      BY <2>3, <2>4
  <1>3. CASE Open(t)
    <2>1. PICK other \in TunnelFor(h) :
            /\ tunnels' = tunnels \ other
            /\ owner' = [owner EXCEPT ![h] = IF other # {} THEN NoTry ELSE @]
            /\ Goes(t, "checked", "opened") /\ near' = [near EXCEPT ![t] = "open"]
            /\ Close(other) /\ UNCHANGED <<far, current>>
      BY <1>3, Opening
    <2>2. /\ step[t] = "checked" /\ step' = [step EXCEPT ![t] = "opened"]
          /\ closed' = closed \cup other
          /\ \A v \in Tries : ssh'[v] = IF v \in other /\ ssh[v] = "up" THEN "dead" ELSE ssh[v]
      BY <2>1 DEF Goes, Close
    <2>3. LinksAreConnected'
      BY <2>1 DEF LinksAreConnected, End, TypeOK
    <2>4. other \subseteq {c}
      BY <1>0, <2>1, TunnelForHost DEF Beside
    <2>5. \A v \in Tries \ {c, t} : Fresh(v)' \/ Gone(v)'
      BY <1>p, <2>1, <2>2, <2>4, PastKept DEF TypeOK
    <2>6. CASE By(c) = h
      <3>1. other = {c}
        BY <1>0, <2>1, <2>6, TunnelForHost DEF Beside, Mine
      <3>2. Gone(c)' /\ tunnels' = {}
        BY <2>1, <2>2, <3>1 DEF Gone, Beside, TypeOK
      <3>3. Past({t})'
        BY <2>5, <3>2 DEF Past
      <3>4. /\ step'[t] = "opened" /\ ssh'[t] = "up" /\ near'[t] = "open" /\ far'[t] = "none"
            /\ \A k \in Hosts : current'[k] = c
        BY <2>1, <2>2, <2>4 DEF Beside, Tunnelled, Reached, TypeOK
      <3>5. Alone(t)'
        BY <1>0, <3>2, <3>3, <3>4 DEF Alone, Beside, Tunnelled, Reached, Active
      <3> QED
        BY <2>3, <3>5 DEF InTurn
    <2>7. CASE By(c) # h
      <3>1. By(c) = "large" /\ h = "small"
        BY <1>0, <2>2, <2>7 DEF Beside
      <3>2. other = {}
        BY <1>0, <2>1, <2>4, <2>7, TunnelForHost DEF Mine
      <3>3. Past({c, t})'
        BY <2>5 DEF Past
      <3>4. /\ step'[t] = "opened" /\ ssh'[t] = "up" /\ near'[t] = "open" /\ far'[t] = "none"
            /\ step'[c] = "done" /\ ssh'[c] = "up" /\ near'[c] = "open" /\ far'[c] = "open"
            /\ \A k \in Hosts : current'[k] = c
        BY <2>1, <2>2, <3>2 DEF Beside, Tunnelled, Reached, TypeOK
      <3>5. owner'["large"] = c /\ tunnels' = {c}
        BY <1>0, <2>1, <3>1, <3>2 DEF Beside, TypeOK
      <3>6. Overtaken(c, t)'
        BY <1>0, <3>1, <3>3, <3>4, <3>5 DEF Overtaken, Tunnelled, Reached
      <3> QED
        BY <2>3, <3>6 DEF InTurn
    <2> QED
      BY <2>6, <2>7
  <1>4. CASE u \in {c, t} /\ ~Start(t) /\ ~Check(t) /\ ~Open(t)
    <2>1. /\ ~Start(c) /\ ~Check(c) /\ ~Open(c)
          /\ \A v \in {c, t} : ~Install(v) /\ ~Own(v) /\ ~Accept(v) /\ ~Yield(v)
                               /\ ~ReadEnd(v) /\ ~TunnelDown(v)
      BY DEF Beside, Tunnelled, Reached, Start, Check, Open, Install, Own, Goes, Accept, Yield,
             ReadEnd, TunnelDown
    <2>2. \A v \in Tries : ~Begin(v)
      BY InOrder DEF Beside, Quiet
    <2> QED
      BY <1>4, <2>1, <2>2 DEF Add, Serve
  <1>5. CASE u \notin {c, t}
    <2>1. ReadEnd(u) \/ TunnelDown(u)
      <3>1. ~Begin(u)
        BY InOrder DEF Beside, Quiet
      <3> QED
        BY <1>p, <1>5, <3>1, PastIsQuiet DEF Add, Serve
    <2>2. CASE ReadEnd(u)
      <3>1. /\ UNCHANGED <<step, ssh, tunnels, owner, closed>>
            /\ \A v \in {c, t} : near'[v] = near[v] /\ far'[v] = far[v]
        BY <1>5, <2>2, Reading
      <3>2. \A v \in Tries \ {c, t} :
                /\ near'[v] = near[v] \/ (near[v] = "open" /\ near'[v] = "closed")
                /\ far'[v] = far[v] \/ (far[v] = "open" /\ far'[v] = "closed")
        BY <2>2, Reading DEF TypeOK
      <3>3. Past({c, t})'
        BY <1>p, <3>1, <3>2, PastKept DEF Past
      <3>4. \A k \in Hosts : current'[k] = c
        BY <1>0, <1>5, <2>2, Sides, Reading DEF Unlink, TypeOK, Beside
      <3>5. Beside(c, t)'
        BY <3>1, <3>3, <3>4 DEF Beside, Tunnelled, Reached
      <3> QED
        BY <2>2, <3>5, ReadingKeepsLinks DEF InTurn
    <2>3. CASE TunnelDown(u)
      <3>1. UNCHANGED <<step, ssh, near, far, current, owner, tunnels, closed, trouble>>
        BY <1>p, <1>5, <2>3, PastIsQuiet
      <3>2. Past({c, t})'
        BY <1>p, <3>1 DEF Past, Fresh, Gone
      <3>3. Beside(c, t)'
        BY <3>1, <3>2 DEF Beside, Tunnelled, Reached
      <3>4. LinksAreConnected'
        BY <3>1 DEF LinksAreConnected, End
      <3> QED
        BY <3>3, <3>4 DEF InTurn
    <2> QED
      BY <2>1, <2>2, <2>3
  <1> QED
    BY <1>1, <1>2, <1>3, <1>4, <1>5

\* The larger host's link is overtaken: its tunnel is closed once that host has
\* accepted the other link and yielded.
LEMMA OvertakenSteps ==
    ASSUME TypeOK, Known, LinksAreConnected,
           NEW c \in Tries, NEW t \in Tries, Overtaken(c, t),
           NEW u \in Tries, Add(u) \/ Serve(u), trouble' = {}
    PROVE  LinksAreConnected' /\ InTurn'
  <1> USE TryAssumption
  <1>0. /\ By(c) = "large" /\ By(t) = "small" /\ Hosts = {"small", "large"}
        /\ Peer("small") = "large" /\ Peer("large") = "small" /\ c # t
    BY Sides DEF Overtaken
  <1>p. Past({c, t})
    BY DEF Overtaken
  <1>q. near[t] = "open" /\ ssh[t] = "up" /\ far[t] \in {"none", "accepted"} /\ ssh[c] = "up"
        /\ step[c] = "done" /\ step[t] \in {"opened", "installed", "done"}
    BY DEF Overtaken, Reached, Tunnelled
  <1>1. CASE Install(t)
    <2>1. /\ step[t] = "opened" /\ step' = [step EXCEPT ![t] = "installed"]
          /\ current' = [current EXCEPT !["small"] = t]
          /\ UNCHANGED <<ssh, tunnels, owner, closed>>
          /\ current["small"] \in {c, NoTry}
          /\ \A v \in Tries :
                /\ near'[v] = near[v]
                /\ far'[v] = IF v = current["small"] THEN "closed" ELSE far[v]
      BY <1>0, <1>1 DEF Install, Goes, Drop, transport, Overtaken, Reached
    <2>2. Past({c, t})'
      <3>1. \A v \in Tries \ {c, t} : step'[v] = step[v] /\ near'[v] = near[v] /\ far'[v] = far[v]
        BY <2>1 DEF TypeOK
      <3> QED
        BY <1>p, <2>1, <3>1, PastKept DEF Past
    <2>3. /\ step'[t] = "installed" /\ current'["small"] = t
          /\ current'["large"] = current["large"] /\ far'[t] = far[t]
          /\ far'[c] \in {far[c], "closed"} /\ step'[c] = step[c]
      BY <1>0, <2>1 DEF TypeOK
    <2>4. Overtaken(c, t)'
      BY <2>1, <2>2, <2>3 DEF Overtaken, Tunnelled, Reached
    <2>5. LinksAreConnected'
      <3>1. End("small", t)' = "open"
        BY <1>0, <1>q, <2>1 DEF End
      <3>2. ASSUME current["large"] # NoTry
            PROVE  End("large", current["large"])' \in {"accepted", "open"}
        BY <1>0, <2>1, <2>3, <3>2 DEF End, LinksAreConnected, Overtaken
      <3> QED
        BY <1>0, <2>3, <3>1, <3>2 DEF LinksAreConnected
    <2> QED
      BY <2>4, <2>5 DEF InTurn
  <1>2. CASE Own(t)
    <2>1. /\ step[t] = "installed" /\ step' = [step EXCEPT ![t] = "done"]
          /\ owner' = [owner EXCEPT !["small"] = t] /\ tunnels' = {c, t}
          /\ UNCHANGED <<ssh, near, far, current, closed>>
      BY <1>0, <1>2 DEF Own, Goes, link, Overtaken, SameLabel, Mine
    <2>2. Past({c, t})'
      BY <1>p, <2>1, PastKept DEF Past, TypeOK
    <2>3. Overtaken(c, t)'
      BY <1>0, <2>1, <2>2 DEF Overtaken, Tunnelled, Reached, TypeOK
    <2>4. LinksAreConnected'
      BY <2>1 DEF LinksAreConnected, End
    <2> QED
      BY <2>3, <2>4 DEF InTurn
  <1>3. CASE Accept(t)
    <2>1. /\ far[t] = "none" /\ current["large"] \in {c, NoTry}
          /\ current' = [current EXCEPT !["large"] = t]
          /\ UNCHANGED <<step, ssh, tunnels, owner, closed>>
          /\ \A v \in Tries :
                /\ far'[v] = IF v = t THEN "accepted" ELSE far[v]
                /\ near'[v] = IF v = current["large"] THEN "closed" ELSE near[v]
      BY <1>0, <1>3 DEF Accept, transport, Overtaken, TypeOK
    <2>2. Past({c, t})'
      <3>1. \A v \in Tries \ {c, t} : near'[v] = near[v] /\ far'[v] = far[v]
        BY <2>1
      <3> QED
        BY <1>p, <2>1, <3>1, PastKept DEF Past
    <2>3. /\ current'["large"] = t /\ current'["small"] = current["small"]
          /\ near'[t] = "open" /\ far'[t] = "accepted"
          /\ near'[c] \in {near[c], "closed"} /\ far'[c] = far[c]
      BY <1>0, <1>q, <2>1 DEF TypeOK
    <2>4. Overtaken(c, t)'
      BY <2>1, <2>2, <2>3 DEF Overtaken, Tunnelled, Reached
    <2>5. LinksAreConnected'
      <3>1. End("large", t)' = "accepted"
        BY <1>0, <2>3 DEF End
      <3>2. ASSUME current["small"] # NoTry
            PROVE  End("small", current["small"])' \in {"accepted", "open"}
        <4>1. CASE current["small"] = c
          BY <1>0, <2>3, <3>2, <4>1 DEF End, LinksAreConnected
        <4>2. CASE current["small"] = t
          BY <1>0, <2>3, <4>2 DEF End
        <4> QED
          BY <3>2, <4>1, <4>2 DEF Overtaken
      <3> QED
        BY <1>0, <2>3, <3>1, <3>2 DEF LinksAreConnected
    <2> QED
      BY <2>4, <2>5 DEF InTurn
  <1>4. CASE Yield(t)
    <2>1. PICK redundant \in TunnelFor("large") : tunnels' = tunnels \ redundant /\ Close(redundant)
      BY <1>0, <1>4 DEF Yield
    <2>2. redundant = {c}
      <3>1. tunnels \cap Mine("large") = {c}
        BY <1>0 DEF Overtaken, Mine
      <3> QED
        BY <1>0, <2>1, <3>1, TunnelForHost
    <2>3. /\ far[t] = "accepted" /\ far' = [far EXCEPT ![t] = "open"]
          /\ owner' = [owner EXCEPT !["large"] = NoTry]
          /\ closed' = closed \cup {c} /\ tunnels' = {v \in {t} : step[v] = "done"}
          /\ \A v \in Tries : ssh'[v] = IF v = c /\ ssh[v] = "up" THEN "dead" ELSE ssh[v]
          /\ UNCHANGED <<step, near, current>>
      BY <1>0, <1>4, <2>1, <2>2 DEF Yield, Close, Overtaken
    <2>4. \A v \in Tries \ {c, t} : Fresh(v)' \/ Gone(v)'
      BY <1>p, <2>3, PastKept DEF TypeOK, Overtaken
    <2>5. Gone(c)'
      BY <1>0, <1>q, <2>3 DEF Gone, Overtaken, TypeOK
    <2>6. Past({t})'
      BY <2>4, <2>5 DEF Past
    <2>7. /\ far'[t] = "open" /\ ssh'[t] = "up" /\ near'[t] = "open"
          /\ owner'["small"] = owner["small"]
      BY <1>0, <1>q, <2>3 DEF TypeOK
    <2>8. Alone(t)'
      BY <1>0, <1>q, <2>3, <2>6, <2>7 DEF Alone, Overtaken, Tunnelled, Reached, Active
    <2>9. LinksAreConnected'
      BY <2>3 DEF LinksAreConnected, End, TypeOK
    <2> QED
      BY <2>8, <2>9 DEF InTurn
  <1>5. CASE ReadEnd(u)
    <2>1. u # t
      BY <1>5, <1>q DEF ReadEnd
    <2>2. /\ UNCHANGED <<step, ssh, tunnels, owner, closed>>
          /\ near'[t] = near[t] /\ far'[t] = far[t]
      BY <1>5, <2>1, Reading
    <2>3. \A v \in Tries :
                /\ near'[v] = near[v] \/ (near[v] = "open" /\ near'[v] = "closed")
                /\ far'[v] = far[v] \/ (far[v] = "open" /\ far'[v] = "closed")
      BY <1>5, Reading DEF TypeOK
    <2>4. Past({c, t})'
      BY <1>p, <2>2, <2>3, PastKept DEF Past
    <2>5. \A k \in Hosts : /\ current[k] = t => current'[k] = t
                           /\ current'[k] \in {current[k], NoTry}
      BY <1>0, <1>5, <2>1, Sides, Reading DEF Unlink, TypeOK
    <2>6. Overtaken(c, t)'
      BY <1>0, <2>2, <2>3, <2>4, <2>5 DEF Overtaken, Tunnelled, Reached
    <2> QED
      BY <1>5, <2>6, ReadingKeepsLinks DEF InTurn
  <1>6. CASE TunnelDown(u)
    <2>1. u \notin {c, t}
      BY <1>6, <1>q DEF TunnelDown
    <2>2. UNCHANGED <<step, ssh, near, far, current, owner, tunnels, closed, trouble>>
      BY <1>6, <1>p, <2>1, PastIsQuiet
    <2>3. Past({c, t})'
      BY <1>p, <2>2 DEF Past, Fresh, Gone
    <2>4. Overtaken(c, t)'
      BY <2>2, <2>3 DEF Overtaken, Tunnelled, Reached
    <2>5. LinksAreConnected'
      BY <2>2 DEF LinksAreConnected, End
    <2> QED
      BY <2>4, <2>5 DEF InTurn
  <1>7. ~Begin(u) /\ ~Start(u) /\ ~Check(u) /\ ~Open(u)
    <2>1. ~Quiet
      BY <1>q DEF Quiet
    <2>2. CASE u \in {c, t}
      BY <1>q, <2>1, <2>2, InOrder DEF Start, Check, Open, Goes
    <2>3. CASE u \notin {c, t}
      BY <1>p, <2>1, <2>3, InOrder, PastIsQuiet
    <2> QED
      BY <2>2, <2>3
  <1>8. CASE u # t
    <2>1. ~Install(u) /\ ~Own(u) /\ ~Accept(u) /\ ~Yield(u)
      <3>1. CASE u = c
        BY <1>q, <3>1 DEF Install, Own, Goes, Accept, Yield, Overtaken
      <3>2. CASE u \notin {c, t}
        BY <1>p, <3>2, PastIsQuiet
      <3> QED
        BY <1>8, <3>1, <3>2
    <2> QED
      BY <1>5, <1>6, <1>7, <2>1 DEF Add, Serve
  <1> QED
    BY <1>1, <1>2, <1>3, <1>4, <1>5, <1>6, <1>7, <1>8 DEF Add, Serve

-----------------------------------------------------------------------------
(* The invariant                                                           *)

LEMMA StepTurn ==
    ASSUME TypeOK, Known, trouble = {} => LinksAreConnected /\ InTurn,
           [Next]_vars, trouble' = {}
    PROVE  LinksAreConnected' /\ InTurn'
  <1>1. CASE UNCHANGED vars
    <2>1. UNCHANGED <<step, ssh, near, far, current, tunnels, owner, closed, trouble>>
      BY <1>1 DEF vars, link, transport
    <2>2. LinksAreConnected'
      BY <2>1 DEF LinksAreConnected, End
    <2>3. \A live : Past(live) => Past(live)'
      BY <2>1 DEF Past, Fresh, Gone
    <2>4. \A t \in Tries : Fresh(t) => Fresh(t)'
      BY <2>1 DEF Fresh
    <2>5. \A t \in Tries : Alone(t) => Alone(t)'
      BY <2>1, <2>3 DEF Alone, Tunnelled, Reached
    <2>6. \A c, t \in Tries : Beside(c, t) => Beside(c, t)'
      BY <2>1, <2>3 DEF Beside, Tunnelled, Reached
    <2>7. \A c, t \in Tries : Overtaken(c, t) => Overtaken(c, t)'
      BY <2>1, <2>3 DEF Overtaken, Tunnelled, Reached
    <2> QED
      BY <2>1, <2>2, <2>4, <2>5, <2>6, <2>7 DEF InTurn
  <1>2. CASE ~UNCHANGED vars
    <2>1. PICK u \in Tries : Add(u) \/ Serve(u)
      <3>1. Next
        BY <1>2
      <3>2. \A h \in Hosts : ~Restart(h)
        BY DEF Restart, Disturb
      <3> QED
        BY <3>1, <3>2, InOrder DEF Next
    <2>2. LinksAreConnected /\ InTurn
      BY <2>1, InOrder
    <2>3. CASE \A t \in Tries : Fresh(t)
      BY <2>1, <2>2, <2>3, FirstBegins
    <2>4. ASSUME NEW t \in Tries, Alone(t) PROVE LinksAreConnected' /\ InTurn'
      <3>1. CASE Begin(u)
        BY <2>2, <2>4, <3>1, AloneBegins
      <3>2. CASE Start(u) \/ Check(u) \/ Open(u) \/ Install(u) \/ Own(u)
        <4>1. u = t
          BY <2>4, <3>2, PastIsQuiet DEF Alone
        <4> QED
          BY <2>2, <2>4, <3>2, <4>1, AloneAdds
      <3>3. CASE Serve(u)
        BY <2>2, <2>4, <3>3, AloneServes
      <3> QED
        BY <2>1, <3>1, <3>2, <3>3 DEF Add
    <2>5. ASSUME NEW c \in Tries, NEW t \in Tries, Beside(c, t) \/ Overtaken(c, t)
          PROVE  LinksAreConnected' /\ InTurn'
      BY <2>1, <2>2, <2>5, BesideSteps, OvertakenSteps
    <2> QED
      BY <2>2, <2>3, <2>4, <2>5 DEF InTurn
  <1> QED
    BY <1>1, <1>2

\* Every state of two brokers that add each other has the types of its variables,
\* owners that are known, and, when nothing has disturbed the adds, one of the
\* phases they go through.
THEOREM Invariance == Spec => []IInv
  <1>1. Init => IInv
    BY InitTypes, InitTurn DEF IInv
  <1>2. IInv /\ [Next]_vars => IInv'
    BY StepType, StepKnown, StepTurn DEF IInv
  <1> QED
    BY <1>1, <1>2, PTL DEF Spec

\* Type correctness: each add, link and tunnel is in one of the states the code
\* gives it (PeerTransport, PeerTunnel, PeerLink).
THEOREM Typing == Spec => []TypeOK
  <1>1. IInv => TypeOK
    BY DEF IInv
  <1> QED
    BY <1>1, Invariance, PTL

-----------------------------------------------------------------------------
(* What follows                                                            *)

\* Whatever overlaps, exits, is removed or restarts, the tunnel that owns a host's
\* link (_peer_owner) is one of those a remove can find (_tunnels).
THEOREM OwnersAreKnown == Spec => []OwnerIsKnown
  <1>1. IInv => OwnerIsKnown
    BY DEF IInv, Known, OwnerIsKnown
  <1> QED
    BY <1>1, Invariance, PTL

\* The exit of a tunnel its broker closed (_tunnel_down) drops no link.
THEOREM ClosedTunnelsAreSilent == Spec => ClosedTunnelIsSilent
  <1>1. IInv => [\A t \in closed : TunnelDown(t) => UNCHANGED link]_vars
    BY Sides, TryAssumption DEF IInv, TypeOK, Known, TunnelDown
  <1> QED
    BY <1>1, Invariance, PTL DEF ClosedTunnelIsSilent

\* When all is quiet after adds that nothing disturbed, one add has the only tunnel
\* and its link is the one both hosts use; or none has begun.
LEMMA Settled ==
    ASSUME IInv, Quiet, trouble = {}
    PROVE  \/ tunnels = {} /\ ~Added
           \/ \E t \in Tries : tunnels = {t} /\ Linked
  <1>1. CASE \A t \in Tries : Fresh(t)
    BY <1>1 DEF IInv, TypeOK, Fresh, Added
  <1>2. ASSUME NEW t \in Tries, Alone(t) PROVE tunnels = {t} /\ Linked
    <2>1. step[t] = "done"
      BY <1>2 DEF Quiet, Alone, Active
    <2>2. near[t] = "open" /\ far[t] = "open"
      BY <1>2, <2>1 DEF Quiet, Alone, Tunnelled, Reached
    <2>3. current[By(t)] = t /\ current[Peer(By(t))] = t /\ tunnels = {t}
      BY <1>2, <2>1, <2>2 DEF Alone, Reached
    <2>4. \A h \in Hosts : current[h] = t
      BY <2>3, Sides
    <2> QED
      BY <2>2, <2>3, <2>4, TryAssumption DEF Linked, End, Hosts
  <1>3. ASSUME NEW c \in Tries, NEW t \in Tries PROVE ~Beside(c, t) /\ ~Overtaken(c, t)
    BY DEF Quiet, Beside, Overtaken, Tunnelled, Reached
  <1> QED
    BY <1>1, <1>2, <1>3 DEF IInv, InTurn

\* Any number of adds, one after the other, by either host and under either label,
\* leave the pair linked.
THEOREM UndisturbedAddsSettle == Spec => []AddsSettle
  <1>1. IInv => AddsSettle
    BY Settled DEF AddsSettle
  <1> QED
    BY <1>1, Invariance, PTL

\* They leave one tunnel, so one of the hosts has none.
THEOREM OneTunnelStays == Spec => []OneSideKeepsTunnel
  <1>1. IInv => OneSideKeepsTunnel
    BY Settled DEF OneSideKeepsTunnel, Mine, Hosts
  <1> QED
    BY <1>1, Invariance, PTL
=============================================================================
