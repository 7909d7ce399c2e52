------------------------------ MODULE Requests ------------------------------
(***************************************************************************)
(* What a broker promises the client whose request it forwards to a peer   *)
(* broker: what each answer is worth.  The peer handles a request at most  *)
(* once.  A client told "ok" or "refused" is told it of a request that was *)
(* handled: "ok" of one carried out, but for a relay, which the peer may   *)
(* have failed to write; "refused" of one that was not, but for a spawn,   *)
(* which may have left its teammate running.  A request given up may have  *)
(* been handled, or still be, unless the client is told so twice: that one *)
(* never left.  There is no other second answer, and no promise of a first. *)
(***************************************************************************)
EXTENDS Sequences

CONSTANTS Reqs, Relays, Spawns

VARIABLES
    answers,    \* what each client was told, in order
    outcome     \* what became of each request at the peer

GivenUp == <<"undeliverable">>

Init ==
    /\ answers = [r \in Reqs |-> <<>>]
    /\ outcome = [r \in Reqs |-> "none"]

Tell(r, answer) ==
    /\ answers' = [answers EXCEPT ![r] = Append(@, answer)]
    /\ UNCHANGED outcome

Handle(r) ==
    /\ outcome[r] = "none" /\ answers[r] \in {<<>>, GivenUp}
    /\ \E how \in {"done", "failed"} : outcome' = [outcome EXCEPT ![r] = how]
    /\ UNCHANGED answers

Confirm(r) ==
    /\ answers[r] = <<>>
    /\ outcome[r] = "done" \/ (r \in Relays /\ outcome[r] = "failed")
    /\ Tell(r, "ok")

Refuse(r) ==
    /\ answers[r] = <<>>
    /\ outcome[r] = "failed" \/ (r \in Spawns /\ outcome[r] = "done")
    /\ Tell(r, "refused")

GiveUp(r) ==
    /\ answers[r] = <<>> \/ (answers[r] = GivenUp /\ outcome[r] = "none")
    /\ Tell(r, "undeliverable")

Next == \E r \in Reqs : Handle(r) \/ Confirm(r) \/ Refuse(r) \/ GiveUp(r)

Spec == Init /\ [][Next]_<<answers, outcome>>
=============================================================================
