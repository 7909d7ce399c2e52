-------------------------------- MODULE Mail --------------------------------
(***************************************************************************)
(* What the broker's store-and-forward promises the two ends of a send: no *)
(* message arrives at the session a second time while the extension that   *)
(* was shown it is loaded and it is among the last Window shown, and a     *)
(* sender told "undeliverable" may send it elsewhere, for it never arrives. *)
(* Arrival may come before the sender's answer; neither is promised, a     *)
(* message may expire or be lost with the connection it was written to.    *)
(***************************************************************************)
EXTENDS Naturals, Sequences

CONSTANTS
    Msgs,
    Window      \* the ids the extension remembers

VARIABLES
    answer,     \* what the sender of each message was told
    arrived,    \* the messages the session was shown, oldest first
    start       \* how many of them an earlier load of the extension showed

Arrived(m) == \E i \in 1..Len(arrived) : arrived[i] = m

\* One of the last Window messages that this load of the extension showed.
Recent(m) ==
    \E i \in (start + 1)..Len(arrived) : Len(arrived) - i < Window /\ arrived[i] = m

Init ==
    /\ answer = [m \in Msgs |-> "none"]
    /\ arrived = <<>>
    /\ start = 0

Accept(m) ==
    /\ answer[m] = "none"
    /\ answer' = [answer EXCEPT ![m] = "accepted"]
    /\ UNCHANGED <<arrived, start>>

Refuse(m) ==
    /\ answer[m] = "none" /\ ~Arrived(m)
    /\ answer' = [answer EXCEPT ![m] = "refused"]
    /\ UNCHANGED <<arrived, start>>

Arrive(m) ==
    /\ answer[m] # "refused" /\ ~Recent(m)
    /\ arrived' = Append(arrived, m)
    /\ UNCHANGED <<answer, start>>

\* The extension is loaded again and remembers nothing.
Renew ==
    /\ start' = Len(arrived)
    /\ UNCHANGED <<answer, arrived>>

Next ==
    \/ \E m \in Msgs : Accept(m) \/ Refuse(m) \/ Arrive(m)
    \/ Renew

Spec == Init /\ [][Next]_<<answer, arrived, start>>
=============================================================================
