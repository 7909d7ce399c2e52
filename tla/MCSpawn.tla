------------------------------- MODULE MCSpawn -------------------------------
(***************************************************************************)
(* Spawn for TLC: one request from its start, beside one that has found no *)
(* provider and goes on to the broker's own host.                          *)
(***************************************************************************)
EXTENDS Spawn

CONSTANTS k1, k2

MCInit ==
    /\ request = [k \in Keys |-> IF k = k1 THEN "new" ELSE "collecting"]
    /\ live = FALSE
    /\ session = [k \in Keys |-> "none"]
    /\ keeper = [k \in Keys |-> "none"] /\ child = [k \in Keys |-> "none"]
    /\ spec = {} /\ old = {} /\ state = {} /\ signalled = {}
    /\ unsure = {} /\ unseen = {}

MCSpec == MCInit /\ [][Next]_vars /\ Fairness
=============================================================================
