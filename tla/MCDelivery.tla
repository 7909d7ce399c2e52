----------------------------- MODULE MCDelivery -----------------------------
(***************************************************************************)
(* Delivery for TLC: three messages, two successive holds of the target,   *)
(* one crash of the broker, an extension that remembers two ids.  Messages *)
(* and holds are interchangeable.                                          *)
(***************************************************************************)
EXTENDS Delivery, TLC

Symmetry == Permutations(Msgs) \cup Permutations(Conns)
=============================================================================
