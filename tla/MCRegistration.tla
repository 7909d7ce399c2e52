--------------------------- MODULE MCRegistration ---------------------------
(***************************************************************************)
(* A small team for TLC: a fork's hold that restarts (c1, c2: same id,     *)
(* token and session), and the user's main session registering first under *)
(* the fork's id with a token of its own (c3), then under a fresh id       *)
(* without one (c4), as a reload that lost its identity does.              *)
(***************************************************************************)
EXTENDS Registration

CONSTANTS a1, a2, c1, c2, c3, c4, o1, o2, t1, t2

MCIdOf == [c \in Conns |-> IF c = c4 THEN a2 ELSE a1]
MCRoleOf == [c \in Conns |-> IF c \in {c3, c4} THEN "main" ELSE "fork"]
MCTokenOf == [c \in Conns |-> CASE c = c3 -> t2 [] c = c4 -> NoToken [] OTHER -> t1]
MCOwnerOf == [c \in Conns |-> IF c \in {c3, c4} THEN o2 ELSE o1]
=============================================================================
