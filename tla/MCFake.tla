------------------------------- MODULE MCFake -------------------------------
(* Model-checking instances of Fake. *)
EXTENDS Fake

CONSTANTS c3, c4, v1, v2, v3

\* The first two Starts share an identifier.
SharedID == [c \in Call |-> CASE c = c3 -> v2 [] c = c4 -> v3 [] OTHER -> v1]
=============================================================================
