------------------------------- MODULE MCQEMU -------------------------------
(* Model-checking instances of QEMU. *)
EXTENDS QEMU

CONSTANTS c3, v1, v3

\* The first two Starts share an identifier.
SharedID == [c \in Call |-> IF c = c3 THEN v3 ELSE v1]
=============================================================================
