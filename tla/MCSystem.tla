----------------------------- MODULE MCSystem -----------------------------
(* Model-checking instance of System. *)
EXTENDS System

\* A request may leave the TTL open or ask for too much, or for so much that the product
\* wraps around to a fraction of a millisecond.
Ask(ms) == [vcpus |-> FixedVCPUs, mem |-> FixedMemMiB, ttl |-> ms]
AskTTLs == {[v \in VM |-> Ask(ms)] : ms \in {0, 3, 11}}
=============================================================================
