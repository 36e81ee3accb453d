---------------------------- MODULE MCPlacement ----------------------------
(* Model-checking instances of Placement. *)
EXTENDS Placement, TLC

CONSTANTS r1, r2, r3, v1, v2, v3

\* Every request has an identifier of its own (the API generates one), or all
\* share one (the caller may choose it).
OwnID == [r \in Req |-> CASE r = r1 -> v1 [] r = r2 -> v2 [] OTHER -> v3]
SharedID == [r \in Req |-> v1]

Own == {OwnID}
OwnOrShared == {OwnID, SharedID}

\* Requests with identifiers of their own are interchangeable, each together with
\* its identifier.
Swap(r, s, v, w) == r :> s @@ s :> r @@ v :> w @@ w :> v
Rotate == r1 :> r2 @@ r2 :> r3 @@ r3 :> r1 @@ v1 :> v2 @@ v2 :> v3 @@ v3 :> v1
Symmetry == {Swap(r1, r2, v1, v2), Swap(r1, r3, v1, v3), Swap(r2, r3, v2, v3), Rotate,
              r1 :> r3 @@ r3 :> r2 @@ r2 :> r1 @@ v1 :> v3 @@ v3 :> v2 @@ v2 :> v1}
=============================================================================
