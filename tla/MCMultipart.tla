----------------------------- MODULE MCMultipart ----------------------------
(* Small instances of multipart uploads for TLC. *)
EXTENDS Multipart

CONSTANTS u1, u2, x, y, p1, p2

\* Bodies of different lengths, so that a wrong size shows.
Sizes == [b \in Bodies |-> IF b = x THEN 1 ELSE 2]

Symmetric == Permutations(Uploads) \cup Permutations(Requests)
=============================================================================
