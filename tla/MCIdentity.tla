---- MODULE MCIdentity ----
EXTENDS Identity, TLC
CONSTANTS c1, c2

Callers == {c1, c2}
Swap == Permutations(Callers)

\* Slow and fast: cut to the second, stamps are within the skew or beyond it
\* on either side, and while a call waits, a tick takes them across its edge.
ClientClocks == {-2, 3}

\* The secret of the first start, and another.
Configured == {1, 5}
====
