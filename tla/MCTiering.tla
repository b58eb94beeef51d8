---- MODULE MCTiering ----
EXTENDS Tiering, TLC
CONSTANTS c1, c2

Callers == {c1, c2}
Swap == Permutations(Callers)
====
