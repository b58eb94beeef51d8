---- MODULE MCReplication ----
EXTENDS Replication
CONSTANTS k1, d1

On(d) == [enabled |-> TRUE, keys |-> {k1}, dest |-> d]
Off(d) == [enabled |-> FALSE, keys |-> {k1}, dest |-> d]

\* One rule that is enabled behind a disabled one.
Lists == {<<Off(d1), On(d1)>>}
====
