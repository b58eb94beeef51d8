---- MODULE MCLifecycle ----
EXTENDS Lifecycle

\* Key 1 lies before the prefix of the others; below it key 3 has a delimiter.
All == Keys
Photos == 2..NKeys
SomePrefixes == {All, Photos}
Folders == [p \in SomePrefixes |-> [k \in Keys |-> IF k = NKeys THEN 1 ELSE 0]]

\* The bucket's name sorts before every key or behind all of them.
AllOrNone == {{}, Keys}

Expire(p, t) == [enabled |-> TRUE, prefix |-> p, tags |-> t, days |-> 1, abortDays |-> 0]
AbortOld == [enabled |-> TRUE, prefix |-> All, tags |-> FALSE, days |-> 0, abortDays |-> 1]
Disabled == [Expire(All, FALSE) EXCEPT !.enabled = FALSE]

Lists == {<<Disabled, Expire(Photos, TRUE), AbortOld>>, <<Expire(All, FALSE)>>}
====
