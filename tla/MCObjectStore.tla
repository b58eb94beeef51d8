---------------------------- MODULE MCObjectStore ---------------------------
(* Small instances of the storage engine for TLC. *)
EXTENDS ObjectStoreProps, TLC

CONSTANTS b1, k1, k2, x, y, v1, v2, v3, p1, p2

\* One bucket, so that requests collide.
OneBucket == [k \in Keys |-> b1]

\* Bodies of different lengths, so that a wrong delta shows.
Sizes == [b \in Bodies |-> IF b = x THEN 1 ELSE 2]

NoQuota == {<<0, 0>>}
SomeQuotas == {<<0, 0>>, <<3, 2>>}

\* Chunked uploads carry no Content-Length.
Chunked == {-1}

\* Version ids and request slots are interchangeable, bodies are not.
Symmetric == Permutations(VersionIds) \cup Permutations(Requests)

\* The operations of each run.
VersionedLoad == {"put", "get", "getVersion", "delete", "deleteVersion",
                  "copy", "tag", "setVersioning"}
EveryOperation == Operations
AccountedLoad == {"put", "get", "getVersion", "delete", "deleteVersion",
                  "tag", "setConfig", "deleteBucket"}
=============================================================================
