---- MODULE MCWebhooks ----
EXTENDS Webhooks, TLC
CONSTANTS t1, t2

\* t1 has the pattern s3:ObjectCreated:*, t2 has s3:*.
Patterns == (t1 :> {"ObjectCreated"}) @@ (t2 :> Events)
====
