---------------------------- MODULE MCIdempotency ----------------------------
EXTENDS Idempotency, TLC

CONSTANTS r1, r2, r3, r4, k1, k2, a, b

\* Three submits of one call, spread over two processes, and another call.
MCKeyOf == (r1 :> k1) @@ (r2 :> k1) @@ (r3 :> k1) @@ (r4 :> k2)
MCAt == (r1 :> a) @@ (r2 :> a) @@ (r3 :> b) @@ (r4 :> b)
=============================================================================
