----------------------------- MODULE MCPoolLookup -----------------------------
(* PoolLookup with one worker that reports, alone or beside a second one. *)
EXTENDS PoolLookup

CONSTANTS a, b

One == {a}
Two == {a, b}
MinusOne == -1
Seeded == {0, 1}
=============================================================================
