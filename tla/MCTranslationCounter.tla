------------------------- MODULE MCTranslationCounter -------------------------
(* TranslationCounter on small sets of workers, limits and failures. *)
EXTENDS TranslationCounter, TLC

CONSTANTS a, b

Two == {a, b}
One == {a}
MinusOne == -1
MinusTwo == -2
WorkerSymmetry == Permutations(Two)
StoredBefore == {0, 3}
StoredFar == {-3, 1, 4}
=============================================================================
