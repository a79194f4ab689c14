------------------------- MODULE MCCandidateValidation -------------------------
(* CandidateValidation with a few addresses of different lengths. *)
EXTENDS CandidateValidation

Addresses == 1 .. 4

\* With a limit of 14 the third address is too long to be saved at all; the
\* other three fit together.
AddressSize(p) == <<1, 2, 12, 1>>[p]
=============================================================================
