----------------------------- MODULE CounterCycle -----------------------------
(***************************************************************************)
(* What the translation counter promises: successes minus proxy failures   *)
(* since the last fresh discovery, each completed translation counted once *)
(* and none once the pool's cycle has reached a limit.                     *)
(***************************************************************************)
EXTENDS Integers

CONSTANTS MaxUse, MinHealth, Totals

VARIABLES
  total,       \* successes minus proxy-caused failures in this cycle
  pending,     \* the sign of the result being recorded, 0 when there is none
  discovered   \* a search has found a working list and starts a new cycle

vars == <<total, pending, discovered>>

Exhausted == total >= MaxUse \/ total <= MinHealth

Init ==
  /\ total \in Totals
  /\ pending = 0
  /\ discovered = FALSE

Begin ==
  /\ pending = 0
  /\ pending' \in {-1, 1}
  /\ UNCHANGED <<total, discovered>>

Record ==
  /\ pending # 0
  /\ total' = IF Exhausted THEN total ELSE total + pending
  /\ pending' = 0
  /\ UNCHANGED discovered

Discover ==
  /\ pending = 0
  /\ discovered' = TRUE
  /\ UNCHANGED <<total, pending>>

NewCycle ==
  /\ discovered
  /\ total' = 0
  /\ discovered' = FALSE
  /\ UNCHANGED pending

Next == Begin \/ Record \/ Discover \/ NewCycle

Spec == Init /\ [][Next]_vars
=============================================================================
