---------------------------- MODULE MCServiceStart ----------------------------
(* ServiceStart with a negative, a zero and a positive count, on environments *)
(* that vary the logging names, the limits or the KeyVal server, each against *)
(* the defaults of the others.                                                *)
EXTENDS ServiceStart

Counts == {-1, 0, 1}

Nothing == [n \in Names |-> Unset]

Environment(p, f) ==
  [process |-> [n \in Names |-> IF n \in DOMAIN p THEN p[n] ELSE Unset],
   file |-> [n \in Names |-> IF n \in DOMAIN f THEN f[n] ELSE Unset]]

Varied(names, values) == {Environment(p, f) : p, f \in [names -> values]}

Logging ==
  {Environment([DEBUGGING |-> d, LOGGER |-> l], [DEBUGGING |-> e, LOGGER |-> m]) :
     d \in {Unset, "", "true", "false"}, l \in {Unset, " ", "loud", "ERROR"},
     e \in {Unset, "", "true"}, m \in {Unset, "WARNING"}}

SomeEnvironments ==
  Logging
  \cup Varied({"PROXY_TRANSLATION_MAX_USE_COUNT"}, {Unset, "", "many", "0", "7"})
  \cup Varied({"PROXY_TRANSLATION_MIN_HEALTH_COUNT"}, {Unset, " ", "0", "7", "-2"})
  \cup Varied({"KEY_VAL_BASE_URL", "KEY_VAL_AUTH_TOKEN"}, {Unset, "", "own"})

SomeArguments ==
  {[level |-> "WARM", max |-> "0", min |-> "7"], [level |-> "", max |-> "7", min |-> "-2"]}

Numerals == [text \in {"0", "7", "-2"} |->
               IF text = "0" THEN 0 ELSE IF text = "7" THEN 7 ELSE -2]
=============================================================================
