--------------------------- MODULE ServiceStartProofs ---------------------------
(***************************************************************************)
(* Theorems about KeyValClient and ServiceStart for every environment and  *)
(* file, every set of arguments, every set of counts and every reading of  *)
(* a text as a number.                                                     *)
(***************************************************************************)
EXTENDS ServiceStart, TLAPS

(***************************************************************************)
(* What the client makes of a reply.                                       *)
(***************************************************************************)

\* A failure is neither an absent counter nor a number, unless it looks just like
\* the reply for a missing key.
LEMMA FailuresFallBack ==
  ASSUME NEW r \in Failures \ Lookalikes
  PROVE  CounterSource(r) = "local-fallback"
  <1>1. CASE r = Failure("unreachable")
    BY <1>1 DEF Failure, CounterSource, GetValue, SendGetRequest, Error
  <1>2. CASE r = Failure("undecodable")
    BY <1>2 DEF Failure, CounterSource, GetValue, SendGetRequest, Raised
  <1>3. CASE r = HttpError(500)
    BY <1>3 DEF HttpError, CounterSource, GetValue, SendGetRequest, Error
  <1>4. CASE r = Dict("-ERROR-", None)
    BY <1>4, ValuesAssumption
    DEF Dict, CounterSource, GetValue, SendGetRequest, ProviderError, Status, Error
  <1>5. CASE r = Dict(None, Text)
    BY <1>5, ValuesAssumption
    DEF Dict, CounterSource, GetValue, SendGetRequest, ProviderError, Status, Value,
        Entries
  <1>6. CASE r = Plain(Text)
    BY <1>6, ValuesAssumption
    DEF Plain, CounterSource, GetValue, SendGetRequest, ProviderError, Status, Value,
        Entries
  <1> QED
    BY <1>1, <1>2, <1>3, <1>4, <1>5, <1>6 DEF Failures

\* An entry arrives as it is, with a status or as plain text, except that an
\* empty one counts as none.
LEMMA EntriesArrive ==
  ASSUME NEW v \in Entries, NEW r \in {Dict("SUCCESS", v), Plain(v)}
  PROVE  /\ GetValue(r).outcome = "value"
         /\ v # Empty => GetValue(r).exists /\ GetValue(r).value = v
         /\ v = Empty => ~GetValue(r).exists
  <1>1. CASE r = Dict("SUCCESS", v)
    BY <1>1, ValuesAssumption
    DEF Dict, GetValue, SendGetRequest, ProviderError, Status, Value
  <1>2. CASE r = Plain(v)
    BY <1>2, ValuesAssumption
    DEF Plain, GetValue, SendGetRequest, ProviderError, Status, Value
  <1> QED
    BY <1>1, <1>2

\* The source of a count names what the entry is.
LEMMA SourceOfEntry ==
  ASSUME NEW v \in Entries, NEW r \in {Dict("SUCCESS", v), Plain(v)}
  PROVE  /\ CounterSource(r) = "missing" => v \in {Empty, Null}
         /\ CounterSource(r) = "keyval" => v \in Numbers /\ GetValue(r).value = v
  BY EntriesArrive, ValuesAssumption DEF CounterSource, Entries

\* No reply for a missing key, whoever sends it, holds a number.
LEMMA AbsentIsNoNumber ==
  ASSUME NEW r \in {Dict("-KEY-DOESNT-EXISTS-", None), Dict(None, None)} \cup Lookalikes
  PROVE  CounterSource(r) # "keyval"
  <1>1. ~GetValue(r).exists /\ GetValue(r).outcome = "value"
    <2>1. CASE r = HttpError(404)
      BY <2>1 DEF HttpError, GetValue
    <2>2. CASE r = Dict("-KEY-DOESNT-EXISTS-", None)
      BY <2>2 DEF Dict, GetValue, SendGetRequest, Status
    <2>3. CASE r = Dict(None, None)
      BY <2>3, ValuesAssumption
      DEF Dict, GetValue, SendGetRequest, ProviderError, Status, Value
    <2>4. CASE r = Plain(Empty)
      BY <2>4, ValuesAssumption
      DEF Plain, GetValue, SendGetRequest, ProviderError, Status, Value
    <2> QED
      BY <2>1, <2>2, <2>3, <2>4 DEF Lookalikes
  <1> QED
    BY <1>1 DEF CounterSource

-----------------------------------------------------------------------------
(***************************************************************************)
(* The requests.                                                           *)
(***************************************************************************)

\* The entry is absent or one of the forms of an entry; a last get was answered
\* in a form that fits it.
ClientInv ==
  /\ held \in Entries \cup {Absent}
  /\ CounterReadIsSound

LEMMA ClientStep ==
  ASSUME ClientInv, [Next]_vars
  PROVE  ClientInv'
  <1>1. CASE Get
    <2> USE <1>1 DEF Get
    <2>1. (held \in Entries \cup {Absent})'
      BY DEF ClientInv
    <2>2. CounterReadIsSound'
      <3>1. CASE reply' \in Lookalikes
        BY <3>1, AbsentIsNoNumber DEF CounterReadIsSound
      <3>2. CASE reply' \in Failures \ Lookalikes
        BY <3>2, FailuresFallBack DEF CounterReadIsSound
      <3>3. CASE held = Absent /\ reply' \notin Failures
        BY <3>3, AbsentIsNoNumber DEF CounterReadIsSound, GetReplies
      <3>4. CASE held # Absent /\ reply' \notin Failures
        <4>1. held \in Entries /\ reply' \in {Dict("SUCCESS", held), Plain(held)}
          BY <3>4 DEF ClientInv, GetReplies
        <4> QED
          BY <4>1, SourceOfEntry DEF CounterReadIsSound
      <3> QED
        BY <3>1, <3>2, <3>3, <3>4
    <2> QED
      BY <2>1, <2>2 DEF ClientInv
  <1>2. CASE Change
    BY <1>2 DEF Change, ClientInv, CounterReadIsSound
  <1>3. CASE UNCHANGED vars
    BY <1>3 DEF ClientInv, CounterReadIsSound, vars
  <1> QED
    BY <1>1, <1>2, <1>3 DEF Next

\* Whatever answers a get, in whatever form: a reply is read as an absent counter
\* only when there is none, or when it is a 404 or an empty body, and as a number
\* only when that is the entry (readProxyTranslationCountState over
\* keyValStoreProxy.getValue).
THEOREM CounterReadsAreSound == Spec => []CounterReadIsSound
  <1>1. Init => ClientInv
    BY DEF Init, ClientInv, CounterReadIsSound
  <1>2. ClientInv /\ [Next]_vars => ClientInv'
    BY ClientStep
  <1>3. ClientInv => CounterReadIsSound
    BY DEF ClientInv
  <1> QED
    BY <1>1, <1>2, <1>3, PTL DEF Spec

-----------------------------------------------------------------------------
(***************************************************************************)
(* The construction of a service.  The invariant says what the environment *)
(* of the process is in every phase and what the configuration keeps.      *)
(***************************************************************************)

Phases == {"new", "resolved", "overridden", "configured", "raised", "ready", "failed"}

\* os.environ holds the names and is as it was found, except that between OverrideNames and
\* RestoreNames the two logging names are changed and their values remembered.
ProcessInv ==
  /\ phase \in Phases
  /\ env \in Environments
  /\ process = [n \in Names |-> process[n]]
  /\ phase \in {"new", "resolved", "ready", "failed"} => process = env.process
  /\ phase \in {"overridden", "configured", "raised"} =>
       /\ \A n \in Names \ LogNames : process[n] = env.process[n]
       /\ \A n \in LogNames : original[n] = env.process[n]

\* What LevelIsDocumented says of a service that is ready, from the first step
\* of its construction.
Level ==
  LET p == env.process
      f == env.file
  IN  /\ config.level \in Levels
      /\ args.level \in Levels => config.level = args.level
      /\ args.level = Unset =>
           /\ p["DEBUGGING"] = "true" => config.level = "DEBUG"
           /\ p["DEBUGGING"] = "false" => config.level = "INFO"
           /\ Blank(p["DEBUGGING"]) /\ p["DEBUGGING"] # Unset /\ p["LOGGER"] \in Levels
                => config.level = p["LOGGER"]
           /\ p["DEBUGGING"] = Unset /\ f["DEBUGGING"] = "true" => config.level = "DEBUG"
           /\ p["DEBUGGING"] = Unset /\ Blank(f["DEBUGGING"])
                => /\ p["LOGGER"] \in Levels => config.level = p["LOGGER"]
                   /\ p["LOGGER"] = Unset /\ f["LOGGER"] \in Levels
                        => config.level = f["LOGGER"]

LevelInv == phase # "new" => Level

StartInv == ProcessInv /\ LevelInv

LEMMA StartInit == InitStart => StartInv
  BY EnvironmentsAssumption DEF InitStart, StartInv, ProcessInv, LevelInv, Phases

LEMMA NormalizedIsLevel ==
  ASSUME NEW l
  PROVE  /\ NormalizeLoggerLevel(l) \in Levels
         /\ l \in Levels => NormalizeLoggerLevel(l) = l
  BY DEF NormalizeLoggerLevel, Levels

\* Without a level of its own the service takes the one the logging names give.
LEMMA LevelOfNames ==
  ASSUME NEW p, process = p, NEW f, f = env.file
  PROVE  /\ p["DEBUGGING"] = "true" => LevelName = "DEBUG"
         /\ p["DEBUGGING"] = "false" => LevelName = "INFO"
         /\ Blank(p["DEBUGGING"]) /\ p["DEBUGGING"] # Unset /\ p["LOGGER"] \in Levels
              => LevelName = p["LOGGER"]
         /\ p["DEBUGGING"] = Unset /\ f["DEBUGGING"] = "true" => LevelName = "DEBUG"
         /\ p["DEBUGGING"] = Unset /\ Blank(f["DEBUGGING"])
              => /\ p["LOGGER"] \in Levels => LevelName = p["LOGGER"]
                 /\ p["LOGGER"] = Unset /\ f["LOGGER"] \in Levels
                      => LevelName = f["LOGGER"]
  BY DEF LevelName, LogValue, Blank, Unset, Levels

LEMMA ConstructStep ==
  ASSUME StartInv, Construct
  PROVE  StartInv'
  <1>1. PICK a \in Arguments \cup {NoArguments}, app \in BOOLEAN :
          /\ args' = a
          /\ config' =
               [level |-> NormalizeLoggerLevel(IF a.level \in {Unset, ""} THEN LevelName
                                                                          ELSE a.level),
                max |-> MaxUseCount(a), min |-> MinHealthCount(a),
                client |-> Client(IF app THEN EnvValue("KEY_VAL_BASE_URL", "") ELSE "")]
    BY DEF Construct
  <1>2. /\ phase = "new" /\ phase' = "resolved"
        /\ process = env.process
        /\ UNCHANGED <<vars, env, process, original>>
    BY DEF StartInv, ProcessInv, Construct
  <1>3. ProcessInv'
    BY <1>2 DEF StartInv, ProcessInv, Phases
  <1>4. Level'
    <2>1. /\ config'.level \in Levels
          /\ a.level \notin {Unset, ""} /\ a.level \in Levels => config'.level = a.level
          /\ a.level = Unset => config'.level = NormalizeLoggerLevel(LevelName)
      BY <1>1, NormalizedIsLevel
    <2>2. Unset \notin Levels /\ "" \notin Levels
      BY DEF Unset, Levels
    <2>3. {"DEBUG", "INFO"} \subseteq Levels
      BY DEF Levels
    <2> QED
      BY <1>1, <1>2, <2>1, <2>2, <2>3, NormalizedIsLevel, LevelOfNames DEF Level
  <1> QED
    BY <1>3, <1>4 DEF StartInv, LevelInv

\* The steps that leave the configuration alone.
LEMMA ConfigurationStays ==
  ASSUME StartInv, phase # "new", UNCHANGED <<env, args, config>>
  PROVE  LevelInv'
  BY DEF StartInv, LevelInv, Level

LEMMA OverrideStep ==
  ASSUME StartInv, OverrideNames
  PROVE  StartInv'
  <1>1. LevelInv'
    BY ConfigurationStays DEF OverrideNames
  <1>2. ProcessInv'
    <2>1. process = [n \in Names |-> process[n]] /\ process = env.process
      BY DEF StartInv, ProcessInv, OverrideNames
    <2>2. process' = [n \in Names |-> process'[n]]
      BY <2>1 DEF OverrideNames
    <2>3. \A n \in Names \ LogNames : process'[n] = env.process[n]
      BY <2>1 DEF OverrideNames, LogNames
    <2>4. \A n \in LogNames : original'[n] = env.process[n]
      BY <2>1 DEF OverrideNames
    <2> QED
      BY <2>2, <2>3, <2>4 DEF OverrideNames, StartInv, ProcessInv, Phases
  <1> QED
    BY <1>1, <1>2 DEF StartInv

LEMMA ConfigureStep ==
  ASSUME StartInv, ConfigureLibrary
  PROVE  StartInv'
  <1>1. LevelInv'
    BY ConfigurationStays DEF ConfigureLibrary
  <1>2. ProcessInv'
    <2>1. PICK set \in SUBSET LogNames :
            process' = [n \in Names |-> IF n \in set THEN "library" ELSE process[n]]
      BY DEF ConfigureLibrary
    <2>2. process' = [n \in Names |-> process'[n]]
      BY <2>1
    <2>3. \A n \in Names \ LogNames : process'[n] = process[n]
      BY <2>1
    <2> QED
      BY <2>2, <2>3 DEF ConfigureLibrary, StartInv, ProcessInv, Phases
  <1> QED
    BY <1>1, <1>2 DEF StartInv

\* Both names get back the value they were found with, after a failure too.
LEMMA RestoreStep ==
  ASSUME StartInv, RestoreNames
  PROVE  StartInv'
  <1>1. LevelInv'
    BY ConfigurationStays DEF RestoreNames
  <1>2. process' = env.process
    <2>1. env.process \in [Names -> STRING]
      BY EnvironmentsAssumption DEF StartInv, ProcessInv
    <2>2. process' = [n \in Names |-> env.process[n]]
      BY DEF RestoreNames, Restored, StartInv, ProcessInv
    <2> QED
      BY <2>1, <2>2
  <1>3. ProcessInv'
    BY <1>2, EnvironmentsAssumption DEF RestoreNames, StartInv, ProcessInv, Phases
  <1> QED
    BY <1>1, <1>3 DEF StartInv

LEMMA StartAgainStep ==
  ASSUME StartInv, StartAgain
  PROVE  StartInv'
  BY DEF StartAgain, StartInv, ProcessInv, LevelInv, Phases

LEMMA RequestStep ==
  ASSUME StartInv, Request
  PROVE  StartInv'
  BY DEF Request, startVars, StartInv, ProcessInv, LevelInv, Level

LEMMA StartStutter ==
  ASSUME StartInv, UNCHANGED allVars
  PROVE  StartInv'
  BY DEF allVars, startVars, StartInv, ProcessInv, LevelInv, Level

LEMMA StartInvariant == SpecStart => []StartInv
  <1>1. StartInv /\ [NextStart]_allVars => StartInv'
    BY ConstructStep, OverrideStep, ConfigureStep, RestoreStep, StartAgainStep,
       RequestStep, StartStutter
    DEF NextStart
  <1> QED
    BY StartInit, <1>1, PTL DEF SpecStart

\* configureLoggingFromEnv gives the process its LOGGER and DEBUGGING back in
\* every environment, whatever the logging library does to them and however it
\* ends, and touches no other name.
THEOREM EnvironmentRestored == SpecStart => []EnvironmentIsRestored
  <1>1. StartInv => EnvironmentIsRestored
    BY DEF StartInv, ProcessInv, EnvironmentIsRestored
  <1> QED
    BY <1>1, StartInvariant, PTL

\* The level of a service is the documented one, for every value of the names.
THEOREM LevelAsDocumented == SpecStart => []LevelIsDocumented
  <1>1. StartInv => LevelIsDocumented
    BY DEF StartInv, LevelInv, Level, LevelIsDocumented
  <1> QED
    BY <1>1, StartInvariant, PTL
=============================================================================
