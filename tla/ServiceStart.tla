------------------------------ MODULE ServiceStart ------------------------------
(***************************************************************************)
(* From the environment to the first request: what app/key_value_proxy_app *)
(* and the constructors of the services make of the process environment    *)
(* and the .env file, how logging is set up while LOGGER and DEBUGGING are *)
(* overridden in os.environ, and the KeyVal requests of a service that was *)
(* built.  LOGGER and DEBUGGING are read from ".env", the other names from *)
(* envFilePathStr; one file stands for both.                               *)
(*                                                                         *)
(* A definition no action uses is the next one with a plausible mistake.   *)
(***************************************************************************)
EXTENDS KeyValClient

CONSTANTS
  Environments,  \* what the process environment and the file may hold
  Arguments,     \* the constructor arguments of direct callers
  IntOf          \* int() on the texts it accepts

Unset == "unset"
Names == {"LOGGER", "DEBUGGING", "KEY_VAL_BASE_URL", "KEY_VAL_AUTH_TOKEN",
          "PROXY_TRANSLATION_MAX_USE_COUNT", "PROXY_TRANSLATION_MIN_HEALTH_COUNT"}
LogNames == {"LOGGER", "DEBUGGING"}

ASSUME EnvironmentsAssumption ==
  Environments \subseteq [process : [Names -> STRING], file : [Names -> STRING]]

ASSUME IntOfAssumption == IntOf \in [DOMAIN IntOf -> Int]

\* A caller gives a limit as an int, or gives none.
ASSUME ArgumentsAssumption ==
  \A a \in Arguments : {a.max, a.min} \subseteq DOMAIN IntOf \cup {Unset}

VARIABLES
  env,      \* the environment and file this process was started with
  process,  \* os.environ
  args,     \* the arguments of the constructor call
  phase,    \* how far the construction is
  config,   \* the level, the limits and the KeyVal server of the service
  original  \* LOGGER and DEBUGGING before they were overridden

startVars == <<env, process, args, phase, config, original>>
allVars == <<vars, startVars>>

Blank(v) == v \in {Unset, "", " "}

\* getEnvValue: an empty process value counts as none.
EnvValue(name, default) ==
  IF process[name] \notin {Unset, ""} THEN process[name]
  ELSE IF env.file[name] \notin {Unset, ""} THEN env.file[name]
  ELSE default

EnvInt(name, default) ==
  LET v == EnvValue(name, Unset) IN IF v \in DOMAIN IntOf THEN IntOf[v] ELSE default

LogValueUnlessBlank(name) == EnvValue(name, Unset)

\* The logging names: a process value that is set, blank or not, hides the file.
LogValue(name) == IF process[name] # Unset THEN process[name] ELSE env.file[name]

\* getLoggerLevelNameFromEnv
LevelName ==
  CASE LogValue("DEBUGGING") = "true" -> "DEBUG"
    [] LogValue("DEBUGGING") # "true" /\ ~Blank(LogValue("DEBUGGING")) -> "INFO"
    [] Blank(LogValue("DEBUGGING")) /\ ~Blank(LogValue("LOGGER")) -> LogValue("LOGGER")
    [] OTHER -> "INFO"

Levels == {"DEBUG", "INFO", "WARNING", "ERROR", "CRITICAL"}

NormalizeLoggerLevel(l) ==
  CASE l \in Levels -> l
    [] l \in {"WARN", "WARM", "30"} -> "WARNING"
    [] l \in {"NOTSET", "0", "10"} -> "DEBUG"
    [] l = "40" -> "ERROR"
    [] l = "50" -> "CRITICAL"
    [] OTHER -> "INFO"

Given(text, name, default) == IF text # Unset THEN IntOf[text] ELSE EnvInt(name, default)

\* A limit of the wrong sign is none.
Fits(n, sign) == n * sign > 0

MaxUseCount(a) ==
  LET n == Given(a.max, "PROXY_TRANSLATION_MAX_USE_COUNT", 50)
  IN  IF Fits(n, 1) THEN n ELSE 50

MinHealthCount(a) ==
  LET n == Given(a.min, "PROXY_TRANSLATION_MIN_HEALTH_COUNT", -3)
  IN  IF Fits(n, -1) THEN n ELSE -3

NoArguments == [level |-> Unset, max |-> Unset, min |-> Unset]

\* Only a base URL of one's own gets a client of its own, with the token.
Client(url) ==
  IF url = "" THEN [server |-> "", token |-> ""]
  ELSE [server |-> url, token |-> EnvValue("KEY_VAL_AUTH_TOKEN", "")]

InitStart ==
  /\ Init
  /\ env \in Environments
  /\ process = env.process
  /\ args = NoArguments
  /\ phase = "new"
  /\ config = <<>>
  /\ original = [n \in LogNames |-> Unset]

\* The app passes no level and no limits; other callers take the default client.
Construct ==
  /\ phase = "new"
  /\ \E a \in Arguments \cup {NoArguments}, app \in BOOLEAN :
       /\ app => a = NoArguments
       /\ args' = a
       /\ config' =
            [level |-> NormalizeLoggerLevel(IF a.level \in {Unset, ""} THEN LevelName
                                                                       ELSE a.level),
             max |-> MaxUseCount(a), min |-> MinHealthCount(a),
             client |-> Client(IF app THEN EnvValue("KEY_VAL_BASE_URL", "") ELSE "")]
  /\ phase' = "resolved"
  /\ UNCHANGED <<vars, env, process, original>>

\* configureLoggingFromEnv, in three steps.
OverrideNames ==
  /\ phase = "resolved"
  /\ original' = [n \in LogNames |-> process[n]]
  /\ process' = [process EXCEPT
       !["LOGGER"] = IF @ = Unset THEN Unset ELSE config.level,
       !["DEBUGGING"] = IF Blank(@) THEN @ ELSE IF @ = "true" THEN "true" ELSE "false"]
  /\ phase' = "overridden"
  /\ UNCHANGED <<vars, env, args, config>>

\* The logging library may set the two names itself, and may raise.
ConfigureLibrary ==
  /\ phase = "overridden"
  /\ \E set \in SUBSET LogNames :
       process' = [n \in Names |-> IF n \in set THEN "library" ELSE process[n]]
  /\ phase' \in {"configured", "raised"}
  /\ UNCHANGED <<vars, env, args, config, original>>

RestoredIfSet(n) == IF original[n] = Unset THEN process[n] ELSE original[n]

Restored(n) == original[n]

RestoreNames ==
  /\ phase \in {"configured", "raised"}
  /\ process' = [n \in Names |-> IF n \in LogNames THEN Restored(n) ELSE process[n]]
  /\ phase' = IF phase = "configured" THEN "ready" ELSE "failed"
  /\ UNCHANGED <<vars, env, args, config, original>>

\* The same process builds another service.  (Bound: as long as none has sent a
\* request, which changes nothing about how the next one is built.)
StartAgain ==
  /\ phase \in {"ready", "failed"} /\ asked = "none"
  /\ phase' = "new"
  /\ UNCHANGED <<vars, env, process, args, config, original>>

Request ==
  /\ phase = "ready"
  /\ Get \/ Change
  /\ UNCHANGED startVars

NextStart ==
  \/ Construct \/ OverrideNames \/ ConfigureLibrary \/ RestoreNames \/ StartAgain
  \/ Request

SpecStart == InitStart /\ [][NextStart]_allVars

-----------------------------------------------------------------------------

\* However setting up the logging ends, the host's process has its LOGGER and
\* DEBUGGING back, set or unset, and the next service finds what this one found.
EnvironmentIsRestored ==
  phase \in {"new", "ready", "failed"} => process = env.process

\* The level the prompts and the README promise: a nonblank DEBUGGING before
\* LOGGER, the process before the file, a blank DEBUGGING of the process not
\* replaced by the file's, and INFO for what is no level.
LevelIsDocumented ==
  LET p == env.process
      f == env.file
  IN  phase = "ready" =>
        /\ config.level \in Levels
        /\ args.level \in Levels => config.level = args.level
        /\ args.level = Unset =>
             /\ p["DEBUGGING"] = "true" => config.level = "DEBUG"
             /\ p["DEBUGGING"] = "false" => config.level = "INFO"
             /\ Blank(p["DEBUGGING"]) /\ p["DEBUGGING"] # Unset /\ p["LOGGER"] \in Levels
                  => config.level = p["LOGGER"]
             /\ p["DEBUGGING"] = Unset /\ f["DEBUGGING"] = "true" => config.level = "DEBUG"
             /\ p["DEBUGGING"] = Unset /\ Blank(f["DEBUGGING"])
                  => /\ p["LOGGER"] \in Levels => config.level = p["LOGGER"]
                     /\ p["LOGGER"] = Unset /\ f["LOGGER"] \in Levels
                          => config.level = f["LOGGER"]
=============================================================================
