----------------------------- MODULE HistoryStorage -----------------------------
(***************************************************************************)
(* UsageHistory with the storage around its records, after                 *)
(* core/repo/firebase_proxy_usage_history_repo: what of the environment    *)
(* decides whether an instance uses Firebase, the status it reports, and   *)
(* the history entry that follows each count.  An instance without Firebase *)
(* keeps count and entry together in memory, so an instance's fallback     *)
(* count is also the number of its entries there.                          *)
(*                                                                         *)
(* A definition no action uses is the next one with a plausible mistake.   *)
(***************************************************************************)
EXTENDS UsageHistory

CONSTANT Settings  \* the Firebase settings an instance's environment may have

Types == {"firestore", "realtime_database", ""}
Credentials == {"missing", "invalid", "valid"}  \* base64 of a JSON object or not

ASSUME SettingsAssumption ==
  Settings \subseteq [type : Types, credential : Credentials, url : BOOLEAN]

VARIABLES
  setting,   \* the settings each instance finds when it starts
  status,    \* storageStatusStr of each instance
  entries    \* the number of history entries of each proxy in the database

storageVars == <<setting, status, entries>>
allVars == <<vars, storageVars>>

\* The statuses initializeStorage can end with: what is missing or unreadable,
\* and for complete settings whether the client library gave a client.
StartStatuses(s) ==
  CASE s.type = "" -> {"not_configured"}
    [] s.type # "" /\ s.credential = "missing" -> {"missing_credential"}
    [] s.type # "" /\ s.credential = "invalid" -> {"invalid_credential"}
    [] s.type = "realtime_database" /\ s.credential = "valid" /\ ~s.url ->
         {"missing_database_url"}
    [] OTHER ->
         {"enabled"} \cup UNION {{"firebase_initialization_failed", "not_configured"} :
                                f \in Faults \cap {"start"}}

InitStorage ==
  /\ Init
  /\ setting \in [Instances -> Settings]
  /\ status \in [Instances -> UNION {StartStatuses(s) : s \in Settings}]
  /\ \A i \in Instances : /\ status[i] \in StartStatuses(setting[i])
                          /\ enabled[i] = (status[i] = "enabled")
  /\ entries = [p \in Proxies |-> remote[p].count]

StatusUnchanged(i) == status[i]

\* recordStorageError, when the step turned the storage off.
StatusAfter(i) ==
  IF enabled[i] /\ ~enabled'[i] THEN "storage_operation_failed" ELSE status[i]

Operate(i) ==
  /\ \/ \E p \in Proxies : CheckDisabled(i, p) \/ RecordRead(i, p)
     \/ CheckCount(i) \/ RecordSet(i) \/ MarkRead(i) \/ MarkSet(i) \/ Abandon(i)
  /\ status' = [status EXCEPT ![i] = StatusAfter(i)]
  /\ UNCHANGED <<setting, entries>>

EntriesIgnored(i) == {entries[proxy[i]]}

\* The entries of the proxy after the request to add one: an error may come
\* after the entry was stored.
EntriesAfter(i) ==
  {entries[proxy[i]] + 1} \cup (IF enabled'[i] THEN {} ELSE {entries[proxy[i]]})

AddEntry(i) ==
  /\ RecordHistory(i)
  /\ status' = [status EXCEPT ![i] = StatusAfter(i)]
  /\ \E n \in EntriesAfter(i) : entries' = [entries EXCEPT ![proxy[i]] = n]
  /\ UNCHANGED setting

Restart(i) ==
  /\ Crash(i)
  /\ \E s \in StartStatuses(setting[i]) :
       /\ enabled'[i] = (s = "enabled")
       /\ status' = [status EXCEPT ![i] = s]
  /\ UNCHANGED <<setting, entries>>

StepStorage(i) == Operate(i) \/ AddEntry(i) \/ Restart(i)

NextStorage == \E i \in Instances : StepStorage(i)

SpecStorage == InitStorage /\ [][NextStorage]_allVars

FairSpecStorage == SpecStorage /\ Fairness

-----------------------------------------------------------------------------

\* The entry is added after the count was stored, and a failure in between
\* moves both to memory: whenever an instance is between operations every use
\* has its entry, and at most one use has two.
HistoryIsComplete ==
  \A i \in Instances, p \in Proxies :
    pc[i] = "idle" =>
      LET kept == entries[p] + fallback[i][p].count
      IN  uses[p] <= kept /\ kept <= uses[p] + 1

\* getStorageStatus() says "enabled" only while nothing the instance recorded
\* is kept from the others in its memory, and something else as soon as a
\* request has failed.
EnabledMeansShared ==
  \A i \in Instances :
    /\ status[i] = "enabled" => \A p \in Proxies : fallback[i][p] = Empty
    /\ enabled[i] = (status[i] = "enabled")
=============================================================================
