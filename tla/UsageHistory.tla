------------------------------ MODULE UsageHistory ------------------------------
(***************************************************************************)
(* The usage history of core/repo/firebase_proxy_usage_history_repo and    *)
(* the rules of the service that reads and writes it.  Each proxy has one  *)
(* remote record {usage_count, disabled}, the same for both Firebase       *)
(* backends; every request to it is a step.  An operation that fails turns *)
(* the remote storage off for its instance, which goes on with records in  *)
(* memory that start empty.                                                *)
(*                                                                         *)
(* A definition no action uses is the next one with a plausible mistake.   *)
(***************************************************************************)
EXTENDS Integers

CONSTANTS
  Instances,    \* the service instances that share the Firebase database
  Configured,   \* those whose storage settings are complete
  Proxies,
  MaxUsage,     \* maxProxyUsageCountInt
  Seeds,        \* the records the database may hold at the start
  MaxUses,      \* bound: selections recorded for one proxy in a run
  Faults        \* {"start", "read", "write", "ack", "history", "crash"}

ASSUME InstancesAssumption == Configured \subseteq Instances

ASSUME ProxiesAssumption == Proxies # {}

ASSUME MaxUsageAssumption == MaxUsage \in Nat /\ MaxUsage > 0 /\ MaxUses \in Nat

Records == [count : Nat, disabled : BOOLEAN]

ASSUME SeedsAssumption == Seeds \subseteq Records

Empty == [count |-> 0, disabled |-> FALSE]

VARIABLES
  remote,     \* the record of each proxy in the database
  enabled,    \* storageEnabledBool of each instance
  fallback,   \* the records each instance keeps in memory
  pc,         \* the request each instance sends next
  proxy,      \* the proxy that request is about
  seen,       \* the record the instance's current operation has read
  cleared,    \* the proxies this lookup of the instance may use
  uses        \* history variable: selections of each proxy so far

vars == <<remote, enabled, fallback, pc, proxy, seen, cleared, uses>>

\* Whether an instance that starts can use the storage.
StartsEnabled(i) == {i \in Configured} \cup {FALSE : f \in Faults \cap {"start"}}

AnyProxy == CHOOSE p \in Proxies : TRUE

Init ==
  /\ remote \in [Proxies -> Seeds]
  /\ enabled \in [Instances -> BOOLEAN]
  /\ \A i \in Instances : enabled[i] \in StartsEnabled(i)
  /\ fallback = [i \in Instances |-> [p \in Proxies |-> Empty]]
  /\ pc = [i \in Instances |-> "idle"]
  /\ proxy = [i \in Instances |-> AnyProxy]
  /\ seen = [i \in Instances |-> Empty]
  /\ cleared = [i \in Instances |-> {}]
  /\ uses = [p \in Proxies |-> remote[p].count]

Goto(i, label) == pc' = [pc EXCEPT ![i] = label]

OverusedOff(r) == r.count > MaxUsage

Overused(r) == r.count >= MaxUsage

\* One more use; what was read of the disabled flag is written back.
Used(r) == [count |-> r.count + 1, disabled |-> r.disabled]

DisabledLost(r) == r

DisabledAlone(r) == [disabled |-> TRUE]

Disabled(r) == [count |-> r.count, disabled |-> TRUE]

\* recordStorageError: the instance never uses the remote storage again.
TurnOff(i) == enabled' = [enabled EXCEPT ![i] = FALSE]

\* A read by instance i shows the record r.  A failed read shows the record in
\* memory, and so does every later one.
Read(i, p, r) ==
  \/ /\ enabled[i]
     /\ r = remote[p]
     /\ UNCHANGED enabled
  \/ /\ ~enabled[i] \/ "read" \in Faults
     /\ r = fallback[i][p]
     /\ TurnOff(i)

\* The records a read of instance i can show.
Readable(i, p) == {remote[p], fallback[i][p]}

(* isProxyHistoryUsageAllowed: two reads, then perhaps a mark. *)

AfterDisabledCheckSkipped(r) == "checkCount"

AfterDisabledCheck(r) == IF r.disabled THEN "idle" ELSE "checkCount"

CheckDisabled(i, p) ==
  /\ pc[i] = "idle"
  /\ p \notin cleared[i]
  /\ \E r \in Readable(i, p) :
       /\ Read(i, p, r)
       /\ Goto(i, AfterDisabledCheck(r))
  /\ proxy' = [proxy EXCEPT ![i] = p]
  /\ UNCHANGED <<remote, fallback, seen, cleared, uses>>

CheckCount(i) ==
  LET p == proxy[i] IN
  /\ pc[i] = "checkCount"
  /\ \E r \in Readable(i, p) :
       /\ Read(i, p, r)
       /\ IF Overused(r)
          THEN Goto(i, "markRead") /\ UNCHANGED cleared
          ELSE /\ Goto(i, "idle")
               /\ cleared' = [cleared EXCEPT ![i] = @ \cup {p}]
  /\ UNCHANGED <<remote, fallback, proxy, seen, uses>>

(* recordSuccessfulProxyUsage: read, write, add to the history, and mark the *)
(* proxy when its count has reached the maximum.                             *)

AfterRecord(i, r) == Goto(i, IF Overused(r) THEN "markRead" ELSE "idle")

RecordNowhere(i, p) == UNCHANGED fallback /\ Goto(i, "idle")

RecordInMemory(i, p) ==
  /\ fallback' = [fallback EXCEPT ![i][p] = Used(@)]
  /\ AfterRecord(i, Used(fallback[i][p]))

\* The lookup selects one of the proxies it found usable.
RecordRead(i, p) ==
  /\ pc[i] = "idle"
  /\ p \in cleared[i]
  /\ uses[p] < MaxUses
  /\ uses' = [uses EXCEPT ![p] = @ + 1]
  /\ cleared' = [cleared EXCEPT ![i] = {}]
  /\ proxy' = [proxy EXCEPT ![i] = p]
  /\ \/ /\ enabled[i]
        /\ seen' = [seen EXCEPT ![i] = remote[p]]
        /\ Goto(i, "recordSet")
        /\ UNCHANGED <<enabled, fallback>>
     \/ /\ ~enabled[i] \/ "read" \in Faults
        /\ TurnOff(i)
        /\ RecordInMemory(i, p)
        /\ UNCHANGED seen
  /\ UNCHANGED remote

RecordSet(i) ==
  LET p == proxy[i] IN
  /\ pc[i] = "recordSet"
  /\ \/ /\ remote' = [remote EXCEPT ![p] = Used(seen[i])]
        /\ Goto(i, "recordHistory")
        /\ UNCHANGED <<enabled, fallback>>
     \/ /\ \/ "write" \in Faults /\ UNCHANGED remote
           \/ "ack" \in Faults /\ remote' = [remote EXCEPT ![p] = Used(seen[i])]
        /\ TurnOff(i)
        /\ RecordInMemory(i, p)
  /\ UNCHANGED <<proxy, seen, cleared, uses>>

\* The count is written; an error here still records the use in memory.
RecordHistory(i) ==
  /\ pc[i] = "recordHistory"
  /\ \/ AfterRecord(i, Used(seen[i])) /\ UNCHANGED <<enabled, fallback>>
     \/ /\ "history" \in Faults
        /\ TurnOff(i)
        /\ RecordInMemory(i, proxy[i])
  /\ UNCHANGED <<remote, proxy, seen, cleared, uses>>

(* markProxyDisabled *)

MarkInMemory(i, p) == fallback' = [fallback EXCEPT ![i][p] = Disabled(@)]

MarkRead(i) ==
  LET p == proxy[i] IN
  /\ pc[i] = "markRead"
  /\ \/ /\ enabled[i]
        /\ seen' = [seen EXCEPT ![i] = remote[p]]
        /\ Goto(i, "markSet")
        /\ UNCHANGED <<enabled, fallback>>
     \/ /\ ~enabled[i] \/ "read" \in Faults
        /\ TurnOff(i)
        /\ MarkInMemory(i, p)
        /\ Goto(i, "idle")
        /\ UNCHANGED seen
  /\ UNCHANGED <<remote, proxy, cleared, uses>>

MarkSet(i) ==
  LET p == proxy[i] IN
  /\ pc[i] = "markSet"
  /\ \/ /\ remote' = [remote EXCEPT ![p] = Disabled(seen[i])]
        /\ UNCHANGED <<enabled, fallback>>
     \/ /\ \/ "write" \in Faults /\ UNCHANGED remote
           \/ "ack" \in Faults /\ remote' = [remote EXCEPT ![p] = Disabled(seen[i])]
        /\ TurnOff(i)
        /\ MarkInMemory(i, p)
  /\ Goto(i, "idle")
  /\ UNCHANGED <<proxy, seen, cleared, uses>>

\* A lookup ends without a selection: no proxy passed its health checks.
Abandon(i) ==
  /\ pc[i] = "idle"
  /\ cleared[i] # {}
  /\ cleared' = [cleared EXCEPT ![i] = {}]
  /\ UNCHANGED <<remote, enabled, fallback, pc, proxy, seen, uses>>

\* A restart initializes the storage again and forgets what was in memory.
Crash(i) ==
  /\ "crash" \in Faults
  /\ \E starts \in StartsEnabled(i) : enabled' = [enabled EXCEPT ![i] = starts]
  /\ fallback' = [fallback EXCEPT ![i] = [p \in Proxies |-> Empty]]
  /\ cleared' = [cleared EXCEPT ![i] = {}]
  /\ Goto(i, "idle")
  /\ UNCHANGED <<remote, proxy, seen, uses>>

Step(i) ==
  \/ \E p \in Proxies : CheckDisabled(i, p) \/ RecordRead(i, p)
  \/ CheckCount(i)
  \/ RecordSet(i)
  \/ RecordHistory(i)
  \/ MarkRead(i)
  \/ MarkSet(i)
  \/ Abandon(i)
  \/ Crash(i)

Next == \E i \in Instances : Step(i)

Spec == Init /\ [][Next]_vars

Mark(i, p) == proxy[i] = p /\ (CheckCount(i) \/ MarkRead(i) \/ MarkSet(i))

Lookup(i) ==
  RecordSet(i) \/ RecordHistory(i) \/ Abandon(i) \/ \E p \in Proxies : RecordRead(i, p)

\* Callers keep looking every proxy up, lookups end, and restarts do not stop
\* the lookups of a proxy at the same point forever.
Fairness ==
  \A i \in Instances :
    /\ WF_vars(Lookup(i))
    /\ \A p \in Proxies :
         /\ SF_vars(CheckDisabled(i, p))
         /\ \A label \in {"checkCount", "markRead", "markSet"} :
              SF_vars(pc[i] = label /\ Mark(i, p))

FairSpec == Spec /\ Fairness

-----------------------------------------------------------------------------

Labels == {"idle", "checkCount", "recordSet", "recordHistory", "markRead", "markSet"}

\* Every record is a count and a flag; an instance is in one request.
TypeOK ==
  /\ remote \in [Proxies -> Records]
  /\ enabled \in [Instances -> BOOLEAN]
  /\ fallback \in [Instances -> [Proxies -> Records]]
  /\ pc \in [Instances -> Labels]
  /\ proxy \in [Instances -> Proxies]
  /\ seen \in [Instances -> Records]
  /\ cleared \in [Instances -> SUBSET Proxies]
  /\ uses \in [Proxies -> Nat]

\* As long as an instance reads the storage, a proxy whose stored count has
\* reached the maximum, or that is stored as disabled, is not among those its
\* lookup may select, although check and selection are several requests apart
\* and any of them can be the one that fails.
OverusedIsSkipped ==
  \A i \in Instances : enabled[i] =>
    \A p \in cleared[i] : ~Overused(remote[p]) /\ ~remote[p].disabled

\* No use is lost when the storage fails in the middle of an operation, and at
\* most one is counted twice, in the database and in memory.
EveryUseIsCounted ==
  \A i \in Instances, p \in Proxies :
    pc[i] = "idle" =>
      LET counted == remote[p].count + fallback[i][p].count
      IN  uses[p] <= counted /\ counted <= uses[p] + 1

\* A storage that fails starts the count again from nothing, but only once for
\* an instance that keeps running: it uses no proxy more than MaxUsage times
\* before the failure and MaxUsage times after it.
UsesAreBounded == \A p \in Proxies : uses[p] <= 2 * MaxUsage

\* Two instances that both check a proxy before either records it push its
\* count one over the maximum and no further.  (With three, one that writes from
\* an old read makes the proxy selectable while another holds a higher count.)
OveruseIsBounded == \A p \in Proxies : remote[p].count <= MaxUsage + 1

\* A proxy whose count stays at the maximum is disabled in the end, even when
\* processes stop between the record and the mark: a later lookup marks it.  (A
\* write from an old read can take the count below the maximum again.)
OverusedIsDisabled ==
  \A p \in Proxies : []<>(~Overused(remote[p]) \/ remote[p].disabled)
=============================================================================
