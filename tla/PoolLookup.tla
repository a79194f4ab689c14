------------------------------- MODULE PoolLookup -------------------------------
(***************************************************************************)
(* get(), check() and search() of core/service/elastic_ip_pool_service     *)
(* around the translation counter: the saved proxy list, read and written  *)
(* under a KeyVal key of its own, and the counter that says whether the    *)
(* list may still be used.  A list stands for the discovery that made it.  *)
(*                                                                         *)
(* With core/service/verbose_elastic_ip_pool_service a lookup that found a *)
(* proxy ends with one more read of the counter, to log it, by the getter  *)
(* that also creates an absent counter.  Its other messages read nothing.  *)
(*                                                                         *)
(* A definition no action uses is the next one with a plausible mistake.   *)
(***************************************************************************)
EXTENDS TranslationCounter

CONSTANTS
  Verbose,      \* the workers whose level shows INFO messages
  MaxLists,     \* bound: discoveries in a run
  ListFaults    \* {"read", "write", "garbled"}: what may happen to a request
                \* for the list; the reply to a garbled write is not UTF-8

NoList == 0
Lists == 1 .. MaxLists

ASSUME LookupAssumption ==
  /\ Verbose \subseteq Workers
  /\ MaxLists \in Nat /\ MaxLists > 0
  /\ ListFaults \subseteq {"read", "write", "garbled"}
  /\ "late" \notin Faults  \* writes that land late are TranslationCounter's

VARIABLES
  saved,     \* the list under the cache key, NoList when there is none
  stage,     \* where each worker's lookup stands, "none" outside a lookup
  got,       \* the list a lookup has read or found
  made,      \* the number of lists discovered so far
  current,   \* history variable: the list the writer's cycle counts for
  worn       \* history variable: the lists whose cycle has reached a limit

counterVars == vars
listVars == <<saved, stage, got, made, current, worn>>
allVars == <<counterVars, listVars>>

\* The first list was discovered in an earlier run.
InitLookup ==
  /\ Init
  /\ saved \in {NoList, 1}
  /\ stage = [w \in Workers |-> "none"]
  /\ got = [w \in Workers |-> NoList]
  /\ made = 1
  /\ current = 1
  /\ worn = IF stored \in Int /\ AtLimit(stored) THEN {1} ELSE {}

Enter(w, label) == stage' = [stage EXCEPT ![w] = label]

Idle(w) == pc[w] = "idle" /\ stage[w] = "none"

\* A lookup with a proxy to return: what is left is the message about it, about
\* a saved proxy ("log") or one of a list just found ("announce").
Select(w, message) == Enter(w, IF w \in Verbose THEN message ELSE "none")

\* check() without a usable list: get() goes on with search(), check() returns.
NoSavedProxy(w) == Enter(w, "search") \/ Enter(w, "none")

CheckReadsList(w) ==
  /\ Idle(w)
  /\ \E l \in {saved} \cup {NoList : f \in ListFaults \cap {"read"}} :
       /\ got' = [got EXCEPT ![w] = l]
       /\ IF l = NoList THEN NoSavedProxy(w) ELSE Enter(w, "count")
  /\ UNCHANGED <<counterVars, saved, made, current, worn>>

RejectsListNever(n) == FALSE

\* isProxyTranslationLimitReached(readProxyTranslationCountState(...)["count"])
RejectsList(n) == AtLimit(n)

CheckReadsCount(w) ==
  /\ stage[w] = "count"
  /\ Observe(w)
  /\ IF RejectsList(local'[w]) THEN NoSavedProxy(w) ELSE Enter(w, "health")
  /\ UNCHANGED <<saved, got, made, current, worn>>

\* One health check of every saved proxy the usage history allows.
CheckHealth(w) ==
  /\ stage[w] = "health"
  /\ Enter(w, "ensure") \/ NoSavedProxy(w)
  /\ UNCHANGED <<counterVars, saved, got, made, current, worn>>

CheckEnsuresCount(w) ==
  /\ stage[w] = "ensure"
  /\ Ensure(w, 0)
  /\ Enter(w, "serve")
  /\ UNCHANGED <<saved, got, made, current, worn>>

\* check() returns a proxy of the saved list.
Serve(w) ==
  /\ stage[w] = "serve"
  /\ pc[w] = "idle"
  /\ Select(w, "log")
  /\ UNCHANGED <<counterVars, saved, got, made, current, worn>>

\* logSelectedProxyTranslationCount
LogSelected(w) ==
  /\ stage[w] \in {"log", "announce"}
  /\ Ensure(w, 0)
  /\ Enter(w, "none")
  /\ UNCHANGED <<saved, got, made, current, worn>>

\* search() itself, or get() that is not to use the saved list.
GetSearches(w) ==
  /\ Idle(w)
  /\ Enter(w, "search")
  /\ UNCHANGED <<counterVars, saved, got, made, current, worn>>

Searching(w) == pc[w] = "search" \/ stage[w] = "search"

\* Neither provider has a candidate that passes validation.
SearchFindsNothing(w) ==
  /\ Searching(w)
  /\ IF pc[w] = "search" THEN SearchFails(w) ELSE UNCHANGED counterVars
  /\ Enter(w, "none")
  /\ UNCHANGED <<saved, got, made, current, worn>>

SearchFindsList(w) ==
  /\ Searching(w)
  /\ made < MaxLists
  /\ SearchFinds(w)
  /\ made' = made + 1
  /\ got' = [got EXCEPT ![w] = made']
  /\ Enter(w, "found")
  /\ UNCHANGED <<saved, current, worn>>

ResetForList(w) ==
  /\ Reset(w)
  /\ current' = IF w \in Writers THEN got[w] ELSE current
  /\ UNCHANGED <<saved, stage, got, made, worn>>

SavedAfterAppend(w) == IF saved = NoList THEN got[w] ELSE saved

\* The new list replaces the saved one.
SavedAfter(w) == got[w]

\* saveWorkingProxyList, after the reset: its errors are caught and the search
\* returns its proxy all the same, but for a reply that cannot be decoded.
SaveList(w) ==
  /\ stage[w] = "found"
  /\ pc[w] = "idle"
  /\ \/ w \in Writers /\ saved' = SavedAfter(w) /\ Select(w, "announce")
     \/ /\ w \notin Writers \/ "write" \in ListFaults
        /\ UNCHANGED saved
        /\ Select(w, "announce")
     \/ /\ w \in Writers /\ "garbled" \in ListFaults
        /\ saved' \in {saved, SavedAfter(w)}
        /\ Enter(w, "none")
  /\ UNCHANGED <<counterVars, got, made, current, worn>>

BeginReport(w) ==
  /\ Idle(w)
  /\ \E d \in {-1, 1} : Ensure(w, d)
  /\ UNCHANGED listVars

\* A report that brings the cycle to a limit wears its list out.
FinishReport(w) ==
  /\ SaveFeedback(w)
  /\ worn' = IF w \in Writers /\ AtLimit(local'[w]) THEN worn \cup {current} ELSE worn
  /\ UNCHANGED <<saved, stage, got, made, current>>

CounterStep(w) ==
  /\ Initialize(w) \/ Verify(w) \/ Handle(w)
  /\ UNCHANGED listVars

\* An exception or a restart ends the lookup.
Interrupted(w) ==
  /\ WriteRaises(w) \/ Crash(w)
  /\ Enter(w, "none")
  /\ UNCHANGED <<saved, got, made, current, worn>>

StepLookup(w) ==
  \/ CheckReadsList(w) \/ CheckReadsCount(w) \/ CheckHealth(w)
  \/ CheckEnsuresCount(w) \/ Serve(w) \/ LogSelected(w)
  \/ GetSearches(w) \/ SearchFindsNothing(w) \/ SearchFindsList(w)
  \/ ResetForList(w) \/ SaveList(w)
  \/ BeginReport(w) \/ FinishReport(w) \/ CounterStep(w)
  \/ Interrupted(w)

NextLookup == \E w \in Workers : StepLookup(w)

SpecLookup == InitLookup /\ [][NextLookup]_allVars

-----------------------------------------------------------------------------

Stages == {"none", "count", "health", "ensure", "serve", "search", "found",
           "log", "announce"}

\* The lookup's variables have their types, next to the counter's.
TypeOKLookup ==
  /\ TypeOK
  /\ saved \in Lists \cup {NoList}
  /\ stage \in [Workers -> Stages]
  /\ got \in [Workers -> Lists \cup {NoList}]
  /\ made \in Lists
  /\ current \in Lists
  /\ worn \subseteq Lists

\* An exhausted counter prevents reuse of the cached list: a list whose cycle
\* has reached a limit is not validated, selected from or returned again by a
\* worker that writes the list and the counter.
WornListIsNotServed ==
  \A w \in Writers :
    stage[w] \in {"health", "ensure", "serve"} => got[w] \notin worn

\* Between calls the saved list is the one the counter counts for, so that a
\* fresh cycle is never spent on the list of an earlier one.
SavedListMatchesCycle ==
  (\A w \in Workers : Idle(w)) => saved \in {current, NoList}

\* A worker that sees the shared counter reads the list and its count in two
\* requests, and can be wrong about the pair.  It accepts a worn list only when
\* another list has replaced it in between, or while the progress of a worker
\* that writes has not reached the database.
WornListNeedsStaleRead ==
  [][\A w \in Readers :
       ~unsaved[w] /\ stage[w] = "count" /\ stage'[w] = "health" /\ got[w] \in worn
         => got[w] # current \/ \E v \in Writers : unsaved[v]]_allVars

\* The count is the one w acts on and no other worker's steps move.
OwnsCount(w) == w \in Writers \/ unsaved[w] \/ w \notin Readers

\* Only its own fresh discovery ends an exhausted cycle: while the count of a
\* writer, or the count a read-only worker keeps to itself after its first
\* report, is at a limit it changes in no other way, whatever lookups, reports
\* and searches come and go at both workers.
OnlyDiscoveryRenews ==
  [][\A w \in Workers :
       OwnsCount(w) /\ AtLimit(EffectiveCount(w))
                    /\ EffectiveCount(w)' # EffectiveCount(w)
         => stage[w] = "found"]_allVars

\* Once the message about a proxy of a freshly found list is due, the lookup
\* writes no more: the reset has stored and verified the counter or left it
\* marked unsaved, whatever was refused, lost, falsely acknowledged or not
\* readable.  A write at this point could raise and take the proxy with it.
DiscoveryIsLoggedWithoutWrite ==
  [][\A w \in Workers :
       stage[w] = "announce" /\ stage'[w] = "none" => pc'[w] = "idle"]_allVars
=============================================================================
