--------------------------- MODULE TranslationCounter ---------------------------
(***************************************************************************)
(* The signed translation counter of core/service/elastic_ip_pool_service. *)
(* One number in the KeyVal database is shared by every service instance   *)
(* ("worker").  Each worker keeps a local copy and a mark that says whether *)
(* the copy is still to be stored.  A worker runs one call at a time; every *)
(* KeyVal request is a step of its own, so the requests of several workers  *)
(* interleave, and a request can fail, be lost, or be applied unknown to    *)
(* the worker that sent it.                                                 *)
(*                                                                         *)
(* A definition that no action uses, right before one of a similar name,   *)
(* is that one with a mistake a change of the code could make; it is used  *)
(* to show that the properties notice the mistake.                         *)
(***************************************************************************)
EXTENDS Integers

CONSTANTS
  Workers,      \* the service instances that share the database
  Readers,      \* useSavedProxyBool or saveWorkingProxyBool is set
  Writers,      \* saveWorkingProxyBool is set and there is a save target
  Reporters,    \* the workers whose caller reports translation results
  MaxUse,       \* proxyTranslationMaxUseCountInt
  MinHealth,    \* proxyTranslationMinHealthCountInt
  Seeds,        \* numbers the database may hold when the workers start
  Missing,      \* the database has no value, null or an empty string
  Malformed,    \* the database has a value int() rejects
  Faults        \* the failures of the run, a subset of FaultKinds

FaultKinds == {"read",     \* a read fails or its reply is not a number
               "write",    \* a write is refused or never arrives
               "ack",      \* a write is applied, its reply is lost
               "late",     \* a write times out and is applied later
               "lie",      \* a write that is not applied gets a reply without a
                           \* status, which setValue takes for a success
               "garbled",  \* the reply to a write is not UTF-8
               "crash"}    \* a worker's process restarts

ASSUME RolesAssumption ==
  /\ Readers \subseteq Workers
  /\ Writers \subseteq Readers
  /\ Reporters \subseteq Workers

\* The constructor replaces limits of the wrong sign by 50 and -3.
ASSUME LimitsAssumption ==
  /\ MaxUse \in Int /\ MaxUse > 0
  /\ MinHealth \in Int /\ MinHealth < 0

ASSUME ValuesAssumption ==
  /\ Seeds \subseteq Int
  /\ Missing \notin Int /\ Malformed \notin Int /\ Missing # Malformed

ASSUME FaultsAssumption == Faults \subseteq FaultKinds

VARIABLES
  stored,    \* the counter's value in the database
  late,      \* values of timed-out writes that may still be applied
  local,     \* proxyTranslationCountByKeyDict of each worker (0 when absent)
  unsaved,   \* whether the counter is in the worker's unsaved set
  pc,        \* the KeyVal request each worker is about to send
  delta,     \* +1 or -1 while a result is being recorded, 0 otherwise
  count      \* the count a worker has read and is about to save

vars == <<stored, late, local, unsaved, pc, delta, count>>

Init ==
  /\ stored \in Seeds \cup {Missing, Malformed}
  /\ late = {}
  /\ local = [w \in Workers |-> 0]
  /\ unsaved = [w \in Workers |-> FALSE]
  /\ pc = [w \in Workers |-> "idle"]
  /\ delta = [w \in Workers |-> 0]
  /\ count = [w \in Workers |-> 0]

AtLimit(n) == n >= MaxUse \/ n <= MinHealth

CountAfterUnclamped(n, d) == n + d

\* A result counts only while the pool's cycle has not reached a limit.
CountAfter(n, d) == IF AtLimit(n) THEN n ELSE n + d

ReadStatesNull(w) ==
  {IF stored \in Int /\ ~unsaved[w] THEN [source |-> "keyval", count |-> stored]
                                     ELSE [source |-> "missing", count |-> stored]}

ReadStatesCached(w) == {[source |-> "local", count |-> local[w]]}

ReadStatesStale(w) ==
  {IF stored \in Int THEN [source |-> "keyval", count |-> stored]
                     ELSE [source |-> "local", count |-> local[w]]}

\* The states readProxyTranslationCountState can return to worker w now.
ReadStates(w) ==
  LET localState(source) == [source |-> source, count |-> local[w]]
  IN  IF unsaved[w] \/ w \notin Readers
      THEN {localState("local")}
      ELSE {IF stored = Missing THEN [source |-> "missing", count |-> 0]
            ELSE IF stored = Malformed THEN localState("local-fallback")
            ELSE [source |-> "keyval", count |-> stored]}
           \cup {localState("local-fallback") : f \in Faults \cap {"read"}}

WriteRepliesOnce(w) ==
  {[applied |-> ~unsaved[w], late |-> FALSE, stored |-> ~unsaved[w]]}
  \cup {[applied |-> FALSE, late |-> FALSE, stored |-> FALSE]}

\* What can become of a write: is it applied now, may it be applied later,
\* and is the worker told that it was stored.
WriteReplies(w) ==
  LET reply(a, l, s) == [applied |-> a, late |-> l, stored |-> s]
  IN  IF w \notin Writers
      THEN {reply(FALSE, FALSE, FALSE)}
      ELSE {reply(TRUE, FALSE, TRUE)}
           \cup {reply(FALSE, FALSE, FALSE) : f \in Faults \cap {"write"}}
           \cup {reply(TRUE, FALSE, FALSE) : f \in Faults \cap {"ack"}}
           \cup {reply(FALSE, TRUE, FALSE) : f \in Faults \cap {"late"}}
           \cup {reply(FALSE, FALSE, TRUE) : f \in Faults \cap {"lie"}}

\* saveProxyTranslationCount: the local copy first, then the write.
Save(w, n) ==
  /\ local' = [local EXCEPT ![w] = n]
  /\ \E r \in WriteReplies(w) :
       /\ stored' = IF r.applied THEN n ELSE stored
       /\ late' = IF r.late THEN late \cup {n} ELSE late
       /\ unsaved' = [unsaved EXCEPT ![w] = ~r.stored]

Goto(w, label) == pc' = [pc EXCEPT ![w] = label]

\* The worker has the count: a result is saved next, a getter returns.
HasCount(w, d, n) ==
  /\ Goto(w, IF d = 0 THEN "idle" ELSE "save")
  /\ delta' = [delta EXCEPT ![w] = d]
  /\ count' = [count EXCEPT ![w] = IF d = 0 THEN 0 ELSE n]

NeedsZeroAlways(w, source) ==
  source \in {"missing", "local-fallback"} /\ w \in Writers

\* Only a confirmed absent counter is initialized, and only by a writer.
NeedsZero(w, source) == source = "missing" /\ w \in Writers

\* A getter (d = 0) or a report (d = 1, -1) reads the counter.
Ensure(w, d) ==
  /\ pc[w] = "idle"
  /\ d # 0 => w \in Reporters
  /\ \E s \in ReadStates(w) :
       /\ local' = [local EXCEPT ![w] = s.count]
       /\ IF NeedsZero(w, s.source)
          THEN /\ Goto(w, "initialize")
               /\ delta' = [delta EXCEPT ![w] = d]
               /\ UNCHANGED count
          ELSE HasCount(w, d, s.count)
  /\ UNCHANGED <<stored, late, unsaved>>

\* The cache eligibility check: a read that never initializes.
Observe(w) ==
  /\ pc[w] = "idle"
  /\ \E s \in ReadStates(w) : local' = [local EXCEPT ![w] = s.count]
  /\ UNCHANGED <<stored, late, unsaved, pc, delta, count>>

Initialize(w) ==
  /\ pc[w] = "initialize"
  /\ Save(w, 0)
  /\ Goto(w, "verify")
  /\ UNCHANGED <<delta, count>>

UnverifiedIfUnread(source) == source = "local-fallback"

\* The database does not show the count that was just written.
Unverified(source) == source \in {"missing", "local-fallback"}

\* A saved count is read back; a read that shows no number leaves the local
\* count in charge.
Verify(w) ==
  /\ pc[w] = "verify"
  /\ \E s \in ReadStates(w) :
       LET n == IF s.source = "missing" THEN local[w] ELSE s.count
       IN  /\ local' = [local EXCEPT ![w] = n]
           /\ unsaved' = [unsaved EXCEPT ![w] = @ \/ Unverified(s.source)]
           /\ HasCount(w, delta[w], n)
  /\ UNCHANGED <<stored, late>>

\* The second half of recordSubtitleTranslationResult.  The caller decides
\* with rediscoverBool whether reaching a limit starts a search.
SaveFeedback(w) ==
  LET n == CountAfter(count[w], delta[w])
  IN  /\ pc[w] = "save"
      /\ Save(w, n)
      /\ \E rediscover \in BOOLEAN :
           Goto(w, IF rediscover /\ AtLimit(n) THEN "search" ELSE "idle")
      /\ delta' = [delta EXCEPT ![w] = 0]
      /\ count' = [count EXCEPT ![w] = 0]

\* A search that finds no working proxy leaves the counter alone.
SearchFails(w) ==
  /\ pc[w] = "search"
  /\ Goto(w, "idle")
  /\ UNCHANGED <<stored, late, local, unsaved, delta, count>>

SearchFinds(w) ==
  /\ pc[w] \in {"idle", "search"}
  /\ Goto(w, "reset")
  /\ UNCHANGED <<stored, late, local, unsaved, delta, count>>

\* resetProxyTranslationCount: a successful discovery starts a new cycle.
Reset(w) ==
  /\ pc[w] = "reset"
  /\ Save(w, 0)
  /\ Goto(w, "verify")
  /\ UNCHANGED <<delta, count>>

\* The reply to a write cannot be decoded: setValue raises UnicodeDecodeError,
\* which saveProxyTranslationCount does not catch, and the call fails.
WriteRaises(w) ==
  /\ "garbled" \in Faults
  /\ w \in Writers
  /\ pc[w] \in {"initialize", "reset", "save"}
  /\ LET n == IF pc[w] = "save" THEN CountAfter(count[w], delta[w]) ELSE 0
     IN  /\ local' = [local EXCEPT ![w] = n]
         /\ stored' \in {stored, n}
  /\ unsaved' = [unsaved EXCEPT ![w] = TRUE]
  /\ Goto(w, "raised")
  /\ delta' = [delta EXCEPT ![w] = 0]
  /\ count' = [count EXCEPT ![w] = 0]
  /\ UNCHANGED late

\* The caller handles the exception.
Handle(w) ==
  /\ pc[w] = "raised"
  /\ Goto(w, "idle")
  /\ UNCHANGED <<stored, late, local, unsaved, delta, count>>

\* A restart loses the local copy and the mark.
Crash(w) ==
  /\ "crash" \in Faults
  /\ local' = [local EXCEPT ![w] = 0]
  /\ unsaved' = [unsaved EXCEPT ![w] = FALSE]
  /\ Goto(w, "idle")
  /\ delta' = [delta EXCEPT ![w] = 0]
  /\ count' = [count EXCEPT ![w] = 0]
  /\ UNCHANGED <<stored, late>>

\* A write whose worker gave up waiting reaches the database.
Land ==
  \E n \in late :
    /\ stored' = n
    /\ late' = late \ {n}
    /\ UNCHANGED <<local, unsaved, pc, delta, count>>

Step(w) ==
  \/ \E d \in {-1, 0, 1} : Ensure(w, d)
  \/ Observe(w)
  \/ Initialize(w)
  \/ Verify(w)
  \/ SaveFeedback(w)
  \/ SearchFails(w)
  \/ SearchFinds(w)
  \/ Reset(w)
  \/ WriteRaises(w)
  \/ Handle(w)
  \/ Crash(w)

Next == Land \/ \E w \in Workers : Step(w)

Spec == Init /\ [][Next]_vars

(* Fairness: a worker finishes the calls it has begun, its caller keeps     *)
(* reporting results, and the database does not refuse every write forever. *)
Report(w) == \E d \in {-1, 1} : Ensure(w, d)

SaveSucceeds(w) == SaveFeedback(w) /\ ~unsaved'[w]

Progress(w) ==
  \/ Initialize(w) \/ Verify(w) \/ SaveFeedback(w)
  \/ SearchFails(w) \/ Reset(w) \/ Handle(w)

FairSpec ==
  /\ Spec
  /\ \A w \in Workers : /\ WF_vars(Progress(w))
                        /\ SF_vars(Report(w))
                        /\ SF_vars(SaveSucceeds(w))

-----------------------------------------------------------------------------

Labels == {"idle", "initialize", "verify", "save", "search", "reset", "raised"}

\* Every variable has its type; a worker carries a count only between the
\* read and the save of a report.
TypeOK ==
  /\ stored \in Int \cup {Missing, Malformed}
  /\ late \subseteq Int
  /\ local \in [Workers -> Int]
  /\ unsaved \in [Workers -> BOOLEAN]
  /\ pc \in [Workers -> Labels]
  /\ delta \in [Workers -> {-1, 0, 1}]
  /\ count \in [Workers -> Int]

InRange(n) == n \in MinHealth .. MaxUse \/ n \in Seeds

\* Whatever the workers race on and whatever fails, no count in the database,
\* in a worker or on its way between them is beyond a limit, unless the
\* database held it before: recordSubtitleTranslationResult stops at the limit.
CountInRange ==
  /\ stored \in Int => InRange(stored)
  /\ \A n \in late : InRange(n)
  /\ \A w \in Workers : InRange(local[w]) /\ InRange(count[w])

\* A late result cannot revive a cycle that has reached a limit: an exhausted
\* count in the database is replaced only by a discovery's reset, or by the
\* retry of a count (such a reset) that could not be stored before.
ExhaustedStaysExhausted ==
  [][(stored \in Int /\ AtLimit(stored) /\ stored' # stored)
       => \E w \in Workers :
            pc[w] = "reset" \/ (pc[w] = "save" /\ unsaved[w])]_vars

\* ensureProxyTranslationCount creates an absent counter and preserves an
\* existing value: when the zero is about to be written there is still none.
InitializesOnlyAbsent ==
  \A w \in Workers : pc[w] = "initialize" => stored = Missing

\* The read, the sum and the write of a report are three steps; with one writer
\* the number in the database is still the one read when the sum is written.
SavesWhatItRead ==
  \A w \in Writers :
    pc[w] = "save" /\ ~unsaved[w] /\ stored \in Int => stored = count[w]

\* Progress that could not be stored is stored by a later report.
PendingProgressIsStored ==
  \A w \in Workers \cap Writers : unsaved[w] ~> ~unsaved[w]

-----------------------------------------------------------------------------

\* The count the workers' one writer acts on: its own while unsaved or while
\* the database holds no number, the database's otherwise.
EffectiveCount(w) ==
  IF unsaved[w] \/ w \notin Readers \/ stored = Malformed THEN local[w]
  ELSE IF stored = Missing THEN 0 ELSE stored

TheWriter == CHOOSE w \in Workers : w \in Writers

Cycle == INSTANCE CounterCycle WITH
  Totals <- Seeds \cup {0},
  total <- EffectiveCount(TheWriter),
  pending <- delta[TheWriter],
  discovered <- pc[TheWriter] = "reset"

\* With one writer and nothing but failed or unacknowledged writes, the
\* counter is the cycle it promises to be: every report counts once, with its
\* sign, and only a discovery starts again at zero.
RefinesCycle == Cycle!Spec
=============================================================================
