----------------------- MODULE TranslationCounterProofs -----------------------
(***************************************************************************)
(* Theorems about TranslationCounter for every set of workers, every pair  *)
(* of limits and every set of failures.                                    *)
(***************************************************************************)
EXTENDS TranslationCounter, TLAPS

\* A read returns a number: the worker's own, the database's, or zero.
LEMMA ReadStatesCount ==
  ASSUME TypeOK, NEW w \in Workers, NEW s \in ReadStates(w)
  PROVE  /\ s.count \in Int
         /\ \/ s.count = local[w]
            \/ s.count = 0
            \/ stored \in Int /\ s.count = stored
  BY DEF TypeOK, ReadStates

\* Recording a result keeps a count an integer and inside the limits.
LEMMA CountAfterInRange ==
  ASSUME NEW n \in Int, NEW d \in {-1, 0, 1}
  PROVE  /\ CountAfter(n, d) \in Int
         /\ InRange(n) => InRange(CountAfter(n, d))
  BY LimitsAssumption DEF CountAfter, AtLimit, InRange

\* Zero lies between the limits: one is positive and the other negative.
LEMMA ZeroInRange == InRange(0)
  BY LimitsAssumption DEF InRange

\* A save touches the database, the late writes and one worker's copy, and
\* puts nothing but the saved number there.
LEMMA SaveKeepsType ==
  ASSUME TypeOK, NEW w \in Workers, NEW n \in Int, Save(w, n)
  PROVE  /\ stored' \in Int \cup {Missing, Malformed}
         /\ late' \subseteq Int
         /\ local' \in [Workers -> Int]
         /\ unsaved' \in [Workers -> BOOLEAN]
  <1>1. PICK r \in WriteReplies(w) :
          /\ stored' = IF r.applied THEN n ELSE stored
          /\ late' = IF r.late THEN late \cup {n} ELSE late
          /\ unsaved' = [unsaved EXCEPT ![w] = ~r.stored]
    BY DEF Save
  <1>2. local' = [local EXCEPT ![w] = n]
    BY DEF Save
  <1>3. (~r.stored) \in BOOLEAN
    OBVIOUS
  <1> QED
    BY <1>1, <1>2, <1>3 DEF TypeOK

LEMMA SaveKeepsRange ==
  ASSUME TypeOK, CountInRange, NEW w \in Workers, NEW n \in Int, InRange(n),
         Save(w, n)
  PROVE  /\ stored' \in Int => InRange(stored')
         /\ \A m \in late' : InRange(m)
         /\ \A v \in Workers : InRange(local'[v])
  <1>1. PICK r \in WriteReplies(w) :
          /\ stored' = IF r.applied THEN n ELSE stored
          /\ late' = IF r.late THEN late \cup {n} ELSE late
    BY DEF Save
  <1>2. local' = [local EXCEPT ![w] = n]
    BY DEF Save
  <1> QED
    BY <1>1, <1>2 DEF TypeOK, CountInRange, InRange

-----------------------------------------------------------------------------

LEMMA TypeStep == TypeOK /\ [Next]_vars => TypeOK'
  <1> SUFFICES ASSUME TypeOK, [Next]_vars
               PROVE  TypeOK'
    OBVIOUS
  <1>1. CASE Land
    BY <1>1 DEF Land, TypeOK
  <1>2. ASSUME NEW w \in Workers, NEW d \in {-1, 0, 1}, Ensure(w, d)
        PROVE  TypeOK'
    <2>1. PICK s \in ReadStates(w) :
            /\ local' = [local EXCEPT ![w] = s.count]
            /\ IF NeedsZero(w, s.source)
               THEN /\ Goto(w, "initialize")
                    /\ delta' = [delta EXCEPT ![w] = d]
                    /\ UNCHANGED count
               ELSE HasCount(w, d, s.count)
      BY <1>2 DEF Ensure
    <2>2. s.count \in Int
      BY ReadStatesCount
    <2> QED
      BY <1>2, <2>1, <2>2 DEF Ensure, HasCount, Goto, TypeOK, Labels
  <1>3. ASSUME NEW w \in Workers, Observe(w)
        PROVE  TypeOK'
    BY <1>3, ReadStatesCount DEF Observe, TypeOK
  <1>4. ASSUME NEW w \in Workers, Initialize(w)
        PROVE  TypeOK'
    BY <1>4, SaveKeepsType DEF Initialize, Goto, TypeOK, Labels
  <1>5. ASSUME NEW w \in Workers, Verify(w)
        PROVE  TypeOK'
    <2>1. PICK s \in ReadStates(w) :
            LET n == IF s.source = "missing" THEN local[w] ELSE s.count
            IN  /\ local' = [local EXCEPT ![w] = n]
                /\ unsaved' = [unsaved EXCEPT
                     ![w] = @ \/ s.source \in {"missing", "local-fallback"}]
                /\ HasCount(w, delta[w], n)
      BY <1>5 DEF Verify, Unverified
    <2>2. s.count \in Int /\ local[w] \in Int
      BY ReadStatesCount DEF TypeOK
    <2>3. unsaved' \in [Workers -> BOOLEAN]
      BY <2>1 DEF TypeOK
    <2> QED
      BY <1>5, <2>1, <2>2, <2>3 DEF Verify, Unverified, HasCount, Goto, TypeOK, Labels
  <1>6. ASSUME NEW w \in Workers, SaveFeedback(w)
        PROVE  TypeOK'
    <2>1. CountAfter(count[w], delta[w]) \in Int
      BY CountAfterInRange DEF TypeOK
    <2> QED
      BY <1>6, <2>1, SaveKeepsType DEF SaveFeedback, Goto, TypeOK, Labels
  <1>7. ASSUME NEW w \in Workers, SearchFails(w) \/ SearchFinds(w)
        PROVE  TypeOK'
    BY <1>7 DEF SearchFails, SearchFinds, Goto, TypeOK, Labels
  <1>8. ASSUME NEW w \in Workers, Reset(w)
        PROVE  TypeOK'
    BY <1>8, SaveKeepsType DEF Reset, Goto, TypeOK, Labels
  <1>9. ASSUME NEW w \in Workers, WriteRaises(w)
        PROVE  TypeOK'
    <2>1. CountAfter(count[w], delta[w]) \in Int
      BY CountAfterInRange DEF TypeOK
    <2> QED
      BY <1>9, <2>1 DEF WriteRaises, Goto, TypeOK, Labels
  <1>10. ASSUME NEW w \in Workers, Handle(w)
         PROVE  TypeOK'
    BY <1>10 DEF Handle, Goto, TypeOK, Labels
  <1>11. ASSUME NEW w \in Workers, Crash(w)
         PROVE  TypeOK'
    BY <1>11 DEF Crash, Goto, TypeOK, Labels
  <1>12. CASE UNCHANGED vars
    BY <1>12 DEF vars, TypeOK
  <1> QED
    BY <1>1, <1>2, <1>3, <1>4, <1>5, <1>6, <1>7, <1>8, <1>9, <1>10, <1>11,
       <1>12
    DEF Next, Step

\* Every variable keeps its type: in particular no step of any worker leaves
\* something other than a number in a local copy or on its way to the database.
THEOREM TypeCorrect == Spec => []TypeOK
  <1>1. Init => TypeOK
    BY ValuesAssumption DEF Init, TypeOK, Labels
  <1> QED
    BY <1>1, TypeStep, PTL DEF Spec

-----------------------------------------------------------------------------

LEMMA RangeStep ==
  TypeOK /\ CountInRange /\ [Next]_vars => CountInRange'
  <1> SUFFICES ASSUME TypeOK, CountInRange, [Next]_vars
               PROVE  CountInRange'
    OBVIOUS
  <1>r. /\ stored \in Int => InRange(stored)
        /\ \A n \in late : InRange(n)
        /\ \A w \in Workers : InRange(local[w]) /\ InRange(count[w])
    BY DEF CountInRange
  <1>a. ASSUME NEW w \in Workers
        PROVE  /\ CountAfter(count[w], delta[w]) \in Int
               /\ InRange(CountAfter(count[w], delta[w]))
    BY <1>r, CountAfterInRange DEF TypeOK
  <1>s. ASSUME NEW w \in Workers, NEW s \in ReadStates(w)
        PROVE  s.count \in Int /\ InRange(s.count)
    BY <1>r, <1>s, ReadStatesCount, ZeroInRange
  <1>1. CASE Land
    BY <1>1, <1>r DEF Land, CountInRange, InRange, TypeOK
  <1>2. ASSUME NEW w \in Workers, NEW d \in {-1, 0, 1}, Ensure(w, d)
        PROVE  CountInRange'
    <2>1. PICK s \in ReadStates(w) :
            /\ local' = [local EXCEPT ![w] = s.count]
            /\ count' = count \/ HasCount(w, d, s.count)
      BY <1>2 DEF Ensure
    <2>2. InRange(s.count)
      BY <1>s
    <2> QED
      BY <1>2, <2>1, <2>2, <1>r, ZeroInRange
      DEF Ensure, HasCount, TypeOK, CountInRange, InRange
  <1>3. ASSUME NEW w \in Workers, Observe(w)
        PROVE  CountInRange'
    BY <1>3, <1>r, <1>s DEF Observe, TypeOK, CountInRange, InRange
  <1>4. ASSUME NEW w \in Workers, Initialize(w) \/ Reset(w)
        PROVE  CountInRange'
    <2>1. Save(w, 0) /\ count' = count
      BY <1>4 DEF Initialize, Reset
    <2> QED
      BY <2>1, <1>r, SaveKeepsRange, ZeroInRange DEF CountInRange, InRange
  <1>5. ASSUME NEW w \in Workers, Verify(w)
        PROVE  CountInRange'
    <2>1. PICK s \in ReadStates(w) :
            LET n == IF s.source = "missing" THEN local[w] ELSE s.count
            IN  /\ local' = [local EXCEPT ![w] = n]
                /\ HasCount(w, delta[w], n)
      BY <1>5 DEF Verify, Unverified
    <2>2. InRange(s.count) /\ InRange(local[w])
      BY <1>s, <1>r
    <2> QED
      BY <1>5, <2>1, <2>2, <1>r, ZeroInRange
      DEF Verify, Unverified, HasCount, TypeOK, CountInRange, InRange
  <1>6. ASSUME NEW w \in Workers, SaveFeedback(w)
        PROVE  CountInRange'
    <2>1. /\ Save(w, CountAfter(count[w], delta[w]))
          /\ count' = [count EXCEPT ![w] = 0]
      BY <1>6 DEF SaveFeedback
    <2> QED
      BY <2>1, <1>a, <1>r, SaveKeepsRange, ZeroInRange
      DEF TypeOK, CountInRange, InRange
  <1>7. ASSUME NEW w \in Workers, SearchFails(w) \/ SearchFinds(w) \/ Handle(w)
        PROVE  CountInRange'
    BY <1>7, <1>r DEF SearchFails, SearchFinds, Handle, CountInRange, InRange
  <1>8. ASSUME NEW w \in Workers, WriteRaises(w)
        PROVE  CountInRange'
    <2> DEFINE n == IF pc[w] = "save" THEN CountAfter(count[w], delta[w]) ELSE 0
    <2>1. InRange(n)
      BY <1>a, ZeroInRange
    <2>2. /\ local' = [local EXCEPT ![w] = n]
          /\ stored' \in {stored, n}
          /\ count' = [count EXCEPT ![w] = 0]
          /\ late' = late
      BY <1>8 DEF WriteRaises
    <2> HIDE DEF n
    <2> QED
      BY <2>1, <2>2, <1>r, ZeroInRange DEF TypeOK, CountInRange, InRange
  <1>9. ASSUME NEW w \in Workers, Crash(w)
        PROVE  CountInRange'
    BY <1>9, <1>r, ZeroInRange DEF Crash, TypeOK, CountInRange, InRange
  <1>10. CASE UNCHANGED vars
    BY <1>10, <1>r DEF vars, CountInRange, InRange
  <1> QED
    BY <1>1, <1>2, <1>3, <1>4, <1>5, <1>6, <1>7, <1>8, <1>9, <1>10
    DEF Next, Step

\* Races, lost, late and false acknowledgements and restarts included, the
\* feedback never drives a count past the limit at which it stops counting.
THEOREM CountStaysInRange == Spec => []CountInRange
  <1>1. Init => CountInRange
    BY ZeroInRange, ValuesAssumption DEF Init, CountInRange, InRange
  <1> QED
    BY <1>1, RangeStep, TypeCorrect, PTL DEF Spec

-----------------------------------------------------------------------------
(* One writer.  The theorems below assume what the README asks of a         *)
(* deployment, one writing worker per database, and that a read either      *)
(* shows the database's value or is not attempted.                          *)

OneWriter == \A v, w \in Writers : v = w

ReliableReads == Faults \cap {"read", "late"} = {}

WriterInv ==
  /\ late = {}
  /\ \A w \in Workers : pc[w] = "initialize" => w \in Writers /\ stored = Missing
  /\ \A w \in Writers :
       pc[w] = "save" /\ ~unsaved[w] /\ stored \in Int => stored = count[w]

\* Without a failed read the answer is the worker's own count, while unsaved
\* or unreadable, or what the database holds.
LEMMA ReliableReadStates ==
  ASSUME TypeOK, ReliableReads, NEW w \in Workers, NEW s \in ReadStates(w)
  PROVE  /\ s.source = "missing" => stored = Missing
         /\ ~unsaved[w] /\ w \in Readers /\ stored \in Int => s.count = stored
         /\ ~unsaved[w] /\ w \in Readers /\ stored \notin Int
              => s.source \in {"missing", "local-fallback"}
  BY ValuesAssumption DEF TypeOK, ReliableReads, ReadStates

\* A worker that is not the writer leaves the database alone.
LEMMA OnlyWritersStore ==
  ASSUME ReliableReads, NEW w \in Workers, NEW n, Save(w, n)
  PROVE  /\ late' = late
         /\ w \notin Writers => stored' = stored
         /\ stored' \in {stored, n}
  BY DEF ReliableReads, Save, WriteReplies

\* A step that stores leaves its worker outside the labels the invariant is
\* about, and no other worker is a writer.
LEMMA StoringStep ==
  ASSUME OneWriter, ReliableReads, TypeOK, WriterInv,
         NEW w \in Workers, NEW label \in Labels \ {"initialize", "save"},
         Goto(w, label),
         \A v \in Workers : v # w => unsaved'[v] = unsaved[v] /\ count'[v] = count[v],
         late' = late,
         w \notin Writers => stored' = stored
  PROVE  WriterInv'
  BY RolesAssumption DEF OneWriter, TypeOK, WriterInv, Goto, Labels

LEMMA WriterStep ==
  ASSUME OneWriter, ReliableReads, TypeOK, WriterInv, [Next]_vars
  PROVE  WriterInv'
  <1>w. Writers \subseteq Readers /\ Writers \subseteq Workers
    BY RolesAssumption
  <1>1. CASE Land
    BY <1>1 DEF Land, WriterInv
  <1>2. ASSUME NEW w \in Workers, NEW d \in {-1, 0, 1}, Ensure(w, d)
        PROVE  WriterInv'
    <2>1. PICK s \in ReadStates(w) :
            IF NeedsZero(w, s.source)
            THEN /\ Goto(w, "initialize")
                 /\ UNCHANGED count
            ELSE HasCount(w, d, s.count)
      BY <1>2 DEF Ensure
    <2>2. UNCHANGED <<stored, late, unsaved>>
      BY <1>2 DEF Ensure
    <2>3. CASE NeedsZero(w, s.source)
      <3>1. w \in Writers /\ stored = Missing
        BY <2>3, ReliableReadStates DEF NeedsZero
      <3>2. Goto(w, "initialize") /\ count' = count
        BY <2>1, <2>3
      <3> QED
        BY <1>w, <2>2, <3>1, <3>2 DEF Goto, TypeOK, WriterInv
    <2>4. CASE ~NeedsZero(w, s.source)
      <3>1. w \in Writers /\ ~unsaved[w] /\ stored \in Int => s.count = stored
        BY <1>w, ReliableReadStates
      <3> QED
        BY <1>w, <2>1, <2>2, <2>4, <3>1 DEF HasCount, Goto, TypeOK, WriterInv
    <2> QED
      BY <2>3, <2>4
  <1>3. ASSUME NEW w \in Workers, Observe(w)
        PROVE  WriterInv'
    BY <1>3 DEF Observe, WriterInv
  <1>4. ASSUME NEW w \in Workers, Initialize(w) \/ Reset(w)
        PROVE  WriterInv'
    <2>1. Save(w, 0) /\ Goto(w, "verify") /\ count' = count
      BY <1>4 DEF Initialize, Reset
    <2> QED
      BY <2>1, OnlyWritersStore, StoringStep DEF Save, TypeOK, Labels
  <1>5. ASSUME NEW w \in Workers, Verify(w)
        PROVE  WriterInv'
    <2>1. PICK s \in ReadStates(w) :
            LET n == IF s.source = "missing" THEN local[w] ELSE s.count
            IN  /\ unsaved' = [unsaved EXCEPT
                     ![w] = @ \/ s.source \in {"missing", "local-fallback"}]
                /\ HasCount(w, delta[w], n)
      BY <1>5 DEF Verify, Unverified
    <2>2. UNCHANGED <<stored, late>>
      BY <1>5 DEF Verify, Unverified
    <2>3. w \in Writers /\ ~unsaved'[w] /\ stored \in Int
            => s.count = stored /\ s.source # "missing"
      BY <1>w, <2>1, ReliableReadStates, ValuesAssumption DEF TypeOK
    <2> QED
      BY <1>w, <2>1, <2>2, <2>3 DEF HasCount, Goto, TypeOK, WriterInv
  <1>6. ASSUME NEW w \in Workers, SaveFeedback(w)
        PROVE  WriterInv'
    <2>1. PICK rediscover \in BOOLEAN :
            Goto(w, IF rediscover /\ AtLimit(CountAfter(count[w], delta[w]))
                    THEN "search" ELSE "idle")
      BY <1>6 DEF SaveFeedback
    <2>2. /\ Save(w, CountAfter(count[w], delta[w]))
          /\ count' = [count EXCEPT ![w] = 0]
      BY <1>6 DEF SaveFeedback
    <2> QED
      BY <2>1, <2>2, OnlyWritersStore, StoringStep DEF Save, TypeOK, Labels
  <1>7. ASSUME NEW w \in Workers, SearchFails(w) \/ SearchFinds(w) \/ Handle(w)
        PROVE  WriterInv'
    <2>1. /\ Goto(w, "idle") \/ Goto(w, "reset")
          /\ UNCHANGED <<stored, late, unsaved, count>>
      BY <1>7 DEF SearchFails, SearchFinds, Handle
    <2> QED
      BY <2>1, StoringStep DEF Labels
  <1>8. ASSUME NEW w \in Workers, WriteRaises(w)
        PROVE  WriterInv'
    BY <1>8, StoringStep DEF WriteRaises, TypeOK, Labels
  <1>9. ASSUME NEW w \in Workers, Crash(w)
        PROVE  WriterInv'
    <2>1. /\ Goto(w, "idle")
          /\ unsaved' = [unsaved EXCEPT ![w] = FALSE]
          /\ count' = [count EXCEPT ![w] = 0]
          /\ UNCHANGED <<stored, late>>
      BY <1>9 DEF Crash
    <2>2. \A v \in Workers : v # w => unsaved'[v] = unsaved[v]
      BY <2>1 DEF TypeOK
    <2>3. \A v \in Workers : v # w => count'[v] = count[v]
      BY <2>1 DEF TypeOK
    <2> QED
      BY <2>1, <2>2, <2>3, StoringStep DEF Labels
  <1>10. CASE UNCHANGED vars
    BY <1>10 DEF vars, WriterInv
  <1> QED
    BY <1>1, <1>2, <1>3, <1>4, <1>5, <1>6, <1>7, <1>8, <1>9, <1>10
    DEF Next, Step

\* With one writer and reads that do not fail, the number a report adds to is
\* still the database's when the sum is written, and a zero is written only
\* where there was no value: restarts and every failure of a write included.
THEOREM OneWriterIsAtomic ==
  ASSUME OneWriter, ReliableReads
  PROVE  Spec => [](SavesWhatItRead /\ InitializesOnlyAbsent)
  <1>1. Init => WriterInv
    BY RolesAssumption DEF Init, WriterInv
  <1>2. TypeOK /\ WriterInv /\ [Next]_vars => WriterInv'
    BY WriterStep
  <1>3. WriterInv => SavesWhatItRead /\ InitializesOnlyAbsent
    BY DEF WriterInv, SavesWhatItRead, InitializesOnlyAbsent
  <1> QED
    BY <1>1, <1>2, <1>3, TypeCorrect, PTL DEF Spec

\* Under the same assumptions a count that has reached a limit is never
\* revived by a report: only a discovery's reset, or the retry of a count that
\* could not be stored, replaces it.
THEOREM ExhaustionHolds ==
  ASSUME OneWriter, ReliableReads
  PROVE  Spec => ExhaustedStaysExhausted
  <1> DEFINE Exhausted == stored \in Int /\ AtLimit(stored)
             Renews == \E w \in Workers :
                         pc[w] = "reset" \/ (pc[w] = "save" /\ unsaved[w])
  <1>1. Init => WriterInv
    BY RolesAssumption DEF Init, WriterInv
  <1>2. TypeOK /\ WriterInv /\ [Next]_vars => WriterInv'
    BY WriterStep
  <1>3. ASSUME TypeOK, WriterInv, [Next]_vars, Exhausted, stored' # stored
        PROVE  Renews
    <2>1. stored # Missing
      BY <1>3, ValuesAssumption
    <2>2. PICK w \in Workers :
            Initialize(w) \/ SaveFeedback(w) \/ Reset(w) \/ WriteRaises(w)
      BY <1>3 DEF Next, Step, vars, WriterInv, Land, Ensure, Observe, Verify, Unverified,
                  SearchFails, SearchFinds, Handle, Crash
    <2>3. pc[w] # "initialize"
      BY <1>3, <2>1 DEF WriterInv
    <2>4. CASE pc[w] = "reset"
      BY <2>4
    <2>5. CASE pc[w] = "save"
      <3> SUFFICES ASSUME ~unsaved[w]
                   PROVE  FALSE
        BY <2>5
      <3>1. stored' \in {stored, CountAfter(count[w], delta[w])}
        BY <2>2, <2>5, OnlyWritersStore
        DEF Initialize, SaveFeedback, Reset, WriteRaises
      <3>2. w \in Writers
        BY <1>3, <2>2, <2>5, OnlyWritersStore
        DEF Initialize, SaveFeedback, Reset, WriteRaises
      <3>3. stored = count[w]
        BY <1>3, <2>5, <3>2 DEF WriterInv
      <3> QED
        BY <1>3, <3>1, <3>3 DEF CountAfter
    <2> QED
      BY <2>2, <2>3, <2>4, <2>5
      DEF Initialize, SaveFeedback, Reset, WriteRaises
  <1>4. TypeOK /\ WriterInv /\ [Next]_vars
          => [(stored \in Int /\ AtLimit(stored) /\ stored' # stored)
                => \E w \in Workers :
                     pc[w] = "reset" \/ (pc[w] = "save" /\ unsaved[w])]_vars
    BY <1>3
  <1> QED
    BY <1>1, <1>2, <1>4, TypeCorrect, PTL DEF Spec, ExhaustedStaysExhausted
=============================================================================
