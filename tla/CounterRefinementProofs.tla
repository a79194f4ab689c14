------------------------ MODULE CounterRefinementProofs ------------------------
(***************************************************************************)
(* TranslationCounter implements CounterCycle when one worker writes and   *)
(* the only failures are writes that are refused or unacknowledged: for    *)
(* every set of workers, all limits and all numbers stored before.         *)
(***************************************************************************)
EXTENDS TranslationCounterProofs

SoleWriter == Writers # {} /\ OneWriter

OnlyWritesFail == Faults \subseteq {"write", "ack"}

\* The labels between which the writer carries no result.
Resting == {"idle", "search", "reset"}

\* What ties the writer's copy, mark and label to the database.
CycleInv ==
  /\ pc[TheWriter] = "initialize" => stored = Missing /\ ~unsaved[TheWriter]
  /\ pc[TheWriter] = "verify" => unsaved[TheWriter] \/ stored \in Int
  /\ pc[TheWriter] = "save" => /\ count[TheWriter] = EffectiveCount(TheWriter)
                               /\ delta[TheWriter] # 0
  /\ pc[TheWriter] \in Resting => delta[TheWriter] = 0
  /\ pc[TheWriter] # "raised"

\* One step of the cycle, or none of which it takes notice.
CycleStep == Cycle!Next \/ UNCHANGED Cycle!vars

LEMMA TheWriterWrites ==
  ASSUME SoleWriter
  PROVE  /\ TheWriter \in Writers
         /\ TheWriter \in Readers
         /\ TheWriter \in Workers
         /\ \A w \in Writers : w = TheWriter
  BY RolesAssumption DEF SoleWriter, OneWriter, TheWriter

\* The writer reads the count it acts on, wherever that count is.
LEMMA ReadsEffectiveCount ==
  ASSUME SoleWriter, OnlyWritesFail, TypeOK, NEW s \in ReadStates(TheWriter)
  PROVE  /\ s.count = EffectiveCount(TheWriter)
         /\ s.source = "missing" <=> stored = Missing /\ ~unsaved[TheWriter]
         /\ s.source = "local-fallback"
              <=> stored = Malformed /\ ~unsaved[TheWriter]
  BY TheWriterWrites, ValuesAssumption
  DEF OnlyWritesFail, TypeOK, ReadStates, EffectiveCount

\* The count a reader has just taken over is the count it acts on.
LEMMA TakingOverKeepsCount ==
  ASSUME SoleWriter, OnlyWritesFail, TypeOK, NEW s \in ReadStates(TheWriter),
         local' = [local EXCEPT ![TheWriter] = s.count],
         unsaved' = unsaved, stored' = stored
  PROVE  EffectiveCount(TheWriter)' = EffectiveCount(TheWriter)
  BY TheWriterWrites, ReadsEffectiveCount, ValuesAssumption
  DEF TypeOK, EffectiveCount

\* Whatever becomes of a write, the writer acts on the number it saved.
LEMMA SavedCountIsEffective ==
  ASSUME SoleWriter, OnlyWritesFail, TypeOK, NEW n \in Int, Save(TheWriter, n)
  PROVE  /\ EffectiveCount(TheWriter)' = n
         /\ unsaved'[TheWriter] \/ stored' \in Int
  <1>1. PICK r \in WriteReplies(TheWriter) :
          /\ stored' = IF r.applied THEN n ELSE stored
          /\ unsaved' = [unsaved EXCEPT ![TheWriter] = ~r.stored]
    BY DEF Save
  <1>2. r.stored \in BOOLEAN /\ (r.stored => r.applied)
    <2>1. Faults \cap {"late"} = {} /\ Faults \cap {"lie"} = {}
      BY DEF OnlyWritesFail
    <2>2. TheWriter \in Writers
      BY TheWriterWrites
    <2>3. \/ r = [applied |-> TRUE, late |-> FALSE, stored |-> TRUE]
          \/ r = [applied |-> FALSE, late |-> FALSE, stored |-> FALSE]
          \/ r = [applied |-> TRUE, late |-> FALSE, stored |-> FALSE]
      BY <2>1, <2>2 DEF WriteReplies
    <2>4. CASE r = [applied |-> TRUE, late |-> FALSE, stored |-> TRUE]
      BY <2>4
    <2>5. CASE r = [applied |-> FALSE, late |-> FALSE, stored |-> FALSE]
      BY <2>5
    <2>6. CASE r = [applied |-> TRUE, late |-> FALSE, stored |-> FALSE]
      BY <2>6
    <2> QED
      BY <2>3, <2>4, <2>5, <2>6
  <1>3. local'[TheWriter] = n
    BY TheWriterWrites DEF Save, TypeOK
  <1>4. unsaved'[TheWriter] = ~r.stored
    BY <1>1, TheWriterWrites DEF TypeOK
  <1>5. CASE r.stored
    <2>1. stored' = n
      BY <1>1, <1>2, <1>5
    <2> QED
      BY <1>3, <1>4, <1>5, <2>1, TheWriterWrites, ValuesAssumption
      DEF EffectiveCount
  <1>6. CASE ~r.stored
    BY <1>3, <1>4, <1>6 DEF EffectiveCount
  <1> QED
    BY <1>5, <1>6

-----------------------------------------------------------------------------

\* The other workers' steps leave the writer and the database alone.
LEMMA OthersAreInvisible ==
  ASSUME SoleWriter, OnlyWritesFail, TypeOK, CycleInv,
         NEW w \in Workers, w # TheWriter, Step(w)
  PROVE  CycleInv' /\ UNCHANGED Cycle!vars
  <1>1. w \notin Writers /\ TheWriter \in Workers
    BY TheWriterWrites
  <1>2. "late" \notin Faults /\ "garbled" \notin Faults /\ "crash" \notin Faults
    BY DEF OnlyWritesFail
  <1>3. stored' = stored
    <2>1. ASSUME NEW n, Save(w, n)
          PROVE  stored' = stored
      BY <1>1, <1>2, <2>1 DEF Save, WriteReplies
    <2> QED
      BY <1>2, <2>1
      DEF Step, Ensure, Observe, Initialize, Verify, Unverified, SaveFeedback, SearchFails,
          SearchFinds, Reset, WriteRaises, Handle, Crash
  <1>4. pc'[TheWriter] = pc[TheWriter]
    BY <1>1, <1>2
    DEF Step, Ensure, Observe, Initialize, Verify, Unverified, SaveFeedback, SearchFails,
        SearchFinds, Reset, WriteRaises, Handle, Crash, HasCount, Goto, TypeOK
  <1>5. delta'[TheWriter] = delta[TheWriter] /\ count'[TheWriter] = count[TheWriter]
    BY <1>1, <1>2
    DEF Step, Ensure, Observe, Initialize, Verify, Unverified, SaveFeedback, SearchFails,
        SearchFinds, Reset, WriteRaises, Handle, Crash, HasCount, TypeOK
  <1>6. local'[TheWriter] = local[TheWriter]
    BY <1>1, <1>2
    DEF Step, Ensure, Observe, Initialize, Verify, Unverified, SaveFeedback, SearchFails,
        SearchFinds, Reset, WriteRaises, Handle, Crash, Save, TypeOK
  <1>7. unsaved'[TheWriter] = unsaved[TheWriter]
    BY <1>1, <1>2
    DEF Step, Ensure, Observe, Initialize, Verify, Unverified, SaveFeedback, SearchFails,
        SearchFinds, Reset, WriteRaises, Handle, Crash, Save, TypeOK
  <1>8. EffectiveCount(TheWriter)' = EffectiveCount(TheWriter)
    BY <1>3, <1>6, <1>7 DEF EffectiveCount
  <1> QED
    BY <1>3, <1>4, <1>5, <1>7, <1>8 DEF CycleInv, Cycle!vars

\* The read of a report begins it; the read of a getter goes unnoticed.
LEMMA EnsureStep ==
  ASSUME SoleWriter, OnlyWritesFail, TypeOK, CycleInv,
         NEW d \in {-1, 0, 1}, Ensure(TheWriter, d)
  PROVE  CycleInv' /\ CycleStep
  <1>1. PICK s \in ReadStates(TheWriter) :
          /\ local' = [local EXCEPT ![TheWriter] = s.count]
          /\ IF NeedsZero(TheWriter, s.source)
             THEN /\ Goto(TheWriter, "initialize")
                  /\ delta' = [delta EXCEPT ![TheWriter] = d]
                  /\ UNCHANGED count
             ELSE HasCount(TheWriter, d, s.count)
    BY DEF Ensure
  <1>2. pc[TheWriter] = "idle" /\ UNCHANGED <<stored, late, unsaved>>
    BY DEF Ensure
  <1>3. EffectiveCount(TheWriter)' = EffectiveCount(TheWriter)
    BY <1>1, <1>2, TakingOverKeepsCount
  <1>4. s.count = EffectiveCount(TheWriter)
    BY ReadsEffectiveCount
  <1>5. delta'[TheWriter] = d /\ delta[TheWriter] = 0
    BY <1>1, <1>2, TheWriterWrites DEF HasCount, TypeOK, CycleInv, Resting
  <1>6. \/ /\ pc'[TheWriter] = "initialize"
           /\ stored = Missing
           /\ ~unsaved[TheWriter]
        \/ pc'[TheWriter] = "idle" /\ d = 0
        \/ /\ pc'[TheWriter] = "save"
           /\ d # 0
           /\ count'[TheWriter] = s.count
    BY <1>1, ReadsEffectiveCount, TheWriterWrites
    DEF NeedsZero, HasCount, Goto, TypeOK
  <1>7. CycleInv'
    BY <1>2, <1>3, <1>4, <1>5, <1>6 DEF CycleInv, Resting
  <1>8. (pc[TheWriter] = "reset")' = (pc[TheWriter] = "reset")
    BY <1>2, <1>6
  <1>9. CASE d = 0
    BY <1>3, <1>5, <1>7, <1>8, <1>9 DEF CycleStep, Cycle!vars
  <1>10. CASE d # 0
    BY <1>3, <1>5, <1>7, <1>8, <1>10 DEF CycleStep, Cycle!Next, Cycle!Begin
  <1> QED
    BY <1>7, <1>9, <1>10

\* Writing the zero of an absent counter and reading a count back change
\* nothing the cycle can see.
LEMMA SettlingStep ==
  ASSUME SoleWriter, OnlyWritesFail, TypeOK, CycleInv,
         Observe(TheWriter) \/ Initialize(TheWriter) \/ Verify(TheWriter)
  PROVE  CycleInv' /\ UNCHANGED Cycle!vars
  <1>1. CASE Observe(TheWriter)
    <2>1. EffectiveCount(TheWriter)' = EffectiveCount(TheWriter)
      BY <1>1, TakingOverKeepsCount DEF Observe
    <2> QED
      BY <1>1, <2>1 DEF Observe, CycleInv, Cycle!vars, Resting
  <1>2. CASE Initialize(TheWriter)
    <2>1. /\ pc[TheWriter] = "initialize"
          /\ pc'[TheWriter] = "verify"
          /\ Save(TheWriter, 0)
          /\ UNCHANGED <<delta, count>>
      BY <1>2, TheWriterWrites DEF Initialize, Goto, TypeOK
    <2>2. EffectiveCount(TheWriter) = 0
      BY <2>1, TheWriterWrites, ValuesAssumption DEF CycleInv, EffectiveCount
    <2>3. /\ EffectiveCount(TheWriter)' = 0
          /\ unsaved'[TheWriter] \/ stored' \in Int
      BY <2>1, SavedCountIsEffective
    <2> QED
      BY <2>1, <2>2, <2>3 DEF CycleInv, Cycle!vars, Resting
  <1>3. CASE Verify(TheWriter)
    <2>1. PICK s \in ReadStates(TheWriter) :
            LET n == IF s.source = "missing" THEN local[TheWriter] ELSE s.count
            IN  /\ local' = [local EXCEPT ![TheWriter] = n]
                /\ unsaved' = [unsaved EXCEPT ![TheWriter] =
                     @ \/ s.source \in {"missing", "local-fallback"}]
                /\ HasCount(TheWriter, delta[TheWriter], n)
      BY <1>3 DEF Verify, Unverified
    <2>2. pc[TheWriter] = "verify" /\ UNCHANGED <<stored, late>>
      BY <1>3 DEF Verify, Unverified
    <2>3. s.source \notin {"missing", "local-fallback"}
      BY <2>2, ReadsEffectiveCount, ValuesAssumption DEF CycleInv
    <2>4. /\ local' = [local EXCEPT ![TheWriter] = s.count]
          /\ HasCount(TheWriter, delta[TheWriter], s.count)
      BY <2>1, <2>3
    <2>5. unsaved' = unsaved
      BY <2>1, <2>3 DEF TypeOK
    <2>6. EffectiveCount(TheWriter)' = EffectiveCount(TheWriter)
      BY <2>2, <2>4, <2>5, TakingOverKeepsCount
    <2>7. s.count = EffectiveCount(TheWriter)
      BY ReadsEffectiveCount
    <2>8. /\ delta'[TheWriter] = delta[TheWriter]
          /\ \/ pc'[TheWriter] = "idle" /\ delta[TheWriter] = 0
             \/ /\ pc'[TheWriter] = "save"
                /\ delta[TheWriter] # 0
                /\ count'[TheWriter] = s.count
      BY <2>4, TheWriterWrites DEF HasCount, Goto, TypeOK
    <2> QED
      BY <2>2, <2>6, <2>7, <2>8 DEF CycleInv, Cycle!vars, Resting
  <1> QED
    BY <1>1, <1>2, <1>3

\* Saving a report records it once, with its sign, unless the cycle is over.
LEMMA SaveFeedbackStep ==
  ASSUME SoleWriter, OnlyWritesFail, TypeOK, CycleInv, SaveFeedback(TheWriter)
  PROVE  CycleInv' /\ CycleStep
  <1> DEFINE n == CountAfter(count[TheWriter], delta[TheWriter])
  <1>1. /\ pc[TheWriter] = "save"
        /\ Save(TheWriter, n)
        /\ delta' = [delta EXCEPT ![TheWriter] = 0]
    BY DEF SaveFeedback
  <1>2. /\ count[TheWriter] = EffectiveCount(TheWriter)
        /\ delta[TheWriter] # 0
    BY <1>1 DEF CycleInv
  <1>3. n \in Int
    BY CountAfterInRange, TheWriterWrites DEF TypeOK
  <1>4. EffectiveCount(TheWriter)' = n
    BY <1>1, <1>3, SavedCountIsEffective
  <1>5. pc'[TheWriter] \in {"idle", "search"}
    BY TheWriterWrites DEF SaveFeedback, Goto, TypeOK
  <1>6. delta'[TheWriter] = 0
    BY <1>1, TheWriterWrites DEF TypeOK
  <1>7. n = IF Cycle!Exhausted THEN EffectiveCount(TheWriter)
            ELSE EffectiveCount(TheWriter) + delta[TheWriter]
    BY <1>2 DEF CountAfter, AtLimit, Cycle!Exhausted
  <1>8. (pc[TheWriter] = "reset")' = (pc[TheWriter] = "reset")
    BY <1>1, <1>5
  <1>9. Cycle!Record
    BY <1>2, <1>4, <1>6, <1>7, <1>8 DEF Cycle!Record
  <1> QED
    BY <1>5, <1>6, <1>9 DEF CycleInv, Resting, CycleStep, Cycle!Next

\* A search that finds starts a new cycle, one that fails does not.
LEMMA DiscoveryStep ==
  ASSUME SoleWriter, OnlyWritesFail, TypeOK, CycleInv,
         \/ SearchFails(TheWriter)
         \/ SearchFinds(TheWriter)
         \/ Reset(TheWriter)
  PROVE  CycleInv' /\ CycleStep
  <1>1. ASSUME UNCHANGED <<stored, late, local, unsaved, delta, count>>
        PROVE  EffectiveCount(TheWriter)' = EffectiveCount(TheWriter)
    BY <1>1 DEF EffectiveCount
  <1>2. CASE SearchFails(TheWriter)
    <2>1. pc[TheWriter] = "search" /\ pc'[TheWriter] = "idle"
      BY <1>2, TheWriterWrites DEF SearchFails, Goto, TypeOK
    <2> QED
      BY <1>1, <1>2, <2>1
      DEF SearchFails, CycleInv, Resting, CycleStep, Cycle!vars
  <1>3. CASE SearchFinds(TheWriter)
    <2>1. pc[TheWriter] \in {"idle", "search"} /\ pc'[TheWriter] = "reset"
      BY <1>3, TheWriterWrites DEF SearchFinds, Goto, TypeOK
    <2>2. delta[TheWriter] = 0 /\ delta' = delta
      BY <1>3, <2>1 DEF SearchFinds, CycleInv, Resting
    <2>3. EffectiveCount(TheWriter)' = EffectiveCount(TheWriter)
      BY <1>1, <1>3 DEF SearchFinds
    <2> QED
      BY <2>1, <2>2, <2>3
      DEF CycleInv, Resting, CycleStep, Cycle!Next, Cycle!Discover
  <1>4. CASE Reset(TheWriter)
    <2>1. /\ pc[TheWriter] = "reset"
          /\ pc'[TheWriter] = "verify"
          /\ Save(TheWriter, 0)
          /\ UNCHANGED <<delta, count>>
      BY <1>4, TheWriterWrites DEF Reset, Goto, TypeOK
    <2>2. /\ EffectiveCount(TheWriter)' = 0
          /\ unsaved'[TheWriter] \/ stored' \in Int
      BY <2>1, SavedCountIsEffective
    <2> QED
      BY <2>1, <2>2
      DEF CycleInv, Resting, CycleStep, Cycle!Next, Cycle!NewCycle
  <1> QED
    BY <1>2, <1>3, <1>4

LEMMA RefinementStep ==
  ASSUME SoleWriter, OnlyWritesFail, TypeOK, WriterInv, CycleInv, [Next]_vars
  PROVE  CycleInv' /\ CycleStep
  <1>1. CASE Land
    BY <1>1 DEF Land, WriterInv
  <1>2. CASE \E w \in Workers : w # TheWriter /\ Step(w)
    BY <1>2, OthersAreInvisible DEF CycleStep
  <1>3. CASE Step(TheWriter)
    <2>1. ~WriteRaises(TheWriter) /\ ~Crash(TheWriter)
      BY DEF WriteRaises, Crash, OnlyWritesFail
    <2>2. ~Handle(TheWriter)
      BY DEF Handle, CycleInv
    <2> QED
      BY <1>3, <2>1, <2>2, EnsureStep, SettlingStep, SaveFeedbackStep,
         DiscoveryStep
      DEF Step, CycleStep
  <1>4. CASE UNCHANGED vars
    BY <1>4 DEF vars, CycleInv, CycleStep, Cycle!vars, EffectiveCount
  <1> QED
    BY <1>1, <1>2, <1>3, <1>4 DEF Next

\* With one writer and no failures but refused or unacknowledged writes the
\* counter is the cycle: every report counts once, with its sign, none counts
\* after a limit, and only a discovery starts again at zero.
THEOREM ImplementsCycle ==
  ASSUME SoleWriter, OnlyWritesFail
  PROVE  Spec => RefinesCycle
  <1>1. Init => WriterInv /\ CycleInv /\ Cycle!Init
    BY RolesAssumption, TheWriterWrites, ValuesAssumption
    DEF Init, WriterInv, CycleInv, Resting, Cycle!Init, EffectiveCount
  <1>2. OneWriter /\ ReliableReads
    BY DEF SoleWriter, OnlyWritesFail, ReliableReads
  <1>3. TypeOK /\ WriterInv /\ [Next]_vars => WriterInv'
    BY <1>2, WriterStep
  <1>4. TypeOK /\ WriterInv /\ CycleInv /\ [Next]_vars
          => CycleInv' /\ [Cycle!Next]_(Cycle!vars)
    BY RefinementStep DEF CycleStep
  <1> QED
    BY <1>1, <1>3, <1>4, TypeCorrect, PTL DEF Spec, RefinesCycle, Cycle!Spec
=============================================================================
