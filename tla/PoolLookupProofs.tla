---------------------------- MODULE PoolLookupProofs ----------------------------
(***************************************************************************)
(* Theorems about PoolLookup for every set of workers, all limits and any  *)
(* number of lists: its steps are the counter's, no message about a found  *)
(* list writes, and with one writer the saved list, the counter's cycle    *)
(* and what is served stay together.                                       *)
(***************************************************************************)
EXTENDS PoolLookup, CounterRefinementProofs

LEMMA LookupStepIsStep == [NextLookup]_allVars => [Next]_vars
  <1>1. ASSUME NEW w \in Workers, StepLookup(w)
        PROVE  Step(w) \/ UNCHANGED vars
    BY <1>1
    DEF StepLookup, CheckReadsList, CheckReadsCount, CheckHealth,
        CheckEnsuresCount, Serve, LogSelected, GetSearches, SearchFindsNothing,
        SearchFindsList, ResetForList, SaveList, BeginReport, FinishReport,
        CounterStep, Interrupted, counterVars, Step
  <1> QED
    BY <1>1 DEF NextLookup, Next, allVars, counterVars

\* Saved lists, lookups and log messages do nothing to the counter that it
\* would not do without them: what is proved of TranslationCounter holds here.
THEOREM ImplementsCounter == SpecLookup => Spec
  <1>1. InitLookup => Init
    BY DEF InitLookup
  <1> QED
    BY <1>1, LookupStepIsStep, PTL DEF SpecLookup, Spec

-----------------------------------------------------------------------------

\* The stages in which a lookup has only its message left.
Messages == {"log", "announce"}

\* Where a lookup stands and which request its worker is about to send.
StageInv(w) ==
  /\ pc[w] = "reset" => stage[w] = "found"
  /\ stage[w] = "found" => pc[w] \in {"reset", "verify", "idle"} /\ got[w] # NoList
  /\ stage[w] = "serve" => pc[w] \in {"initialize", "verify", "idle"}
  /\ stage[w] \in {"count", "health", "ensure", "search"} \cup Messages => pc[w] = "idle"
  /\ pc[w] \in {"idle", "search", "reset", "raised"} \/ stage[w] \in {"serve", "found"}
       => delta[w] = 0

TypeLookup ==
  /\ saved \in Lists \cup {NoList}
  /\ stage \in [Workers -> Stages]
  /\ got \in [Workers -> Lists \cup {NoList}]
  /\ made \in Lists
  /\ current \in Lists
  /\ worn \subseteq Lists

-----------------------------------------------------------------------------
(* What the counter's actions do to the worker that takes them. *)

LEMMA EnsureEffect ==
  ASSUME TypeOK, NEW w \in Workers, NEW d \in {-1, 0, 1}, Ensure(w, d)
  PROVE  /\ pc[w] = "idle"
         /\ delta'[w] = d
         /\ \/ pc'[w] = "initialize" /\ w \in Writers
            \/ pc'[w] = "idle" /\ d = 0
            \/ pc'[w] = "save" /\ d # 0
         /\ UNCHANGED <<stored, late, unsaved>>
  <1>1. PICK s \in ReadStates(w) :
          IF NeedsZero(w, s.source)
          THEN Goto(w, "initialize") /\ delta' = [delta EXCEPT ![w] = d]
          ELSE HasCount(w, d, s.count)
    BY DEF Ensure
  <1> QED
    BY <1>1 DEF Ensure, HasCount, Goto, NeedsZero, TypeOK

LEMMA VerifyEffect ==
  ASSUME TypeOK, NEW w \in Workers, Verify(w)
  PROVE  /\ pc[w] = "verify"
         /\ delta'[w] = delta[w]
         /\ pc'[w] = IF delta[w] = 0 THEN "idle" ELSE "save"
  <1>1. PICK s \in ReadStates(w) :
          HasCount(w, delta[w], IF s.source = "missing" THEN local[w] ELSE s.count)
    BY DEF Verify
  <1> QED
    BY <1>1 DEF Verify, HasCount, Goto, TypeOK

LEMMA SavingEffect ==
  ASSUME TypeOK, NEW w \in Workers
  PROVE  /\ Initialize(w) => /\ pc[w] = "initialize" /\ pc'[w] = "verify"
                             /\ delta' = delta
         /\ Reset(w) => pc[w] = "reset" /\ pc'[w] = "verify" /\ delta' = delta
         /\ SaveFeedback(w) => /\ pc[w] = "save" /\ pc'[w] \in {"idle", "search"}
                               /\ delta'[w] = 0
         /\ WriteRaises(w) => pc'[w] = "raised" /\ delta'[w] = 0
         /\ Crash(w) => pc'[w] = "idle" /\ delta'[w] = 0
  BY DEF Initialize, Reset, SaveFeedback, WriteRaises, Crash, Goto, TypeOK

\* A step of one worker leaves the others where they are.
LEMMA StepIsOwn ==
  ASSUME TypeOK, NEW w \in Workers, Step(w), NEW v \in Workers, v # w
  PROVE  /\ pc'[v] = pc[v] /\ delta'[v] = delta[v] /\ count'[v] = count[v]
         /\ local'[v] = local[v] /\ unsaved'[v] = unsaved[v]
  <1>1. pc'[v] = pc[v]
    BY DEF Step, Ensure, Observe, Initialize, Verify, SaveFeedback, SearchFails,
           SearchFinds, Reset, WriteRaises, Handle, Crash, HasCount, Goto, TypeOK
  <1>2. delta'[v] = delta[v] /\ count'[v] = count[v]
    BY DEF Step, Ensure, Observe, Initialize, Verify, SaveFeedback, SearchFails,
           SearchFinds, Reset, WriteRaises, Handle, Crash, HasCount, TypeOK
  <1>3. local'[v] = local[v]
    BY DEF Step, Ensure, Observe, Initialize, Verify, SaveFeedback, SearchFails,
           SearchFinds, Reset, WriteRaises, Handle, Crash, Save, TypeOK
  <1>4. unsaved'[v] = unsaved[v]
    BY DEF Step, Ensure, Observe, Initialize, Verify, SaveFeedback, SearchFails,
           SearchFinds, Reset, WriteRaises, Handle, Crash, Save, TypeOK
  <1> QED
    BY <1>1, <1>2, <1>3, <1>4

LEMMA LookupIsOwn ==
  ASSUME TypeOK, TypeLookup, NEW w \in Workers, StepLookup(w),
         NEW v \in Workers, v # w
  PROVE  /\ pc'[v] = pc[v] /\ delta'[v] = delta[v] /\ count'[v] = count[v]
         /\ local'[v] = local[v] /\ unsaved'[v] = unsaved[v]
         /\ stage'[v] = stage[v] /\ got'[v] = got[v]
  <1>1. Step(w) \/ UNCHANGED vars
    BY DEF StepLookup, CheckReadsList, CheckReadsCount, CheckHealth,
        CheckEnsuresCount, Serve, LogSelected, GetSearches, SearchFindsNothing,
        SearchFindsList, ResetForList, SaveList, BeginReport, FinishReport,
        CounterStep, Interrupted, counterVars, Step
  <1>2. /\ pc'[v] = pc[v] /\ delta'[v] = delta[v] /\ count'[v] = count[v]
        /\ local'[v] = local[v] /\ unsaved'[v] = unsaved[v]
    BY <1>1, StepIsOwn DEF vars
  <1>3. stage'[v] = stage[v]
    BY DEF StepLookup, CheckReadsList, CheckReadsCount, CheckHealth,
        CheckEnsuresCount, Serve, LogSelected, GetSearches, SearchFindsNothing,
        SearchFindsList, ResetForList, SaveList, BeginReport, FinishReport,
        CounterStep, Interrupted, listVars, Enter, Select, NoSavedProxy, TypeLookup
  <1>4. got'[v] = got[v]
    BY DEF StepLookup, CheckReadsList, CheckReadsCount, CheckHealth,
        CheckEnsuresCount, Serve, LogSelected, GetSearches, SearchFindsNothing,
        SearchFindsList, ResetForList, SaveList, BeginReport, FinishReport,
        CounterStep, Interrupted, listVars, TypeLookup
  <1> QED
    BY <1>2, <1>3, <1>4

-----------------------------------------------------------------------------

LEMMA StageInit == InitLookup => TypeLookup /\ \A w \in Workers : StageInv(w)
  BY LookupAssumption
  DEF InitLookup, Init, TypeLookup, StageInv, Lists, NoList, Stages

\* Each step leaves its own worker at a request that fits its lookup.
LEMMA OwnStageStep ==
  ASSUME TypeOK, TypeLookup, NEW w \in Workers, StageInv(w), StepLookup(w)
  PROVE  StageInv(w)' /\ TypeLookup'
  <1> DEFINE Quiet == UNCHANGED <<pc, delta>>
  <1> USE DEF Messages
  <1>e. ASSUME NEW label \in Stages, Enter(w, label)
        PROVE  stage'[w] = label /\ stage' \in [Workers -> Stages]
    BY <1>e DEF Enter, TypeLookup
  <1>n. ASSUME NoSavedProxy(w) \/ Enter(w, "none")
        PROVE  stage'[w] \in {"search", "none"} /\ stage' \in [Workers -> Stages]
    BY <1>n DEF NoSavedProxy, Enter, TypeLookup, Stages
  <1>s. ASSUME NEW m \in Messages, Select(w, m)
        PROVE  /\ stage'[w] \in Messages \cup {"none"}
               /\ stage' \in [Workers -> Stages]
    BY <1>s DEF Select, Enter, TypeLookup, Stages, Messages
  <1>1. CASE CheckReadsList(w)
    <2>1. PICK l \in Lists \cup {NoList} :
            /\ got' = [got EXCEPT ![w] = l]
            /\ IF l = NoList THEN NoSavedProxy(w) ELSE Enter(w, "count")
      BY <1>1 DEF CheckReadsList, TypeLookup
    <2>2. /\ pc[w] = "idle" /\ Quiet
          /\ UNCHANGED <<saved, made, current, worn>>
      BY <1>1 DEF CheckReadsList, Idle, counterVars, vars
    <2>3. stage'[w] \in {"search", "none", "count"} /\ stage' \in [Workers -> Stages]
      BY <2>1, <1>n, <1>e DEF Stages
    <2> QED
      BY <2>1, <2>2, <2>3 DEF StageInv, TypeLookup
  <1>2. CASE CheckReadsCount(w) \/ CheckHealth(w)
    <2>1. /\ Quiet /\ stage[w] \in {"count", "health"}
          /\ UNCHANGED <<saved, got, made, current, worn>>
      BY <1>2 DEF CheckReadsCount, CheckHealth, Observe, counterVars, vars
    <2>2. /\ stage'[w] \in {"search", "none", "health", "ensure"}
          /\ stage' \in [Workers -> Stages]
      BY <1>2, <1>n, <1>e DEF CheckReadsCount, CheckHealth, Stages
    <2> QED
      BY <2>1, <2>2 DEF StageInv, TypeLookup
  <1>3. CASE CheckEnsuresCount(w)
    <2>1. Ensure(w, 0) /\ UNCHANGED <<saved, got, made, current, worn>>
      BY <1>3 DEF CheckEnsuresCount
    <2>2. stage'[w] = "serve" /\ stage' \in [Workers -> Stages]
      BY <1>3, <1>e DEF CheckEnsuresCount, Stages
    <2> QED
      BY <2>1, <2>2, EnsureEffect DEF StageInv, TypeLookup
  <1>4. CASE Serve(w)
    <2>1. /\ Quiet /\ pc[w] = "idle"
          /\ UNCHANGED <<saved, got, made, current, worn>>
      BY <1>4 DEF Serve, counterVars, vars
    <2>2. stage'[w] \in Messages \cup {"none"} /\ stage' \in [Workers -> Stages]
      BY <1>4, <1>s DEF Serve, Messages
    <2> QED
      BY <1>4, <2>1, <2>2 DEF Serve, StageInv, TypeLookup, Messages
  <1>5. CASE LogSelected(w)
    <2>1. Ensure(w, 0) /\ UNCHANGED <<saved, got, made, current, worn>>
      BY <1>5 DEF LogSelected
    <2>2. stage'[w] = "none" /\ stage' \in [Workers -> Stages]
      BY <1>5, <1>e DEF LogSelected, Stages
    <2> QED
      BY <2>1, <2>2, EnsureEffect DEF StageInv, TypeLookup
  <1>6. CASE GetSearches(w)
    <2>1. /\ Quiet /\ pc[w] = "idle"
          /\ UNCHANGED <<saved, got, made, current, worn>>
      BY <1>6 DEF GetSearches, Idle, counterVars, vars
    <2>2. stage'[w] = "search" /\ stage' \in [Workers -> Stages]
      BY <1>6, <1>e DEF GetSearches, Stages
    <2> QED
      BY <2>1, <2>2 DEF StageInv, TypeLookup
  <1>7. CASE SearchFindsNothing(w)
    <2>1. /\ pc'[w] = "idle" /\ delta'[w] = 0
          /\ UNCHANGED <<saved, got, made, current, worn>>
      BY <1>7 DEF SearchFindsNothing, Searching, SearchFails, Goto, counterVars,
                  vars, StageInv, TypeOK
    <2> QED
      BY <1>7, <2>1, <1>n DEF SearchFindsNothing, StageInv, TypeLookup
  <1>8. CASE SearchFindsList(w)
    <2>1. /\ pc'[w] = "reset" /\ delta'[w] = 0
          /\ UNCHANGED <<saved, current, worn>>
      BY <1>8 DEF SearchFindsList, SearchFinds, Goto, StageInv, TypeOK
    <2>2. made' \in Lists
      BY <1>8, LookupAssumption DEF SearchFindsList, TypeLookup, Lists
    <2>3. got' = [got EXCEPT ![w] = made']
      BY <1>8 DEF SearchFindsList
    <2>4. got'[w] # NoList /\ got' \in [Workers -> Lists \cup {NoList}]
      BY <2>2, <2>3 DEF TypeLookup, Lists, NoList
    <2>5. stage'[w] = "found" /\ stage' \in [Workers -> Stages]
      BY <1>8, <1>e DEF SearchFindsList, Stages
    <2> QED
      BY <2>1, <2>2, <2>4, <2>5 DEF StageInv, TypeLookup
  <1>9. CASE ResetForList(w)
    <2>1. /\ Reset(w) /\ UNCHANGED <<saved, stage, got, made, worn>>
          /\ current' \in {got[w], current}
      BY <1>9 DEF ResetForList
    <2>2. pc[w] = "reset" /\ pc'[w] = "verify" /\ delta' = delta
      BY <2>1, SavingEffect
    <2>3. got[w] \in Lists
      BY <2>2 DEF StageInv, TypeLookup
    <2> QED
      BY <2>1, <2>2, <2>3 DEF StageInv, TypeLookup
  <1>10. CASE SaveList(w)
    <2>1. /\ Quiet /\ stage[w] = "found" /\ pc[w] = "idle"
          /\ saved' \in {saved, got[w]}
          /\ UNCHANGED <<got, made, current, worn>>
      BY <1>10 DEF SaveList, SavedAfter, counterVars, vars
    <2>2. stage'[w] \in Messages \cup {"none"} /\ stage' \in [Workers -> Stages]
      BY <1>10, <1>s, <1>e DEF SaveList, Messages, Stages
    <2> QED
      BY <2>1, <2>2 DEF StageInv, TypeLookup, Messages
  <1>11. CASE BeginReport(w)
    <2>1. PICK d \in {-1, 1} : Ensure(w, d)
      BY <1>11 DEF BeginReport
    <2>2. stage[w] = "none" /\ UNCHANGED listVars
      BY <1>11 DEF BeginReport, Idle
    <2> QED
      BY <2>1, <2>2, EnsureEffect DEF StageInv, TypeLookup, listVars
  <1>12. CASE FinishReport(w)
    <2>1. /\ SaveFeedback(w) /\ UNCHANGED <<saved, stage, got, made, current>>
          /\ worn' \in {worn, worn \cup {current}}
      BY <1>12 DEF FinishReport
    <2> QED
      BY <2>1, SavingEffect DEF StageInv, TypeLookup
  <1>13. CASE CounterStep(w)
    <2>1. UNCHANGED listVars
      BY <1>13 DEF CounterStep
    <2>2. CASE Initialize(w) \/ Verify(w)
      BY <2>1, <2>2, SavingEffect, VerifyEffect DEF StageInv, TypeLookup, listVars
    <2>3. CASE Handle(w)
      BY <2>1, <2>3 DEF Handle, Goto, StageInv, TypeOK, TypeLookup, listVars
    <2> QED
      BY <1>13, <2>2, <2>3 DEF CounterStep
  <1>14. CASE Interrupted(w)
    <2>1. /\ pc'[w] \in {"raised", "idle"} /\ delta'[w] = 0
          /\ UNCHANGED <<saved, got, made, current, worn>>
      BY <1>14, SavingEffect DEF Interrupted
    <2>2. stage'[w] = "none" /\ stage' \in [Workers -> Stages]
      BY <1>14, <1>e DEF Interrupted, Stages
    <2> QED
      BY <2>1, <2>2 DEF StageInv, TypeLookup
  <1> QED
    BY <1>1, <1>2, <1>3, <1>4, <1>5, <1>6, <1>7, <1>8, <1>9, <1>10, <1>11,
       <1>12, <1>13, <1>14
    DEF StepLookup

LEMMA StageStep ==
  ASSUME TypeOK, TypeLookup, \A w \in Workers : StageInv(w), [NextLookup]_allVars
  PROVE  TypeLookup' /\ \A w \in Workers : StageInv(w)'
  <1>1. CASE UNCHANGED allVars
    BY <1>1 DEF allVars, counterVars, vars, listVars, TypeLookup, StageInv
  <1>2. ASSUME NEW w \in Workers, StepLookup(w)
        PROVE  TypeLookup' /\ \A v \in Workers : StageInv(v)'
    <2>1. TypeLookup' /\ StageInv(w)'
      BY <1>2, OwnStageStep
    <2>2. ASSUME NEW v \in Workers, v # w
          PROVE  StageInv(v)'
      BY <1>2, <2>2, LookupIsOwn DEF StageInv
    <2> QED
      BY <2>1, <2>2
  <1> QED
    BY <1>1, <1>2 DEF NextLookup

\* Lookups, reports and log messages of any number of workers, under every
\* failure, keep all variables typed; a reset never finds a worker without the
\* list it has just discovered.
THEOREM LookupTypeCorrect == SpecLookup => []TypeOKLookup
  <1> DEFINE Inv == TypeLookup /\ \A w \in Workers : StageInv(w)
  <1>1. InitLookup => Inv
    BY StageInit
  <1>2. TypeOK /\ Inv /\ [NextLookup]_allVars => Inv'
    BY StageStep
  <1>3. TypeOK /\ Inv => TypeOKLookup
    BY DEF TypeLookup, TypeOKLookup
  <1> QED
    BY <1>1, <1>2, <1>3, ImplementsCounter, TypeCorrect, PTL DEF SpecLookup

-----------------------------------------------------------------------------
(* The message about a freshly found list.  Any number of workers may write, *)
(* and every failure of the counter's requests is possible.                  *)

\* A worker has found a list, and the counter was reset for it.
Found(w) == stage[w] = "announce" \/ (stage[w] = "found" /\ pc[w] = "idle")

HasCounter(w) == unsaved[w] \/ stored # Missing

ReadyInv(w) == w \in Writers /\ Found(w) => HasCounter(w)

\* Nothing deletes the counter: what is stored is a number.
LEMMA CounterIsNotDeleted ==
  ASSUME TypeOK, NEW w \in Workers, StepLookup(w), stored # Missing
  PROVE  stored' # Missing
  <1>1. Step(w) \/ stored' = stored
    BY DEF StepLookup, CheckReadsList, CheckReadsCount, CheckHealth,
        CheckEnsuresCount, Serve, LogSelected, GetSearches, SearchFindsNothing,
        SearchFindsList, ResetForList, SaveList, BeginReport, FinishReport,
        CounterStep, Interrupted, counterVars, vars, Step
  <1>2. CountAfter(count[w], delta[w]) \in Int
    BY CountAfterInRange DEF TypeOK
  <1>3. ASSUME NEW n \in Int, Save(w, n)
        PROVE  stored' \in {stored, n}
    BY <1>3 DEF Save
  <1>4. Step(w) => stored' = stored \/ stored' \in Int
    BY <1>2, <1>3 DEF Step, Ensure, Observe, Initialize, Verify, SaveFeedback,
       SearchFails, SearchFinds, Reset, WriteRaises, Handle, Crash
  <1> QED
    BY <1>1, <1>4, ValuesAssumption

\* A getter creates no counter where there is one or the worker keeps its own.
LEMMA EnsureFindsCounter ==
  ASSUME TypeOK, NEW w \in Writers, NEW d \in {-1, 0, 1}, Ensure(w, d), HasCounter(w)
  PROVE  pc'[w] # "initialize"
  <1>1. w \in Workers /\ w \in Readers
    BY RolesAssumption
  <1>2. PICK s \in ReadStates(w) :
          IF NeedsZero(w, s.source) THEN Goto(w, "initialize")
                                    ELSE HasCount(w, d, s.count)
    BY DEF Ensure
  <1>3. s.source # "missing"
    BY <1>1 DEF ReadStates, HasCounter, TypeOK
  <1> QED
    BY <1>1, <1>2, <1>3 DEF NeedsZero, HasCount, Goto, TypeOK

\* A count that was written and read back is stored or marked unsaved.
LEMMA VerifyFindsCounter ==
  ASSUME TypeOK, NEW w \in Writers, Verify(w)
  PROVE  HasCounter(w)'
  <1>1. w \in Workers /\ w \in Readers
    BY RolesAssumption
  <1>2. PICK s \in ReadStates(w) :
          unsaved' = [unsaved EXCEPT ![w] = @ \/ Unverified(s.source)]
    BY DEF Verify
  <1>3. unsaved'[w] = (unsaved[w] \/ Unverified(s.source)) /\ stored' = stored
    BY <1>1, <1>2 DEF Verify, TypeOK
  <1>4. HasCounter(w) \/ s.source \in {"missing", "local-fallback"}
    BY <1>1 DEF ReadStates, HasCounter, TypeOK
  <1> QED
    BY <1>3, <1>4 DEF Unverified, HasCounter

LEMMA OwnReadyStep ==
  ASSUME TypeOK, TypeLookup, NEW w \in Writers, StageInv(w), ReadyInv(w), StepLookup(w)
  PROVE  ReadyInv(w)'
  <1>w. w \in Workers
    BY RolesAssumption
  <1>1. CASE CounterStep(w)
    <2>1. CASE Verify(w)
      BY <2>1, VerifyFindsCounter DEF ReadyInv
    <2>2. CASE Initialize(w)
      <3>1. pc'[w] = "verify" /\ stage' = stage
        BY <1>1, <1>w, <2>2, SavingEffect DEF CounterStep, listVars
      <3>2. stage[w] # "announce"
        BY <2>2 DEF Initialize, StageInv, Messages
      <3> QED
        BY <3>1, <3>2 DEF ReadyInv, Found
    <2>3. CASE Handle(w)
      <3>1. pc[w] = "raised" /\ stage' = stage
        BY <1>1, <2>3 DEF CounterStep, Handle, listVars
      <3> QED
        BY <3>1 DEF ReadyInv, Found, StageInv, Messages
    <2> QED
      BY <1>1, <2>1, <2>2, <2>3 DEF CounterStep
  <1>2. CASE SaveList(w)
    <2>1. Found(w) /\ UNCHANGED counterVars
      BY <1>2 DEF SaveList, Found
    <2> QED
      BY <2>1 DEF ReadyInv, HasCounter, counterVars, vars
  <1>3. CASE ResetForList(w) \/ SearchFindsList(w)
    <2>1. pc'[w] # "idle"
      BY <1>3, <1>w, SavingEffect
      DEF ResetForList, SearchFindsList, SearchFinds, Goto, TypeOK
    <2>2. stage'[w] = "found"
      BY <1>3, <1>w DEF ResetForList, Reset, SearchFindsList, Enter, StageInv, TypeLookup
    <2> QED
      BY <2>1, <2>2 DEF ReadyInv, Found
  <1>4. CASE \/ CheckReadsList(w) \/ CheckReadsCount(w) \/ CheckHealth(w)
             \/ CheckEnsuresCount(w) \/ Serve(w) \/ LogSelected(w) \/ GetSearches(w)
             \/ SearchFindsNothing(w) \/ Interrupted(w)
    <2>1. stage'[w] \in {"search", "none", "count", "health", "ensure", "serve", "log"}
      BY <1>4, <1>w
      DEF CheckReadsList, CheckReadsCount, CheckHealth, CheckEnsuresCount, Serve,
          LogSelected, GetSearches, SearchFindsNothing, Interrupted, NoSavedProxy,
          Select, Enter, TypeLookup
    <2> QED
      BY <2>1 DEF ReadyInv, Found
  <1>5. CASE BeginReport(w) \/ FinishReport(w)
    <2>1. stage'[w] \notin {"found", "announce"}
      BY <1>5
      DEF BeginReport, FinishReport, SaveFeedback, Idle, StageInv, Messages, listVars
    <2> QED
      BY <2>1 DEF ReadyInv, Found
  <1> QED
    BY <1>1, <1>2, <1>3, <1>4, <1>5 DEF StepLookup

LEMMA ReadyStep ==
  ASSUME TypeOK, TypeLookup, \A w \in Workers : StageInv(w),
         NEW w \in Writers, ReadyInv(w), [NextLookup]_allVars
  PROVE  ReadyInv(w)'
  <1>w. w \in Workers
    BY RolesAssumption
  <1>1. CASE UNCHANGED allVars
    BY <1>1 DEF allVars, counterVars, vars, listVars, ReadyInv, Found, HasCounter
  <1>2. CASE StepLookup(w)
    BY <1>w, <1>2, OwnReadyStep
  <1>3. ASSUME NEW v \in Workers, v # w, StepLookup(v)
        PROVE  ReadyInv(w)'
    <2>1. /\ pc'[w] = pc[w] /\ stage'[w] = stage[w] /\ unsaved'[w] = unsaved[w]
          /\ stored # Missing => stored' # Missing
      BY <1>w, <1>3, LookupIsOwn, CounterIsNotDeleted
    <2> QED
      BY <2>1 DEF ReadyInv, Found, HasCounter
  <1> QED
    BY <1>1, <1>2, <1>3 DEF NextLookup

\* The step that logs the count of a proxy just found ends with it.
LEMMA LoggingStep ==
  ASSUME TypeOK, TypeLookup, \A w \in Workers : StageInv(w),
         \A w \in Writers : ReadyInv(w), [NextLookup]_allVars,
         NEW w \in Workers, stage[w] = "announce", stage'[w] = "none"
  PROVE  pc'[w] = "idle"
  <1>1. pc[w] = "idle" /\ StageInv(w)
    BY DEF StageInv, Messages
  <1>2. stage' # stage
    OBVIOUS
  <1>3. PICK v \in Workers : StepLookup(v)
    BY <1>2 DEF NextLookup, allVars, listVars
  <1>4. v = w
    BY <1>3, LookupIsOwn
  <1>5. LogSelected(w) \/ Crash(w)
    BY <1>1, <1>2, <1>3, <1>4
    DEF StepLookup, CheckReadsList, CheckReadsCount, CheckHealth, CheckEnsuresCount,
        Serve, GetSearches, SearchFindsNothing, Searching, SearchFindsList,
        ResetForList, SaveList, BeginReport, FinishReport, CounterStep, Interrupted,
        WriteRaises, Idle, listVars
  <1>6. CASE Crash(w)
    BY <1>6, SavingEffect
  <1>7. CASE LogSelected(w)
    <2>1. Ensure(w, 0)
      BY <1>7 DEF LogSelected
    <2>2. w \in Writers => HasCounter(w)
      BY DEF ReadyInv, Found
    <2> QED
      BY <2>1, <2>2, EnsureEffect, EnsureFindsCounter
  <1> QED
    BY <1>5, <1>6, <1>7

\* However many workers write, and whatever fails, failed reads included: the
\* message about a freshly found list only reads.
THEOREM DiscoveryIsOnlyLogged == SpecLookup => DiscoveryIsLoggedWithoutWrite
  <1> DEFINE Inv == /\ TypeLookup
                    /\ \A w \in Workers : StageInv(w)
                    /\ \A w \in Writers : ReadyInv(w)
  <1>1. InitLookup => Inv
    BY StageInit, RolesAssumption DEF InitLookup, ReadyInv, Found, Init
  <1>2. TypeOK /\ Inv /\ [NextLookup]_allVars => Inv'
    BY StageStep, ReadyStep
  <1>3. TypeOK /\ Inv /\ [NextLookup]_allVars
          => [\A w \in Workers :
                stage[w] = "announce" /\ stage'[w] = "none" => pc'[w] = "idle"]_allVars
    BY LoggingStep
  <1> QED
    BY <1>1, <1>2, <1>3, ImplementsCounter, TypeCorrect, PTL
    DEF SpecLookup, DiscoveryIsLoggedWithoutWrite

-----------------------------------------------------------------------------
(* The saved list, the counter's cycle and what is served, with one worker   *)
(* that writes both, writes of the counter that may fail and a list that is  *)
(* saved when the counter was reset for it.                                  *)

ListIsSaved == ListFaults \cap {"write", "garbled"} = {}

\* The counter was reset for a list that is still to be saved.
Renewed == stage[TheWriter] = "found" /\ pc[TheWriter] # "reset"

\* The stages in which a lookup relies on the saved list it has read.
Relying == {"count", "health", "ensure", "serve"}

ListInv ==
  /\ worn \cup {current} \subseteq 1 .. made
  /\ got[TheWriter] <= made /\ saved <= made
  /\ pc[TheWriter] = "reset" => got[TheWriter] \notin worn \cup {current}
  /\ Renewed => got[TheWriter] = current
  /\ ~Renewed => saved \in {current, NoList}
  /\ stage[TheWriter] \in Relying => got[TheWriter] = current

\* Workers that do not write leave the list and the database as they are.
LEMMA OthersKeepList ==
  ASSUME SoleWriter, OnlyWritesFail, TypeOK, TypeLookup,
         NEW w \in Workers, w # TheWriter, StepLookup(w)
  PROVE  UNCHANGED <<stored, saved, current, worn>> /\ made <= made'
  <1>1. w \notin Writers
    BY TheWriterWrites
  <1>2. UNCHANGED <<saved, current, worn>> /\ made <= made'
    BY <1>1, LookupAssumption
    DEF StepLookup, CheckReadsList, CheckReadsCount, CheckHealth,
        CheckEnsuresCount, Serve, LogSelected, GetSearches, SearchFindsNothing,
        SearchFindsList, ResetForList, SaveList, BeginReport, FinishReport,
        CounterStep, Interrupted, listVars, TypeLookup, Lists
  <1>3. Step(w) \/ UNCHANGED vars
    BY DEF StepLookup, CheckReadsList, CheckReadsCount, CheckHealth,
        CheckEnsuresCount, Serve, LogSelected, GetSearches, SearchFindsNothing,
        SearchFindsList, ResetForList, SaveList, BeginReport, FinishReport,
        CounterStep, Interrupted, counterVars, Step
  <1>4. ASSUME NEW n, Save(w, n)
        PROVE  stored' = stored
    BY <1>1, <1>4, OnlyWritersStore DEF ReliableReads, OnlyWritesFail
  <1>5. ~WriteRaises(w)
    BY DEF WriteRaises, OnlyWritesFail
  <1>6. Step(w) => stored' = stored
    BY <1>4, <1>5 DEF Step, Ensure, Observe, Initialize, Verify, SaveFeedback,
       SearchFails, SearchFinds, Reset, Handle, Crash
  <1> QED
    BY <1>2, <1>3, <1>6 DEF vars

\* A lookup of the writer relies on the list its cycle counts for, and a
\* fresh list takes the place of the other before the next lookup.
LEMMA OwnListStep ==
  ASSUME ListIsSaved, SoleWriter, OnlyWritesFail, TypeOK, TypeLookup,
         StageInv(TheWriter), ListInv, StepLookup(TheWriter)
  PROVE  ListInv'
  <1> DEFINE w == TheWriter
  <1>w. w \in Workers /\ w \in Writers
    BY TheWriterWrites
  <1>m. made \in Nat /\ saved \in Nat /\ got[w] \in Nat /\ current \in Nat
    BY <1>w, LookupAssumption DEF TypeLookup, Lists, NoList
  <1>q. ASSUME UNCHANGED <<saved, got, made, current, worn>>,
               stage[w] # "found", stage'[w] # "found", pc'[w] # "reset",
               stage'[w] \in Relying => stage[w] \in Relying
        PROVE  ListInv'
    BY <1>q DEF ListInv, Renewed
  <1>n. ASSUME NoSavedProxy(w) \/ Enter(w, "none")
        PROVE  stage'[w] \in {"search", "none"}
    BY <1>n, <1>w DEF NoSavedProxy, Enter, TypeLookup
  <1>s. ASSUME NEW m \in Messages, Select(w, m)
        PROVE  stage'[w] \in Messages \cup {"none"}
    BY <1>s, <1>w DEF Select, Enter, TypeLookup
  <1>1. CASE CheckReadsList(w)
    <2>1. PICK l \in {saved, NoList} :
            /\ got' = [got EXCEPT ![w] = l]
            /\ IF l = NoList THEN NoSavedProxy(w) ELSE Enter(w, "count")
      BY <1>1 DEF CheckReadsList
    <2>2. /\ stage[w] = "none" /\ pc[w] = "idle" /\ pc' = pc
          /\ UNCHANGED <<saved, made, current, worn>>
      BY <1>1 DEF CheckReadsList, Idle, counterVars, vars
    <2>3. got'[w] = l
      BY <1>w, <2>1 DEF TypeLookup
    <2>4. CASE l = NoList
      BY <1>m, <1>n, <2>1, <2>2, <2>3, <2>4 DEF ListInv, Renewed, Relying, NoList
    <2>5. CASE l # NoList
      <3>1. stage'[w] = "count" /\ l = saved /\ saved = current
        BY <1>w, <2>1, <2>2, <2>5 DEF Enter, TypeLookup, ListInv, Renewed
      <3> QED
        BY <2>2, <2>3, <3>1 DEF ListInv, Renewed
    <2> QED
      BY <2>4, <2>5
  <1>2. CASE CheckReadsCount(w) \/ CheckHealth(w)
    <2>1. /\ stage[w] \in {"count", "health"} /\ pc[w] = "idle" /\ pc' = pc
          /\ UNCHANGED <<saved, got, made, current, worn>>
      BY <1>2 DEF CheckReadsCount, CheckHealth, Observe, counterVars, vars, StageInv
    <2>2. stage'[w] \in {"search", "none", "health", "ensure"}
      BY <1>2, <1>n, <1>w DEF CheckReadsCount, CheckHealth, Enter, TypeLookup
    <2> QED
      BY <1>q, <2>1, <2>2 DEF Relying
  <1>3. CASE CheckEnsuresCount(w) \/ LogSelected(w)
    <2>1. /\ stage[w] \in {"ensure"} \cup Messages /\ Ensure(w, 0)
          /\ UNCHANGED <<saved, got, made, current, worn>>
      BY <1>3 DEF CheckEnsuresCount, LogSelected, Messages
    <2>2. /\ stage'[w] \in {"serve", "none"}
          /\ stage'[w] = "serve" => stage[w] = "ensure"
      BY <1>3, <1>w DEF CheckEnsuresCount, LogSelected, Enter, TypeLookup
    <2>3. pc'[w] # "reset"
      BY <1>w, <2>1, EnsureEffect
    <2> QED
      BY <1>q, <2>1, <2>2, <2>3 DEF Relying, Messages
  <1>4. CASE Serve(w) \/ GetSearches(w)
    <2>1. /\ stage[w] \in {"serve", "none"} /\ pc[w] = "idle" /\ pc' = pc
          /\ UNCHANGED <<saved, got, made, current, worn>>
      BY <1>4 DEF Serve, GetSearches, Idle, counterVars, vars
    <2>2. stage'[w] \in Messages \cup {"none", "search"}
      BY <1>4, <1>s, <1>w DEF Serve, GetSearches, Enter, TypeLookup, Messages
    <2> QED
      BY <1>q, <2>1, <2>2 DEF Relying, Messages
  <1>5. CASE SearchFindsNothing(w)
    <2>1. /\ stage[w] # "found" /\ pc'[w] = "idle"
          /\ UNCHANGED <<saved, got, made, current, worn>>
      BY <1>5, <1>w DEF SearchFindsNothing, Searching, SearchFails, Goto,
                        counterVars, vars, StageInv, TypeOK
    <2>2. stage'[w] \in {"search", "none"}
      BY <1>5, <1>n DEF SearchFindsNothing
    <2> QED
      BY <1>q, <2>1, <2>2 DEF Relying
  <1>6. CASE SearchFindsList(w)
    <2>1. /\ pc'[w] = "reset" /\ stage'[w] = "found"
          /\ UNCHANGED <<saved, current, worn>>
      BY <1>6, <1>w
      DEF SearchFindsList, SearchFinds, Goto, Enter, TypeOK, TypeLookup
    <2>2. made' = made + 1 /\ got'[w] = made + 1
      BY <1>6, <1>w DEF SearchFindsList, TypeLookup
    <2>3. stage[w] # "found"
      BY <1>6 DEF SearchFindsList, Searching, StageInv
    <2>4. worn \cup {current} \subseteq 1 .. made
      BY DEF ListInv
    <2>5. made + 1 \notin worn \cup {current}
      BY <1>m, <2>4
    <2>6. saved <= made + 1 /\ saved \in {current, NoList}
      BY <1>m, <2>3 DEF ListInv, Renewed
    <2>7. worn \cup {current} \subseteq 1 .. (made + 1)
      BY <1>m, <2>4
    <2> QED
      BY <1>m, <2>1, <2>2, <2>5, <2>6, <2>7 DEF ListInv, Renewed, Relying
  <1>7. CASE ResetForList(w)
    <2>1. /\ Reset(w) /\ UNCHANGED <<saved, stage, got, made, worn>>
          /\ current' = got[w]
      BY <1>7, <1>w DEF ResetForList
    <2>2. pc[w] = "reset" /\ pc'[w] = "verify"
      BY <1>w, <2>1, SavingEffect
    <2>3. stage[w] = "found" /\ got[w] \in 1 .. made
      BY <1>m, <2>2 DEF StageInv, ListInv, NoList
    <2> QED
      BY <2>1, <2>2, <2>3 DEF ListInv, Renewed, Relying
  <1>8. CASE SaveList(w)
    <2>1. /\ stage[w] = "found" /\ pc[w] = "idle" /\ pc' = pc
          /\ saved' = got[w]
          /\ UNCHANGED <<got, made, current, worn>>
      BY <1>8, <1>w DEF SaveList, SavedAfter, ListIsSaved, counterVars, vars
    <2>2. stage'[w] \in Messages \cup {"none"}
      BY <1>8, <1>s, <1>w DEF SaveList, ListIsSaved, Messages
    <2> QED
      BY <2>1, <2>2 DEF ListInv, Renewed, Relying, Messages
  <1>9. CASE BeginReport(w)
    <2>1. PICK d \in {-1, 1} : Ensure(w, d)
      BY <1>9 DEF BeginReport
    <2>2. stage[w] = "none" /\ UNCHANGED listVars
      BY <1>9 DEF BeginReport, Idle
    <2> QED
      BY <1>q, <1>w, <2>1, <2>2, EnsureEffect DEF listVars
  <1>10. CASE FinishReport(w)
    <2>1. /\ SaveFeedback(w) /\ UNCHANGED <<saved, stage, got, made, current>>
          /\ worn' \in {worn, worn \cup {current}}
      BY <1>10 DEF FinishReport
    <2>2. pc[w] = "save" /\ pc'[w] \in {"idle", "search"} /\ stage[w] # "found"
      BY <1>w, <2>1, SavingEffect DEF StageInv
    <2> QED
      BY <2>1, <2>2 DEF ListInv, Renewed
  <1>11. CASE CounterStep(w)
    <2>1. UNCHANGED listVars
      BY <1>11 DEF CounterStep
    <2>2. pc[w] # "reset" /\ pc'[w] # "reset"
      BY <1>11, <1>w, SavingEffect, VerifyEffect
      DEF CounterStep, Initialize, Verify, Handle, Goto, TypeOK
    <2> QED
      BY <2>1, <2>2 DEF listVars, ListInv, Renewed
  <1>12. CASE Interrupted(w)
    BY <1>12 DEF Interrupted, WriteRaises, Crash, OnlyWritesFail
  <1> QED
    BY <1>1, <1>2, <1>3, <1>4, <1>5, <1>6, <1>7, <1>8, <1>9, <1>10, <1>11, <1>12
    DEF StepLookup

LEMMA ListStep ==
  ASSUME ListIsSaved, SoleWriter, OnlyWritesFail, TypeOK, TypeLookup,
         \A w \in Workers : StageInv(w), ListInv, [NextLookup]_allVars
  PROVE  ListInv'
  <1>w. TheWriter \in Workers
    BY TheWriterWrites
  <1>1. CASE UNCHANGED allVars
    BY <1>1 DEF allVars, counterVars, vars, listVars, ListInv, Renewed
  <1>2. CASE StepLookup(TheWriter)
    BY <1>w, <1>2, OwnListStep
  <1>3. ASSUME NEW v \in Workers, v # TheWriter, StepLookup(v)
        PROVE  ListInv'
    <2>1. /\ pc'[TheWriter] = pc[TheWriter]
          /\ stage'[TheWriter] = stage[TheWriter]
          /\ got'[TheWriter] = got[TheWriter]
      BY <1>w, <1>3, LookupIsOwn
    <2>2. UNCHANGED <<saved, current, worn>> /\ made <= made'
      BY <1>3, OthersKeepList
    <2>3. made \in Nat /\ made' \in Nat /\ saved \in Nat /\ got[TheWriter] \in Nat
      BY <1>w, StageStep, LookupAssumption DEF TypeLookup, Lists, NoList
    <2>4. got[TheWriter] <= made /\ saved <= made
          /\ worn \cup {current} \subseteq 1 .. made
      BY DEF ListInv
    <2>5. /\ got[TheWriter] <= made' /\ saved <= made'
          /\ worn \cup {current} \subseteq 1 .. made'
      BY <2>2, <2>3, <2>4
    <2> QED
      BY <2>1, <2>2, <2>5 DEF ListInv, Renewed
  <1> QED
    BY <1>1, <1>2, <1>3 DEF NextLookup

LEMMA ListInit == InitLookup /\ SoleWriter => ListInv
  <1> SUFFICES ASSUME InitLookup, SoleWriter
               PROVE  ListInv
    OBVIOUS
  <1>1. TheWriter \in Workers
    BY TheWriterWrites
  <1>2. pc[TheWriter] = "idle" /\ stage[TheWriter] = "none" /\ got[TheWriter] = 0
    BY <1>1 DEF InitLookup, Init, NoList
  <1>3. saved \in {0, 1} /\ made = 1 /\ current = 1 /\ worn \subseteq {1}
    BY DEF InitLookup, NoList
  <1> QED
    BY <1>2, <1>3 DEF ListInv, Renewed, Relying, NoList

\* With one writer whose lists are saved, whatever the other workers do and
\* whichever writes of the counter fail: between calls the saved list is the
\* one the counter counts for.
THEOREM ListMatchesCycle ==
  ASSUME ListIsSaved, SoleWriter, OnlyWritesFail
  PROVE  SpecLookup => []SavedListMatchesCycle
  <1> DEFINE Inv == TypeLookup /\ \A w \in Workers : StageInv(w)
  <1>1. InitLookup => Inv /\ ListInv
    BY StageInit, ListInit
  <1>2. TypeOK /\ Inv /\ ListInv /\ [NextLookup]_allVars => (Inv /\ ListInv)'
    BY StageStep, ListStep
  <1>3. ListInv => SavedListMatchesCycle
    BY TheWriterWrites DEF ListInv, Renewed, SavedListMatchesCycle, Idle
  <1> QED
    BY <1>1, <1>2, <1>3, ImplementsCounter, TypeCorrect, PTL DEF SpecLookup

-----------------------------------------------------------------------------

\* A list whose cycle is over is worn because the writer acts on a count at a
\* limit, which it and every reader find in the database or it keeps for itself.
WornInv ==
  /\ current \in worn => /\ AtLimit(EffectiveCount(TheWriter))
                         /\ stored \in Int \/ unsaved[TheWriter]
  /\ stage[TheWriter] \in {"health", "ensure", "serve"} => current \notin worn

\* In the cycle nothing but a reset moves a count that is at a limit.
LEMMA ExhaustedStep ==
  ASSUME CycleStep, AtLimit(EffectiveCount(TheWriter)),
         EffectiveCount(TheWriter)' # EffectiveCount(TheWriter)
  PROVE  pc[TheWriter] = "reset" /\ pc'[TheWriter] # "reset"
  <1>1. Cycle!NewCycle
    BY DEF CycleStep, Cycle!Next, Cycle!Begin, Cycle!Record, Cycle!Discover,
           Cycle!vars, Cycle!Exhausted, AtLimit
  <1> QED
    BY <1>1 DEF Cycle!NewCycle

\* A number that was stored is replaced by numbers only.
LEMMA NumberStays ==
  ASSUME SoleWriter, OnlyWritesFail, TypeOK, TypeLookup,
         NEW w \in Workers, StepLookup(w),
         stored \in Int \/ unsaved[TheWriter]
  PROVE  stored' \in Int \/ unsaved'[TheWriter]
  <1>w. TheWriter \in Workers
    BY TheWriterWrites
  <1>1. CASE w # TheWriter
    BY <1>1, <1>w, LookupIsOwn, OthersKeepList
  <1>2. CASE w = TheWriter
    <2>1. Step(w) \/ UNCHANGED vars
      BY DEF StepLookup, CheckReadsList, CheckReadsCount, CheckHealth,
        CheckEnsuresCount, Serve, LogSelected, GetSearches, SearchFindsNothing,
        SearchFindsList, ResetForList, SaveList, BeginReport, FinishReport,
        CounterStep, Interrupted, counterVars, Step
    <2>2. ASSUME NEW n \in Int, Save(w, n)
          PROVE  stored' \in Int \/ unsaved'[TheWriter]
      BY <1>2, <2>2, SavedCountIsEffective
    <2>3. CountAfter(count[w], delta[w]) \in Int
      BY CountAfterInRange DEF TypeOK
    <2>4. ~WriteRaises(w) /\ ~Crash(w)
      BY DEF WriteRaises, Crash, OnlyWritesFail
    <2>5. CASE Initialize(w) \/ Reset(w) \/ SaveFeedback(w)
      BY <2>2, <2>3, <2>5 DEF Initialize, Reset, SaveFeedback
    <2>6. CASE Verify(w)
      BY <1>w, <2>6 DEF Verify, TypeOK
    <2>7. ASSUME UNCHANGED <<stored, unsaved>>
          PROVE  stored' \in Int \/ unsaved'[TheWriter]
      BY <2>7
    <2> QED
      BY <2>1, <2>4, <2>5, <2>6, <2>7
      DEF Step, Ensure, Observe, SearchFails, SearchFinds, Handle, vars
  <1> QED
    BY <1>1, <1>2

LEMMA OwnWornStep ==
  ASSUME SoleWriter, OnlyWritesFail, TypeOK, TypeLookup,
         WriterInv, CycleInv, StageInv(TheWriter), ListInv, WornInv,
         StepLookup(TheWriter)
  PROVE  WornInv'
  <1> DEFINE w == TheWriter
  <1>w. w \in Workers /\ w \in Writers
    BY TheWriterWrites
  <1>c. CycleStep
    <2>1. [NextLookup]_allVars
      BY <1>w DEF NextLookup
    <2> QED
      BY <2>1, LookupStepIsStep, RefinementStep
  <1>q. ASSUME UNCHANGED <<current, worn>>, pc[w] # "reset",
               stage'[w] \in {"health", "ensure", "serve"}
                 => stage[w] \in {"health", "ensure", "serve"}
        PROVE  WornInv'
    <2>1. current \in worn => AtLimit(EffectiveCount(w))'
      BY <1>c, <1>q, ExhaustedStep DEF WornInv, AtLimit
    <2> QED
      BY <1>q, <1>w, <2>1, NumberStays DEF WornInv
  <1>n. ASSUME \/ NoSavedProxy(w) \/ Enter(w, "none")
               \/ \E m \in Messages : Select(w, m)
        PROVE  stage'[w] \in {"search", "none"} \cup Messages
    BY <1>n, <1>w DEF NoSavedProxy, Select, Enter, TypeLookup
  <1>1. CASE CheckReadsCount(w)
    <2>1. /\ UNCHANGED <<current, worn>> /\ stage[w] = "count"
          /\ IF RejectsList(local'[w]) THEN NoSavedProxy(w) ELSE Enter(w, "health")
      BY <1>1 DEF CheckReadsCount
    <2>2. local'[w] = EffectiveCount(w)
      BY <1>1, <1>w, ReadsEffectiveCount DEF CheckReadsCount, Observe, TypeOK
    <2>3. EffectiveCount(w)' = EffectiveCount(w)
      <3>1. Observe(w)
        BY <1>1 DEF CheckReadsCount
      <3> QED
        BY <3>1, TakingOverKeepsCount DEF Observe
    <2>4. current \in worn => stage'[w] \notin {"health", "ensure", "serve"}
      BY <1>n, <2>1, <2>2 DEF WornInv, RejectsList, Messages
    <2> QED
      BY <1>1, <1>w, <2>1, <2>3, <2>4, NumberStays DEF WornInv, AtLimit
  <1>2. CASE ResetForList(w)
    <2>1. /\ current' = got[w] /\ worn' = worn /\ stage' = stage
          /\ pc[w] = "reset"
      BY <1>2, <1>w DEF ResetForList, Reset
    <2> QED
      BY <2>1 DEF ListInv, StageInv, WornInv
  <1>3. CASE FinishReport(w)
    <2>1. /\ SaveFeedback(w) /\ UNCHANGED <<stage, current>>
          /\ worn' = IF AtLimit(local'[w]) THEN worn \cup {current} ELSE worn
      BY <1>3, <1>w DEF FinishReport
    <2>2. pc[w] = "save" /\ Save(w, CountAfter(count[w], delta[w]))
      BY <2>1 DEF SaveFeedback
    <2>3. CountAfter(count[w], delta[w]) \in Int
      BY <1>w, CountAfterInRange DEF TypeOK
    <2>4. /\ EffectiveCount(w)' = local'[w]
          /\ stored' \in Int \/ unsaved'[w]
      BY <1>w, <2>2, <2>3, SavedCountIsEffective DEF Save, TypeOK
    <2>5. current \in worn => AtLimit(EffectiveCount(w))'
      BY <1>c, <2>2, ExhaustedStep DEF WornInv, AtLimit
    <2>6. stage[w] \notin {"health", "ensure", "serve"}
      BY <2>2 DEF StageInv
    <2> QED
      BY <2>1, <2>4, <2>5, <2>6 DEF WornInv, AtLimit
  <1>4. CASE CheckReadsList(w) \/ GetSearches(w) \/ LogSelected(w) \/ BeginReport(w)
    <2>1. UNCHANGED <<current, worn>> /\ pc[w] = "idle"
      BY <1>4
      DEF CheckReadsList, GetSearches, LogSelected, BeginReport, Idle, StageInv,
          Messages, listVars
    <2>2. CASE BeginReport(w)
      BY <1>q, <2>1, <2>2 DEF BeginReport, Idle, listVars
    <2>3. CASE CheckReadsList(w)
      <3>1. NoSavedProxy(w) \/ Enter(w, "count")
        BY <2>3 DEF CheckReadsList
      <3>2. stage'[w] \in {"search", "none", "count"} \cup Messages
        BY <3>1, <1>n, <1>w DEF Enter, TypeLookup
      <3> QED
        BY <1>q, <2>1, <3>2 DEF Messages
    <2>4. CASE GetSearches(w) \/ LogSelected(w)
      <3>1. Enter(w, "search") \/ Enter(w, "none")
        BY <2>4 DEF GetSearches, LogSelected
      <3>2. stage'[w] \in {"search", "none"}
        BY <3>1, <1>w DEF Enter, TypeLookup
      <3> QED
        BY <1>q, <2>1, <3>2
    <2> QED
      BY <1>4, <2>2, <2>3, <2>4
  <1>5. CASE CheckHealth(w) \/ CheckEnsuresCount(w)
    <2>1. /\ UNCHANGED <<current, worn>> /\ pc[w] # "reset"
          /\ stage[w] \in {"health", "ensure", "serve"}
      BY <1>5 DEF CheckHealth, CheckEnsuresCount, StageInv
    <2> QED
      BY <1>q, <2>1
  <1>6. CASE Serve(w) \/ SaveList(w)
    <2>1. /\ UNCHANGED <<current, worn>> /\ pc[w] = "idle"
          /\ stage'[w] \in {"search", "none"} \cup Messages
      BY <1>6, <1>n DEF Serve, SaveList, Messages
    <2> QED
      BY <1>q, <2>1 DEF Messages
  <1>7. CASE SearchFindsNothing(w) \/ SearchFindsList(w)
    <2>1. UNCHANGED <<current, worn>> /\ Searching(w)
      BY <1>7 DEF SearchFindsNothing, SearchFindsList
    <2>2. stage'[w] \in {"none", "search", "found"}
      BY <1>7, <1>w DEF SearchFindsNothing, SearchFindsList, Enter, TypeLookup
    <2>3. pc[w] # "reset"
      BY <2>1 DEF Searching, StageInv
    <2> QED
      BY <1>q, <2>1, <2>2, <2>3
  <1>8. CASE CounterStep(w)
    <2>1. UNCHANGED listVars /\ pc[w] # "reset"
      BY <1>8 DEF CounterStep, Initialize, Verify, Handle
    <2> QED
      BY <1>q, <2>1 DEF listVars
  <1>9. CASE Interrupted(w)
    BY <1>9 DEF Interrupted, WriteRaises, Crash, OnlyWritesFail
  <1> QED
    BY <1>1, <1>2, <1>3, <1>4, <1>5, <1>6, <1>7, <1>8, <1>9 DEF StepLookup

LEMMA WornStep ==
  ASSUME SoleWriter, OnlyWritesFail, TypeOK, TypeLookup, WriterInv, CycleInv,
         \A w \in Workers : StageInv(w), ListInv, WornInv, [NextLookup]_allVars
  PROVE  WornInv'
  <1>w. TheWriter \in Workers
    BY TheWriterWrites
  <1>1. CASE UNCHANGED allVars
    BY <1>1 DEF allVars, counterVars, vars, listVars, WornInv, EffectiveCount, AtLimit
  <1>2. CASE StepLookup(TheWriter)
    BY <1>w, <1>2, OwnWornStep
  <1>3. ASSUME NEW v \in Workers, v # TheWriter, StepLookup(v)
        PROVE  WornInv'
    <2>1. /\ stage'[TheWriter] = stage[TheWriter]
          /\ local'[TheWriter] = local[TheWriter]
          /\ unsaved'[TheWriter] = unsaved[TheWriter]
      BY <1>w, <1>3, LookupIsOwn
    <2>2. UNCHANGED <<stored, current, worn>>
      BY <1>3, OthersKeepList
    <2>3. EffectiveCount(TheWriter)' = EffectiveCount(TheWriter)
      BY <2>1, <2>2 DEF EffectiveCount
    <2> QED
      BY <2>1, <2>2, <2>3 DEF WornInv, AtLimit
  <1> QED
    BY <1>1, <1>2, <1>3 DEF NextLookup

LEMMA WornInit == InitLookup /\ SoleWriter => WriterInv /\ CycleInv /\ WornInv
  <1> SUFFICES ASSUME InitLookup, SoleWriter
               PROVE  WriterInv /\ CycleInv /\ WornInv
    OBVIOUS
  <1>1. TheWriter \in Workers /\ TheWriter \in Readers
    BY TheWriterWrites
  <1>2. Init
    BY DEF InitLookup
  <1>3. WriterInv /\ CycleInv
    BY <1>1, <1>2, RolesAssumption DEF Init, WriterInv, CycleInv, Resting
  <1>4. current \in worn => stored \in Int /\ AtLimit(stored)
    BY DEF InitLookup
  <1>5. stored \in Int => EffectiveCount(TheWriter) = stored
    BY <1>1, <1>2, ValuesAssumption DEF Init, EffectiveCount
  <1>6. stage[TheWriter] = "none"
    BY <1>1 DEF InitLookup
  <1> QED
    BY <1>3, <1>4, <1>5, <1>6 DEF WornInv

\* What the writer's lookups rest on.
LookupInv ==
  /\ TypeLookup
  /\ \A w \in Workers : StageInv(w)
  /\ WriterInv
  /\ CycleInv
  /\ ListInv
  /\ WornInv

LEMMA LookupInvariant ==
  ASSUME ListIsSaved, SoleWriter, OnlyWritesFail
  PROVE  SpecLookup => [](TypeOK /\ LookupInv)
  <1>1. InitLookup => LookupInv
    BY StageInit, ListInit, WornInit DEF LookupInv
  <1>2. OneWriter /\ ReliableReads
    BY DEF SoleWriter, OnlyWritesFail, ReliableReads
  <1>3. TypeOK /\ LookupInv /\ [NextLookup]_allVars => LookupInv'
    BY <1>2, LookupStepIsStep, StageStep, WriterStep, RefinementStep, ListStep,
       WornStep
    DEF LookupInv
  <1> QED
    BY <1>1, <1>3, ImplementsCounter, TypeCorrect, PTL DEF SpecLookup

\* Under the same assumptions an exhausted counter prevents reuse of the saved
\* list: the writer does not validate, select from or return a list whose cycle
\* has reached a limit, by its reports or before it started.
THEOREM WornListStaysOut ==
  ASSUME ListIsSaved, SoleWriter, OnlyWritesFail
  PROVE  SpecLookup => []WornListIsNotServed
  <1>1. LookupInv => WornListIsNotServed
    BY TheWriterWrites DEF LookupInv, ListInv, WornInv, Relying, WornListIsNotServed
  <1> QED
    BY <1>1, LookupInvariant, PTL

\* A reader that looks at the shared counter, with no count kept back by the
\* writer, finds the worn list's number at its limit, and rejects the list.
LEMMA ReaderRejectsWornList ==
  ASSUME OnlyWritesFail, TypeOK, TypeLookup, WornInv, TheWriter \in Readers,
         NEW w \in Workers, w \in Readers, CheckReadsCount(w),
         current \in worn, ~unsaved[w], ~unsaved[TheWriter]
  PROVE  stage'[w] # "health"
  <1>1. stored \in Int /\ AtLimit(stored)
    BY ValuesAssumption DEF WornInv, EffectiveCount
  <1>2. ReadStates(w) = {[source |-> "keyval", count |-> stored]}
    BY <1>1, ValuesAssumption DEF ReadStates, OnlyWritesFail
  <1>3. local'[w] = stored
    BY <1>2 DEF CheckReadsCount, Observe, TypeOK
  <1>4. NoSavedProxy(w)
    BY <1>1, <1>3 DEF CheckReadsCount, RejectsList
  <1> QED
    BY <1>4 DEF NoSavedProxy, Enter, TypeLookup

\* A worker that reads the shared list and the shared count accepts a worn list
\* only when another list took its place between the two requests, or while the
\* writer's count has not reached the database.
THEOREM WornListIsAcceptedStaleOnly ==
  ASSUME ListIsSaved, SoleWriter, OnlyWritesFail
  PROVE  SpecLookup => WornListNeedsStaleRead
  <1>w. TheWriter \in Readers /\ TheWriter \in Workers /\ Readers \subseteq Workers
    BY TheWriterWrites, RolesAssumption
  <1>1. ASSUME TypeOK, LookupInv, [NextLookup]_allVars, NEW w \in Readers,
               ~unsaved[w], stage[w] = "count", stage'[w] = "health",
               got[w] \in worn, got[w] = current
        PROVE  \E v \in Writers : unsaved[v]
    <2> SUFFICES ASSUME ~unsaved[TheWriter]
                 PROVE  FALSE
      BY TheWriterWrites
    <2>1. stage' # stage /\ w \in Workers /\ TypeLookup /\ WornInv
      BY <1>1, <1>w DEF LookupInv
    <2>2. PICK v \in Workers : StepLookup(v)
      BY <1>1, <2>1 DEF NextLookup, allVars, listVars
    <2>3. v = w
      BY <1>1, <2>1, <2>2, LookupIsOwn
    <2>4. pc[w] = "idle"
      BY <1>1, <2>1 DEF LookupInv, StageInv
    <2>5. ~Interrupted(w)
      BY DEF Interrupted, WriteRaises, Crash, OnlyWritesFail
    <2>6. CheckReadsCount(w)
      BY <1>1, <2>1, <2>2, <2>3, <2>4, <2>5
      DEF StepLookup, CheckReadsList, CheckHealth, CheckEnsuresCount, Serve,
          LogSelected, GetSearches, SearchFindsNothing, SearchFindsList, Searching,
          ResetForList, SaveList, BeginReport, FinishReport, CounterStep, Idle,
          listVars
    <2> QED
      BY <1>1, <1>w, <2>1, <2>6, ReaderRejectsWornList
  <1>2. TypeOK /\ LookupInv /\ [NextLookup]_allVars
          => [\A w \in Readers :
                ~unsaved[w] /\ stage[w] = "count" /\ stage'[w] = "health"
                            /\ got[w] \in worn
                  => got[w] # current \/ \E v \in Writers : unsaved[v]]_allVars
    BY <1>1
  <1> QED
    BY <1>2, LookupInvariant, PTL DEF SpecLookup, WornListNeedsStaleRead

-----------------------------------------------------------------------------
(* What renews an exhausted cycle, at the writer and at a worker that keeps  *)
(* its count to itself.  Whether lists are saved does not matter here.       *)

\* The count a report has read is the worker's local copy until it is saved.
CarriesLocal == \A w \in Workers : pc[w] = "save" => count[w] = local[w]

LEMMA CarriesStep ==
  ASSUME OnlyWritesFail, TypeOK, WriterInv, CarriesLocal, [Next]_vars
  PROVE  CarriesLocal'
  <1>1. CASE Land
    BY <1>1 DEF Land, WriterInv
  <1>2. CASE UNCHANGED vars
    BY <1>2 DEF vars, CarriesLocal
  <1>3. ASSUME NEW w \in Workers, Step(w)
        PROVE  CarriesLocal'
    <2>o. ASSUME NEW v \in Workers, v # w, pc'[v] = "save"
          PROVE  count'[v] = local'[v]
      BY <1>3, <2>o, StepIsOwn DEF CarriesLocal
    <2>1. ASSUME NEW d \in {-1, 0, 1}, Ensure(w, d), pc'[w] = "save"
          PROVE  count'[w] = local'[w]
      <3>1. PICK s \in ReadStates(w) :
              /\ local' = [local EXCEPT ![w] = s.count]
              /\ IF NeedsZero(w, s.source) THEN Goto(w, "initialize")
                                           ELSE HasCount(w, d, s.count)
        BY <2>1 DEF Ensure
      <3> QED
        BY <2>1, <3>1 DEF HasCount, Goto, TypeOK
    <2>2. ASSUME Verify(w), pc'[w] = "save"
          PROVE  count'[w] = local'[w]
      <3> DEFINE n(s) == IF s.source = "missing" THEN local[w] ELSE s.count
      <3>1. PICK s \in ReadStates(w) :
              /\ local' = [local EXCEPT ![w] = n(s)]
              /\ HasCount(w, delta[w], n(s))
        BY <2>2 DEF Verify
      <3> QED
        BY <2>2, <3>1 DEF HasCount, Goto, TypeOK
    <2>3. ASSUME ~Verify(w), ~Observe(w), \A d \in {-1, 0, 1} : ~Ensure(w, d)
          PROVE  pc'[w] # "save"
      BY <1>3, <2>3
      DEF Step, Initialize, SaveFeedback, SearchFails, SearchFinds, Reset,
          WriteRaises, Handle, Crash, Goto, TypeOK
    <2>4. Observe(w) => pc'[w] # "save"
      BY DEF Observe
    <2>5. pc'[w] = "save" => count'[w] = local'[w]
      BY <2>1, <2>2, <2>3, <2>4
    <2> QED
      BY <2>o, <2>5 DEF CarriesLocal
  <1> QED
    BY <1>1, <1>2, <1>3 DEF Next

\* A worker that acts on its own count keeps doing so, and at a limit the
\* count is moved by a reset only.
LEMMA OwnCountStep ==
  ASSUME OnlyWritesFail, TypeOK, WriterInv, CarriesLocal,
         NEW w \in Workers, w \notin Writers, unsaved[w] \/ w \notin Readers,
         AtLimit(local[w]), pc[w] # "reset", Step(w)
  PROVE  local'[w] = local[w] /\ (unsaved'[w] \/ w \notin Readers)
  <1>1. \A s \in ReadStates(w) : s.count = local[w] /\ s.source = "local"
    BY DEF ReadStates
  <1>2. ~WriteRaises(w) /\ ~Crash(w)
    BY DEF WriteRaises, Crash, OnlyWritesFail
  <1>3. ~Initialize(w) /\ ~Reset(w)
    BY DEF Initialize, Reset, WriterInv
  <1>4. ASSUME NEW d \in {-1, 0, 1}, Ensure(w, d)
        PROVE  local'[w] = local[w] /\ unsaved' = unsaved
    BY <1>1, <1>4 DEF Ensure, TypeOK
  <1>5. CASE Observe(w)
    BY <1>1, <1>5 DEF Observe, TypeOK
  <1>6. CASE Verify(w)
    <2>1. PICK s \in ReadStates(w) :
            /\ local' = [local EXCEPT ![w] =
                           IF s.source = "missing" THEN local[w] ELSE s.count]
            /\ unsaved' = [unsaved EXCEPT ![w] = @ \/ Unverified(s.source)]
      BY <1>6 DEF Verify
    <2>2. s.count = local[w] /\ unsaved'[w] = (unsaved[w] \/ Unverified(s.source))
      BY <1>1, <2>1 DEF TypeOK
    <2> QED
      BY <2>1, <2>2 DEF TypeOK
  <1>7. CASE SaveFeedback(w)
    <2>1. count[w] = local[w]
      BY <1>7 DEF SaveFeedback, CarriesLocal
    <2>2. Save(w, local[w])
      BY <1>7, <2>1 DEF SaveFeedback, CountAfter
    <2>3. PICK r \in WriteReplies(w) : unsaved' = [unsaved EXCEPT ![w] = ~r.stored]
      BY <2>2 DEF Save
    <2>4. r.stored = FALSE
      BY DEF WriteReplies
    <2> QED
      BY <2>2, <2>3, <2>4 DEF Save, TypeOK
  <1> QED
    BY <1>2, <1>3, <1>4, <1>5, <1>6, <1>7
    DEF Step, SearchFails, SearchFinds, Handle

LEMMA RenewingStep ==
  ASSUME SoleWriter, OnlyWritesFail, TypeOK, TypeLookup,
         \A w \in Workers : StageInv(w), WriterInv, CycleInv, CarriesLocal,
         [NextLookup]_allVars,
         NEW w \in Workers, OwnsCount(w), AtLimit(EffectiveCount(w)),
         EffectiveCount(w)' # EffectiveCount(w)
  PROVE  stage[w] = "found"
  <1> SUFFICES ASSUME pc[w] # "reset"
               PROVE  FALSE
    BY DEF StageInv
  <1>1. CASE w \in Writers
    <2>1. w = TheWriter
      BY <1>1, TheWriterWrites
    <2> QED
      BY <2>1, LookupStepIsStep, RefinementStep, ExhaustedStep
  <1>2. CASE w \notin Writers
    <2>1. (unsaved[w] \/ w \notin Readers) /\ EffectiveCount(w) = local[w]
      BY <1>2 DEF OwnsCount, EffectiveCount
    <2>2. ASSUME local'[w] = local[w], unsaved'[w] \/ w \notin Readers
          PROVE  FALSE
      BY <2>1, <2>2 DEF EffectiveCount
    <2>3. CASE UNCHANGED vars
      BY <2>1, <2>2, <2>3 DEF vars
    <2>4. ASSUME NEW v \in Workers, v # w, Step(v)
          PROVE  FALSE
      BY <2>1, <2>2, <2>4, StepIsOwn
    <2>5. CASE Step(w)
      BY <1>2, <2>1, <2>2, <2>5, OwnCountStep
    <2>6. ~Land
      BY DEF Land, WriterInv
    <2> QED
      BY <2>3, <2>4, <2>5, <2>6, LookupStepIsStep DEF Next
  <1> QED
    BY <1>1, <1>2

\* With one writer and no failures but refused or unacknowledged writes of the
\* counter, an exhausted cycle is renewed by the worker's own fresh discovery
\* and by nothing else, whether its list could be saved or not.
THEOREM DiscoveryAloneRenews ==
  ASSUME SoleWriter, OnlyWritesFail
  PROVE  SpecLookup => OnlyDiscoveryRenews
  <1> DEFINE Inv == /\ TypeLookup
                    /\ \A w \in Workers : StageInv(w)
                    /\ WriterInv
                    /\ CycleInv
                    /\ CarriesLocal
  <1>1. InitLookup => Inv
    BY StageInit, WornInit DEF InitLookup, Init, CarriesLocal
  <1>2. OneWriter /\ ReliableReads
    BY DEF SoleWriter, OnlyWritesFail, ReliableReads
  <1>3. TypeOK /\ Inv /\ [NextLookup]_allVars => Inv'
    BY <1>2, LookupStepIsStep, StageStep, WriterStep, RefinementStep, CarriesStep
  <1>4. TypeOK /\ Inv /\ [NextLookup]_allVars
          => [\A w \in Workers :
                OwnsCount(w) /\ AtLimit(EffectiveCount(w))
                             /\ EffectiveCount(w)' # EffectiveCount(w)
                  => stage[w] = "found"]_allVars
    BY RenewingStep
  <1> QED
    BY <1>1, <1>3, <1>4, ImplementsCounter, TypeCorrect, PTL
    DEF SpecLookup, OnlyDiscoveryRenews

-----------------------------------------------------------------------------

\* Under lookups, lost, false and undecodable replies and restarts, with one
\* writer: the zero of an absent counter is written only while there is none.
THEOREM LookupsInitializeOnlyAbsent ==
  ASSUME OneWriter, ReliableReads
  PROVE  SpecLookup => []InitializesOnlyAbsent
  BY ImplementsCounter, OneWriterIsAtomic, PTL
=============================================================================
