--------------------------- MODULE UsageHistoryProofs ---------------------------
(***************************************************************************)
(* Theorems about UsageHistory: its types for every set of instances, for  *)
(* one instance the skipping of used-up proxies and, when it does not      *)
(* restart, the counting, and for two instances how far they overuse a     *)
(* proxy together, whatever operation of the storage fails.                *)
(***************************************************************************)
EXTENDS UsageHistory, TLAPS

LEMMA RecordsStayRecords ==
  ASSUME NEW r \in Records
  PROVE  Used(r) \in Records /\ Disabled(r) \in Records
  BY DEF Records, Used, Disabled

\* What recording or marking in memory changes.
LEMMA MemoryKeepsType ==
  ASSUME TypeOK, NEW i \in Instances, NEW p \in Proxies,
         \/ RecordInMemory(i, p)
         \/ MarkInMemory(i, p)
  PROVE  fallback' \in [Instances -> [Proxies -> Records]]
  <1>1. fallback[i] \in [Proxies -> Records] /\ fallback[i][p] \in Records
    BY DEF TypeOK
  <1>2. /\ Used(fallback[i][p]) \in Records
        /\ Disabled(fallback[i][p]) \in Records
    BY <1>1, RecordsStayRecords
  <1>3. \/ fallback' = [fallback EXCEPT ![i][p] = Used(fallback[i][p])]
        \/ fallback' = [fallback EXCEPT ![i][p] = Disabled(fallback[i][p])]
    BY DEF RecordInMemory, MarkInMemory
  <1>4. ASSUME NEW r \in Records,
               fallback' = [fallback EXCEPT ![i][p] = r]
        PROVE  fallback' \in [Instances -> [Proxies -> Records]]
    BY <1>1, <1>4 DEF TypeOK
  <1> QED
    BY <1>2, <1>3, <1>4

LEMMA ReadKeepsType ==
  ASSUME TypeOK, NEW i \in Instances, NEW p \in Proxies, NEW r, Read(i, p, r)
  PROVE  r \in Records /\ enabled' \in [Instances -> BOOLEAN]
  <1>1. enabled' \in [Instances -> BOOLEAN]
    BY DEF TypeOK, Read, TurnOff
  <1>2. r = remote[p] \/ r = fallback[i][p]
    BY DEF Read
  <1> QED
    BY <1>1, <1>2 DEF TypeOK

LEMMA TypeStep == TypeOK /\ [Next]_vars => TypeOK'
  <1> SUFFICES ASSUME TypeOK, [Next]_vars
               PROVE  TypeOK'
    OBVIOUS
  <1>1. ASSUME NEW i \in Instances, NEW p \in Proxies, CheckDisabled(i, p)
        PROVE  TypeOK'
    <2>1. PICK r \in Readable(i, p) :
            Read(i, p, r) /\ Goto(i, AfterDisabledCheck(r))
      BY <1>1 DEF CheckDisabled
    <2>2. enabled' \in [Instances -> BOOLEAN]
      BY <2>1, ReadKeepsType
    <2> QED
      BY <1>1, <2>1, <2>2
      DEF CheckDisabled, Goto, AfterDisabledCheck, TypeOK, Labels
  <1>2. ASSUME NEW i \in Instances, NEW p \in Proxies, RecordRead(i, p)
        PROVE  TypeOK'
    <2>1. uses' \in [Proxies -> Nat] /\ cleared' \in [Instances -> SUBSET Proxies]
      BY <1>2 DEF RecordRead, TypeOK
    <2>2. proxy' \in [Instances -> Proxies] /\ remote' = remote
      BY <1>2 DEF RecordRead, TypeOK
    <2>3. enabled' \in [Instances -> BOOLEAN]
      BY <1>2 DEF RecordRead, TurnOff, TypeOK
    <2>4. fallback' \in [Instances -> [Proxies -> Records]]
      BY <1>2, MemoryKeepsType DEF RecordRead, TypeOK
    <2>5. pc' \in [Instances -> Labels]
      BY <1>2 DEF RecordRead, RecordInMemory, AfterRecord, Goto, TypeOK, Labels
    <2>6. seen' \in [Instances -> Records]
      BY <1>2 DEF RecordRead, TypeOK
    <2> QED
      BY <2>1, <2>2, <2>3, <2>4, <2>5, <2>6 DEF TypeOK
  <1>3. ASSUME NEW i \in Instances, CheckCount(i)
        PROVE  TypeOK'
    <2>1. PICK r \in Readable(i, proxy[i]) :
            /\ Read(i, proxy[i], r)
            /\ IF Overused(r)
               THEN Goto(i, "markRead") /\ UNCHANGED cleared
               ELSE /\ Goto(i, "idle")
                    /\ cleared' = [cleared EXCEPT ![i] = @ \cup {proxy[i]}]
      BY <1>3 DEF CheckCount
    <2>2. proxy[i] \in Proxies
      BY DEF TypeOK
    <2>3. enabled' \in [Instances -> BOOLEAN]
      BY <2>1, <2>2, ReadKeepsType
    <2>4. cleared' \in [Instances -> SUBSET Proxies]
      BY <2>1, <2>2 DEF TypeOK
    <2>5. pc' \in [Instances -> Labels]
      BY <2>1 DEF Goto, TypeOK, Labels
    <2> QED
      BY <1>3, <2>3, <2>4, <2>5 DEF CheckCount, TypeOK
  <1>4. ASSUME NEW i \in Instances, RecordSet(i)
        PROVE  TypeOK'
    <2>1. proxy[i] \in Proxies /\ Used(seen[i]) \in Records
      BY RecordsStayRecords DEF TypeOK
    <2>2. remote' \in [Proxies -> Records]
      BY <1>4, <2>1 DEF RecordSet, TypeOK
    <2>3. enabled' \in [Instances -> BOOLEAN]
      BY <1>4 DEF RecordSet, TurnOff, TypeOK
    <2>4. fallback' \in [Instances -> [Proxies -> Records]]
      BY <1>4, <2>1, MemoryKeepsType DEF RecordSet, TypeOK
    <2>5. pc' \in [Instances -> Labels]
      BY <1>4 DEF RecordSet, RecordInMemory, AfterRecord, Goto, TypeOK, Labels
    <2> QED
      BY <1>4, <2>2, <2>3, <2>4, <2>5 DEF RecordSet, TypeOK
  <1>5. ASSUME NEW i \in Instances, RecordHistory(i)
        PROVE  TypeOK'
    <2>1. proxy[i] \in Proxies
      BY DEF TypeOK
    <2>2. enabled' \in [Instances -> BOOLEAN]
      BY <1>5 DEF RecordHistory, TurnOff, TypeOK
    <2>3. fallback' \in [Instances -> [Proxies -> Records]]
      BY <1>5, <2>1, MemoryKeepsType DEF RecordHistory, TypeOK
    <2>4. pc' \in [Instances -> Labels]
      BY <1>5
      DEF RecordHistory, RecordInMemory, AfterRecord, Goto, TypeOK, Labels
    <2> QED
      BY <1>5, <2>2, <2>3, <2>4 DEF RecordHistory, TypeOK
  <1>6. ASSUME NEW i \in Instances, MarkRead(i)
        PROVE  TypeOK'
    <2>1. proxy[i] \in Proxies
      BY DEF TypeOK
    <2>2. enabled' \in [Instances -> BOOLEAN]
      BY <1>6 DEF MarkRead, TurnOff, TypeOK
    <2>3. fallback' \in [Instances -> [Proxies -> Records]]
      BY <1>6, <2>1, MemoryKeepsType DEF MarkRead, TypeOK
    <2>4. pc' \in [Instances -> Labels] /\ seen' \in [Instances -> Records]
      BY <1>6, <2>1 DEF MarkRead, Goto, TypeOK, Labels
    <2> QED
      BY <1>6, <2>2, <2>3, <2>4 DEF MarkRead, TypeOK
  <1>7. ASSUME NEW i \in Instances, MarkSet(i)
        PROVE  TypeOK'
    <2>1. proxy[i] \in Proxies /\ Disabled(seen[i]) \in Records
      BY RecordsStayRecords DEF TypeOK
    <2>2. remote' \in [Proxies -> Records]
      BY <1>7, <2>1 DEF MarkSet, TypeOK
    <2>3. enabled' \in [Instances -> BOOLEAN]
      BY <1>7 DEF MarkSet, TurnOff, TypeOK
    <2>4. fallback' \in [Instances -> [Proxies -> Records]]
      BY <1>7, <2>1, MemoryKeepsType DEF MarkSet, TypeOK
    <2> QED
      BY <1>7, <2>2, <2>3, <2>4 DEF MarkSet, Goto, TypeOK, Labels
  <1>8. ASSUME NEW i \in Instances, Abandon(i)
        PROVE  TypeOK'
    BY <1>8 DEF Abandon, TypeOK
  <1>9. ASSUME NEW i \in Instances, Crash(i)
        PROVE  TypeOK'
    <2>1. [p \in Proxies |-> Empty] \in [Proxies -> Records]
      BY DEF Empty, Records
    <2>2. enabled' \in [Instances -> BOOLEAN]
      BY <1>9 DEF Crash, StartsEnabled, TypeOK
    <2> QED
      BY <1>9, <2>1, <2>2 DEF Crash, Goto, TypeOK, Labels
  <1>10. CASE UNCHANGED vars
    BY <1>10 DEF vars, TypeOK
  <1> QED
    BY <1>1, <1>2, <1>3, <1>4, <1>5, <1>6, <1>7, <1>8, <1>9, <1>10
    DEF Next, Step

LEMMA TypeInit == Init => TypeOK
  <1> SUFFICES ASSUME Init
               PROVE  TypeOK
    OBVIOUS
  <1>1. Empty \in Records
    BY DEF Empty, Records
  <1>2. AnyProxy \in Proxies
    BY ProxiesAssumption DEF AnyProxy
  <1>3. remote \in [Proxies -> Records]
    BY SeedsAssumption DEF Init
  <1>4. uses \in [Proxies -> Nat]
    BY <1>3 DEF Init, Records
  <1>5. enabled \in [Instances -> BOOLEAN]
    BY DEF Init
  <1> QED
    BY <1>1, <1>2, <1>3, <1>4, <1>5 DEF Init, TypeOK, Labels

\* Every record is a count and a flag, however many instances write it, and a
\* disabled mark never costs a record its count.
THEOREM TypeCorrect == Spec => []TypeOK
  BY TypeInit, TypeStep, PTL DEF Spec

-----------------------------------------------------------------------------
(* One instance. *)

OneInstance == \A i, j \in Instances : i = j

NoRestarts == "crash" \notin Faults

\* While the storage is on, the database has counted every use but the one
\* being written; when it is off, at most one use is also counted in memory.
CountInv(i) ==
  /\ pc[i] \in {"recordSet", "recordHistory", "markSet"} => enabled[i]
  /\ pc[i] \in {"recordSet", "markSet"} => seen[i] = remote[proxy[i]]
  /\ enabled[i] =>
       \A p \in Proxies :
         /\ fallback[i][p].count = 0
         /\ uses[p] = IF pc[i] = "recordSet" /\ p = proxy[i]
                      THEN remote[p].count + 1
                      ELSE remote[p].count
  /\ ~enabled[i] =>
       \A p \in Proxies :
         LET counted == remote[p].count + fallback[i][p].count
         IN  uses[p] <= counted /\ counted <= uses[p] + 1

LEMMA MemoryCounts ==
  ASSUME TypeOK, NEW i \in Instances, NEW p \in Proxies, NEW q \in Proxies
  PROVE  /\ RecordInMemory(i, p) =>
              fallback'[i][q].count = IF q = p THEN fallback[i][q].count + 1
                                               ELSE fallback[i][q].count
         /\ MarkInMemory(i, p) =>
              fallback'[i][q].count = fallback[i][q].count
  <1>1. fallback[i] \in [Proxies -> Records] /\ fallback[i][p] \in Records
    BY DEF TypeOK
  <1>2. ASSUME NEW r, fallback' = [fallback EXCEPT ![i][p] = r]
        PROVE  fallback'[i][q] = IF q = p THEN r ELSE fallback[i][q]
    BY <1>1, <1>2 DEF TypeOK
  <1>3. ASSUME RecordInMemory(i, p)
        PROVE  fallback'[i][q] = IF q = p THEN Used(fallback[i][p])
                                          ELSE fallback[i][q]
    BY <1>2, <1>3 DEF RecordInMemory
  <1>4. ASSUME MarkInMemory(i, p)
        PROVE  fallback'[i][q] = IF q = p THEN Disabled(fallback[i][p])
                                          ELSE fallback[i][q]
    BY <1>2, <1>4 DEF MarkInMemory
  <1>5. /\ Used(fallback[i][p]).count = fallback[i][p].count + 1
        /\ Disabled(fallback[i][p]).count = fallback[i][p].count
    BY DEF Used, Disabled
  <1> QED
    BY <1>3, <1>4, <1>5

\* Counts are numbers.
LEMMA CountsAreNat ==
  ASSUME TypeOK, NEW i \in Instances, NEW p \in Proxies
  PROVE  /\ remote[p].count \in Nat
         /\ fallback[i][p].count \in Nat
         /\ seen[i].count \in Nat
         /\ uses[p] \in Nat
  <1>1. remote[p] \in Records /\ fallback[i][p] \in Records /\ seen[i] \in Records
    BY DEF TypeOK
  <1> QED
    BY <1>1 DEF TypeOK, Records

\* A step that leaves every count alone, turning the storage off or not.
LEMMA QuietStep ==
  ASSUME TypeOK, NEW i \in Instances, CountInv(i),
         pc[i] # "recordSet",
         pc'[i] \notin {"recordSet", "recordHistory", "markSet"},
         enabled'[i] => enabled[i], enabled'[i] \in BOOLEAN,
         uses' = uses,
         \A p \in Proxies : /\ remote'[p].count = remote[p].count
                            /\ fallback'[i][p].count = fallback[i][p].count
  PROVE  CountInv(i)'
  <1>1. CASE enabled[i]
    <2>1. \A p \in Proxies : /\ fallback[i][p].count = 0
                             /\ uses[p] = remote[p].count
      BY <1>1 DEF CountInv
    <2> QED
      BY <1>1, <2>1, CountsAreNat DEF CountInv
  <1>2. CASE ~enabled[i]
    BY <1>2 DEF CountInv
  <1> QED
    BY <1>1, <1>2

LEMMA CountStep ==
  ASSUME OneInstance, NoRestarts, TypeOK,
         NEW i \in Instances, CountInv(i), [Next]_vars
  PROVE  CountInv(i)'
  <1>1. ASSUME NEW p \in Proxies, CheckDisabled(i, p)
        PROVE  CountInv(i)'
    <2>1. /\ pc[i] = "idle" /\ pc'[i] \in {"idle", "checkCount"}
          /\ UNCHANGED <<remote, fallback, uses>>
      BY <1>1 DEF CheckDisabled, Goto, AfterDisabledCheck, TypeOK
    <2>2. (enabled'[i] => enabled[i]) /\ enabled'[i] \in BOOLEAN
      BY <1>1 DEF CheckDisabled, Read, TurnOff, TypeOK
    <2> QED
      BY <2>1, <2>2, QuietStep
  <1>2. ASSUME CheckCount(i)
        PROVE  CountInv(i)'
    <2>1. /\ pc[i] = "checkCount" /\ pc'[i] \in {"idle", "markRead"}
          /\ UNCHANGED <<remote, fallback, uses>>
      BY <1>2 DEF CheckCount, Goto, TypeOK
    <2>2. (enabled'[i] => enabled[i]) /\ enabled'[i] \in BOOLEAN
      BY <1>2 DEF CheckCount, Read, TurnOff, TypeOK
    <2> QED
      BY <2>1, <2>2, QuietStep
  <1>3. ASSUME NEW p \in Proxies, RecordRead(i, p)
        PROVE  CountInv(i)'
    <2>1. /\ pc[i] = "idle"
          /\ uses' = [uses EXCEPT ![p] = @ + 1]
          /\ proxy'[i] = p
          /\ remote' = remote
      BY <1>3 DEF RecordRead, TypeOK
    <2>2. CASE /\ enabled[i]
               /\ seen' = [seen EXCEPT ![i] = remote[p]]
               /\ Goto(i, "recordSet")
               /\ UNCHANGED <<enabled, fallback>>
      <3>1. seen'[i] = remote[p] /\ pc'[i] = "recordSet"
        BY <2>2 DEF Goto, TypeOK
      <3>2. \A q \in Proxies : /\ fallback[i][q].count = 0
                               /\ uses[q] = remote[q].count
        BY <2>1, <2>2 DEF CountInv
      <3>3. \A q \in Proxies : uses'[q] = IF q = p THEN remote[q].count + 1
                                                   ELSE remote[q].count
        BY <2>1, <3>2 DEF TypeOK
      <3> QED
        BY <2>1, <2>2, <3>1, <3>2, <3>3 DEF CountInv
    <2>3. CASE TurnOff(i) /\ RecordInMemory(i, p) /\ UNCHANGED seen
      <3>1. ~enabled'[i] /\ pc'[i] \in {"idle", "markRead"}
        BY <2>3 DEF TurnOff, RecordInMemory, AfterRecord, Goto, TypeOK
      <3>2. \A q \in Proxies :
              LET counted == remote[q].count + fallback[i][q].count
              IN  uses[q] <= counted /\ counted <= uses[q] + 1
        BY <2>1, CountsAreNat DEF CountInv
      <3>3. ASSUME NEW q \in Proxies
            PROVE  /\ fallback'[i][q].count - fallback[i][q].count
                        = uses'[q] - uses[q]
                   /\ fallback'[i][q].count \in Nat /\ uses'[q] \in Nat
        BY <2>1, <2>3, MemoryCounts, CountsAreNat DEF TypeOK
      <3> QED
        BY <2>1, <3>1, <3>2, <3>3, CountsAreNat DEF CountInv
    <2> QED
      BY <1>3, <2>2, <2>3 DEF RecordRead
  <1>4. ASSUME RecordSet(i)
        PROVE  CountInv(i)'
    <2> DEFINE p == proxy[i]
    <2>1. /\ pc[i] = "recordSet" /\ p \in Proxies
          /\ UNCHANGED <<proxy, seen, uses>>
      BY <1>4 DEF RecordSet, TypeOK
    <2>2. /\ enabled[i]
          /\ seen[i].count = remote[p].count
          /\ \A q \in Proxies :
               /\ fallback[i][q].count = 0
               /\ uses[q] = IF q = p THEN remote[q].count + 1
                                     ELSE remote[q].count
      BY <2>1 DEF CountInv
    <2>3. ASSUME remote' = [remote EXCEPT ![p] = Used(seen[i])],
                 NEW q \in Proxies
          PROVE  remote'[q].count = uses[q]
      <3>1. Used(seen[i]).count = remote[p].count + 1
        BY <2>2 DEF Used
      <3> QED
        BY <2>1, <2>2, <2>3, <3>1 DEF TypeOK
    <2>4. CASE /\ remote' = [remote EXCEPT ![p] = Used(seen[i])]
               /\ Goto(i, "recordHistory")
               /\ UNCHANGED <<enabled, fallback>>
      <3>1. pc'[i] = "recordHistory"
        BY <2>4 DEF Goto, TypeOK
      <3> QED
        BY <2>1, <2>2, <2>3, <2>4, <3>1 DEF CountInv
    <2>5. CASE /\ \/ UNCHANGED remote
                  \/ remote' = [remote EXCEPT ![p] = Used(seen[i])]
               /\ TurnOff(i)
               /\ RecordInMemory(i, p)
      <3>1. ~enabled'[i] /\ pc'[i] \in {"idle", "markRead"}
        BY <2>5 DEF TurnOff, RecordInMemory, AfterRecord, Goto, TypeOK
      <3>2. \A q \in Proxies : fallback'[i][q].count = IF q = p THEN 1 ELSE 0
        BY <2>1, <2>2, <2>5, MemoryCounts
      <3>3. \A q \in Proxies : \/ remote'[q].count = remote[q].count
                               \/ remote'[q].count = uses[q]
        BY <2>3, <2>5
      <3>4. ASSUME NEW q \in Proxies
            PROVE  LET counted == remote'[q].count + fallback'[i][q].count
                   IN  uses[q] <= counted /\ counted <= uses[q] + 1
        BY <2>2, <2>3, <2>5, <3>2, <3>3, CountsAreNat
      <3> QED
        BY <2>1, <3>1, <3>4 DEF CountInv
    <2> QED
      BY <1>4, <2>4, <2>5 DEF RecordSet
  <1>5. ASSUME RecordHistory(i)
        PROVE  CountInv(i)'
    <2>1. /\ pc[i] = "recordHistory" /\ proxy[i] \in Proxies
          /\ UNCHANGED <<remote, proxy, seen, uses>>
      BY <1>5 DEF RecordHistory, TypeOK
    <2>2. CASE /\ AfterRecord(i, Used(seen[i]))
               /\ UNCHANGED <<enabled, fallback>>
      <3>1. pc'[i] \in {"idle", "markRead"}
        BY <2>2 DEF AfterRecord, Goto, TypeOK
      <3>2. enabled[i] \in BOOLEAN
        BY DEF TypeOK
      <3> QED
        BY <2>1, <2>2, <3>1, <3>2, QuietStep
    <2>3. CASE TurnOff(i) /\ RecordInMemory(i, proxy[i])
      <3>1. ~enabled'[i] /\ pc'[i] \in {"idle", "markRead"}
        BY <2>3 DEF TurnOff, RecordInMemory, AfterRecord, Goto, TypeOK
      <3>2. \A q \in Proxies : /\ fallback[i][q].count = 0
                               /\ uses[q] = remote[q].count
        BY <2>1 DEF CountInv
      <3>3. \A q \in Proxies : fallback'[i][q].count \in {0, 1}
        BY <2>1, <2>3, <3>2, MemoryCounts
      <3> QED
        BY <2>1, <3>1, <3>2, <3>3, CountsAreNat DEF CountInv
    <2> QED
      BY <1>5, <2>2, <2>3 DEF RecordHistory
  <1>6. ASSUME MarkRead(i)
        PROVE  CountInv(i)'
    <2>1. /\ pc[i] = "markRead" /\ proxy[i] \in Proxies
          /\ UNCHANGED <<remote, proxy, uses>>
      BY <1>6 DEF MarkRead, TypeOK
    <2>2. CASE /\ enabled[i]
               /\ seen' = [seen EXCEPT ![i] = remote[proxy[i]]]
               /\ Goto(i, "markSet")
               /\ UNCHANGED <<enabled, fallback>>
      <3>1. seen'[i] = remote[proxy[i]] /\ pc'[i] = "markSet"
        BY <2>2 DEF Goto, TypeOK
      <3> QED
        BY <2>1, <2>2, <3>1 DEF CountInv
    <2>3. CASE TurnOff(i) /\ MarkInMemory(i, proxy[i]) /\ Goto(i, "idle")
      <3>1. enabled'[i] = FALSE /\ pc'[i] = "idle"
        BY <2>3 DEF TurnOff, Goto, TypeOK
      <3>2. \A q \in Proxies : fallback'[i][q].count = fallback[i][q].count
        BY <2>1, <2>3, MemoryCounts
      <3> QED
        BY <2>1, <3>1, <3>2, QuietStep
    <2> QED
      BY <1>6, <2>2, <2>3 DEF MarkRead
  <1>7. ASSUME MarkSet(i)
        PROVE  CountInv(i)'
    <2>1. /\ pc[i] = "markSet" /\ pc'[i] = "idle" /\ proxy[i] \in Proxies
          /\ uses' = uses
      BY <1>7 DEF MarkSet, Goto, TypeOK
    <2>2. seen[i] = remote[proxy[i]]
      BY <2>1 DEF CountInv
    <2>3. Disabled(seen[i]).count = remote[proxy[i]].count
      BY <2>2 DEF Disabled
    <2>4. \A q \in Proxies : remote'[q].count = remote[q].count
      BY <1>7, <2>1, <2>3 DEF MarkSet, TypeOK
    <2>5. \A q \in Proxies : fallback'[i][q].count = fallback[i][q].count
      BY <1>7, <2>1, MemoryCounts DEF MarkSet
    <2>6. (enabled'[i] => enabled[i]) /\ enabled'[i] \in BOOLEAN
      BY <1>7 DEF MarkSet, TurnOff, TypeOK
    <2> QED
      BY <2>1, <2>4, <2>5, <2>6, QuietStep
  <1>8. CASE Abandon(i)
    BY <1>8 DEF Abandon, CountInv
  <1>9. CASE UNCHANGED vars
    BY <1>9 DEF vars, CountInv
  <1> QED
    BY <1>1, <1>2, <1>3, <1>4, <1>5, <1>6, <1>7, <1>8, <1>9
    DEF Next, Step, Crash, NoRestarts, OneInstance

\* The storage may fail in the middle of an operation, the write applied or not:
\* no use is lost, and at most one is counted twice.
THEOREM UsesAreCounted ==
  ASSUME OneInstance, NoRestarts
  PROVE  Spec => []EveryUseIsCounted
  <1> DEFINE Inv == \A i \in Instances : CountInv(i)
  <1>1. Init => Inv
    <2> SUFFICES ASSUME Init, NEW i \in Instances
                 PROVE  CountInv(i)
      OBVIOUS
    <2>1. TypeOK
      BY TypeInit
    <2>2. \A p \in Proxies : /\ fallback[i][p].count = 0
                             /\ uses[p] = remote[p].count
      BY DEF Init, Empty
    <2>3. pc[i] = "idle"
      BY DEF Init
    <2> QED
      BY <2>1, <2>2, <2>3, CountsAreNat DEF CountInv
  <1>2. TypeOK /\ Inv /\ [Next]_vars => Inv'
    BY CountStep
  <1>3. TypeOK /\ Inv => EveryUseIsCounted
    <2> SUFFICES ASSUME TypeOK, Inv, NEW i \in Instances, NEW p \in Proxies,
                        pc[i] = "idle"
                 PROVE  LET counted == remote[p].count + fallback[i][p].count
                        IN  uses[p] <= counted /\ counted <= uses[p] + 1
      BY DEF EveryUseIsCounted
    <2>1. CASE enabled[i]
      <3>1. CountInv(i)
        OBVIOUS
      <3>2. fallback[i][p].count = 0 /\ uses[p] = remote[p].count
        BY <2>1, <3>1 DEF CountInv
      <3> QED
        BY <3>2, CountsAreNat
    <2>2. CASE ~enabled[i]
      BY <2>2 DEF CountInv
    <2> QED
      BY <2>1, <2>2
  <1> QED
    BY <1>1, <1>2, <1>3, TypeCorrect, PTL DEF Spec

-----------------------------------------------------------------------------

\* What lies between the check of a proxy and its selection.
SkipInv(i) ==
  /\ pc[i] \in {"recordSet", "recordHistory"} => cleared[i] = {}
  /\ pc[i] \in {"checkCount", "markRead", "markSet"} => proxy[i] \notin cleared[i]
  /\ enabled[i] /\ pc[i] = "checkCount" => ~remote[proxy[i]].disabled
  /\ enabled[i] =>
       \A p \in cleared[i] : ~Overused(remote[p]) /\ ~remote[p].disabled

LEMMA SkipStep ==
  ASSUME OneInstance, TypeOK,
         NEW i \in Instances, SkipInv(i), [Next]_vars
  PROVE  SkipInv(i)'
  <1>1. ASSUME NEW p \in Proxies, CheckDisabled(i, p)
        PROVE  SkipInv(i)'
    <2>1. PICK r \in Readable(i, p) :
            Read(i, p, r) /\ Goto(i, AfterDisabledCheck(r))
      BY <1>1 DEF CheckDisabled
    <2>2. /\ pc'[i] = IF r.disabled THEN "idle" ELSE "checkCount"
          /\ proxy'[i] = p
          /\ p \notin cleared[i]
          /\ UNCHANGED <<remote, cleared>>
      BY <1>1, <2>1 DEF CheckDisabled, Goto, AfterDisabledCheck, TypeOK
    <2>3. enabled'[i] => enabled[i] /\ r = remote[p]
      BY <2>1 DEF Read, TurnOff, TypeOK
    <2> QED
      BY <2>2, <2>3 DEF SkipInv
  <1>2. ASSUME CheckCount(i)
        PROVE  SkipInv(i)'
    <2>1. PICK r \in Readable(i, proxy[i]) :
            /\ Read(i, proxy[i], r)
            /\ IF Overused(r)
               THEN Goto(i, "markRead") /\ UNCHANGED cleared
               ELSE /\ Goto(i, "idle")
                    /\ cleared' = [cleared EXCEPT ![i] = @ \cup {proxy[i]}]
      BY <1>2 DEF CheckCount
    <2>2. pc[i] = "checkCount" /\ UNCHANGED <<remote, proxy>>
      BY <1>2 DEF CheckCount
    <2>3. enabled'[i] => enabled[i] /\ r = remote[proxy[i]]
      BY <2>1 DEF Read, TurnOff, TypeOK
    <2>4. CASE Overused(r)
      <3>1. pc'[i] = "markRead" /\ cleared' = cleared
        BY <2>1, <2>4 DEF Goto, TypeOK
      <3> QED
        BY <2>2, <2>3, <3>1 DEF SkipInv
    <2>5. CASE ~Overused(r)
      <3>1. pc'[i] = "idle" /\ cleared'[i] = cleared[i] \cup {proxy[i]}
        BY <2>1, <2>5 DEF Goto, TypeOK
      <3> QED
        BY <2>2, <2>3, <2>5, <3>1 DEF SkipInv
    <2> QED
      BY <2>4, <2>5
  <1>3. ASSUME NEW p \in Proxies, RecordRead(i, p)
        PROVE  SkipInv(i)'
    <2>1. cleared'[i] = {}
      BY <1>3 DEF RecordRead, TypeOK
    <2>2. pc'[i] # "checkCount"
      BY <1>3 DEF RecordRead, RecordInMemory, AfterRecord, Goto, TypeOK
    <2> QED
      BY <2>1, <2>2 DEF SkipInv
  <1>4. ASSUME RecordSet(i) \/ RecordHistory(i)
        PROVE  SkipInv(i)'
    <2>1. cleared[i] = {} /\ cleared' = cleared
      BY <1>4 DEF RecordSet, RecordHistory, SkipInv
    <2>2. pc'[i] # "checkCount"
      BY <1>4
      DEF RecordSet, RecordHistory, RecordInMemory, AfterRecord, Goto, TypeOK
    <2> QED
      BY <2>1, <2>2 DEF SkipInv
  <1>5. ASSUME MarkRead(i)
        PROVE  SkipInv(i)'
    <2>1. /\ pc[i] = "markRead" /\ pc'[i] \in {"markSet", "idle"}
          /\ UNCHANGED <<remote, proxy, cleared>>
      BY <1>5 DEF MarkRead, Goto, TypeOK
    <2>2. enabled'[i] => enabled[i]
      BY <1>5 DEF MarkRead, TurnOff, TypeOK
    <2> QED
      BY <2>1, <2>2 DEF SkipInv
  <1>6. ASSUME MarkSet(i)
        PROVE  SkipInv(i)'
    <2>1. /\ pc[i] = "markSet" /\ pc'[i] = "idle"
          /\ UNCHANGED <<proxy, cleared>>
      BY <1>6 DEF MarkSet, Goto, TypeOK
    <2>2. enabled'[i] => enabled[i]
      BY <1>6 DEF MarkSet, TurnOff, TypeOK
    <2>3. \A p \in cleared[i] : remote'[p] = remote[p]
      BY <1>6, <2>1 DEF MarkSet, SkipInv, TypeOK
    <2> QED
      BY <2>1, <2>2, <2>3 DEF SkipInv, Overused
  <1>7. CASE Abandon(i)
    <2>1. cleared'[i] = {} /\ pc[i] = "idle" /\ UNCHANGED <<pc, enabled, remote>>
      BY <1>7 DEF Abandon, TypeOK
    <2> QED
      BY <2>1 DEF SkipInv
  <1>8. CASE Crash(i)
    <2>1. cleared'[i] = {} /\ pc'[i] = "idle"
      BY <1>8 DEF Crash, Goto, TypeOK
    <2> QED
      BY <2>1 DEF SkipInv
  <1>9. CASE UNCHANGED vars
    BY <1>9 DEF vars, SkipInv, Overused
  <1> QED
    BY <1>1, <1>2, <1>3, <1>4, <1>5, <1>6, <1>7, <1>8, <1>9
    DEF Next, Step, OneInstance

\* Although checking and selecting a proxy are requests apart, one instance that
\* still reads the storage never holds a used-up or disabled proxy as usable,
\* restarts included.
THEOREM UsedUpIsSkipped ==
  ASSUME OneInstance
  PROVE  Spec => []OverusedIsSkipped
  <1> DEFINE Inv == \A i \in Instances : SkipInv(i)
  <1>1. Init => Inv
    BY DEF Init, SkipInv
  <1>2. TypeOK /\ Inv /\ [Next]_vars => Inv'
    BY SkipStep
  <1>3. Inv => OverusedIsSkipped
    BY DEF SkipInv, OverusedIsSkipped
  <1> QED
    BY <1>1, <1>2, <1>3, TypeCorrect, PTL DEF Spec

-----------------------------------------------------------------------------

SeedsBounded == \A r \in Seeds : r.count <= MaxUsage

\* No count passes the maximum, neither in the database nor in memory, because
\* what a lookup may select is below it where the instance now counts.
BoundInv(i) ==
  /\ \A p \in Proxies : /\ remote[p].count <= MaxUsage
                        /\ fallback[i][p].count <= MaxUsage
  /\ pc[i] = "recordSet" => seen[i].count < MaxUsage
  /\ \A p \in cleared[i] : /\ enabled[i] => remote[p].count < MaxUsage
                           /\ ~enabled[i] => fallback[i][p].count < MaxUsage

\* A step that leaves the counts and the set of usable proxies alone.
LEMMA BoundQuietStep ==
  ASSUME TypeOK, NEW i \in Instances, CountInv(i), BoundInv(i),
         pc'[i] # "recordSet",
         enabled'[i] => enabled[i], enabled'[i] \in BOOLEAN,
         cleared'[i] = cleared[i],
         \A p \in Proxies : /\ remote'[p].count = remote[p].count
                            /\ fallback'[i][p].count = fallback[i][p].count
  PROVE  BoundInv(i)'
  <1>1. cleared[i] \subseteq Proxies /\ enabled[i] \in BOOLEAN
    BY DEF TypeOK
  <1>2. \A p \in Proxies : enabled[i] => fallback[i][p].count < MaxUsage
    BY MaxUsageAssumption DEF CountInv
  <1> QED
    BY <1>1, <1>2 DEF BoundInv

\* One more use in memory, when the storage fails during its recording or was
\* off before.
LEMMA BoundMemoryStep ==
  ASSUME TypeOK, NEW i \in Instances, CountInv(i), BoundInv(i),
         NEW p \in Proxies, RecordInMemory(i, p),
         ~enabled[i] => fallback[i][p].count < MaxUsage,
         pc'[i] # "recordSet", cleared'[i] = {},
         \A q \in Proxies : remote'[q].count <= MaxUsage
  PROVE  BoundInv(i)'
  <1>1. fallback[i][p].count < MaxUsage
    BY MaxUsageAssumption DEF CountInv
  <1>2. \A q \in Proxies : fallback'[i][q].count <= MaxUsage
    BY <1>1, MemoryCounts, CountsAreNat, MaxUsageAssumption DEF BoundInv
  <1> QED
    BY <1>2 DEF BoundInv

LEMMA BoundStep ==
  ASSUME OneInstance, NoRestarts, TypeOK,
         NEW i \in Instances, CountInv(i), SkipInv(i), BoundInv(i), [Next]_vars
  PROVE  BoundInv(i)'
  <1>1. ASSUME NEW p \in Proxies, CheckDisabled(i, p)
        PROVE  BoundInv(i)'
    <2>1. /\ pc'[i] \in {"idle", "checkCount"}
          /\ UNCHANGED <<remote, fallback, cleared>>
      BY <1>1 DEF CheckDisabled, Goto, AfterDisabledCheck, TypeOK
    <2>2. (enabled'[i] => enabled[i]) /\ enabled'[i] \in BOOLEAN
      BY <1>1 DEF CheckDisabled, Read, TurnOff, TypeOK
    <2> QED
      BY <2>1, <2>2, BoundQuietStep
  <1>2. ASSUME CheckCount(i)
        PROVE  BoundInv(i)'
    <2> DEFINE p == proxy[i]
    <2>1. PICK r \in Readable(i, p) :
            /\ Read(i, p, r)
            /\ IF Overused(r)
               THEN Goto(i, "markRead") /\ UNCHANGED cleared
               ELSE /\ Goto(i, "idle")
                    /\ cleared' = [cleared EXCEPT ![i] = @ \cup {p}]
      BY <1>2 DEF CheckCount
    <2>2. /\ pc'[i] \in {"idle", "markRead"} /\ p \in Proxies
          /\ UNCHANGED <<remote, fallback>>
      BY <1>2 DEF CheckCount, Goto, TypeOK
    <2>3. /\ (enabled'[i] => enabled[i]) /\ enabled'[i] \in BOOLEAN
          /\ r = IF enabled'[i] THEN remote[p] ELSE fallback[i][p]
      BY <2>1 DEF Read, TurnOff, TypeOK
    <2>4. CASE Overused(r)
      BY <2>1, <2>2, <2>3, <2>4, BoundQuietStep
    <2>5. CASE ~Overused(r)
      <3>1. cleared'[i] = cleared[i] \cup {p}
        BY <2>1, <2>5 DEF TypeOK
      <3>2. r.count < MaxUsage
        BY <2>3, <2>5, <2>2, CountsAreNat, MaxUsageAssumption DEF Overused
      <3>3. /\ enabled[i] \in BOOLEAN /\ cleared[i] \subseteq Proxies
            /\ \A q \in Proxies : enabled[i] => fallback[i][q].count < MaxUsage
        BY MaxUsageAssumption DEF TypeOK, CountInv
      <3>4. \A q \in cleared'[i] : /\ enabled'[i] => remote[q].count < MaxUsage
                                   /\ ~enabled'[i] => fallback[i][q].count < MaxUsage
        BY <2>3, <3>1, <3>2, <3>3 DEF BoundInv
      <3> QED
        BY <2>2, <3>4 DEF BoundInv
    <2> QED
      BY <2>4, <2>5
  <1>3. ASSUME NEW p \in Proxies, RecordRead(i, p)
        PROVE  BoundInv(i)'
    <2>1. p \in cleared[i] /\ cleared'[i] = {} /\ remote' = remote
      BY <1>3 DEF RecordRead, TypeOK
    <2>2. CASE /\ enabled[i]
               /\ seen' = [seen EXCEPT ![i] = remote[p]]
               /\ UNCHANGED <<enabled, fallback>>
      <3>1. seen'[i] = remote[p]
        BY <2>2 DEF TypeOK
      <3> QED
        BY <2>1, <2>2, <3>1 DEF BoundInv
    <2>3. CASE TurnOff(i) /\ RecordInMemory(i, p) /\ UNCHANGED seen
      <3>1. pc'[i] # "recordSet"
        BY <2>3 DEF RecordInMemory, AfterRecord, Goto, TypeOK
      <3> QED
        BY <2>1, <2>3, <3>1, BoundMemoryStep DEF BoundInv
    <2> QED
      BY <1>3, <2>2, <2>3 DEF RecordRead
  <1>4. ASSUME RecordSet(i)
        PROVE  BoundInv(i)'
    <2>1. /\ pc[i] = "recordSet" /\ proxy[i] \in Proxies /\ enabled[i]
          /\ cleared'[i] = {}
      BY <1>4 DEF RecordSet, SkipInv, CountInv, TypeOK
    <2>2. Used(seen[i]).count <= MaxUsage
      BY <2>1, CountsAreNat, MaxUsageAssumption DEF BoundInv, Used
    <2>3. \A q \in Proxies : remote'[q].count <= MaxUsage
      BY <1>4, <2>1, <2>2 DEF RecordSet, BoundInv, TypeOK
    <2>4. CASE Goto(i, "recordHistory") /\ UNCHANGED <<enabled, fallback>>
      BY <2>1, <2>3, <2>4 DEF Goto, BoundInv, TypeOK
    <2>5. CASE RecordInMemory(i, proxy[i])
      <3>1. pc'[i] # "recordSet"
        BY <2>5 DEF RecordInMemory, AfterRecord, Goto, TypeOK
      <3> QED
        BY <2>1, <2>3, <2>5, <3>1, BoundMemoryStep
    <2> QED
      BY <1>4, <2>4, <2>5 DEF RecordSet
  <1>5. ASSUME RecordHistory(i)
        PROVE  BoundInv(i)'
    <2>1. /\ pc[i] = "recordHistory" /\ proxy[i] \in Proxies /\ enabled[i]
          /\ cleared'[i] = {} /\ cleared' = cleared /\ remote' = remote
      BY <1>5 DEF RecordHistory, SkipInv, CountInv, TypeOK
    <2>2. pc'[i] # "recordSet"
      BY <1>5 DEF RecordHistory, RecordInMemory, AfterRecord, Goto, TypeOK
    <2>3. CASE UNCHANGED <<enabled, fallback>>
      BY <2>1, <2>2, <2>3 DEF BoundInv
    <2>4. CASE RecordInMemory(i, proxy[i])
      BY <2>1, <2>2, <2>4, BoundMemoryStep DEF BoundInv
    <2> QED
      BY <1>5, <2>3, <2>4 DEF RecordHistory
  <1>6. ASSUME MarkRead(i) \/ MarkSet(i)
        PROVE  BoundInv(i)'
    <2>1. /\ pc'[i] \in {"markSet", "idle"} /\ proxy[i] \in Proxies
          /\ cleared' = cleared
      BY <1>6 DEF MarkRead, MarkSet, Goto, TypeOK
    <2>2. (enabled'[i] => enabled[i]) /\ enabled'[i] \in BOOLEAN
      BY <1>6 DEF MarkRead, MarkSet, TurnOff, TypeOK
    <2>3. pc[i] = "markSet" => Disabled(seen[i]).count = remote[proxy[i]].count
      BY DEF CountInv, Disabled
    <2>4. \A q \in Proxies : remote'[q].count = remote[q].count
      BY <1>6, <2>1, <2>3 DEF MarkRead, MarkSet, TypeOK
    <2>5. \A q \in Proxies : fallback'[i][q].count = fallback[i][q].count
      BY <1>6, <2>1, MemoryCounts DEF MarkRead, MarkSet
    <2> QED
      BY <2>1, <2>2, <2>4, <2>5, BoundQuietStep
  <1>7. CASE Abandon(i)
    <2>1. cleared'[i] = {} /\ pc[i] = "idle" /\ UNCHANGED <<remote, fallback, pc>>
      BY <1>7 DEF Abandon, TypeOK
    <2> QED
      BY <2>1 DEF BoundInv
  <1>8. CASE UNCHANGED vars
    BY <1>8 DEF vars, BoundInv
  <1> QED
    BY <1>1, <1>2, <1>3, <1>4, <1>5, <1>6, <1>7, <1>8
    DEF Next, Step, Crash, NoRestarts, OneInstance

\* What is counted bounds the uses: an instance that keeps running uses a proxy
\* at most MaxUsage times in the database's count and MaxUsage times in its own.
THEOREM UsesStayBounded ==
  ASSUME OneInstance, NoRestarts, SeedsBounded, Instances # {}
  PROVE  Spec => []UsesAreBounded
  <1> DEFINE Inv == \A i \in Instances : CountInv(i) /\ SkipInv(i) /\ BoundInv(i)
  <1>1. Init => Inv
    <2> SUFFICES ASSUME Init, NEW i \in Instances
                 PROVE  CountInv(i) /\ SkipInv(i) /\ BoundInv(i)
      OBVIOUS
    <2>1. TypeOK
      BY TypeInit
    <2>2. \A p \in Proxies : /\ fallback[i][p].count = 0
                             /\ uses[p] = remote[p].count
                             /\ remote[p].count <= MaxUsage
      BY DEF Init, Empty, SeedsBounded
    <2>3. pc[i] = "idle" /\ cleared[i] = {}
      BY DEF Init
    <2> QED
      BY <2>1, <2>2, <2>3, CountsAreNat, MaxUsageAssumption
      DEF CountInv, SkipInv, BoundInv
  <1>2. TypeOK /\ Inv /\ [Next]_vars => Inv'
    BY CountStep, SkipStep, BoundStep
  <1>3. TypeOK /\ Inv => UsesAreBounded
    <2> SUFFICES ASSUME TypeOK, Inv, NEW p \in Proxies
                 PROVE  uses[p] <= 2 * MaxUsage
      BY DEF UsesAreBounded
    <2>1. PICK i \in Instances : TRUE
      OBVIOUS
    <2>2. CountInv(i) /\ BoundInv(i)
      BY <2>1
    <2>3. remote[p].count <= MaxUsage /\ fallback[i][p].count <= MaxUsage
      BY <2>2 DEF BoundInv
    <2>4. enabled[i] => uses[p] \in {remote[p].count, remote[p].count + 1}
      BY <2>2 DEF CountInv
    <2>5. ~enabled[i] => uses[p] <= remote[p].count + fallback[i][p].count
      BY <2>2 DEF CountInv
    <2> QED
      BY <2>3, <2>4, <2>5, CountsAreNat, MaxUsageAssumption
  <1> QED
    BY <1>1, <1>2, <1>3, TypeCorrect, PTL DEF Spec

-----------------------------------------------------------------------------
(* Two instances, which may restart and whose storage may fail at any step.  *)

TwoInstances == \A i, j, k \in Instances : i = j \/ j = k \/ k = i

\* An instance that may select p, has read p to record a use, or to mark it.
Holds(i, p) == enabled[i] /\ p \in cleared[i]
Recording(i, p) == pc[i] = "recordSet" /\ proxy[i] = p
Marking(i, p) == pc[i] = "markSet" /\ proxy[i] = p

\* An instance writes only while its storage is on, and about no proxy that it
\* may still select.
TurnInv(i) ==
  /\ pc[i] \in {"recordSet", "recordHistory", "markSet"} => enabled[i]
  /\ pc[i] \in {"recordSet", "recordHistory"} => cleared[i] = {}
  /\ pc[i] \in {"checkCount", "markRead", "markSet"} => proxy[i] \notin cleared[i]

\* From here on p is not selected: no write can take its count below the maximum.
Closed(p) ==
  /\ remote[p].count >= MaxUsage
  /\ \A i \in Instances : /\ ~Holds(i, p) /\ ~Recording(i, p)
                          /\ Marking(i, p) => seen[i].count >= MaxUsage

\* What instance i may still do to p, by itself.
HeldInv(i, p) ==
  /\ Holds(i, p) => remote[p].count <= MaxUsage
  /\ Recording(i, p) => seen[i].count <= MaxUsage
  /\ Recording(i, p) /\ seen[i].count = MaxUsage => remote[p].count >= MaxUsage
  /\ Marking(i, p) => seen[i].count <= MaxUsage + 1
  /\ Marking(i, p) /\ seen[i].count > MaxUsage => Closed(p)

\* What it may do while instance j is about to do something to p as well.
SharedInv(i, j, p) ==
  /\ Holds(i, p) /\ Holds(j, p) => remote[p].count < MaxUsage
  /\ Holds(i, p) /\ Recording(j, p) => /\ seen[j].count < MaxUsage
                                       /\ remote[p].count < MaxUsage
  /\ Holds(i, p) /\ Marking(j, p) =>
       /\ seen[j].count <= MaxUsage
       /\ remote[p].count >= MaxUsage => seen[j].count >= MaxUsage
  /\ Recording(j, p) /\ seen[j].count = MaxUsage =>
       /\ ~Holds(i, p) /\ ~Recording(i, p)
       /\ Marking(i, p) => seen[i].count >= MaxUsage

OveruseInv(p) ==
  /\ remote[p].count <= MaxUsage + 1
  /\ remote[p].count > MaxUsage => Closed(p)
  /\ \A i \in Instances : HeldInv(i, p)
  /\ \A i, j \in Instances : i # j => SharedInv(i, j, p)

\* A step of one instance leaves the others where they are.
LEMMA StepIsOwn ==
  ASSUME TypeOK, NEW k \in Instances, Step(k), NEW i \in Instances, i # k
  PROVE  /\ pc'[i] = pc[i] /\ proxy'[i] = proxy[i] /\ seen'[i] = seen[i]
         /\ cleared'[i] = cleared[i] /\ enabled'[i] = enabled[i]
  <1>1. pc'[i] = pc[i]
    BY DEF Step, CheckDisabled, CheckCount, RecordRead, RecordSet, RecordHistory,
           MarkRead, MarkSet, Abandon, Crash, RecordInMemory, AfterRecord, Goto, TypeOK
  <1>2. proxy'[i] = proxy[i] /\ seen'[i] = seen[i] /\ cleared'[i] = cleared[i]
    BY DEF Step, CheckDisabled, CheckCount, RecordRead, RecordSet, RecordHistory,
           MarkRead, MarkSet, Abandon, Crash, TypeOK
  <1>3. enabled'[i] = enabled[i]
    BY DEF Step, CheckDisabled, CheckCount, RecordRead, RecordSet, RecordHistory,
           MarkRead, MarkSet, Abandon, Crash, Read, TurnOff, TypeOK
  <1> QED
    BY <1>1, <1>2, <1>3

LEMMA TurnStep ==
  ASSUME TypeOK, NEW i \in Instances, TurnInv(i), [Next]_vars
  PROVE  TurnInv(i)'
  <1>1. CASE UNCHANGED vars
    BY <1>1 DEF vars, TurnInv
  <1>2. ASSUME NEW k \in Instances, k # i, Step(k)
        PROVE  TurnInv(i)'
    BY <1>2, StepIsOwn DEF TurnInv
  <1>3. ASSUME NEW p \in Proxies, CheckDisabled(i, p)
        PROVE  TurnInv(i)'
    <2>1. /\ pc'[i] \in {"idle", "checkCount"} /\ proxy'[i] = p
          /\ p \notin cleared[i] /\ cleared' = cleared
      BY <1>3 DEF CheckDisabled, Goto, AfterDisabledCheck, TypeOK
    <2> QED
      BY <2>1 DEF TurnInv
  <1>4. ASSUME NEW p \in Proxies, RecordRead(i, p)
        PROVE  TurnInv(i)'
    <2>1. cleared'[i] = {} /\ pc'[i] \in {"recordSet", "markRead", "idle"}
      BY <1>4 DEF RecordRead, RecordInMemory, AfterRecord, Goto, TypeOK
    <2>2. pc'[i] = "recordSet" => enabled'[i]
      BY <1>4 DEF RecordRead, RecordInMemory, AfterRecord, Goto, TypeOK
    <2> QED
      BY <2>1, <2>2 DEF TurnInv
  <1>5. CASE CheckCount(i)
    <2>1. pc[i] = "checkCount" /\ proxy' = proxy
      BY <1>5 DEF CheckCount
    <2>2. (pc'[i] = "markRead" /\ cleared' = cleared) \/ pc'[i] = "idle"
      BY <1>5 DEF CheckCount, Goto, TypeOK
    <2> QED
      BY <2>1, <2>2 DEF TurnInv
  <1>6. CASE RecordSet(i) \/ RecordHistory(i)
    <2>1. cleared[i] = {} /\ cleared' = cleared /\ enabled[i]
      BY <1>6 DEF RecordSet, RecordHistory, TurnInv
    <2>2. \/ pc'[i] \in {"idle", "markRead"}
          \/ pc'[i] = "recordHistory" /\ enabled' = enabled
      BY <1>6 DEF RecordSet, RecordHistory, RecordInMemory, AfterRecord, Goto, TypeOK
    <2> QED
      BY <2>1, <2>2 DEF TurnInv
  <1>7. CASE MarkRead(i)
    <2>1. /\ pc[i] = "markRead" /\ UNCHANGED <<proxy, cleared>>
          /\ \/ pc'[i] = "idle"
             \/ pc'[i] = "markSet" /\ enabled[i] /\ enabled' = enabled
      BY <1>7 DEF MarkRead, Goto, TypeOK
    <2> QED
      BY <2>1 DEF TurnInv
  <1>8. CASE MarkSet(i) \/ Abandon(i) \/ Crash(i)
    <2>1. pc'[i] = "idle"
      BY <1>8 DEF MarkSet, Abandon, Crash, Goto, TypeOK
    <2> QED
      BY <2>1 DEF TurnInv
  <1> QED
    BY <1>1, <1>2, <1>3, <1>4, <1>5, <1>6, <1>7, <1>8 DEF Next, Step

(* The six things a step of instance k can do to proxy p, as far as the      *)
(* invariant can see.                                                        *)

OthersStay(k, p) ==
  \A i \in Instances \ {k} : /\ Holds(i, p)' <=> Holds(i, p)
                             /\ Recording(i, p)' <=> Recording(i, p)
                             /\ Marking(i, p)' <=> Marking(i, p)
                             /\ seen'[i] = seen[i]

Leaves(k, p) == ~Holds(k, p)' /\ ~Recording(k, p)' /\ ~Marking(k, p)'

SameCount(p) == remote'[p].count = remote[p].count

Quiet(k, p) ==
  /\ SameCount(p)
  /\ Holds(k, p)' => Holds(k, p)
  /\ Recording(k, p)' => Recording(k, p) /\ seen'[k] = seen[k]
  /\ Marking(k, p)' => Marking(k, p) /\ seen'[k] = seen[k]

Clears(k, p) ==
  /\ SameCount(p) /\ remote[p].count < MaxUsage
  /\ ~Recording(k, p)' /\ ~Marking(k, p)'

ReadsToRecord(k, p) ==
  /\ Holds(k, p) /\ SameCount(p) /\ seen'[k].count = remote[p].count
  /\ ~Holds(k, p)' /\ ~Marking(k, p)'

ReadsToMark(k, p) ==
  /\ SameCount(p) /\ seen'[k].count = remote[p].count
  /\ ~Holds(k, p)' /\ ~Recording(k, p)'

RecordsUse(k, p) ==
  Recording(k, p) /\ remote'[p].count = seen[k].count + 1 /\ Leaves(k, p)

MarksUsed(k, p) ==
  Marking(k, p) /\ remote'[p].count = seen[k].count /\ Leaves(k, p)

Effects(k, p) ==
  \/ Quiet(k, p) \/ Clears(k, p) \/ ReadsToRecord(k, p)
  \/ ReadsToMark(k, p) \/ RecordsUse(k, p) \/ MarksUsed(k, p)

\* Nothing reopens a closed proxy.
LEMMA ClosedStays ==
  ASSUME TypeOK, NEW p \in Proxies, Closed(p),
         NEW k \in Instances, OthersStay(k, p), Effects(k, p)
  PROVE  Closed(p)'
  <1>1. remote[p].count \in Nat
    BY CountsAreNat
  <1>2. /\ ~Holds(k, p) /\ ~Recording(k, p)
        /\ Marking(k, p) => seen[k].count >= MaxUsage
        /\ remote[p].count >= MaxUsage
    BY DEF Closed
  <1>3. ~Clears(k, p) /\ ~ReadsToRecord(k, p) /\ ~RecordsUse(k, p)
    BY <1>1, <1>2, MaxUsageAssumption DEF Clears, ReadsToRecord, RecordsUse
  <1>4. remote'[p].count >= MaxUsage
    BY <1>2, <1>3 DEF Effects, Quiet, ReadsToMark, MarksUsed, SameCount
  <1>5. /\ ~Holds(k, p)' /\ ~Recording(k, p)'
        /\ Marking(k, p)' => seen'[k].count >= MaxUsage
    BY <1>2, <1>3 DEF Effects, Quiet, ReadsToMark, MarksUsed, Leaves
  <1>6. ASSUME NEW i \in Instances \ {k}
        PROVE  /\ ~Holds(i, p)' /\ ~Recording(i, p)'
               /\ Marking(i, p)' => seen'[i].count >= MaxUsage
    BY DEF Closed, OthersStay
  <1> QED
    BY <1>4, <1>5, <1>6 DEF Closed

LEMMA OveruseEffect ==
  ASSUME TwoInstances, TypeOK, TypeOK', NEW p \in Proxies, OveruseInv(p),
         NEW k \in Instances, TurnInv(k), OthersStay(k, p), Effects(k, p)
  PROVE  OveruseInv(p)'
  <1>n. /\ \A i \in Instances : seen[i].count \in Nat /\ seen'[i].count \in Nat
        /\ remote[p].count \in Nat /\ remote'[p].count \in Nat
    BY CountsAreNat DEF TypeOK, Records
  <1>t. Recording(k, p) \/ Marking(k, p) => ~Holds(k, p)
    BY DEF TurnInv, Holds, Recording, Marking
  <1>c. Closed(p) => Closed(p)'
    BY ClosedStays
  <1>o. /\ HeldInv(k, p)
        /\ \A i \in Instances \ {k} : /\ HeldInv(i, p)
                                      /\ SharedInv(i, k, p) /\ SharedInv(k, i, p)
    BY DEF OveruseInv
  <1>b. /\ remote[p].count <= MaxUsage + 1
        /\ remote[p].count > MaxUsage => Closed(p)
    BY DEF OveruseInv
  <1>1. ASSUME remote'[p].count <= MaxUsage + 1,
               remote'[p].count > MaxUsage => Closed(p)',
               HeldInv(k, p)',
               \A i \in Instances \ {k} : /\ HeldInv(i, p)'
                                          /\ SharedInv(i, k, p)'
                                          /\ SharedInv(k, i, p)'
        PROVE  OveruseInv(p)'
    BY <1>1 DEF OveruseInv, TwoInstances
  <1>2. CASE Quiet(k, p)
    <2>1. HeldInv(k, p)'
      BY <1>2, <1>n, <1>c, <1>o DEF Quiet, SameCount, HeldInv
    <2>2. ASSUME NEW i \in Instances \ {k}
          PROVE  HeldInv(i, p)' /\ SharedInv(i, k, p)' /\ SharedInv(k, i, p)'
      BY <1>2, <1>n, <1>c, <1>o DEF Quiet, SameCount, OthersStay, HeldInv, SharedInv
    <2> QED
      BY <1>1, <1>2, <1>b, <1>c, <2>1, <2>2 DEF Quiet, SameCount
  <1>3. CASE Clears(k, p)
    <2>1. HeldInv(k, p)'
      BY <1>3, <1>n, MaxUsageAssumption DEF Clears, SameCount, HeldInv
    <2>2. ASSUME NEW i \in Instances \ {k}
          PROVE  HeldInv(i, p)' /\ SharedInv(i, k, p)' /\ SharedInv(k, i, p)'
      BY <1>3, <1>n, <1>c, <1>o, MaxUsageAssumption
      DEF Clears, SameCount, OthersStay, HeldInv, SharedInv, Closed
    <2> QED
      BY <1>1, <1>3, <1>b, <1>c, <2>1, <2>2 DEF Clears, SameCount
  <1>4. CASE ReadsToRecord(k, p)
    <2>1. HeldInv(k, p)'
      BY <1>4, <1>n, <1>o, MaxUsageAssumption DEF ReadsToRecord, SameCount, HeldInv
    <2>2. ASSUME NEW i \in Instances \ {k}
          PROVE  HeldInv(i, p)' /\ SharedInv(i, k, p)' /\ SharedInv(k, i, p)'
      BY <1>4, <1>n, <1>c, <1>o, MaxUsageAssumption
      DEF ReadsToRecord, SameCount, OthersStay, HeldInv, SharedInv, Closed
    <2> QED
      BY <1>1, <1>4, <1>b, <1>c, <2>1, <2>2 DEF ReadsToRecord, SameCount
  <1>5. CASE ReadsToMark(k, p)
    <2>1. HeldInv(k, p)'
      BY <1>5, <1>n, <1>b, <1>c, MaxUsageAssumption
      DEF ReadsToMark, SameCount, HeldInv
    <2>2. ASSUME NEW i \in Instances \ {k}
          PROVE  HeldInv(i, p)' /\ SharedInv(i, k, p)' /\ SharedInv(k, i, p)'
      BY <1>5, <1>n, <1>c, <1>o, MaxUsageAssumption
      DEF ReadsToMark, SameCount, OthersStay, HeldInv, SharedInv, Closed
    <2> QED
      BY <1>1, <1>5, <1>b, <1>c, <2>1, <2>2 DEF ReadsToMark, SameCount
  <1>6. CASE RecordsUse(k, p)
    <2>1. HeldInv(k, p)'
      BY <1>6 DEF RecordsUse, Leaves, HeldInv
    <2>2. /\ remote'[p].count <= MaxUsage + 1
          /\ remote'[p].count > MaxUsage => seen[k].count = MaxUsage
      BY <1>6, <1>n, <1>o, MaxUsageAssumption DEF RecordsUse, HeldInv
    <2>3. ASSUME seen[k].count = MaxUsage
          PROVE  Closed(p)'
      BY <1>6, <1>n, <1>o, <2>3, MaxUsageAssumption
      DEF RecordsUse, Leaves, OthersStay, SharedInv, Closed
    <2>4. ASSUME NEW i \in Instances \ {k}
          PROVE  HeldInv(i, p)' /\ SharedInv(i, k, p)' /\ SharedInv(k, i, p)'
      BY <1>6, <1>n, <1>c, <1>o, MaxUsageAssumption
      DEF RecordsUse, Leaves, OthersStay, HeldInv, SharedInv, Closed
    <2> QED
      BY <1>1, <2>1, <2>2, <2>3, <2>4
  <1>7. CASE MarksUsed(k, p)
    <2>1. HeldInv(k, p)'
      BY <1>7 DEF MarksUsed, Leaves, HeldInv
    <2>2. /\ remote'[p].count <= MaxUsage + 1
          /\ remote'[p].count > MaxUsage => Closed(p)'
      BY <1>7, <1>n, <1>c, <1>o DEF MarksUsed, HeldInv
    <2>3. ASSUME NEW i \in Instances \ {k}
          PROVE  HeldInv(i, p)' /\ SharedInv(i, k, p)' /\ SharedInv(k, i, p)'
      BY <1>7, <1>n, <1>c, <1>o, MaxUsageAssumption
      DEF MarksUsed, Leaves, OthersStay, HeldInv, SharedInv, Closed
    <2> QED
      BY <1>1, <2>1, <2>2, <2>3
  <1> QED
    BY <1>2, <1>3, <1>4, <1>5, <1>6, <1>7 DEF Effects

\* What a step does to a proxy: only the two writes change its count, and only
\* a check that finds it below the maximum adds it to those that may be selected.
LEMMA StepEffect ==
  ASSUME TypeOK, NEW k \in Instances, TurnInv(k), Step(k), NEW p \in Proxies
  PROVE  OthersStay(k, p) /\ Effects(k, p)
  <1>o. OthersStay(k, p)
    BY StepIsOwn DEF OthersStay, Holds, Recording, Marking
  <1> SUFFICES Effects(k, p)
    BY <1>o
  <1>q. ASSUME remote' = remote,
               enabled'[k] => enabled[k], cleared'[k] \subseteq cleared[k],
               pc'[k] \notin {"recordSet", "markSet"}
        PROVE  Effects(k, p)
    BY <1>q DEF Effects, Quiet, SameCount, Holds, Recording, Marking
  <1>t. ASSUME TurnOff(k) \/ UNCHANGED enabled
        PROVE  enabled'[k] => enabled[k]
    BY <1>t DEF TurnOff, TypeOK
  <1>1. ASSUME NEW q \in Proxies, CheckDisabled(k, q)
        PROVE  Effects(k, p)
    <2>1. /\ remote' = remote /\ cleared' = cleared
          /\ pc'[k] \in {"idle", "checkCount"}
      BY <1>1 DEF CheckDisabled, Goto, AfterDisabledCheck, TypeOK
    <2>2. TurnOff(k) \/ UNCHANGED enabled
      BY <1>1 DEF CheckDisabled, Read
    <2> QED
      BY <1>q, <1>t, <2>1, <2>2
  <1>2. CASE CheckCount(k)
    <2>1. PICK r \in Readable(k, proxy[k]) :
            /\ Read(k, proxy[k], r)
            /\ IF Overused(r)
               THEN Goto(k, "markRead") /\ UNCHANGED cleared
               ELSE /\ Goto(k, "idle")
                    /\ cleared' = [cleared EXCEPT ![k] = @ \cup {proxy[k]}]
      BY <1>2 DEF CheckCount
    <2>2. remote' = remote /\ pc'[k] \in {"idle", "markRead"}
      BY <1>2, <2>1 DEF CheckCount, Goto, TypeOK
    <2>3. enabled'[k] => enabled[k] /\ r = remote[proxy[k]]
      BY <2>1 DEF Read, TurnOff, TypeOK
    <2>4. CASE cleared' = cleared
      BY <1>q, <2>2, <2>3, <2>4
    <2>5. CASE p # proxy[k] \/ ~enabled'[k]
      <3>1. enabled'[k] => (p \in cleared'[k] <=> p \in cleared[k])
        BY <2>1, <2>5 DEF TypeOK
      <3> QED
        BY <2>2, <2>3, <3>1 DEF Effects, Quiet, SameCount, Holds, Recording, Marking
    <2>6. CASE ~Overused(r) /\ p = proxy[k] /\ enabled'[k]
      <3>1. remote[p].count < MaxUsage
        BY <2>3, <2>6, CountsAreNat, MaxUsageAssumption DEF Overused
      <3> QED
        BY <2>2, <3>1 DEF Effects, Clears, SameCount, Recording, Marking
    <2> QED
      BY <2>1, <2>4, <2>5, <2>6
  <1>3. ASSUME NEW q \in Proxies, RecordRead(k, q)
        PROVE  Effects(k, p)
    <2>1. /\ q \in cleared[k] /\ cleared'[k] = {}
          /\ proxy'[k] = q /\ remote' = remote
      BY <1>3 DEF RecordRead, TypeOK
    <2>2. CASE /\ enabled[k]
               /\ seen' = [seen EXCEPT ![k] = remote[q]]
               /\ Goto(k, "recordSet")
      <3>1. seen'[k] = remote[q] /\ pc'[k] = "recordSet"
        BY <2>2 DEF Goto, TypeOK
      <3>2. CASE p = q
        BY <2>1, <2>2, <3>1, <3>2
        DEF Effects, ReadsToRecord, SameCount, Holds, Marking
      <3>3. CASE p # q
        BY <2>1, <3>1, <3>3
        DEF Effects, Quiet, SameCount, Holds, Recording, Marking
      <3> QED
        BY <3>2, <3>3
    <2>3. CASE TurnOff(k) /\ RecordInMemory(k, q)
      <3>1. pc'[k] \in {"idle", "markRead"}
        BY <2>3 DEF RecordInMemory, AfterRecord, Goto, TypeOK
      <3> QED
        BY <1>q, <1>t, <2>1, <2>3, <3>1
    <2> QED
      BY <1>3, <2>2, <2>3 DEF RecordRead
  <1>4. CASE RecordSet(k)
    <2>1. /\ pc[k] = "recordSet" /\ cleared'[k] = {}
          /\ proxy[k] \in Proxies /\ proxy' = proxy
      BY <1>4 DEF RecordSet, TurnInv, TypeOK
    <2>2. pc'[k] \in {"recordHistory", "idle", "markRead"}
      BY <1>4 DEF RecordSet, RecordInMemory, AfterRecord, Goto, TypeOK
    <2>3. enabled'[k] => enabled[k]
      BY <1>4, <1>t DEF RecordSet
    <2>4. CASE remote' = remote \/ p # proxy[k]
      <3>1. remote'[p] = remote[p]
        BY <1>4, <2>4 DEF RecordSet, TypeOK
      <3> QED
        BY <2>1, <2>2, <3>1
        DEF Effects, Quiet, SameCount, Holds, Recording, Marking
    <2>5. CASE remote' = [remote EXCEPT ![proxy[k]] = Used(seen[k])] /\ p = proxy[k]
      <3>1. remote'[p].count = seen[k].count + 1
        BY <2>5 DEF Used, TypeOK
      <3> QED
        BY <2>1, <2>2, <2>5, <3>1
        DEF Effects, RecordsUse, Leaves, Holds, Recording, Marking
    <2> QED
      BY <1>4, <2>4, <2>5 DEF RecordSet
  <1>5. CASE RecordHistory(k)
    <2>1. remote' = remote /\ cleared' = cleared
      BY <1>5 DEF RecordHistory
    <2>2. pc'[k] \in {"idle", "markRead"}
      BY <1>5 DEF RecordHistory, RecordInMemory, AfterRecord, Goto, TypeOK
    <2>3. enabled'[k] => enabled[k]
      BY <1>5, <1>t DEF RecordHistory
    <2> QED
      BY <1>q, <2>1, <2>2, <2>3
  <1>6. CASE MarkRead(k)
    <2>1. /\ pc[k] = "markRead" /\ proxy[k] \in Proxies
          /\ UNCHANGED <<remote, proxy, cleared>>
      BY <1>6 DEF MarkRead, TypeOK
    <2>2. CASE /\ seen' = [seen EXCEPT ![k] = remote[proxy[k]]]
               /\ Goto(k, "markSet")
               /\ UNCHANGED <<enabled, fallback>>
      <3>1. seen'[k] = remote[proxy[k]] /\ pc'[k] = "markSet"
        BY <2>2 DEF Goto, TypeOK
      <3>2. CASE p = proxy[k]
        <4>1. p \notin cleared[k]
          BY <2>1, <3>2 DEF TurnInv
        <4> QED
          BY <2>1, <3>1, <3>2, <4>1
          DEF Effects, ReadsToMark, SameCount, Holds, Recording
      <3>3. CASE p # proxy[k]
        BY <2>1, <2>2, <3>1, <3>3
        DEF Effects, Quiet, SameCount, Holds, Recording, Marking
      <3> QED
        BY <3>2, <3>3
    <2>3. CASE TurnOff(k) /\ Goto(k, "idle")
      <3>1. pc'[k] = "idle"
        BY <2>3 DEF Goto, TypeOK
      <3> QED
        BY <1>q, <1>t, <2>1, <2>3, <3>1
    <2> QED
      BY <1>6, <2>2, <2>3 DEF MarkRead
  <1>7. CASE MarkSet(k)
    <2>1. /\ pc[k] = "markSet" /\ pc'[k] = "idle" /\ proxy[k] \in Proxies
          /\ UNCHANGED <<proxy, cleared>>
      BY <1>7 DEF MarkSet, Goto, TypeOK
    <2>2. enabled'[k] => enabled[k]
      BY <1>7, <1>t DEF MarkSet
    <2>3. CASE remote' = remote \/ p # proxy[k]
      <3>1. remote'[p] = remote[p]
        BY <1>7, <2>3 DEF MarkSet, TypeOK
      <3> QED
        BY <2>1, <2>2, <3>1
        DEF Effects, Quiet, SameCount, Holds, Recording, Marking
    <2>4. CASE /\ remote' = [remote EXCEPT ![proxy[k]] = Disabled(seen[k])]
               /\ p = proxy[k]
      <3>1. remote'[p].count = seen[k].count
        BY <2>4 DEF Disabled, TypeOK
      <3>2. p \notin cleared[k]
        BY <2>1, <2>4 DEF TurnInv
      <3> QED
        BY <2>1, <2>4, <3>1, <3>2
        DEF Effects, MarksUsed, Leaves, Holds, Recording, Marking
    <2> QED
      BY <1>7, <2>3, <2>4 DEF MarkSet
  <1>8. CASE Abandon(k)
    <2>1. /\ pc[k] = "idle" /\ UNCHANGED <<remote, enabled, pc>>
          /\ cleared'[k] = {}
      BY <1>8 DEF Abandon, TypeOK
    <2> QED
      BY <1>q, <2>1
  <1>9. CASE Crash(k)
    <2>1. remote' = remote /\ pc'[k] = "idle" /\ cleared'[k] = {}
      BY <1>9 DEF Crash, Goto, TypeOK
    <2> QED
      BY <2>1 DEF Effects, Quiet, SameCount, Holds, Recording, Marking
  <1> QED
    BY <1>1, <1>2, <1>3, <1>4, <1>5, <1>6, <1>7, <1>8, <1>9 DEF Step

\* Two instances that check a proxy and select it requests later, that restart
\* and whose storage fails, push its count at most one over the maximum, for
\* every maximum, any number of proxies and every record within the maximum.
THEOREM TwoOveruseByOne ==
  ASSUME TwoInstances, SeedsBounded
  PROVE  Spec => []OveruseIsBounded
  <1> DEFINE Inv == /\ \A i \in Instances : TurnInv(i)
                    /\ \A p \in Proxies : OveruseInv(p)
  <1>1. Init => Inv
    <2> SUFFICES ASSUME Init
                 PROVE  Inv
      OBVIOUS
    <2>1. TypeOK
      BY TypeInit
    <2>2. ASSUME NEW i \in Instances
          PROVE  pc[i] = "idle" /\ cleared[i] = {}
      BY DEF Init
    <2>3. ASSUME NEW p \in Proxies
          PROVE  remote[p].count <= MaxUsage /\ remote[p].count \in Nat
      BY <2>1, CountsAreNat DEF Init, SeedsBounded, TypeOK, Records
    <2>4. \A i \in Instances : TurnInv(i)
      BY <2>2 DEF TurnInv
    <2>5. ASSUME NEW p \in Proxies
          PROVE  OveruseInv(p)
      BY <2>2, <2>3, MaxUsageAssumption
      DEF OveruseInv, HeldInv, SharedInv, Holds, Recording, Marking
    <2> QED
      BY <2>4, <2>5
  <1>2. TypeOK /\ TypeOK' /\ Inv /\ [Next]_vars => Inv'
    <2> SUFFICES ASSUME TypeOK, TypeOK', Inv, [Next]_vars
                 PROVE  Inv'
      OBVIOUS
    <2>1. \A i \in Instances : TurnInv(i)'
      BY TurnStep
    <2>2. CASE UNCHANGED vars
      BY <2>1, <2>2
      DEF vars, OveruseInv, HeldInv, SharedInv, Closed, Holds, Recording, Marking
    <2>3. ASSUME NEW k \in Instances, Step(k), NEW p \in Proxies
          PROVE  OveruseInv(p)'
      BY <2>3, StepEffect, OveruseEffect
    <2> QED
      BY <2>1, <2>2, <2>3 DEF Next
  <1>3. Inv => OveruseIsBounded
    BY DEF OveruseInv, OveruseIsBounded
  <1> QED
    BY <1>1, <1>2, <1>3, TypeCorrect, PTL DEF Spec
=============================================================================
