-------------------------- MODULE HistoryStorageProofs --------------------------
(***************************************************************************)
(* Theorems about HistoryStorage: it does nothing UsageHistory does not do, *)
(* so the theorems about UsageHistory hold of it, the status it reports can *)
(* be relied on, for every set of instances and every failure, and for one *)
(* instance that does not restart the history lacks no use.                *)
(***************************************************************************)
EXTENDS HistoryStorage, UsageHistoryProofs

LEMMA StorageStepIsStep == [NextStorage]_allVars => [Next]_vars
  <1>1. ASSUME NEW i \in Instances, StepStorage(i)
        PROVE  Step(i)
    BY <1>1 DEF StepStorage, Operate, AddEntry, Restart, Step
  <1> QED
    BY <1>1 DEF NextStorage, Next, allVars

\* Settings, status and history entries change nothing about the records: every
\* behaviour with them is one of UsageHistory.
THEOREM ImplementsHistory == SpecStorage => Spec
  <1>1. InitStorage => Init
    BY DEF InitStorage
  <1> QED
    BY <1>1, StorageStepIsStep, PTL DEF SpecStorage, Spec

\* Memory is untouched while the storage is on, and the status follows it.
StatusInv(i) ==
  /\ status = [k \in Instances |-> status[k]]
  /\ enabled[i] = (status[i] = "enabled")
  /\ status[i] = "enabled" => \A p \in Proxies : fallback[i][p] = Empty

\* An instance that turned its storage off does not turn it on, and one that
\* did not has recorded nothing in memory.
LEMMA MemoryOnlyWhenOff ==
  ASSUME TypeOK, NEW i \in Instances, Operate(i) \/ AddEntry(i)
  PROVE  /\ enabled'[i] => enabled[i] /\ fallback' = fallback
         /\ enabled'[i] \in BOOLEAN /\ enabled[i] \in BOOLEAN
         /\ \A j \in Instances \ {i} : /\ enabled'[j] = enabled[j]
                                       /\ fallback'[j] = fallback[j]
  <1>1. enabled \in [Instances -> BOOLEAN] /\ proxy[i] \in Proxies
    BY DEF TypeOK
  <1>2. fallback \in [Instances -> [Proxies -> Records]]
    BY DEF TypeOK
  <1>3. ASSUME NEW p \in Proxies, CheckDisabled(i, p)
        PROVE  fallback' = fallback /\ (TurnOff(i) \/ UNCHANGED enabled)
    BY <1>3 DEF CheckDisabled, Read
  <1>4. ASSUME NEW p \in Proxies, RecordRead(i, p)
        PROVE  \/ UNCHANGED <<enabled, fallback>>
               \/ TurnOff(i) /\ RecordInMemory(i, p)
    BY <1>4 DEF RecordRead
  <1>5. CheckCount(i) => fallback' = fallback /\ (TurnOff(i) \/ UNCHANGED enabled)
    BY DEF CheckCount, Read
  <1>6. RecordSet(i) \/ RecordHistory(i) =>
          \/ UNCHANGED <<enabled, fallback>>
          \/ TurnOff(i) /\ RecordInMemory(i, proxy[i])
    BY DEF RecordSet, RecordHistory
  <1>7. MarkRead(i) \/ MarkSet(i) =>
          \/ UNCHANGED <<enabled, fallback>>
          \/ TurnOff(i) /\ MarkInMemory(i, proxy[i])
    BY DEF MarkRead, MarkSet
  <1>8. Abandon(i) => UNCHANGED <<enabled, fallback>>
    BY DEF Abandon
  <1>9. \/ UNCHANGED <<enabled, fallback>>
        \/ TurnOff(i) /\ fallback' = fallback
        \/ TurnOff(i) /\ \E p \in Proxies : RecordInMemory(i, p) \/ MarkInMemory(i, p)
    BY <1>1, <1>3, <1>4, <1>5, <1>6, <1>7, <1>8 DEF Operate, AddEntry
  <1>10. TurnOff(i) => /\ enabled'[i] = FALSE
                       /\ \A j \in Instances \ {i} : enabled'[j] = enabled[j]
    BY <1>1 DEF TurnOff
  <1>11. ASSUME NEW p \in Proxies, RecordInMemory(i, p) \/ MarkInMemory(i, p)
         PROVE  \A j \in Instances \ {i} : fallback'[j] = fallback[j]
    BY <1>2, <1>11 DEF RecordInMemory, MarkInMemory
  <1> QED
    BY <1>1, <1>9, <1>10, <1>11

LEMMA StatusStep ==
  ASSUME TypeOK, NEW j \in Instances, StatusInv(j), [NextStorage]_allVars
  PROVE  StatusInv(j)'
  <1>1. ASSUME NEW i \in Instances, Operate(i) \/ AddEntry(i)
        PROVE  StatusInv(j)'
    <2>2. status' = [status EXCEPT ![i] = StatusAfter(i)]
      BY <1>1 DEF Operate, AddEntry
    <2>4. status' = [k \in Instances |-> status'[k]]
      BY <2>2 DEF StatusInv
    <2>5. CASE i # j
      <3>1. /\ status'[j] = status[j] /\ enabled'[j] = enabled[j]
            /\ fallback'[j] = fallback[j]
        BY <2>2, <2>5, <1>1, MemoryOnlyWhenOff DEF StatusInv
      <3> QED
        BY <2>4, <3>1 DEF StatusInv
    <2>6. CASE i = j
      <3>1. /\ enabled'[j] => enabled[j] /\ fallback' = fallback
            /\ enabled'[j] \in BOOLEAN /\ enabled[j] \in BOOLEAN
        BY <2>6, <1>1, MemoryOnlyWhenOff
      <3>2. status'[j] = IF enabled[j] /\ ~enabled'[j]
                         THEN "storage_operation_failed" ELSE status[j]
        BY <2>2, <2>6 DEF StatusAfter, StatusInv
      <3>3. enabled'[j] = (status'[j] = "enabled")
        BY <3>1, <3>2 DEF StatusInv
      <3>4. status'[j] = "enabled" => \A p \in Proxies : fallback'[j][p] = Empty
        BY <3>1, <3>2, <3>3 DEF StatusInv
      <3> QED
        BY <2>4, <3>3, <3>4 DEF StatusInv
    <2> QED
      BY <2>5, <2>6
  <1>2. ASSUME NEW i \in Instances, Crash(i)
        PROVE  fallback'[j] = IF i = j THEN [p \in Proxies |-> Empty] ELSE fallback[j]
    BY <1>2 DEF Crash, TypeOK
  <1>3. ASSUME NEW i \in Instances, Restart(i)
        PROVE  StatusInv(j)'
    <2>1. PICK s \in StartStatuses(setting[i]) :
            enabled'[i] = (s = "enabled") /\ status' = [status EXCEPT ![i] = s]
      BY <1>3 DEF Restart
    <2>3. Crash(i)
      BY <1>3 DEF Restart
    <2>4. i # j => enabled'[j] = enabled[j]
      BY <2>3 DEF Crash, StartsEnabled, TypeOK
    <2>5. status' = [k \in Instances |-> status'[k]]
      BY <2>1 DEF StatusInv
    <2>6. CASE i # j
      <3>1. status'[j] = status[j] /\ fallback'[j] = fallback[j]
        BY <2>1, <2>3, <2>6, <1>2 DEF StatusInv
      <3> QED
        BY <2>4, <2>5, <2>6, <3>1 DEF StatusInv
    <2>7. CASE i = j
      <3>1. status'[j] = s /\ \A p \in Proxies : fallback'[j][p] = Empty
        BY <2>1, <2>3, <2>7, <1>2 DEF StatusInv
      <3> QED
        BY <2>1, <2>5, <2>7, <3>1 DEF StatusInv
    <2> QED
      BY <2>6, <2>7
  <1>4. CASE UNCHANGED allVars
    BY <1>4 DEF allVars, vars, storageVars, StatusInv
  <1> QED
    BY <1>1, <1>3, <1>4 DEF NextStorage, StepStorage

\* The reported status is the truth about where uses are recorded: "enabled"
\* only as long as everything the instance recorded reached the database's side.
THEOREM StatusIsTrue == SpecStorage => []EnabledMeansShared
  <1> DEFINE Inv == \A i \in Instances : StatusInv(i)
  <1>1. InitStorage => Inv
    <2> SUFFICES ASSUME InitStorage, NEW i \in Instances
                 PROVE  StatusInv(i)
      OBVIOUS
    <2>1. status = [k \in Instances |-> status[k]]
      BY DEF InitStorage
    <2>2. \A p \in Proxies : fallback[i][p] = Empty
      BY DEF InitStorage, Init
    <2> QED
      BY <2>1, <2>2 DEF InitStorage, StatusInv
  <1>2. TypeOK /\ Inv /\ [NextStorage]_allVars => Inv'
    BY StatusStep
  <1>3. Inv => EnabledMeansShared
    BY DEF StatusInv, EnabledMeansShared
  <1> QED
    BY <1>1, <1>2, <1>3, ImplementsHistory, TypeCorrect, PTL DEF SpecStorage

-----------------------------------------------------------------------------

\* The use the instance has counted but not yet added to the history.
Unlisted(i, p) == pc[i] \in {"recordSet", "recordHistory"} /\ p = proxy[i]

EntryInv(i) ==
  /\ entries \in [Proxies -> Nat]
  /\ enabled[i] =>
       \A p \in Proxies : uses[p] = IF Unlisted(i, p) THEN entries[p] + 1
                                                      ELSE entries[p]
  /\ ~enabled[i] =>
       \A p \in Proxies :
         LET kept == entries[p] + fallback[i][p].count
         IN  uses[p] <= kept /\ kept <= uses[p] + 1

\* A step that adds neither a use nor an entry.
LEMMA EntryQuietStep ==
  ASSUME TypeOK, NEW i \in Instances, CountInv(i), EntryInv(i),
         pc[i] \notin {"recordSet", "recordHistory"},
         pc'[i] \notin {"recordSet", "recordHistory"},
         enabled'[i] => enabled[i], enabled'[i] \in BOOLEAN,
         uses' = uses, entries' = entries,
         \A p \in Proxies : fallback'[i][p].count = fallback[i][p].count
  PROVE  EntryInv(i)'
  <1>1. CASE enabled[i]
    <2>1. \A p \in Proxies : fallback[i][p].count = 0 /\ uses[p] = entries[p]
      BY <1>1 DEF CountInv, EntryInv, Unlisted
    <2>2. entries \in [Proxies -> Nat]
      BY DEF EntryInv
    <2> QED
      BY <2>1, <2>2 DEF EntryInv, Unlisted
  <1>2. CASE ~enabled[i]
    BY <1>2 DEF EntryInv
  <1> QED
    BY <1>1, <1>2

\* A use moves to memory while its entry may or may not have been stored.
LEMMA EntryMemoryStep ==
  ASSUME TypeOK, TypeOK', NEW i \in Instances, CountInv(i), EntryInv(i),
         pc[i] \in {"recordSet", "recordHistory"},
         RecordInMemory(i, proxy[i]), TurnOff(i), uses' = uses,
         \/ entries' = entries
         \/ entries' = [entries EXCEPT ![proxy[i]] = entries[proxy[i]] + 1]
  PROVE  EntryInv(i)'
  <1>1. enabled[i] /\ ~enabled'[i] /\ proxy[i] \in Proxies
    BY DEF CountInv, TurnOff, TypeOK
  <1>2. entries \in [Proxies -> Nat] /\ entries' \in [Proxies -> Nat]
    BY DEF EntryInv
  <1>3. \A p \in Proxies :
          /\ fallback'[i][p].count = IF p = proxy[i] THEN 1 ELSE 0
          /\ uses[p] = IF p = proxy[i] THEN entries[p] + 1 ELSE entries[p]
    BY <1>1, MemoryCounts DEF CountInv, EntryInv, Unlisted
  <1>4. \A p \in Proxies :
          entries'[p] = entries[p] \/ (p = proxy[i] /\ entries'[p] = entries[p] + 1)
    BY <1>2
  <1>5. ASSUME NEW p \in Proxies
        PROVE  LET kept == entries'[p] + fallback'[i][p].count
               IN  uses[p] <= kept /\ kept <= uses[p] + 1
    BY <1>2, <1>3, <1>4
  <1> QED
    BY <1>1, <1>2, <1>5 DEF EntryInv

LEMMA EntryStep ==
  ASSUME OneInstance, NoRestarts, TypeOK, TypeOK',
         NEW i \in Instances, CountInv(i), EntryInv(i), [NextStorage]_allVars
  PROVE  EntryInv(i)'
  <1>n. entries \in [Proxies -> Nat]
    BY DEF EntryInv
  <1>1. ASSUME Operate(i), NEW p \in Proxies, CheckDisabled(i, p)
        PROVE  EntryInv(i)'
    <2>1. /\ pc[i] = "idle" /\ pc'[i] \in {"idle", "checkCount"}
          /\ UNCHANGED <<fallback, uses, entries>>
      BY <1>1 DEF Operate, CheckDisabled, Goto, AfterDisabledCheck, TypeOK
    <2>2. (enabled'[i] => enabled[i]) /\ enabled'[i] \in BOOLEAN
      BY <1>1 DEF CheckDisabled, Read, TurnOff, TypeOK
    <2> QED
      BY <2>1, <2>2, EntryQuietStep
  <1>2. ASSUME Operate(i), NEW p \in Proxies, RecordRead(i, p)
        PROVE  EntryInv(i)'
    <2>1. /\ pc[i] = "idle" /\ entries' = entries /\ proxy'[i] = p
          /\ uses' = [uses EXCEPT ![p] = @ + 1]
      BY <1>2 DEF Operate, RecordRead, TypeOK
    <2>2. CASE Goto(i, "recordSet") /\ enabled[i] /\ UNCHANGED <<enabled, fallback>>
      <3>1. pc'[i] = "recordSet"
        BY <2>2 DEF Goto, TypeOK
      <3>2. \A q \in Proxies : uses[q] = entries[q]
        BY <2>1, <2>2 DEF EntryInv, Unlisted
      <3>3. \A q \in Proxies : uses'[q] = IF q = p THEN entries[q] + 1 ELSE entries[q]
        BY <2>1, <3>2 DEF TypeOK
      <3> QED
        BY <1>n, <2>1, <2>2, <3>1, <3>3 DEF EntryInv, Unlisted
    <2>3. CASE TurnOff(i) /\ RecordInMemory(i, p)
      <3>1. ~enabled'[i]
        BY <2>3 DEF TurnOff, TypeOK
      <3>2. \A q \in Proxies :
              LET kept == entries[q] + fallback[i][q].count
              IN  uses[q] <= kept /\ kept <= uses[q] + 1
        BY <1>n, <2>1, CountsAreNat DEF CountInv, EntryInv, Unlisted, TypeOK
      <3>3. ASSUME NEW q \in Proxies
            PROVE  /\ uses'[q] = IF q = p THEN uses[q] + 1 ELSE uses[q]
                   /\ fallback'[i][q].count = IF q = p THEN fallback[i][q].count + 1
                                                       ELSE fallback[i][q].count
        BY <2>1, <2>3, MemoryCounts DEF TypeOK
      <3>4. ASSUME NEW q \in Proxies
            PROVE  LET kept == entries[q] + fallback'[i][q].count
                   IN  uses'[q] <= kept /\ kept <= uses'[q] + 1
        BY <1>n, <3>2, <3>3, CountsAreNat
      <3> QED
        BY <1>n, <2>1, <3>1, <3>4 DEF EntryInv
    <2> QED
      BY <1>2, <2>2, <2>3 DEF RecordRead
  <1>3. CASE Operate(i) /\ CheckCount(i)
    <2>1. /\ pc[i] = "checkCount" /\ pc'[i] \in {"idle", "markRead"}
          /\ UNCHANGED <<fallback, uses, entries>>
      BY <1>3 DEF Operate, CheckCount, Goto, TypeOK
    <2>2. (enabled'[i] => enabled[i]) /\ enabled'[i] \in BOOLEAN
      BY <1>3 DEF CheckCount, Read, TurnOff, TypeOK
    <2> QED
      BY <2>1, <2>2, EntryQuietStep
  <1>4. CASE Operate(i) /\ RecordSet(i)
    <2>1. /\ pc[i] = "recordSet" /\ UNCHANGED <<uses, proxy, entries>>
      BY <1>4 DEF Operate, RecordSet
    <2>2. CASE Goto(i, "recordHistory") /\ UNCHANGED <<enabled, fallback>>
      <3>1. pc'[i] = "recordHistory" /\ enabled[i]
        BY <2>1, <2>2 DEF Goto, TypeOK, CountInv
      <3> QED
        BY <2>1, <2>2, <3>1 DEF EntryInv, Unlisted
    <2>3. CASE TurnOff(i) /\ RecordInMemory(i, proxy[i])
      BY <2>1, <2>3, EntryMemoryStep
    <2> QED
      BY <1>4, <2>2, <2>3 DEF RecordSet
  <1>5. CASE Operate(i) /\ (MarkRead(i) \/ MarkSet(i))
    <2>1. /\ pc[i] \in {"markRead", "markSet"} /\ pc'[i] \in {"markSet", "idle"}
          /\ UNCHANGED <<uses, entries>> /\ proxy[i] \in Proxies
      BY <1>5 DEF Operate, MarkRead, MarkSet, Goto, TypeOK
    <2>2. (enabled'[i] => enabled[i]) /\ enabled'[i] \in BOOLEAN
      BY <1>5 DEF MarkRead, MarkSet, TurnOff, TypeOK
    <2>3. \A q \in Proxies : fallback'[i][q].count = fallback[i][q].count
      BY <1>5, <2>1, MemoryCounts DEF MarkRead, MarkSet
    <2> QED
      BY <2>1, <2>2, <2>3, EntryQuietStep
  <1>6. CASE Operate(i) /\ Abandon(i)
    BY <1>6 DEF Operate, Abandon, EntryInv, Unlisted
  <1>7. CASE AddEntry(i)
    <2>1. /\ pc[i] = "recordHistory" /\ UNCHANGED <<uses, proxy>> /\ enabled[i]
          /\ proxy[i] \in Proxies
      BY <1>7 DEF AddEntry, RecordHistory, CountInv, TypeOK
    <2>2. PICK n \in EntriesAfter(i) : entries' = [entries EXCEPT ![proxy[i]] = n]
      BY <1>7 DEF AddEntry
    <2>3. CASE AfterRecord(i, Used(seen[i])) /\ UNCHANGED <<enabled, fallback>>
      <3>1. pc'[i] \in {"idle", "markRead"} /\ enabled'[i]
        BY <2>1, <2>3 DEF AfterRecord, Goto, TypeOK
      <3>2. entries' = [entries EXCEPT ![proxy[i]] = entries[proxy[i]] + 1]
        BY <2>2, <3>1 DEF EntriesAfter
      <3>3. entries' \in [Proxies -> Nat] /\ \A q \in Proxies : uses[q] = entries'[q]
        BY <1>n, <2>1, <3>2 DEF EntryInv, Unlisted
      <3> QED
        BY <2>1, <3>1, <3>3 DEF EntryInv, Unlisted
    <2>4. CASE TurnOff(i) /\ RecordInMemory(i, proxy[i])
      <3>1. n \in {entries[proxy[i]], entries[proxy[i]] + 1}
        BY <2>2 DEF EntriesAfter
      <3>2. \/ entries' = entries
            \/ entries' = [entries EXCEPT ![proxy[i]] = entries[proxy[i]] + 1]
        BY <1>n, <2>2, <3>1
      <3> QED
        BY <2>1, <2>4, <3>2, EntryMemoryStep
    <2> QED
      BY <1>7, <2>3, <2>4 DEF AddEntry, RecordHistory
  <1>8. CASE UNCHANGED allVars
    BY <1>8 DEF allVars, vars, storageVars, EntryInv, Unlisted
  <1>9. ~Restart(i)
    BY DEF Restart, Crash, NoRestarts
  <1> QED
    BY <1>1, <1>2, <1>3, <1>4, <1>5, <1>6, <1>7, <1>8, <1>9
    DEF NextStorage, StepStorage, Operate, OneInstance

\* Count and history entry are two requests, and either may fail after it was
\* applied: between its operations an instance has an entry for every use, in
\* the database or in memory, and two for at most one use.
THEOREM HistoryStaysComplete ==
  ASSUME OneInstance, NoRestarts
  PROVE  SpecStorage => []HistoryIsComplete
  <1> DEFINE Inv == \A i \in Instances : CountInv(i) /\ EntryInv(i)
  <1>1. InitStorage => Inv
    <2> SUFFICES ASSUME InitStorage, NEW i \in Instances
                 PROVE  CountInv(i) /\ EntryInv(i)
      OBVIOUS
    <2>1. TypeOK /\ Init
      BY TypeInit DEF InitStorage
    <2>2. \A p \in Proxies : /\ fallback[i][p].count = 0
                             /\ uses[p] = remote[p].count
                             /\ entries[p] = remote[p].count
      BY <2>1 DEF Init, InitStorage, Empty
    <2>3. pc[i] = "idle" /\ entries \in [Proxies -> Nat]
      BY <2>1, CountsAreNat DEF Init, InitStorage
    <2> QED
      BY <2>1, <2>2, <2>3, CountsAreNat DEF CountInv, EntryInv, Unlisted
  <1>2. TypeOK /\ TypeOK' /\ Inv /\ [NextStorage]_allVars => Inv'
    BY CountStep, EntryStep, StorageStepIsStep
  <1>3. TypeOK /\ Inv => HistoryIsComplete
    <2> SUFFICES ASSUME TypeOK, Inv, NEW i \in Instances, NEW p \in Proxies,
                        pc[i] = "idle"
                 PROVE  LET kept == entries[p] + fallback[i][p].count
                        IN  uses[p] <= kept /\ kept <= uses[p] + 1
      BY DEF HistoryIsComplete
    <2>1. entries[p] \in Nat /\ CountInv(i) /\ EntryInv(i)
      BY DEF EntryInv
    <2>2. CASE enabled[i]
      <3>1. fallback[i][p].count = 0 /\ uses[p] = entries[p]
        BY <2>1, <2>2 DEF CountInv, EntryInv, Unlisted
      <3> QED
        BY <2>1, <3>1
    <2>3. CASE ~enabled[i]
      BY <2>1, <2>3 DEF EntryInv
    <2> QED
      BY <2>2, <2>3
  <1> QED
    BY <1>1, <1>2, <1>3, ImplementsHistory, TypeCorrect, PTL DEF SpecStorage
=============================================================================
