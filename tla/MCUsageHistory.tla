---------------------------- MODULE MCUsageHistory ----------------------------
(* HistoryStorage on one or two instances and one or two proxies. *)
EXTENDS HistoryStorage, TLC

CONSTANTS i1, i2, p1, p2

Alone == {i1}
Both == {i1, i2}
OneProxy == {p1}
TwoProxies == {p1, p2}

Record(n, d) == [count |-> n, disabled |-> d]

\* Unused, used up but not marked, and disabled early.
SomeRecords == {Record(0, FALSE), Record(2, FALSE), Record(1, TRUE)}
Unused == {Record(0, FALSE)}

Setting(t, c, u) == [type |-> t, credential |-> c, url |-> u]

Firestore == {Setting("firestore", "valid", FALSE)}

\* Every setting of the three types that matters to what follows.
AnySetting ==
  {Setting("", "valid", TRUE)}
  \cup {Setting("firestore", c, FALSE) : c \in Credentials}
  \cup {Setting("realtime_database", c, u) : c \in {"invalid", "valid"}, u \in BOOLEAN}
=============================================================================
