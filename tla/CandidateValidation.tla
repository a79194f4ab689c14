--------------------------- MODULE CandidateValidation ---------------------------
(***************************************************************************)
(* How a list of proxy rows becomes a ranked working list and a value to   *)
(* save: parsing, the usage-history filter, the passes of health checks,   *)
(* ranking, limits and the length cap of KeyVal.  "search" takes rows from *)
(* a provider and validates in several passes; "check" takes the saved     *)
(* list and tests each entry once.                                         *)
(*                                                                         *)
(* A definition no action uses is the next one with a plausible mistake.   *)
(***************************************************************************)
EXTENDS Integers, SequencesExt

CONSTANTS
  Proxies,          \* normalized addresses, as numbers in name order
  Junk,             \* a row normalizeProxyAddress returns None for
  Broken,           \* a row it raises ValueError for (urlsplit or int fails)
  MaxRows,          \* bound: rows of one list
  SuccessCount,     \* proxyValidationSuccessCountInt
  MaxTiming,        \* proxyMaxTimingMillisecondInt
  CandidateLimits,  \* values of proxyCandidateLimitInt, 0 for no limit
  ResultCounts,     \* values of proxyResultCountInt, 0 for no limit
  MaxSaved,         \* KEY_VAL_MAX_SAVED_PROXY_COUNT_INT
  MaxLength,        \* KEY_VAL_MAX_VALUE_LENGTH_INT
  Size(_)           \* the length of an address

\* (Bound: no negative limit, which a slice would count from the end.)
ASSUME LimitsAreCounts ==
  /\ MaxRows \in Nat /\ MaxTiming \in Nat
  /\ CandidateLimits \subseteq Nat /\ ResultCounts \subseteq Nat

\* Something can be saved: KeyVal takes at least one address.
ASSUME SizesAssumption ==
  MaxLength \in Nat /\ MaxSaved \in Nat \ {0} /\ \A p \in Proxies : Size(p) \in Nat

Rows == Proxies \cup {Junk, Broken}

VARIABLES
  mode, rows,
  random,      \* proxySelectionModeStr is "random"
  shuffled,    \* proxyShuffleCandidateBool
  limit,       \* proxyCandidateLimitInt
  resultCount, \* proxyResultCountInt
  allowed,     \* proxies the usage history allows
  phase,       \* "parse", "validate", "done" or "raised"
  candidates,
  pass,        \* number of the current pass
  queue,       \* candidates this pass still has to test
  survivors,   \* candidates that passed this pass's test
  timings,     \* timingMsList of each proxy
  result,      \* rankedProxyList
  value        \* the proxies in the value to save

options == <<mode, rows, random, shuffled, limit, resultCount>>

vars == <<options, allowed, phase, candidates, pass, queue, survivors,
          timings, result, value>>

Init ==
  /\ mode \in {"search", "check"}
  /\ rows \in BoundedSeq(Rows, MaxRows)
  /\ random \in BOOLEAN /\ shuffled \in BOOLEAN
  /\ limit \in CandidateLimits /\ resultCount \in ResultCounts
  /\ allowed \in SUBSET Proxies
  /\ phase = "parse"
  /\ candidates = <<>> /\ queue = <<>> /\ survivors = <<>>
  /\ pass = 1
  /\ timings = [p \in Proxies |-> <<>>]
  /\ result = <<>> /\ value = <<>>

\* The first n elements; all of them when n is 0.
Limit(s, n) == IF n = 0 \/ n >= Len(s) THEN s ELSE SubSeq(s, 1, n)

\* The addresses of the valid rows.
KnownRows == ToSet(rows) \cap Proxies

FirstRow(p) == SelectInSeq(rows, LAMBDA row : row = p)

\* Each address once, where its first row was, unless the list is shuffled.
Orders(S) ==
  {s \in SetToSeqs(S) :
     \/ shuffled /\ mode = "search"
     \/ \A i, j \in DOMAIN s : i < j => FirstRow(s[i]) < FirstRow(s[j])}

\* A saved list is not limited.
CandidateLimit == IF mode = "check" THEN 0 ELSE limit

PreparedLimitFirst ==
  {SelectSeq(Limit(s, CandidateLimit), LAMBDA p : p \in allowed) : s \in Orders(KnownRows)}

\* prepareProxyCandidateList: the history first, then the candidate limit.
\* Leaving rows out changes nothing about the order of the others.
Prepared == {Limit(s, CandidateLimit) : s \in Orders(KnownRows \cap allowed)}

Parse ==
  /\ phase = "parse"
  /\ Broken \notin ToSet(rows)
  /\ candidates' \in Prepared
  /\ queue' = candidates'
  /\ phase' = "validate"
  /\ UNCHANGED <<options, allowed, pass, survivors, timings, result, value>>

\* The exception leaves the lookup.
ParseRaises ==
  /\ phase = "parse"
  /\ Broken \in ToSet(rows)
  /\ phase' = "raised"
  /\ UNCHANGED <<options, allowed, candidates, pass, queue, survivors,
                 timings, result, value>>

Passes == IF mode = "check" THEN 1 ELSE SuccessCount

\* testProxy of the health check proxy: an error, or a status outside 200..399,
\* is a result that is not working; the network decides.
CheckResults == [working : BOOLEAN, ms : 0 .. MaxTiming + 1]

UsableSlow(working, ms) == working

\* isProxyTestResultUsable
Usable(working, ms) == working /\ ms <= MaxTiming

KeepAlways(p, usable) == Append(survivors, p)

Keep(p, usable) == IF usable THEN Append(survivors, p) ELSE survivors

Test ==
  /\ phase = "validate"
  /\ queue # <<>>
  /\ LET p == Head(queue) IN
     \E r \in CheckResults :
       /\ survivors' = Keep(p, Usable(r.working, r.ms))
       /\ timings' = IF Usable(r.working, r.ms)
                     THEN [timings EXCEPT ![p] = Append(@, r.ms)] ELSE timings
  /\ queue' = Tail(queue)
  /\ UNCHANGED <<options, allowed, phase, candidates, pass, result, value>>

NextPass ==
  /\ phase = "validate"
  /\ queue = <<>> /\ survivors # <<>> /\ pass < Passes
  /\ pass' = pass + 1
  /\ queue' = survivors
  /\ survivors' = <<>>
  /\ UNCHANGED <<options, allowed, phase, candidates, timings, result, value>>

\* Python's round: halves go to the even neighbour.
Rounded(sum, n) ==
  LET q == sum \div n
      r == 2 * (sum % n)
  IN  IF r < n \/ (r = n /\ q % 2 = 0) THEN q ELSE q + 1

Total(list) ==
  LET sum[n \in 0 .. Len(list)] == IF n = 0 THEN 0 ELSE sum[n - 1] + list[n]
  IN  sum[Len(list)]

MeanTiming(list) == Rounded(Total(list), Len(list))

Average(p) == MeanTiming(timings[p])

RanksLowerReversed(p, q) == Average(p) > Average(q) \/ (Average(p) = Average(q) /\ p < q)

RanksLower(p, q) == Average(p) < Average(q) \/ (Average(p) = Average(q) /\ p < q)

\* The sort is ascending, so the fastest working proxy comes first.
Rankings(S) ==
  {s \in SetToSeqs(S) :
     random \/ \A i, j \in DOMAIN s : i < j => RanksLower(s[i], s[j])}

\* The length of the JSON list ["...","..."].
JsonLength(s) ==
  LET length[n \in 0 .. Len(s)] == IF n = 0 THEN 1 ELSE length[n - 1] + Size(s[n]) + 3
  IN  length[Len(s)]

MaxSavedCount == IF resultCount = 0 \/ resultCount > MaxSaved THEN MaxSaved ELSE resultCount

SavedValueUncapped(s) == Limit(s, MaxSavedCount)

\* One turn of the loop of buildSavedProxyValueStr: an address that alone is too
\* long is skipped, the first one that does not fit behind others ends the list.
Extended(acc, p) ==
  LET longer == Append(acc.list, p) IN
  IF acc.full \/ Len(acc.list) >= MaxSavedCount THEN acc
  ELSE IF JsonLength(longer) <= MaxLength THEN [acc EXCEPT !.list = longer]
  ELSE [acc EXCEPT !.full = acc.list # <<>>]

SavedValue(s) ==
  LET after[n \in 0 .. Len(s)] == IF n = 0 THEN [list |-> <<>>, full |-> FALSE]
                                  ELSE Extended(after[n - 1], s[n])
  IN  after[Len(s)].list

Finish ==
  /\ phase = "validate"
  /\ queue = <<>> /\ (survivors = <<>> \/ pass = Passes)
  /\ \E ranking \in Rankings(ToSet(survivors)) : result' = Limit(ranking, resultCount)
  /\ value' = IF mode = "search" THEN SavedValue(result') ELSE <<>>
  /\ phase' = "done"
  /\ UNCHANGED <<options, allowed, candidates, pass, queue, survivors, timings>>

Next == Parse \/ ParseRaises \/ Test \/ NextPass \/ Finish

Spec == Init /\ [][Next]_vars

-----------------------------------------------------------------------------

\* A returned proxy is allowed by its history and has passed as many checks in
\* a row as the mode asks for, each within the time limit.
ResultIsProven ==
  phase = "done" =>
    \A p \in ToSet(result) :
      /\ p \in allowed
      /\ Len(timings[p]) = Passes
      /\ \A ms \in ToSet(timings[p]) : ms <= MaxTiming

\* A proxy that fails a check is given up in this lookup: who is returned or
\* tested again has passed every check so far.
NoSecondChance ==
  phase = "validate" =>
    /\ \A p \in ToSet(queue) : Len(timings[p]) = pass - 1
    /\ \A p \in ToSet(survivors) : Len(timings[p]) = pass

\* Proxies that are used up do not take the place of candidates: the limit is
\* filled as far as there are allowed rows, and no address is tested twice.
LimitIsFilled ==
  phase = "validate" =>
    LET eligible == ToSet(rows) \cap allowed
        n == Cardinality(eligible)
    IN  /\ ToSet(candidates) \subseteq eligible
        /\ Len(candidates) = IF mode = "search" /\ limit \in 1 .. n
                             THEN limit ELSE n

\* Only the rounding of the averages lets q come before p although it is slower.
TiesByRounding(q, p) ==
  /\ Passes > 1
  /\ Total(timings[q]) <= Total(timings[p]) + Passes
  /\ q < p

\* README: ranked by average response timing, fastest first.  With "best" a
\* slower proxy comes before a faster one, or is returned instead of it, only
\* when both were tested several times, the difference is a millisecond on
\* average at most, and its name is the smaller one.
RankedWithinRounding ==
  phase = "done" /\ ~random =>
    \A i \in DOMAIN result :
      \A p \in ToSet(survivors) \ ToSet(SubSeq(result, 1, i)) :
        \/ Total(timings[result[i]]) <= Total(timings[p])
        \/ TiesByRounding(result[i], p)

\* The value fits KeyVal and is the longest such run of the ranked list that
\* starts with the first proxy that fits; what follows a gap is not saved.
SavedValueIsLongest ==
  LET fitting == {i \in DOMAIN result : JsonLength(<<result[i]>>) <= MaxLength}
      runs(first) == {SubSeq(result, first, n) : n \in first .. Len(result)}
      good(first) ==
        {r \in runs(first) : Len(r) <= MaxSavedCount /\ JsonLength(r) <= MaxLength}
  IN  phase = "done" /\ mode = "search" =>
        /\ fitting = {} => value = <<>>
        /\ \A first \in fitting :
             (\A i \in fitting : first <= i) =>
               value \in good(first) /\ \A r \in good(first) : Len(r) <= Len(value)
=============================================================================
