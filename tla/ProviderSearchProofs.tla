-------------------------- MODULE ProviderSearchProofs --------------------------
(***************************************************************************)
(* Theorems about ProviderSearch: what a lookup returns and leaves behind,  *)
(* and how the names of one endpoint can differ, for replies of any length  *)
(* made of any finite set of texts.                                        *)
(***************************************************************************)
EXTENDS ProviderSearch, FiniteSetTheorems, TLAPS

\* What is normalized passes every test again and is spelled the same way.
LEMMA NormalizedIsFixed ==
  ASSUME NEW t \in Texts, Valid(t), ~Raises(t)
  PROVE  NormalizeProxyAddress(Spelling(t)) = Spelling(t)
  <1> DEFINE p == Spelling(t)
  <1>1. /\ p.scheme = "" /\ p.space = "none" /\ ~p.path /\ p.credentials = "none"
        /\ p.host.labels = t.host.labels /\ p.host.dots = t.host.dots
        /\ p.port.kind = "digits" /\ p.port.number = t.port.number
    BY DEF Spelling
  <1>2. PortFits(t) /\ Splits(t) /\ t.credentials = "none"
    BY DEF Valid
  <1>3. Items(p.host) = Items(t.host)
    BY <1>1 DEF Items
  <1>4. Splits(p) /\ PortFits(p)
    <2>1. PortFits(p)
      BY <1>1, <1>2 DEF PortFits
    <2>2. p.space # "inside" /\ p.scheme = "" /\ p.credentials = "none" /\ ~p.path
      BY <1>1
    <2>3. Splits(p)
      BY <2>2, Zenon DEF Splits
    <2> QED
      BY <2>1, <2>3
  <1>5. IsIpv4(p.host) \/ IsDomain(p.host)
    BY <1>1, <1>3 DEF Valid, IsIpv4, IsDomain
  <1>6. ~Ipv4Raises(p.host)
    BY <1>2, <1>3 DEF Raises, Ipv4Raises
  <1>7. Valid(p)
    BY <1>1, <1>4, <1>5 DEF Valid
  <1>8. ~Raises(p)
    BY <1>1, <1>6 DEF Raises
  <1>9. Spelling(p) = p
    BY <1>1 DEF Spelling
  <1> QED
    BY <1>7, <1>8, <1>9 DEF NormalizeProxyAddress

\* The endpoint determines the name but for its dots.
LEMMA NormalizedIsUnique ==
  ASSUME NEW S \in SUBSET Texts, NEW p \in Normalized(S), NEW q \in Normalized(S)
  PROVE  /\ NormalizeProxyAddress(p) = p
         /\ Endpoint(p) = Endpoint(q) /\ p.host.dots = q.host.dots => p = q
  <1>1. PICK t \in S, u \in S : /\ p = NormalizeProxyAddress(t) /\ p \notin {None, Raised}
                                /\ q = NormalizeProxyAddress(u) /\ q \notin {None, Raised}
    BY DEF Normalized
  <1>2. /\ t \in Texts /\ Valid(t) /\ ~Raises(t) /\ p = Spelling(t)
        /\ q = Spelling(u)
    BY <1>1 DEF NormalizeProxyAddress
  <1>3. NormalizeProxyAddress(p) = p
    BY <1>2, NormalizedIsFixed
  <1>4. ASSUME Endpoint(p) = Endpoint(q), p.host.dots = q.host.dots
        PROVE  p = q
    <2>1. /\ t.host.labels = u.host.labels /\ t.host.dots = u.host.dots
          /\ t.port.number = u.port.number
      BY <1>2, <1>4 DEF Spelling, Endpoint
    <2> QED
      BY <1>2, <1>4, <2>1 DEF Spelling
  <1> QED
    BY <1>3, <1>4

-----------------------------------------------------------------------------

NoList == asked = {} /\ worked = {} /\ ranked = <<>>

\* Before it ends, a call has in its list what it has seen working, and until
\* it has seen something it has asked the providers in their order.
AtStage ==
  CASE call = "saved" -> entry \in {"get", "check"} /\ NoList
    [] call = "proxyscrape" -> entry \in {"get", "search"} /\ NoList
    [] call = "geonode" ->
         entry # "check" /\ asked = {"proxyscrape"} /\ worked = {} /\ ranked = <<>>
    [] call = "validate" ->
         entry # "check" /\ asked \in {{"proxyscrape"}, Providers} /\ worked = {}
    [] call = "finish" -> ranked # <<>>
    [] call = "idle" ->
         /\ returned # Raised =>
              returned = IF ranked = <<>> THEN None ELSE Head(ranked)
         /\ returned = None /\ entry # "none" =>
              worked = {} /\ (entry = "check" \/ asked = Providers)

SearchInv ==
  /\ call \in {"idle", "saved", "validate", "finish"} \cup Providers
  /\ worked \subseteq Normalized(Rows) /\ candidates \subseteq Normalized(Rows)
  /\ ranked \in Seq(Normalized(Rows)) /\ ToSet(ranked) \subseteq worked
  /\ AtStage

LEMMA NormalizedFinite ==
  IsFiniteSet(Normalized(Rows)) /\ Normalized(Rows) \cap {None, Raised} = {}
  <1> DEFINE All == {NormalizeProxyAddress(t) : t \in Rows}
             f == [t \in Rows |-> NormalizeProxyAddress(t)]
  <1>1. f \in Surjection(Rows, All)
    BY DEF Surjection
  <1>2. IsFiniteSet(All)
    BY <1>1, RowsAssumption, FS_Surjection
  <1>3. Normalized(Rows) \subseteq All /\ Normalized(Rows) \cap {None, Raised} = {}
    BY DEF Normalized
  <1> QED
    BY <1>2, <1>3, FS_Subset

\* A list ranked from a set of addresses is a list of them, empty when the set is.
LEMMA RankedFrom ==
  ASSUME NEW W \in SUBSET Normalized(Rows), NEW s \in SetToSeqs(W)
  PROVE  /\ s \in Seq(Normalized(Rows)) /\ ToSet(s) \subseteq W
         /\ s = <<>> <=> W = {}
  <1>1. IsFiniteSet(W) /\ Cardinality(W) \in Nat /\ (Cardinality(W) = 0 <=> W = {})
    BY NormalizedFinite, FS_Subset, FS_CardinalityType, FS_EmptySet
  <1>2. s \in [1 .. Cardinality(W) -> W]
    BY DEF SetToSeqs
  <1>3. s \in Seq(W) /\ Len(s) = Cardinality(W)
    BY <1>1, <1>2
  <1>4. s \in Seq(Normalized(Rows))
    BY <1>3
  <1>5. ToSet(s) \subseteq W
    BY <1>2 DEF ToSet
  <1> QED
    BY <1>1, <1>3, <1>4, <1>5

\* Whatever a provider replies, its candidates are normalized rows.
LEMMA CandidatesAreNormalized ==
  ASSUME NEW provider \in Providers, NEW r \in Replies(provider)
  PROVE  Candidates(provider, r) \subseteq Normalized(Rows)
  <1>1. CASE provider = "proxyscrape"
    <2>1. ToSet(r) \subseteq Rows
      BY <1>1 DEF Replies, BoundedSeq, SeqOf, ToSet
    <2> QED
      BY <1>1, <2>1 DEF Candidates, ScrapeCandidates, Normalized
  <1>2. CASE provider = "geonode"
    <2>1. ToSet(r) \subseteq GeonodeRecords
      BY <1>2 DEF Replies, BoundedSeq, SeqOf, ToSet
    <2>2. {x.text : x \in {y \in ToSet(r) : y.supported}} \subseteq Rows
      BY <2>1 DEF GeonodeRecords
    <2> QED
      BY <1>2, <2>2 DEF Candidates, GeonodeCandidates, Normalized
  <1> QED
    BY <1>1, <1>2 DEF Providers

LEMMA SearchInit == Init => SearchInv
  <1> SUFFICES ASSUME Init PROVE SearchInv
    OBVIOUS
  <1>1. ToSet(ranked) = {}
    BY DEF Init, ToSet
  <1> QED
    BY <1>1, ResultsAssumption DEF Init, SearchInv, AtStage

\* The steps that test addresses: what works is the list, and nothing works when
\* the list is empty.
LEMMA RankStep ==
  ASSUME SearchInv, NEW W \in SUBSET Normalized(Rows), Rank(W)
  PROVE  /\ worked' = worked \cup W /\ worked' \subseteq Normalized(Rows)
         /\ ranked' \in Seq(Normalized(Rows)) /\ ToSet(ranked)' \subseteq worked'
         /\ ranked' = <<>> <=> W = {}
  BY RankedFrom DEF SearchInv, Rank, ToSet

LEMMA SearchStep == SearchInv /\ [Next]_vars => SearchInv'
  <1> SUFFICES ASSUME SearchInv, [Next]_vars PROVE SearchInv'
    OBVIOUS
  <1> USE DEF Providers
  <1>1. ASSUME NEW e \in {"get", "check", "search"}, Begin(e)
        PROVE  SearchInv'
    <2>1. /\ asked' = {} /\ worked' = {} /\ ranked' = <<>> /\ candidates' = candidates
          /\ \/ e = "search" /\ call' = "proxyscrape"
             \/ e # "search" /\ call' = "saved"
          /\ entry' = e
      BY <1>1 DEF Begin, Cleared
    <2>2. ToSet(ranked)' = {}
      BY <2>1 DEF ToSet
    <2>3. AtStage'
      <3>1. CASE e = "search"
        BY <2>1, <3>1 DEF AtStage, NoList
      <3>2. CASE e # "search"
        BY <2>1, <3>2 DEF AtStage, NoList
      <3> QED
        BY <3>1, <3>2
    <2> QED
      BY <2>1, <2>2, <2>3 DEF SearchInv
  <1>2. ASSUME CheckSaved PROVE SearchInv'
    <2>1. call = "saved" /\ worked = {} /\ asked = {} /\ entry \in {"get", "check"}
      BY <1>2 DEF CheckSaved, SearchInv, AtStage, NoList
    <2>2. PICK W \in SUBSET Normalized(Rows) :
            /\ Rank(W)
            /\ IF W # {} THEN call' = "finish" /\ UNCHANGED returned
               ELSE IF entry = "check" THEN Return(None)
               ELSE call' = "proxyscrape" /\ UNCHANGED returned
      BY <1>2 DEF CheckSaved
    <2>3. UNCHANGED <<entry, candidates, asked>>
      BY <1>2 DEF CheckSaved
    <2> QED
      BY <2>1, <2>2, <2>3, RankStep, ResultsAssumption
      DEF SearchInv, AtStage, NoList, Return
  <1>3. ASSUME CheckRaises PROVE SearchInv'
    BY <1>3, ResultsAssumption DEF CheckRaises, Return, SearchInv, AtStage, ToSet
  <1>4. ASSUME NEW provider \in Providers, Fetch(provider) PROVE SearchInv'
    <2>1. /\ call = provider /\ asked' = asked \cup {provider}
          /\ candidates' \subseteq Normalized(Rows) /\ ranked' = <<>>
          /\ UNCHANGED <<entry, worked>>
      BY <1>4, CandidatesAreNormalized DEF Fetch, Cleared
    <2>2. /\ worked = {} /\ entry # "check"
          /\ asked = IF provider = "geonode" THEN {"proxyscrape"} ELSE {}
      BY <2>1 DEF SearchInv, AtStage, NoList
    <2>3. \/ call' = "validate"
          \/ provider = "proxyscrape" /\ call' = "geonode"
          \/ provider = "geonode" /\ call' = "idle" /\ returned' = None
      BY <1>4 DEF Fetch, NothingFrom, AfterProvider, Return
    <2>4. ToSet(ranked)' = {}
      BY <2>1 DEF ToSet
    <2> QED
      BY <2>1, <2>2, <2>3, <2>4, ResultsAssumption DEF SearchInv, AtStage, NoList
  <1>5. ASSUME NEW provider \in Providers, FetchRaises(provider) PROVE SearchInv'
    BY <1>5, ResultsAssumption DEF FetchRaises, Return, SearchInv, AtStage, ToSet
  <1>6. ASSUME Validate PROVE SearchInv'
    <2>1. /\ worked = {} /\ entry # "check"
          /\ asked \in {{"proxyscrape"}, {"proxyscrape", "geonode"}}
      BY <1>6 DEF Validate, SearchInv, AtStage
    <2>2. PICK W \in SUBSET candidates :
            /\ Rank(W)
            /\ IF Fruitless(W) THEN NothingFrom(LastAsked)
               ELSE call' = "finish" /\ UNCHANGED returned
      BY <1>6 DEF Validate
    <2>3. UNCHANGED <<entry, candidates, asked>>
      BY <1>6 DEF Validate
    <2>4. W \in SUBSET Normalized(Rows)
      BY DEF SearchInv
    <2>5. \/ W # {} /\ call' = "finish"
          \/ W = {} /\ asked = {"proxyscrape"} /\ call' = "geonode"
          \/ W = {} /\ asked = Providers /\ call' = "idle" /\ returned' = None
      BY <2>1, <2>2 DEF Fruitless, NothingFrom, AfterProvider, LastAsked, Return
    <2> QED
      BY <2>1, <2>2, <2>3, <2>4, <2>5, RankStep, ResultsAssumption
      DEF SearchInv, AtStage
  <1>7. ASSUME Finish PROVE SearchInv'
    <2>1. ranked # <<>> /\ Head(ranked) \in Normalized(Rows)
      BY <1>7 DEF Finish, SearchInv, AtStage
    <2>2. Head(ranked) \notin {None, Raised}
      BY <2>1, NormalizedFinite
    <2> QED
      BY <1>7, <2>1, <2>2 DEF Finish, Return, SearchInv, AtStage, ToSet
  <1>8. ASSUME FinishRaises PROVE SearchInv'
    BY <1>8, ResultsAssumption DEF FinishRaises, Return, SearchInv, AtStage, ToSet
  <1>9. ASSUME UNCHANGED vars PROVE SearchInv'
    BY <1>9 DEF vars, SearchInv, AtStage, NoList, ToSet
  <1> QED
    BY <1>1, <1>2, <1>3, <1>4, <1>5, <1>6, <1>7, <1>8, <1>9 DEF Next

LEMMA SearchCorrect == Spec => []SearchInv
  BY SearchInit, SearchStep, PTL DEF Spec

\* A call that returns None has asked every source it may ask, and nothing it
\* tested works: for replies of any length, whatever of them is usable.
THEOREM NoneIsExhaustive == Spec => []NoneMeansNothingWorks
  <1>1. SearchInv => NoneMeansNothingWorks
    BY DEF SearchInv, AtStage, NoneMeansNothingWorks
  <1> QED
    BY <1>1, SearchCorrect, PTL

\* rankedProxyList is the last call's own, and what it returned comes first.
THEOREM RankedListIsOwn == Spec => []RankedListIsOfThisCall
  <1>1. SearchInv => RankedListIsOfThisCall
    BY DEF SearchInv, AtStage, RankedListIsOfThisCall
  <1> QED
    BY <1>1, SearchCorrect, PTL

\* For any finite set of texts, what a lookup handles is normalized for good, and
\* two names of one endpoint differ in the dots behind the host only.
THEOREM NamesAreUniqueButForDots == Spec => []NamesDifferInDotsOnly
  <1>1. SearchInv => NamesDifferInDotsOnly
    <2> SUFFICES ASSUME SearchInv, NEW p \in Names, NEW q \in Names
                 PROVE  /\ NormalizeProxyAddress(p) = p
                        /\ Endpoint(p) = Endpoint(q) /\ p.host.dots = q.host.dots
                             => p = q
      BY DEF NamesDifferInDotsOnly
    <2>1. p \in Normalized(Rows) /\ q \in Normalized(Rows)
      BY DEF SearchInv, Names
    <2> QED
      BY <2>1, RowsAssumption, NormalizedIsUnique
  <1> QED
    BY <1>1, SearchCorrect, PTL

\* Geonode is asked only after ProxyScrape and only while nothing has worked.
THEOREM FallbackComesLast == Spec => GeonodeIsLastResort
  <1>1. ASSUME SearchInv, [Next]_vars, "geonode" \in asked' \ asked
        PROVE  "proxyscrape" \in asked /\ worked = {}
    <2>1. PICK provider \in Providers :
            call = provider /\ asked' = asked \cup {provider}
      BY <1>1 DEF Next, vars, Begin, CheckSaved, CheckRaises, Fetch, FetchRaises,
                  Validate, Finish, FinishRaises
    <2>2. call = "geonode"
      BY <1>1, <2>1
    <2> QED
      BY <1>1, <2>2 DEF SearchInv, AtStage
  <1>2. SearchInv /\ [Next]_vars =>
          [("geonode" \in asked' \ asked) => "proxyscrape" \in asked /\ worked = {}]_vars
    BY <1>1
  <1> QED
    BY <1>2, SearchCorrect, PTL DEF Spec, GeonodeIsLastResort
=============================================================================
