----------------------------- MODULE ProviderSearch -----------------------------
(***************************************************************************)
(* Where a lookup looks: the saved list, then core/proxy/proxy_scrape_proxy, *)
(* then core/proxy/geonode_free_proxy_list_proxy, each only when the one    *)
(* before gave no working proxy, and what the lookup leaves in             *)
(* rankedProxyList.  The counter, the saving of the list and the passes of  *)
(* health checks have modules of their own; here a set of candidates has   *)
(* some subset that works.  A text is a row, or ip:port of a Geonode record. *)
(*                                                                         *)
(* A definition no action uses is the next one with a plausible mistake.   *)
(***************************************************************************)
EXTENDS AddressFormat

CONSTANTS
  Rows,        \* the texts that replies and saved lists are made of
  MaxRows      \* bound: rows of a reply

ASSUME RowsAssumption == Rows \subseteq Texts /\ IsFiniteSet(Rows)

Normalized(texts) == {NormalizeProxyAddress(t) : t \in texts} \ {None, Raised}

\* A Geonode record names its protocols, of which the client supports some or
\* none; one without an address is like one that supports none.
GeonodeRecords == [text : {t \in Rows : ~t.path}, supported : BOOLEAN]

Providers == {"proxyscrape", "geonode"}

VARIABLES
  call,        \* what the running call does next, "idle" between calls
  entry,       \* the method that was called: "get", "check" or "search"
  reply,       \* the rows or records of the last provider's reply
  candidates,  \* the addresses about to be validated
  ranked,      \* rankedProxyList
  returned,    \* what the last call returned
  asked,       \* history variable: the providers this call has asked
  worked       \* history variable: the addresses this call has seen working

vars == <<call, entry, reply, candidates, ranked, returned, asked, worked>>

Init ==
  /\ call = "idle" /\ entry = "none" /\ reply = <<>>
  /\ candidates = {} /\ ranked = <<>> /\ returned = None
  /\ asked = {} /\ worked = {}

ClearedNever(list) == list

Cleared(list) == <<>>

\* get() without useSavedProxyBool is search().
Begin(e) ==
  /\ call = "idle"
  /\ entry' = e
  /\ call' = IF e = "search" THEN "proxyscrape" ELSE "saved"
  /\ ranked' = Cleared(ranked)
  /\ asked' = {} /\ worked' = {}
  /\ UNCHANGED <<reply, candidates, returned>>

Return(value) == call' = "idle" /\ returned' = value

\* The list in rankedProxyList is made of what works, in some order.
Rank(working) ==
  /\ worked' = worked \cup working
  /\ ranked' \in SetToSeqs(working)

\* check(): an unreadable, absent, exhausted or used-up list has no usable proxy.
CheckSaved ==
  /\ call = "saved"
  /\ \E working \in SUBSET Normalized(Rows) :
       /\ Rank(working)
       /\ IF working # {} THEN call' = "finish" /\ UNCHANGED returned
          ELSE IF entry = "check" THEN Return(None)
          ELSE call' = "proxyscrape" /\ UNCHANGED returned
  /\ UNCHANGED <<entry, reply, candidates, asked>>

\* A saved list whose reply is not UTF-8, or with an entry that raises.
CheckRaises ==
  /\ call = "saved"
  /\ Return(Raised)
  /\ UNCHANGED <<entry, reply, candidates, ranked, asked, worked>>

ScrapeCandidates(rows) == Normalized(ToSet(rows))

\* Records without a usable address, or without a supported protocol, are skipped.
GeonodeCandidates(records) ==
  Normalized({r.text : r \in {s \in ToSet(records) : s.supported}})

AfterProviderGivesUp(provider) == "none"

\* searchProviderProxyCandidateList returned None: what search() does next.
AfterProvider(provider) == IF provider = "proxyscrape" THEN "geonode" ELSE "none"

NothingFrom(provider) ==
  IF AfterProvider(provider) = "none" THEN Return(None)
  ELSE call' = AfterProvider(provider) /\ UNCHANGED returned

\* A request that fails, a status other than 2xx, and, for Geonode, JSON that
\* is not an object with a list of data, all count as an empty reply.
Replies(provider) ==
  BoundedSeq(IF provider = "proxyscrape" THEN Rows ELSE GeonodeRecords, MaxRows)

TextsOf(provider, rows) ==
  IF provider = "proxyscrape" THEN ToSet(rows) ELSE {r.text : r \in ToSet(rows)}

Candidates(provider, rows) ==
  IF provider = "proxyscrape" THEN ScrapeCandidates(rows) ELSE GeonodeCandidates(rows)

\* The usage history and the candidate limit leave some of the reply's addresses.
Fetch(provider) ==
  /\ call = provider
  /\ asked' = asked \cup {provider}
  /\ reply' \in {r \in Replies(provider) :
                 \A t \in TextsOf(provider, r) : ~Raises(t)}
  /\ candidates' \in SUBSET Candidates(provider, reply')
  /\ ranked' = Cleared(ranked)
  /\ IF candidates' = {} THEN NothingFrom(provider)
     ELSE call' = "validate" /\ UNCHANGED returned
  /\ UNCHANGED <<entry, worked>>

\* The reply is not UTF-8, or has a row that raises: no except clause between
\* here and the caller of the lookup takes a ValueError.
FetchRaises(provider) ==
  /\ call = provider
  /\ asked' = asked \cup {provider}
  /\ reply' \in {<<>>} \cup {r \in Replies(provider) :
                             \E t \in TextsOf(provider, r) : Raises(t)}
  /\ Return(Raised)
  /\ UNCHANGED <<entry, candidates, ranked, worked>>

FruitlessAlways(working) == TRUE

Fruitless(working) == working = {}

LastAsked == IF "geonode" \in asked THEN "geonode" ELSE "proxyscrape"

Validate ==
  /\ call = "validate"
  /\ \E working \in SUBSET candidates :
       /\ Rank(working)
       /\ IF Fruitless(working) THEN NothingFrom(LastAsked)
          ELSE call' = "finish" /\ UNCHANGED returned
  /\ UNCHANGED <<entry, reply, candidates, asked>>

\* The counter is reset or read, the list saved, the use recorded; the first
\* of the ranked list is returned.
Finish ==
  /\ call = "finish"
  /\ Return(Head(ranked))
  /\ UNCHANGED <<entry, reply, candidates, ranked, asked, worked>>

\* The reply to one of the KeyVal writes is not UTF-8.
FinishRaises ==
  /\ call = "finish"
  /\ Return(Raised)
  /\ UNCHANGED <<entry, reply, candidates, ranked, asked, worked>>

Next ==
  \/ \E e \in {"get", "check", "search"} : Begin(e)
  \/ CheckSaved \/ CheckRaises
  \/ \E provider \in Providers : Fetch(provider) \/ FetchRaises(provider)
  \/ Validate
  \/ Finish \/ FinishRaises

Spec == Init /\ [][Next]_vars

-----------------------------------------------------------------------------

\* Geonode is asked only as a fallback: ProxyScrape was asked before in the same
\* call and nothing that call has tested works.
GeonodeIsLastResort ==
  [][("geonode" \in asked' \ asked) => "proxyscrape" \in asked /\ worked = {}]_vars

\* A call that returns None has tried everything: both providers, unless it was
\* check(), and no proxy it tested worked.
NoneMeansNothingWorks ==
  call = "idle" /\ returned = None /\ entry # "none" =>
    worked = {} /\ (entry = "check" \/ asked = Providers)

\* Previous ranked results are cleared on each lookup: after a call that did
\* not raise, the ranked list is its own and is empty exactly when it found no
\* proxy, and the proxy it returned comes first.
RankedListIsOfThisCall ==
  call = "idle" /\ returned # Raised =>
    /\ ToSet(ranked) \subseteq worked
    /\ returned = IF ranked = <<>> THEN None ELSE Head(ranked)

Endpoint(p) == <<p.host.labels, p.port.number>>

Names == candidates \cup ToSet(ranked) \cup worked

\* Whatever spellings two providers and the saved list use, the names by which
\* a lookup tests, ranks and returns proxies are stable when the health check
\* and the next lookup normalize them again, and two names of one endpoint
\* differ in the dots behind the host and in nothing else.
NamesDifferInDotsOnly ==
  \A p, q \in Names :
    /\ NormalizeProxyAddress(p) = p
    /\ Endpoint(p) = Endpoint(q) /\ p.host.dots = q.host.dots => p = q

\* Malformed data from the first provider leads to the second, not to an
\* exception.
MalformedReplyFallsBack ==
  [][(call = "proxyscrape" /\ call' = "idle") => returned' # Raised]_vars
=============================================================================
