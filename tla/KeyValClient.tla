------------------------------ MODULE KeyValClient ------------------------------
(***************************************************************************)
(* How core/proxy/key_val_store_proxy reads the reply of a KeyVal server   *)
(* to a get and what the service makes of it.  The server is external: it  *)
(* holds one entry and answers in one of the forms its samples and the     *)
(* client's code know, or not at all.  Something between the two, a        *)
(* gateway or a captive portal, may answer instead of the server, with a   *)
(* page or an error of its own.  The replies to a set are told apart in    *)
(* TranslationCounter (WriteReplies), where the write takes effect.        *)
(*                                                                         *)
(* A definition no action uses is the next one with a plausible mistake.   *)
(***************************************************************************)
EXTENDS Integers

CONSTANTS
  Numbers,   \* the counts of a run
  None,      \* Python's None: no value, no status
  Absent,    \* the server has no entry
  Empty,     \* the entry, or the body of a reply, is an empty string
  Null,      \* the entry is the word "null"
  Text       \* any text that is neither a number nor empty nor "null"

Entries == Numbers \cup {Empty, Null, Text}

\* The texts are told apart, and None is no text.
ASSUME ValuesAssumption ==
  /\ {Empty, Null, Text} \cap Numbers = {}
  /\ Empty # Null /\ Empty # Text /\ Null # Text
  /\ Absent \notin Entries
  /\ None \notin Entries
  /\ None \notin {"SUCCESS", "-KEY-DOESNT-EXISTS-", "-ERROR-"}

VARIABLES
  held,      \* the server's entry
  asked,     \* "get" after a get, "none" when the entry has changed since
  reply      \* the reply to the last get

vars == <<held, asked, reply>>

(* The forms of a reply.  A dict has a status, None for no status, and a val *)
(* that can be None (null) or missing, when the client sees the whole text.  *)
Failure(kind) == [kind |-> kind]
HttpError(code) == [kind |-> "http_error", code |-> code]
Plain(text) == [kind |-> "plain", text |-> text]
Dict(status, val) == [kind |-> "dict", status |-> status, val |-> val]

\* A 404 that is not the server's word on the key, or a body cut off.
Lookalikes == {HttpError(404), Plain(Empty)}

\* The server's own failures, and what something else may answer instead.
Failures ==
  {Failure("unreachable"), Failure("undecodable"), HttpError(500),
   Dict("-ERROR-", None), Dict(None, Text), Plain(Text)} \cup Lookalikes

\* What the server may answer to a get.
GetReplies ==
  Failures \cup
  IF held = Absent
  THEN {Dict("-KEY-DOESNT-EXISTS-", None), Dict(None, None)}
  ELSE {Dict("SUCCESS", held), Plain(held)}

Error == [outcome |-> "error"]
Raised == [outcome |-> "raised"]

\* _extractValueAndStatusFromResponse
Value(r) == IF r.kind = "dict" THEN r.val ELSE IF r.text = Empty THEN None ELSE r.text
Status(r) == IF r.kind = "dict" THEN r.status ELSE None

\* _sendGetRequest lets an undecodable body out as it is.
SendGetRequest(r) ==
  CASE r.kind = "undecodable" -> Raised
    [] r.kind \in {"unreachable", "http_error"} -> Error
    [] OTHER -> [outcome |-> "reply"]

ProviderError(r) == Status(r) \notin {None, "SUCCESS", "-KEY-DOESNT-EXISTS-"}

GetValue(r) ==
  LET found(v) == [outcome |-> "value", exists |-> v \notin {None, Empty}, value |-> v]
  IN  IF r.kind = "http_error" /\ r.code = 404 THEN found(None)
      ELSE IF SendGetRequest(r).outcome # "reply" THEN SendGetRequest(r)
      ELSE IF Status(r) = "-KEY-DOESNT-EXISTS-" THEN found(None)
      ELSE IF ProviderError(r) THEN Error
      ELSE found(Value(r))

\* readProxyTranslationCountState: the source of the count.
CounterSourceLax(r) ==
  LET g == GetValue(r) IN
  IF g.outcome # "value" \/ ~g.exists \/ g.value \notin Numbers THEN "missing" ELSE "keyval"

CounterSource(r) ==
  LET g == GetValue(r) IN
  CASE g.outcome # "value" -> "local-fallback"
    [] g.outcome = "value" /\ (~g.exists \/ g.value = Null) -> "missing"
    [] g.outcome = "value" /\ g.exists /\ g.value \in Numbers -> "keyval"
    [] OTHER -> "local-fallback"

Init ==
  /\ held \in Entries \cup {Absent}
  /\ asked = "none" /\ reply = Failure("unreachable")

Get ==
  /\ asked' = "get"
  /\ reply' \in GetReplies
  /\ UNCHANGED held

\* The entry expires or is set, by this client or another one.
Change ==
  /\ held' \in Entries \cup {Absent}
  /\ asked' = "none"
  /\ UNCHANGED reply

Next == Get \/ Change

Spec == Init /\ [][Next]_vars

-----------------------------------------------------------------------------

\* An error, an unreadable reply or a malformed value never looks like an absent
\* counter, which would be initialized, nor like another number.  Two replies are
\* believed whoever sends them, a 404 and an empty body: they alone can hide an
\* entry.
CounterReadIsSound ==
  asked = "get" =>
    /\ CounterSource(reply) = "missing" =>
         held \in {Absent, Empty, Null} \/ reply \in Lookalikes
    /\ CounterSource(reply) = "keyval" => held \in Numbers /\ GetValue(reply).value = held
=============================================================================
