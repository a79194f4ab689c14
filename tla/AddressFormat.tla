------------------------------ MODULE AddressFormat ------------------------------
(***************************************************************************)
(* core/helper/proxy_address_format_helper: which texts are proxy addresses *)
(* and how each of them is spelled.  A text is a record of the ways in which *)
(* spellings of one address differ; a normalized address is the text with  *)
(* none of them, but for the dots behind the host, which are kept.  An     *)
(* overlong host is a host with a bad label.  Hosts in brackets are names  *)
(* or numbers; the IPv6 and IPvFuture forms urlsplit accepts there are left *)
(* out, since no address comes of them.                                    *)
(***************************************************************************)
EXTENDS Integers, SequencesExt

CONSTANTS
  DomainLabels,  \* labels _DOMAIN_LABEL_PATTERN matches, numbers among them
  Octets,        \* 0 to 255 without a leading zero
  OddDigits,     \* labels isdigit() accepts and int() rejects
  None,          \* Python's None
  Raised         \* a call that ends with an exception

ASSUME LabelsAssumption ==
  OddDigits \cap (DomainLabels \cup Octets) = {} /\ "" \notin Octets

ASSUME ResultsAssumption == None # Raised

Hosts == [labels : Seq(STRING), upper : BOOLEAN, brackets : BOOLEAN, dots : Nat]

\* The text behind the colon: digits, with a leading zero or not, or something else.
Ports == [kind : {"digits", "oddDigits", "word", "absent"}, number : Nat, zero : BOOLEAN]

\* The user information before an @, with a password behind a colon or without.
Credentials == {"none", "user", "password"}

Texts == [scheme : {"", "http", "https", "ftp"}, credentials : Credentials,
          path : BOOLEAN, space : {"none", "around", "inside"}, host : Hosts, port : Ports]

\* What split(".") gives.
Items(host) == host.labels \o [i \in 1 .. host.dots |-> ""]

IsIpv4(host) == Len(Items(host)) = 4 /\ ToSet(Items(host)) \subseteq Octets

MaxPort == 65535

PortFits(text) ==
  text.port.kind = "digits" /\ text.port.number > 0 /\ text.port.number <= MaxPort

\* Of four items the first that is no octet is one int() rejects.
Ipv4Raises(host) ==
  /\ Len(Items(host)) = 4
  /\ \E i \in 1 .. 4 : /\ Items(host)[i] \in OddDigits
                       /\ \A j \in 1 .. i - 1 : Items(host)[j] \in Octets

IsDomain(host) == Len(host.labels) >= 2 /\ ToSet(host.labels) \subseteq DomainLabels

\* The two forms: an http URL without user information, its path ignored, or
\* something with one colon, the part before it taken as the host.
Splits(text) ==
  /\ text.space # "inside"
  /\ \/ text.scheme \in {"http", "https"} /\ text.credentials = "none"
     \/ text.scheme = "" /\ ~text.path /\ text.credentials # "password"

\* urlsplit rejects a bracketed host that is no IP address, whatever the scheme.
\* The port of a URL takes ASCII digits only; the other form leaves them to int().
Raises(text) ==
  \/ text.space # "inside" /\ text.scheme # "" /\ text.host.brackets
  \/ Splits(text) /\ text.scheme = "" /\ text.port.kind = "oddDigits"
  \/ /\ Splits(text) /\ PortFits(text)
     /\ text.credentials = "none" /\ Ipv4Raises(text.host)

\* A user name before the host makes its first label a bad one.
Valid(text) ==
  /\ Splits(text) /\ PortFits(text)
  /\ text.credentials = "none" /\ (IsIpv4(text.host) \/ IsDomain(text.host))

SpellingWithCase(text) ==
  [scheme |-> "", credentials |-> "none", path |-> FALSE, space |-> "none",
   host |-> [labels |-> text.host.labels, dots |-> text.host.dots,
             upper |-> text.host.upper, brackets |-> FALSE],
   port |-> [kind |-> "digits", number |-> text.port.number, zero |-> FALSE]]

\* f"{hostStr}:{portInt}" of the lowercase host.
Spelling(text) ==
  [scheme |-> "", credentials |-> "none", path |-> FALSE, space |-> "none",
   host |-> [labels |-> text.host.labels, dots |-> text.host.dots,
             upper |-> FALSE, brackets |-> FALSE],
   port |-> [kind |-> "digits", number |-> text.port.number, zero |-> FALSE]]

NormalizeProxyAddress(text) ==
  IF Raises(text) THEN Raised ELSE IF Valid(text) THEN Spelling(text) ELSE None
=============================================================================
