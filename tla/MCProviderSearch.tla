---------------------------- MODULE MCProviderSearch ----------------------------
(* ProviderSearch with replies of two rows, each from a few texts that differ  *)
(* from a plain address in one or two ways.                                    *)
EXTENDS ProviderSearch

SomeLabels == {"proxy", "net", "1", "2", "999"}
SomeOctets == {"1", "2"}
SuperscriptTwo == {"superscript 2"}

Plain ==
  [scheme |-> "", credentials |-> "none", path |-> FALSE, space |-> "none",
   host |-> [labels |-> <<"proxy", "net">>, upper |-> FALSE, brackets |-> FALSE,
             dots |-> 0],
   port |-> [kind |-> "digits", number |-> 80, zero |-> FALSE]]

Url == [Plain EXCEPT !.scheme = "http", !.path = TRUE]

\* Two endpoints, the first in several spellings with two names, what is no address, and what
\* raises.
SomeRows ==
  {Plain,
   [Plain EXCEPT !.host.upper = TRUE, !.port.zero = TRUE],
   [Plain EXCEPT !.space = "around", !.host.brackets = TRUE],
   Url,
   [Url EXCEPT !.host.upper = TRUE],
   [Plain EXCEPT !.host.labels = <<"1", "2", "1", "999">>],
   [Url EXCEPT !.credentials = "password"],
   [Plain EXCEPT !.host.dots = 1],
   [Plain EXCEPT !.port.number = 70000],
   [Url EXCEPT !.port.kind = "oddDigits"],
   [Plain EXCEPT !.credentials = "user", !.port.kind = "oddDigits"],
   [Plain EXCEPT !.host.labels = <<"1", "2", "superscript 2", "999">>],
   [Url EXCEPT !.host.brackets = TRUE]}
=============================================================================
