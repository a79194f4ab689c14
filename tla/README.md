# A model of n-elastic-ip-pool

TLA+ modules, TLC runs and machine-checked proofs about the proxy pool in
`src/core`. Paths below are relative to the repository; `service` is
`src/core/service/elastic_ip_pool_service.py`.

The pool finds free HTTP proxies, tests them, remembers the ones that work, and
stops using a list after enough translations went through it. Nothing in it
runs in threads, but several processes share two databases (KeyVal for the saved
list and the counter, Firebase for the usage history), every request to them can
fail in several ways, and neither offers a transaction. That is where the
hard behaviour is.

## 1. Inventory

| part | state | operations | talks to |
|---|---|---|---|
| translation counter (`service` 505-628) | one number in KeyVal; per process a local copy and an "unsaved" mark | read, initialize, verify, record a result, reset | KeyVal client, by lookups and by the caller that reports results |
| pool lookup (`service` 150-302) | the saved list in KeyVal; per call the list it read or found | `get`, `check`, `search`, save | counter, validation, history, providers |
| provider search (`service` 222-329, `proxy_scrape_proxy.py`, `geonode_free_proxy_list_proxy.py`) | `rankedProxyList` | fetch from ProxyScrape, else from Geonode; parse | two HTTP services |
| candidate validation (`service` 331-503, 680-800) | the candidates of one call and their timings | parse, filter, test in passes, rank, limit, build the value to save | health check proxy, history |
| usage history (`firebase_proxy_usage_history_repo.py`) | one record per proxy in Firebase; per process a fallback in memory | read, record, mark disabled | Firestore or Realtime Database |
| KeyVal client (`key_val_store_proxy.py`) | none | `getValue`, `setValue`: request, classify the reply | KeyVal server |
| health check proxy | none | `testProxy` | the target URL through a proxy |
| address format helper | none | normalize one row | - |
| configuration (`env_value_helper.py`, constants, `app/key_value_proxy_app.py`) | none | look up limits, level, server | environment, `.env` |
| logging set-up (`logger_level_helper.py`) | `LOGGER` and `DEBUGGING` in `os.environ`, while it runs | level from the environment, configure the library, restore | the logging library |
| verbose service | `finalValueStr`, `lastCacheHitBool` | the same calls with logging | everything above |
| text helpers, pool repo placeholder | none | formatting, hashing | - |

What makes each part correct, and what is hard about it:

- *Counter.* Each result counts once and with its sign; none counts after a
  limit; an absent counter is initialized and nothing else is; only a discovery
  starts again at zero. Reading, adding and writing are three requests, a write
  can be applied without its reply, refused, applied late or acknowledged and
  lost, a read can fail, and a restart forgets the unsaved count.
- *Lookup.* The saved list belongs to the counter's cycle, and an exhausted
  counter keeps the list from being used. The list and the counter are two keys,
  read and written one after the other.
- *Provider search.* The fallback is asked exactly when the first provider gave
  nothing that works, and nothing of an earlier call is left in the result.
- *Validation.* What is returned passed every check, the limits bite in the
  right order, the saved value is as long as it may be.
- *History.* No use is lost, used-up proxies are skipped and disabled, although
  the process can stop or the storage fail between two requests.
- *Storage of the history.* The status says "enabled" only while the records are
  shared, and every use has its history entry, in the database or in memory.
- *KeyVal client.* No failure looks like an absent key. Replies are told apart by their
  form, and something between client and server can answer too.
- *Addresses.* An endpoint has one name, however a provider spells it, except for dots
  behind the host.
- *Start.* Logging is set up by overriding two variables of the host's process, which
  has to get them back, exception or not; the level follows a documented precedence.
- *Verbose service.* A log message reads the counter by a method that can also write
  it, after the proxy was found; it must not write, and not fail the lookup.

The hazards that follow from this are listed, each at its line, in
`PROJECT.json`.

## 2. Modules

| module | models | builds on |
|---|---|---|
| `CounterCycle` | abstract: what the counter promises | - |
| `TranslationCounter` | the counter, any number of processes and failures | instantiates `CounterCycle` |
| `TranslationCounterProofs` | theorems about it | `TranslationCounter`, TLAPS |
| `CounterRefinementProofs` | it implements `CounterCycle` | extends `TranslationCounterProofs` |
| `PoolLookup` | `get`/`check`/`search` with saved list and counter, and the read behind their log message | extends `TranslationCounter` |
| `PoolLookupProofs` | it is the counter plus lists; theorems about both | `PoolLookup`, extends `CounterRefinementProofs` |
| `AddressFormat` | texts and the addresses they are normalized to | - |
| `ProviderSearch` | order of sources, replies, `rankedProxyList` | extends `AddressFormat` |
| `ProviderSearchProofs` | theorems about both | `ProviderSearch`, TLAPS |
| `CandidateValidation` | rows to ranked list to saved value | - |
| `CandidateValidationProofs` | theorems about it | `CandidateValidation`, TLAPS |
| `UsageHistory` | Firebase records of several instances | - |
| `UsageHistoryProofs` | theorems about it | `UsageHistory`, TLAPS |
| `HistoryStorage` | settings, status and history entries around the records | extends `UsageHistory` |
| `HistoryStorageProofs` | it implements `UsageHistory`; status and history are true | extends `UsageHistoryProofs` |
| `KeyValClient` | forms of replies and what the service makes of them | - |
| `ServiceStart` | environment to service, logging set-up, requests | extends `KeyValClient` |
| `ServiceStartProofs` | theorems about both | `ServiceStart`, TLAPS |
| `MC...` | small sets for TLC | the module named after MC |

`PoolLookup` is the composition of the core: its steps are the counter's
actions with the lookup's own variables added. What the counter's module takes as
a choice (a read fails, a write is not stored, a reply raises) is what
`KeyValClient` derives from the form of a reply to a get; what `PoolLookup` and
`ProviderSearch` take as a choice (a list works or not) is what
`CandidateValidation` derives from health checks; what `CandidateValidation` takes
as the set of allowed proxies is what `UsageHistory` computes. The limits the
counter assumes to have the right sign are those `ServiceStart` derives.

Some definitions appear twice, once under a longer name (`CountAfter` and
`CountAfterUnclamped`). No action uses the second form. It is the first with a
mistake a change of the code could make, and substituting it must break the
property named beside it in `PROJECT.json`.

### TranslationCounter

`stored` is the number in the database, `Missing` (no value, null, empty) or
`Malformed` (not an integer). Each worker, one service object in one process, has
`local` (`proxyTranslationCountByKeyDict`), `unsaved`
(`unsavedProxyTranslationKeySet`) and a program counter `pc` that names the next
request; `delta` and `count` are the local variables of a running
`recordSubtitleTranslationResult`. `late` holds writes whose client timed out.

`ReadStates` is `readProxyTranslationCountState` with all its sources
(`keyval`, `missing`, `local`, `local-fallback`). `Save` is
`saveProxyTranslationCount`: local copy first, then the request, whose fate
`WriteReplies` enumerates. `Ensure` is the read of
`ensureProxyTranslationCount`, from a getter (`d = 0`) or a report (`d = 1`,
`-1`), `Initialize` and `Verify` the rest of it, `SaveFeedback` the second half of
a report, `SearchFails`/`SearchFinds` and `Reset` the rediscovery, `Observe` the
eligibility read of `check()`. `WriteRaises` is a reply to a write that is not
UTF-8, for which nothing has an except clause. `Crash` is a restart.

The roles follow the constructor's flags: `Readers` has `useSavedProxyBool` or
`saveWorkingProxyBool`, `Writers` has the latter and a save target. Translation
results that are neither a success nor a proxy failure return at once and are not
a step. Two late writes of the same number count as one; `late` is a set.

### PoolLookup

A list is the number of the discovery that made it. `saved` is the value under
the cache key, `stage` the place of each worker's lookup, `got` its list.
`current` (the list the writer's cycle counts for) and `worn` (lists whose cycle
reached a limit) are history variables. A lookup reads the list, observes the
counter, tests, ensures the counter, serves; a search resets the counter
(`ResetForList`) and only then saves (`SaveList`), as the code does. Late
writes are left to `TranslationCounter` (`LookupAssumption`).

At the levels INFO and DEBUG a `check()` or `search()` that found a proxy ends with
`logSelectedProxyTranslationCount`, that is with the counter's `Ensure(w, 0)`, between
the selection (`Select`) and the return (`LogSelected`; `Verbose` are the workers that
log). The stage is `log` after a saved proxy was served and `announce` after a list was
found. The read may find the counter absent and start to initialize it: after a discovery
it never comes to that (`DiscoveryIsLoggedWithoutWrite`), after a saved proxy it can
(section 4). Other messages read nothing; the one that parses the
saved value catches the error the parser may raise. A save of the list whose reply
cannot be decoded raises out of `SaveList`, with the list stored or not.

### AddressFormat

A text is a record of the ways in which spellings of an address differ: scheme, user
information, path, blanks, case, brackets, dots behind the host, a leading zero of the
port. `Raises`, `Valid` and `Spelling` follow `normalizeProxyAddress` in order; a normalized
address is the text with none of these but the dots, which the code keeps. Hosts in
brackets with colons (IPv6, IPvFuture) are left out: none is an address. Labels come from sets: those the domain pattern
matches, the octets, and those `isdigit()` accepts and `int()` does not.

### ProviderSearch

One service object. Replies are sequences of rows or of Geonode records; a failed
request, another status and malformed JSON are the empty reply, because the code
turns them all into an empty text. A row of ProxyScrape is a text, a Geonode record
has one, its `ip:port`. A reply that is not UTF-8 and a text that `urlsplit` or `int`
rejects raise.

### CandidateValidation

One call, `search` or `check`. Addresses are numbers in the order of their names, so
that ties are broken as the code breaks them. All options vary in the initial
states. The candidates and the ranking are said to be orderings of a set (`Orders`,
`Rankings`): by first row or any, by average timing or any. Averages are rounded as Python's `round` does, half to even. A row is an
address, junk, or one that raises; the syntax behind this is not modelled.

### UsageHistory

Both backends have the same steps: read the record, write it back, add a history
entry; read, write back disabled. `Read`, `RecordRead` and `MarkRead` go to memory
once an instance's storage is off (`recordStorageError`). `seen` is the record an
operation has read and will write back. `cleared` are the proxies a lookup found
usable. Whether the storage was configured is the constant `Configured`.

### HistoryStorage

`setting` is what `__init__` finds: the database type, a credential that is missing,
not base64 of a JSON object or good, a URL or none. `StartStatuses` gives the statuses
`initializeStorage` can end with; the client library may fail (fault `start`). A step of
`UsageHistory` that turns the storage off also sets the status (`recordStorageError`),
and the last request of a use adds the history entry, which may be stored although the
request fails. Both Firebase backends are covered, since they differ in settings only.

### KeyValClient

A get and its reply in each of the forms the client distinguishes: errors, dicts
with and without a status, plain texts, empty bodies. The server is external and known
from the client's code and its samples only. `Failures` are replies that may come
instead of the server's in any state, the two that look like a missing key included
(`Lookalikes`: a 404, an empty body). What the client makes of the replies to a set is
`WriteReplies` in `TranslationCounter`, where the entry's value matters: told that it was
stored or not, with or without it being so. The fault `lie` there is a 2xx reply without
a status, which `setValue` takes for a success whoever sent it.

### ServiceStart

`env` is the environment and file of a process, `process` its `os.environ`. `Construct`
is `buildVerboseElasticIpPoolService` and the constructors, or a direct call of these
with arguments; `OverrideNames`, `ConfigureLibrary` and `RestoreNames` are
`configureLoggingFromEnv`, the second an external call that may raise or set the two
names itself. `EnvValue` and `LogValue` are the two different lookups of the code. Names
that are looked up like the modelled ones are left out. A direct caller who passes a
KeyVal client decides about its token; `Construct` lets direct callers take the
default client. `Request` is a `KeyValClient` step of the service that was built.

## 3. Runs

| run | asks | bounds |
|---|---|---|
| `counter_faults` | types, no count beyond a limit | two full workers, limits 2 and -1, all seven failures |
| `counter_one_writer` | refinement of `CounterCycle`; progress is stored | a writer and a reader, limits 2 and -2, seeds -3, 1, 4; writes fail or go unacknowledged |
| `lookup` | the writer serves no worn list, the other one only after a stale read; list and counter match; only discovery renews | the same roles, three lists, limits 2 and -1 |
| `lookup_faults` | initialization, atomic report, no revival, a message after a discovery writes nothing | both workers log, two lists; lost and false replies, exceptions, restarts |
| `history_alone` | no use or entry lost, used-up skipped, uses bounded, status true | one instance, two proxies, maximum 2, five uses each; eight settings, every storage error |
| `history_shared` | overuse is bounded, used-up is disabled | two instances with restarts, one proxy, maximum 2, six uses |
| `validate` | proven result, no second chance, filled limit, order but for rounding, longest saved value | four addresses, three rows, two passes, timings 0 and 1, result limits 0 (none) and 1, all options |
| `search_providers` | last resort, exhaustive None, own list, names | replies of two rows out of thirteen texts: an endpoint in six spellings with two names, a second endpoint, three that are no address, three that raise |
| `key_val_replies` | no reply is misread as another count, and as a missing one only a 404 or an empty body; start of a service | three numbers, each form of reply; environments that vary the logging names, a limit, or the server |
| `counter_revived` | finding 1 | |
| `lookup_list_not_saved` | finding 2 | |
| `search_malformed` | finding 3 | |

Why these bounds are enough to meet the interesting cases: with limits two steps
from zero a cycle can be below, at and next to a limit on either side, and the
seeds put it beyond one; two workers race on one number whenever one takes a step between two of the
other. For the counter's types, range and refinement the proofs of section 5 lift
the bound on workers; for the history it matters (section 4). Three lists are an old one, the
one that replaces it and one more. Environments vary the names that are looked up together and
leave the others unset, since no definition reads names of two groups. Three rows give duplicates, a limit that
cuts, and, with one address that cannot be saved at all, a list with a gap in
the front or the middle. Timings 0 and 1 in two passes give an average of a half,
which ties with 0. Six uses are past the maximum of two plus the two
instances. The deadlock check is off in `validate` alone: a lookup ends.

Fairness, only in `counter_one_writer` and `history_shared`. Counter: a call that
has begun goes on (`WF` of its next request, each of which has a timeout in the
code), the caller keeps reporting results, and not every write is refused
(`SF_vars(SaveSucceeds)`): the property is about a database that comes back.
History: lookups go on, every proxy is looked up again and again, and a restart
does not always strike at the same request (`SF` per request). Without the last
one a process that dies at the same point every time never marks anything, which is
what the code does.

### What the passing runs say

- Two writers can overwrite each other's count, but never push it past a limit
  (`CountInRange`). With one writer, the setting the documentation asks for, the
  read, sum and write of a report act as one step (`SavesWhatItRead`), through
  restarts and every failure of a write.
- With one writer and honest failures the counter *is* the cycle it promises
  (`RefinesCycle`): reports whose write failed, or was applied unacknowledged,
  count once. A falsely acknowledged write or a failed read breaks this, which is
  why they are not among that run's failures.
- A worker whose lists are saved never serves a worn one (`WornListIsNotServed`);
  finding 2 shows that the proviso is needed. A worker that only reads can, but only
  when a discovery came between its read of the list and its read of the counter, or
  while a writer's progress has not reached the database (`WornListNeedsStaleRead`),
  and only as long as it sees the shared counter at all (section 4).
- A storage error in any place loses no use and counts at most one twice
  (`EveryUseIsCounted`); the process then starts from nothing and still uses a proxy at
  most twice its maximum (`UsesAreBounded`).
- The message about a freshly found proxy never writes the counter
  (`DiscoveryIsLoggedWithoutWrite`), whatever write before it was refused, lost or
  falsely acknowledged; the theorem adds failed reads. That rests on one line: an
  absent counter that could not be verified is marked unsaved (`service` 562), and an
  unsaved one is not read again. The message about a saved proxy can write (section 4).
- Two names of one endpoint differ in the dots behind the host and in nothing else, and a
  name does not change when it is normalized again (`NamesDifferInDotsOnly`).
- Rounding lets a slower proxy precede a faster one only on a tie, which its smaller name
  decides, by a millisecond on average at most, and not at all where there is one timing,
  as in `check()` (`RankedWithinRounding`). `src/README.md` 98 says fastest first.
- Of all replies to a get only a 404 and an empty body can hide an entry that exists
  (`CounterReadIsSound`); a writer then initializes the counter over it. The 404 is
  documented as absence (`src/prompt/0015...md` 236), the empty body is a malformed
  response, which line 94 does not want taken for absence.
- However logging set-up ends, the process has its variables back
  (`EnvironmentIsRestored`).

### Findings

1. `counter_revived`. A fresh process whose counter read fails takes its local
   count, 0, and a report saves 1 or -1 over an exhausted number. The code's
   comment (`service` 601) says that a late result cannot revive a cycle.
2. `lookup_list_not_saved`. `searchProviderProxyCandidateList` resets the counter
   before it saves the list and swallows the error of the save. The worn list
   then stays beside a count of 0 and is served. `src/README.md` 336 says that
   an exhausted counter prevents reuse of the cached list: the counter did exhaust for
   this list, and the reset that came first took that away.
3. `search_malformed`. A ProxyScrape reply that is not UTF-8, or one with a row
   such as `http://[`, raises `ValueError` out of `search()`; Geonode is never
   asked. `src/prompt/0010...md` 10 wants the fallback for malformed data.
## 4. Seen while modelling, without a run of its own

- A worker with `saveWorkingProxyBool=False` marks its counter unsaved with its first
  report, for good, and reads only its own count from then on (`service` 526). It reuses
  the cached list while the shared counter is exhausted, although `src/README.md` 336 says
  that an exhausted shared counter prevents that; lines 378 to 380 say that its feedback
  is kept locally, not that it stops reading. `WornListNeedsStaleRead` is therefore about
  workers that have not reported.
- When the eligibility read of `check()` fails and the proxy works, the read behind the
  log message can find the counter absent and initialize it. `src/prompt/0015...md` 179
  forbids to persist a counter inside a logging method. (When the first read succeeds,
  `check()` itself initializes the counter.)
- `proxy.net:80` and `proxy.net.:80` are one endpoint and two candidates, although
  `src/README.md` 95 says that rows are normalized and deduplicated.
- A 2xx reply to a set without a status, empty or not even from the server, counts as a
  write, and the unsaved mark is removed. `src/README.md` 404 says that `source=keyval` on
  a write means the provider acknowledged the save. `lookup_faults` and `counter_faults`
  include such replies (`lie`); what they cost is the progress of the reports since.

- A worker whose discoveries are not saved reads the list before the counter, and
  serves the worn list when a discovery of the writer comes in between. That is why
  `WornListIsNotServed` is stated for writers.
- `WriteRaises`: a reply to a counter write that is not UTF-8 makes
  `recordSubtitleTranslationResult` raise, against `src/README.md` 383. The
  local count and the unsaved mark are right afterwards.
- Two history instances: a use written back from an old read undoes a mark and can
  lower the count. A later lookup repairs it (`OverusedIsDisabled`).
- Three history instances can exceed the maximum by two and more: one that writes
  from an old read lowers the count, the proxy is found usable again, and an
  instance that holds a higher count then writes it. `OveruseIsBounded` is about
  two.
- After a storage error used-up proxies are selectable from the empty fallback.
  `OverusedIsSkipped` is therefore stated for an instance that still reads the
  storage.
- `src/README.md` 250 and 251 say to leave `KEY_VAL_BASE_URL` blank to keep a run
  local; lines 266 and 267 and the code use the public server then.
- Any four labels of digits match the domain pattern, so the octet check of
  `_isIpv4AddressFormatValid` rejects nothing: `999.1.1.1:80` and `01.2.3.4:80` are
  addresses.
- `FirebaseProxyUsageHistoryRepo` reads `os.environ` only; its settings in `.env` have
  no effect. A second repository in one process gets the Firebase app of the first.
- The level of the verbose service is read from `.env` in the working directory, the
  limits from `envFilePathStr` (`verbose_elastic_ip_pool_service.py` 103-107).

## 5. Proofs

For every set of workers or instances, all limits, seeds and failures, except what
the last column assumes:

| module | theorem | statement | assumes |
|---|---|---|---|
| `TranslationCounterProofs` | `TypeCorrect` | `Spec => []TypeOK` | - |
| | `CountStaysInRange` | `Spec => []CountInRange` | - |
| | `OneWriterIsAtomic` | `SavesWhatItRead` and `InitializesOnlyAbsent` always hold | `OneWriter`, `ReliableReads` |
| | `ExhaustionHolds` | `Spec => ExhaustedStaysExhausted` | the same |
| `CounterRefinementProofs` | `ImplementsCycle` | `Spec => RefinesCycle` | `SoleWriter`, `OnlyWritesFail` |
| `PoolLookupProofs` | `ImplementsCounter` | `SpecLookup => Spec` | - |
| | `LookupTypeCorrect` | `SpecLookup => []TypeOKLookup` | - |
| | `DiscoveryIsOnlyLogged` | `SpecLookup => DiscoveryIsLoggedWithoutWrite` | - |
| | `LookupsInitializeOnlyAbsent` | `SpecLookup => []InitializesOnlyAbsent` | `OneWriter`, `ReliableReads` |
| | `DiscoveryAloneRenews` | `SpecLookup => OnlyDiscoveryRenews` | `SoleWriter`, `OnlyWritesFail` |
| | `ListMatchesCycle` | `SpecLookup => []SavedListMatchesCycle` | the same, `ListIsSaved` |
| | `WornListStaysOut` | `SpecLookup => []WornListIsNotServed` | the same |
| | `WornListIsAcceptedStaleOnly` | `SpecLookup => WornListNeedsStaleRead` | the same |
| `UsageHistoryProofs` | `TypeCorrect` | `Spec => []TypeOK` | - |
| | `UsesAreCounted` | `Spec => []EveryUseIsCounted` | `OneInstance`, `NoRestarts` |
| | `UsedUpIsSkipped` | `Spec => []OverusedIsSkipped` | `OneInstance` |
| | `UsesStayBounded` | `Spec => []UsesAreBounded` | `OneInstance`, `NoRestarts`, `SeedsBounded` |
| | `TwoOveruseByOne` | `Spec => []OveruseIsBounded` | `TwoInstances`, `SeedsBounded` |
| `HistoryStorageProofs` | `ImplementsHistory` | `SpecStorage => Spec` | - |
| | `StatusIsTrue` | `SpecStorage => []EnabledMeansShared` | - |
| | `HistoryStaysComplete` | `SpecStorage => []HistoryIsComplete` | `OneInstance`, `NoRestarts` |
| `ProviderSearchProofs` | `NamesAreUniqueButForDots` | `Spec => []NamesDifferInDotsOnly` | - |
| | `NoneIsExhaustive` | `Spec => []NoneMeansNothingWorks` | - |
| | `RankedListIsOwn` | `Spec => []RankedListIsOfThisCall` | - |
| | `FallbackComesLast` | `Spec => GeonodeIsLastResort` | - |
| `CandidateValidationProofs` | `ReturnedProxiesAreProven` | `Spec => []ResultIsProven` | - |
| | `FailuresAreGivenUp` | `Spec => []NoSecondChance` | - |
| | `LimitsAreFilled` | `Spec => []LimitIsFilled` | - |
| | `RankingErrsByRounding` | `Spec => []RankedWithinRounding` | - |
| | `SavedValuesAreLongest` | `Spec => []SavedValueIsLongest` | - |
| `ServiceStartProofs` | `CounterReadsAreSound` | `Spec => []CounterReadIsSound` | - |
| | `EnvironmentRestored` | `SpecStart => []EnvironmentIsRestored` | - |
| | `LevelAsDocumented` | `SpecStart => []LevelIsDocumented` | - |

All of them use the assumptions the modules name: limits of the right sign
(`LimitsAssumption`; the constructor sees to it), roles included in one another
(`RolesAssumption`), markers that are not numbers (`ValuesAssumption`), known
failures (`FaultsAssumption`), and for the history a proxy to begin with
(`ProxiesAssumption`) and records that are records (`SeedsAssumption`), settings that are
settings (`SettingsAssumption`), and for the search finitely many rows that are texts
(`RowsAssumption`) and results that differ (`ResultsAssumption`), lists that are numbered
(`LookupAssumption`), limits of lists and a time limit that are not negative (`LimitsAreCounts`), sizes that are numbers and a
cap of at least one address (`SizesAssumption`; the constants are 100 and 100), and for the
start of a service environments and arguments of the right form
(`EnvironmentsAssumption`, `ArgumentsAssumption`, `IntOfAssumption`). TLC evaluates each
in every run. `OneWriter` says that
at most one worker writes; `ReliableReads` that neither a failed read nor a late
write is among the failures. Finding 1 shows that the latter cannot be dropped.
`SoleWriter` says that exactly one worker writes, `OnlyWritesFail` that failures
are refused or unacknowledged writes, as in `counter_one_writer`.
`ListIsSaved` says that the save of a list neither fails nor raises once the counter was
reset for it; finding 2 shows that it cannot be dropped. `SeedsBounded` says that
no record starts above the maximum, `TwoInstances` that there are at most two: three can
do more (section 4). `UsesStayBounded` and `UsesAreCounted` are about one
process: a restart empties the memory, and each process may then use a proxy up again.

*Argument.* `CountInRange` is inductive together with `TypeOK`: the count a worker
carries between its read and its write is in range because it was read from a
place that is, and `CountAfterInRange` keeps it there. It has to speak of the late
writes and of every local copy, or a write of one of these would break it.
`SavesWhatItRead` is not inductive: that no one stores between the read and the
write needs that a worker with its pc at `save` or `initialize` is the only writer,
and that what it read was the database's. `WriterInv` adds this; its step lemma
has one case for a step that stores (`StoringStep`: only the writer's own, which
leaves the label) and one for the rest. `ExhaustionHolds` then follows for a single
step: a report at a limit writes what it read.

`ImplementsCycle` maps the cycle's total to `EffectiveCount`, the number the writer
would read now: its own while unsaved, else the database's. Whatever becomes of a
write, that is the number saved (`SavedCountIsEffective`), and taking it over by a
read does not change it (`TakingOverKeepsCount`). `CycleInv` adds that the count
carried to the save is the effective one, and that a zero about to be written, or a
count about to be read back, finds the database as the last step left it. Then
the read of a report is `Begin`, its save `Record`, a search that finds `Discover`,
the reset `NewCycle`, and every other step, of any worker, a stutter.

`UsesAreCounted` needs to know at which request the instance is: `CountInv` says that
while the storage is on the memory is empty and the database has every use except
the one between its read and its write, and that once it is off nothing remote
changes. `UsedUpIsSkipped` needs that the proxy being checked or marked is not
among those already cleared, and that recording clears the set (`SkipInv`).

`UsesStayBounded` (`BoundInv`) counts the two lives of a proxy: while the storage is on
its uses are the remote count, and the count of an instance about to record is below
the maximum; once it is off the remote count stands still and the memory starts at zero.

`TwoOveruseByOne` follows the counts that instances carry from a read to a write. It is
not inductive to say that the stored count is at most one too high: a write from an old
read could lower the count, the proxy would be found usable again, and a second write from
a higher read would pass the limit. `Closed` says when that is over: the count is at the
maximum, and no instance may select the proxy, is about to record it, or is about to write
a lower count with its mark. `HeldInv` says what one instance may carry, and that a count
above the maximum exists only once the proxy is closed; `SharedInv` relates what the two
carry: two that both may still select see a count below the maximum, and so on.
`StepIsOwn` and one lemma per step (`Effects`) reduce each step to what it does to one
instance and one proxy, and `ClosedStays` shows that nothing opens a closed proxy.
With a third instance `SharedInv` has a case that fails, the one of section 4.

`HistoryStaysComplete` needs the counting invariant and where the instance is: the use
counted and not yet listed (`Unlisted`) is the one difference between uses and entries
while the storage is on (`EntryInv`).

`ImplementsCounter` and `LookupTypeCorrect` need `StageInv`, which says at which request a
worker is in each stage of its lookup. `ListMatchesCycle` rests on `ListInv`: between the
reset for a list and its save the saved list may be an older one, at any other time it is
the current one or none, and a lookup that relies on a list relies on the current one.
Workers that do not write leave both keys alone (`OthersKeepList`). `WornListStaysOut` adds
`WornInv`: if the current list is worn, the writer's effective count is at a limit, and
either the number is in the database or the writer keeps it, so that its eligibility read
finds it. That the count stays at the limit comes from the refinement: `ExhaustedStep`
reads it off `CounterCycle`, where only `NewCycle` moves an exhausted count. Readers find the
same number unless it has not been stored (`ReaderRejectsWornList`), which gives
`WornListIsAcceptedStaleOnly`. `DiscoveryAloneRenews` also covers workers that keep their
count to themselves: `CarriesLocal` says that the count a report carries is their own.
`DiscoveryIsOnlyLogged` needs `ReadyInv`: whoever has found and saved a list has marked its
counter unsaved or verified that a number is stored, and nothing deletes a stored number.

The validation's invariant (`ValidationInv`) tells from the list a proxy is in how many
timings it has: one in the queue has one per pass before this one, a survivor one more.
It follows that a proxy is in one of them only, so that a test changes no other proxy's
standing. That candidates are distinct, and as many as the limit says, comes from
orderings of finite sets (`OrderingsOfSet`, `LimitKeepsPlaces`); that the front of the
ranking has lower rounded averages than the rest is `FrontOfOrdering`. What this says of
the timings themselves is `RoundedOrder`: rounding keeps the order and hides a millisecond
at most, because a rounded average is off by half of one at most (`RoundedBounds`), and the sums are numbers (`TotalIsNat`).

The value saved is what a loop leaves, so `SavedValuesAreLongest` needs an induction over
the list. `UpTo` is induction over the places of a list, for a set of places instead of a
predicate, by a least counterexample. `LoopRuns` shows with it that a loop over a list has
a state after each turn, which is what makes the recursive functions in `Total`, `JsonLength`
and `SavedValue` unfold. `SavedRun` is the loop's invariant: up to the first address that
fits alone the list is empty; from there on it is a run from that address, which ended at
the cap, at an address that was too much, or has not ended. What is too much stays so in a
longer run (`LongerRunsAreLonger`).

The start's invariant (`StartInv`) says what the process environment is in each phase:
between override and restoration only the two logging names differ, and their values are
remembered. The configuration is right from `Construct` on and never changed. What a
reply means is shown form by form (`FailuresFallBack`, `EntriesArrive`,
`AbsentIsNoNumber`).

`ImplementsHistory` needs only that each step of the storage is one of the history, so
the theorems about `UsageHistory` carry over. `StatusIsTrue` needs that nothing but a
request that failed writes to memory, and that it turns the storage off in the same step.

The search's invariant (`SearchInv`, `AtStage`) says, for each place of a call, which
providers it has asked and that the list is empty until something works. The names need
no invariant of their own but that all addresses a call holds were normalized:
`NormalizedIsFixed` and `NormalizedIsUnique` are facts about `AddressFormat`.

*Model-checked only.* Liveness under fairness is beyond the prover
(`PendingProgressIsStored`, `OverusedIsDisabled`). All other properties of the passing
runs are proved.

## 6. Not modelled

- URLs, headers, redaction, hashing and the wording of log lines: no property is about
  them. The Sentry options are handed to the logging library as they are.
- The characters of an address, of a `.env` line and of base64: texts, values and
  credentials are of a few kinds each.
- The HTTP request of a health check: its outcome is a choice of `CandidateValidation`.
- The metadata kept of a Geonode record, which nothing reads.
- `update()` called by the user: it stores what it is given. `finalValueStr` and
  `lastCacheHitBool` of the verbose service repeat what a call returned and steer log
  messages.
- Two services built at the same time in two threads, which could each restore what the
  other one had overridden in `os.environ`: the repository starts no threads.
- The registry of Firebase apps and the logging library: external.
- `ip_address_format_helper.py` has no caller; `elastic_ip_pool_repo.py` raises
  `NotImplementedError`.

## 7. Plan

Done: counter, lookup with its log messages, search and addresses, validation, history
with its storage, client, and the start of a service, with their runs, and a proof of
every safety and action property of theirs.

Next, in this order:

1. The replies of a KeyVal server as the choices of `TranslationCounter`: that what the
   client makes of every reply to a get and a set is one of `ReadStates` and
   `WriteReplies`, proved.
2. Model: two deployments with keys of their own in one database.
