# NAAS: models, checks and proofs

NAAS (Normalized Adaptive Access System) takes login events from OIDC, SAML
and LDAP, stores them, and reconciles the identity attributes they carry into
one schema. Two stages of its pipeline are implemented: event-ingestion and
identity-normalization; a demo client drives them. This directory holds TLA+
models of both stages, of the stores they share, of the LDAP enrichment, of the
attribute resolution and of the demo client; TLC
configurations that check them on small instances; and TLAPS proofs of their
safety properties for every value of the constants.

`PROJECT.json` is the index: components, runs, the lines each definition
models, the hazards, the findings and the theorems.

## 1. Inventory

### Parts of the system

| Part | Keeps | Does | Module |
|---|---|---|---|
| event-ingestion (`services/event-ingestion/app`) | nothing between requests | `POST /events/ingest`, `/ingest/bulk`: validate, insert all rows in one transaction, then one XADD per record, best effort, then 202 | `EventIngestion` |
| identity-normalization consumer (`consumer.py`, `main.py`, `repository.py`) | the batch it has read | create the group, XREADGROUP `>`, and per message: normalize, UPDATE the row, XADD `normalized_events`, XACK; any exception leaves the message pending | `NormalizationConsumer` |
| shared stores (`shared/naas_shared`, PostgreSQL, Redis) | table `events`, streams `login_events` and `normalized_events`, the consumer group and its Pending Entries List | the commands the services send | `NaasStore` |
| normalization service (`service.py`) | the flag `_ldap_connection_degraded` | decide whether to enrich, map the outcome, gather the sources of each attribute | `LdapEnrichment`, `AttributeResolution` |
| LDAP adapter (`adapters/ldap.py`) | the pool of connections, the entries `ldap_enrichment:<value>` in Redis | look up the cache, search the directory through the pool, write the cache | `LdapEnrichment` |
| adapters and canonical values (`adapters/*.py`, `normalization_values.py`) | nothing | claims to unified attributes | `AttributeResolution` |
| resolution (`resolution.py`, `normalization_config.py`) | the configuration | pick a value and a confidence for each attribute | `AttributeResolution` |
| lifecycle, health, middleware, logging, settings | nothing a property depends on | startup and shutdown of the consumer; `GET /health` | `NormalizationConsumer` (startup and shutdown), `DemoPipeline` (the probes, as the client meets them) |
| demo client (`demo/demo_normalization.py`) | the ids it submitted, the results it polled | check the services, post six logins, poll the table, verify the results, render them, delete its rows | `DemoClient`, `DemoPipeline` (the process), `DemoVerification` (the scenes and the checks) |
| designed services (signal-enrichment, risk-evaluator, ...) | | no code | not modelled |

### How they interact

    client --POST--> event-ingestion --INSERT--> events (PostgreSQL)
                            |                        ^
                            +--XADD--> login_events  | UPDATE
                                           |         |
                                     XREADGROUP      |
                                           v         |
                             identity-normalization -+--XADD--> normalized_events
                               |            |
                     GET/SETEX v            v search, through the pool
                     ldap_enrichment:*   OpenLDAP

    demo client --GET /health--> both services
                --POST---------> event-ingestion
                --SELECT, DELETE--> events (PostgreSQL), behind the services' back

Replicas of identity-normalization share one consumer group (the consumer name
is the host name), the row of each event, the cache and the directory. Each
replica handles one message at a time in one asyncio task; a step of a model
ends where the code awaits.

### What is hard

* Two stores and no transaction across them: a row without a message, a message
  without a row, a normalized row that was never announced.
* Consumers that stop between reading and acknowledging; replies that are
  lost; a stream that is capped, and whose key Redis may evict
  (`allkeys-lru`), with the group in it.
* Several replicas on one group: ownership of a message and order.
* The cache is written some time after the search: two replicas, an edit of
  the directory in between, an entry that expires.
* The pool hands out connections that died while nobody used them, and must get
  a slot back on every path.
* A client that deletes rows while the services work on them: its DELETE can
  come before, between and after a replica's UPDATE and XADD, and its deadlines
  race the writes it waits for.
* Confidence arithmetic that must stay in the range the model classes accept,
  over every configuration the loader accepts.

### What makes each part correct

* ingestion: a 202 means every row is stored; a 4xx or 5xx means nothing was
  published; a row exists before its message (`AcceptedIsStored`,
  `RefusedNeverPublished`, `StreamEntryHasRow`).
* consumer: a message is acknowledged only after its row is written and
  announced, is held by one replica, and is always pending, acknowledged or
  known to be lost (`AckedIsDone`, `OneOwner`, `EntriesAccounted`); it is
  attempted at most once (`AttemptedOnce`); a failing message does not stall the
  rest (`WaitingIsRead`).
* both together: the row is written once and the announcement is a copy of it
  (`ImplementsLedger`); what the cap evicts unread is left raw, and without
  failures nothing else is (`OnlyEvictionLeavesRaw`).
* enrichment: what is cached, and what a login is given, is what the directory
  held within the lifetime of an entry (`CacheIsRecent`), and each call is
  answered once, with that or with a reason (`ImplementsContract`); no slot is lost (`SlotsConserved`); every call
  returns (`EnrichmentEnds`); a replica stays degraded only as long as it has
  no live answer (`DegradedRecovers`).
* resolution: it does not raise, it explains itself, a conflict is never
  more confident than agreement, and the penalty for an unmapped department
  never meets one that was recognized (`SoundConfigNeverRaises`,
  `DetailsExplainValue`, `ConflictNotMoreConfident`, `PenaltyIsForUnmapped`).
* demo client: it deletes its own rows, they stay deleted, and what it leaves
  behind it has said so (`OthersAreKept`, `DeletedStaysDeleted`,
  `LeftoversExplained`); what it shows is what the pipeline announced
  (`ShownIsAnnounced`); its verification passes with what the repository ships
  and only with merged data (`StoryHoldsIffEnriched`, `PassedIsMerged`,
  `DriftIsReported`).

## 2. Modules

| Module | Is |
|---|---|
| `NaasStore` | the shared stores, one operator per command |
| `EventIngestion` | the requests, over `NaasStore` |
| `NormalizationConsumer` | the replicas, over `NaasStore` |
| `Pipeline` | both services composed; the properties and the inductive invariants |
| `EventLedger` | the abstract specification: store, normalize once, announce the row once, complete |
| `MCPipeline` | symmetry for TLC |
| `ServiceProofs` | the steps of `Pipeline` in a few forms; theorems about streams, group and replies, which hold beside a client that deletes rows too |
| `PipelineProofs` | theorems that relate rows, messages and announcements |
| `LedgerProofs` | the theorems for a library that never sends an XADD twice, the refinement of `EventLedger` among them |
| `LdapEnrichment` | cache, pool, degraded flag, directory and time |
| `EnrichmentContract` | the abstract specification: a login is asked about and given what the directory has, what it had lately, or a reason |
| `MCLdap` | symmetry for TLC |
| `LdapEnrichmentProofs` | theorems about `LdapEnrichment` |
| `ContractProofs` | `LdapEnrichment` implements `EnrichmentContract` |
| `AttributeResolution` | extraction, configuration and resolution as operators, and one call of `normalize` |
| `ResolutionProofs` | theorems about `AttributeResolution` |
| `ShippedConfig` | `config/normalization.yaml` |
| `MCResolution` | configurations, logins and directory entries |
| `DemoClient` | a run of the demo client, over `EventIngestion` |
| `DemoPipeline` | the run composed with `Pipeline`; its properties |
| `MCDemo` | two scenes for TLC |
| `DemoProofs` | theorems about `DemoPipeline` |
| `DemoVerification` | the six scenes and `verify_results`, over an instance of `AttributeResolution` for each login |
| `MCScenes` | drifted configurations and directories |
| `ScenesProofs` | theorems about `DemoVerification` |

A definition whose comment says "Seeded fault" is a variant of the definition
that follows, with one plausible mistake in it. No
specification uses it; every property of a passing run is checked to fail when
such a variant takes the place of the definition it varies.

### NaasStore, EventIngestion, NormalizationConsumer

A stream is kept as its whole history, so a message id is an index: `trimmed`
is how much of it Redis no longer holds, `lastDelivered` the position of the
group, `pel` its pending list. `XAddLogin` applies the cap, which
may evict fewer messages than it allows (`MAXLEN ~`); `lost` records, as history, the
messages that left Redis unread or pending. `RedisLosesStream` removes the
key with its group.

A request goes idle, persist, publish, closed. `Persist` inserts all rows of
the batch at once; `PersistFails` covers a commit that failed and a commit
whose answer was lost; `PublishFails` an XADD that failed, or was executed and
its answer lost, either way swallowed by `_safe_publish`; `PublishResend` the
client library sending it once more; `IngestionCrash` ends every request that is under way
(the reply "dropped").

A replica goes down, read, normalize, write, publish, ack. `Start` is the
lifespan handler with `ensure_consumer_group`; `Read` takes up to `ReadCount`
messages; `ReadReplyLost` is an executed XREADGROUP whose reply did not arrive;
`ReadNothing` covers an empty answer and the errors after which the loop sleeps
and goes on, NOGROUP among them; `ProcessingFails` is an exception at any step,
including after the command took effect; `Stop` is a crash or a cancellation.
What `normalize` computes is a choice from `Result`.

### LdapEnrichment

`call[r]` is the call of `normalize` in replica r: where it is, the slot it
took from the pool, the error it is handling, what the search found, and what it
returned. `cache[u]` is the entry with the ticks it has left; `Corrupt` is a
string that is not JSON. `pool[r]` is the queue of slots, each empty, live or
dead. `since[u][v]` is history: the ticks since the directory held v for u.
`DirectoryDown` turns the live connections of every replica into dead ones;
a dead connection raises SERVER_DOWN when it is used, a directory that is away
also a timeout. Each of GET, DEL, SETEX, connect and search may fail.

`EnrichmentContract` is what the rest of `normalize` may rely on, with none of
cache, pool, connections and outages in it. A call ends in one of three ways: with
what the directory has now, up to `MaxLag` ticks, which also clears the degraded
flag; with what it had within the lifetime of a remembered answer, which leaves the
flag alone; or with a reason and no attributes, of which only the connection
errors set the flag. The refinement mapping reads `asked` off the calls that are
under way (`Asked`) and `given` off those that returned (`Given`).

### AttributeResolution

Weights are hundredths, confidences thousandths, so that all quotients of the
instances are exact. The canonical tables are transcribed in full. A claim is a
token under its unified name; `Key` and `Title` are `strip().lower()` and
`strip().title()` on the tokens that occur, and are left open on every other
string. The two do not agree on all of Unicode: a long s is kept by `lower()`
and becomes an S in title case, so `LongSales` is a department outside the
table whose title case is "Sales". It is the one token of that kind; a ligature
or a dotless i behaves alike. A state is one configuration, one
login, one answer of the directory and the result of `normalize`.

### DemoClient, DemoPipeline

The run goes through ingestion, normalization, database (`run_preflight`),
submit and reply (`submit_scenes`), poll, verify, render and cleanup.
`Finally` leaves the try block of `main` for the finally block, `Exit` is a
`sys.exit` outside it. `Post` hands the scene to event-ingestion, which handles
it with the actions of `EventIngestion`; `SubmitFails` may give up a request
the service is still working on. `PollTimesOut` needs only that some row has no
attributes, so the deadline can pass at any point of the pipeline.
An ingestion service that cannot be reached during the preflight is the same
step as one that reports itself unhealthy: both end the run with code 1.
`CheckNormalization` reaches any replica that is not down, whatever its
consumer does: the probe asks PostgreSQL and Redis, not the consumer.
`DeleteEvents` is the one command of the repository that removes rows. It
violates two things that hold of `Pipeline`: a message whose row exists
(`StreamEntryHasRow`), for which `MissingRowIsDeleted` gives the exact
exception, and the finality of a normalized row. Even when nothing fails, the
DELETE can come between a replica's UPDATE and its XADD, since the poll waits
for the row and not for the announcement.

### DemoVerification

`Scene(c, i, found)` instantiates `AttributeResolution` with a configuration, the
login of scene i and what the directory answered, so `verify_results` runs on what the
resolution computes. The six scenes, the two users that the directory knows and
the shipped configuration are transcribed. The state is the sequence of results;
each lookup may fail. `Check1` to `Check7` are the numbered checks of the
function, as sets of scenes that have a problem. Two remarks of its source are
looser in the code than in words: "scalars must be unanimous" in scene 5
(line 622) refuses only `priority`, so an attribute missing from the
directory passes as `single_source`; and "absent detail is a failure, not a
skip" (line 452) is not so for a department missing from scene 2 or a scalar
from scene 5. The model has the code's behaviour.

Of a drifted merge strategy the checks notice what it changes: with strategy
`priority` and a directory that has every group of the token, the groups shown
are those that `union` would show, and the run passes. `DriftIsReported` excludes
exactly that case.

## 3. Runs

Bounds: `MaxFaults`, `MaxCrashes`, `MaxStreamLosses`, `MaxResends`,
`MaxOutages`, `MaxEdits`, `MaxRestarts` and `MaxCorruptions` limit how often
the environment misbehaves; `MaxBatch`, `ReadCount`, `StreamMaxLen`, `PoolSize`
and `CacheTTL` are the code's own limits, made small; `MaxLag` is how many
ticks may pass between the answer of the directory and the SETEX.

| Run | Shows | Instance, and why it is enough |
|---|---|---|
| `requests` | what the client is told agrees with what is stored and published; unless a call failed, a stored event that will never be published belongs to a request whose connection broke (`StrandedIsSignalled`); a single replica announces in the order of the stream | two requests of up to two records, one replica, two failures, a crash, a trimmed stream: a publish can fail in the middle of a batch while the other request goes on |
| `replicas` | no early acknowledgement, one owner, nothing unaccounted for, announcements match rows; what the cap evicts is raw, and without failures no other row is left raw (`OnlyEvictionLeavesRaw`); `Pipeline` implements `EventLedger`; a message that was read is never to be read again (`AttemptedOnce`) | two replicas, three messages, batches of two, a cap of two: a replica can crash inside a batch, the group can be created anew while the other replica still works |
| `progress` | requests are answered; the stream does not stall, and a restart resumes reading after its loss; without failures everything published is completed; what is announced has its row normalized even when an XADD is repeated | one failure, one crash, one repeated XADD and one loss of the stream at any point, two replicas, batches and a cap of two |
| `enrich_cache` | the cache is recent; `LdapEnrichment` implements `EnrichmentContract` | two replicas, one user, two edits, an outage, a corrupt entry, a lifetime of two ticks and a lag of one: an older search can be written after a newer one |
| `enrich_progress` | no slot is lost; each dead connection is met once; calls return; a replica that stays degraded for good is, in the end, served from the cache alone | two replicas on one cache, pools of two, a lifetime of one tick, an outage, a failure, a restart: both slots of a pool can die and be met one after the other, and one replica can keep an entry fresh that the degraded one reads |
| `resolution` | the five properties of section 1 and of the module | five configurations (the shipped one, an empty one, weights at both ends, intersection, a weight above 1), 936 logins (`LongSales` among their departments), up to 217 answers |
| `demo` | the DELETE of the demo client against the pipeline; the run ends; a deleted event's message is still announced and acknowledged | two scenes and another client's request, one replica, two results, a failure and a crash anywhere: a scene can be deleted while its message is normalized, and submission can end between the scenes |
| `scenes` | `verify_results` accepts exactly the runs that tell the story | nine configurations, sixty-five contents of the directory, any subset of the five lookups failing |

Runs that show a disagreement between a document and the code:

| Run | The document | The code |
|---|---|---|
| `crash_resume` | README.md: a service can "crash and resume without losing or duplicating work" | the loop reads only `>`: a batch read before the crash stays pending for good |
| `order_replicas` | ADR-0002: "ordered per-key processing" | two replicas announce two events of one user in reverse |
| `match_dropped` | SPEC_2 5.4: a match is `EnrichmentApplied` | a failing SETEX after the match gives `ldap_search_error` without the attributes |
| `weights` | `normalize()` "NEVER raises" | a weight above 1 passes `load_config` and the confidence is refused |

More disagreements need no run of their own. ADR-0006 says that an unrecognized
`employeeType` is stored as it is; `normalize_employee_type` drops it, as SPEC_2
has it, and so does the model. `_pool_search` says that after a connection
error "the next caller transparently creates a fresh connection"; the queue is
FIFO, so the next caller gets the next dead connection, and
`RefusedAtMostPoolSize` is the bound that holds. `repository.write` says that
the row is "guaranteed to exist"; `MissingRowIsDeleted` is what holds beside
the demo client. `_build_attribute_sources` says that "only non-None, non-empty
values are included" (service.py, line 276); the code tests for None only, so an
empty string is a source like any other (docs/FOLLOWUPS.md, line 33), in the model
too. `normalize_department` says that a value that "was not in the table" has
the penalty, and `_was_department_mapped` that a title-cased one "was NOT in the
map"; the latter asks about the title-cased value, so a claim such as `LongSales`
counts as mapped and has no penalty. `PenaltyIsForUnmapped` is what holds: the
penalty never meets a claim that was recognized, and always a value that is no
canonical name. The root README says that the demo client "by default ... cleans up after itself"; `submit_scenes`
exits before the try block of `main`, so the rows of the scenes it had posted
stay, the one exit without a warning that `LeftoversExplained` excepts. And see `DemoVerification` above.

### Fairness

`Pipeline!Fairness`: weak fairness of the steps of a request, since each of its
awaits ends with an answer or an exception; of the steps of a replica, since the
loop is a `while True` that goes on after every exception; and of the start
of a replica that is down. The last is an assumption on the operator:
docker-compose.yml has no restart policy. No failure is fair, and no property
relies on one.

`LdapEnrichment!FairSpec`: weak fairness of the steps of a call
(OPT_NETWORK_TIMEOUT and OPT_TIMEOUT bound the directory, a broken Redis
connection raises); of the arrival of logins that can be enriched, of time, and
of the end of an outage. `DegradedRecovers` needs the last three: only a live
answer of the directory clears the flag, so it needs a login that the cache does
not answer. With several replicas there may be none: a hit leaves the flag as it
is, so a replica whose users another replica keeps in the cache stays degraded,
and would not log the next outage as its first. The property therefore says that
this is the only way to stay degraded, not that the flag is always cleared.
`EnrichmentEnds` needs none of the three.

`DemoPipeline!DFairness`: that of `Pipeline` for the services, and weak
fairness of the steps of the run: its requests have timeouts of 5 and 10
seconds, its poll has a deadline, a database connection answers or raises, and
the person at the keyboard presses Enter when `--step` asks for it.

## 4. Proofs

Every safety property that a passing run checks is a theorem for every value of
the constants. What the theorems assume of the constants is named in the modules and evaluated by TLC on
every run: `StoreAssumption` and `ConsumerAssumption` (positive limits; NULL, "no
row" and results distinct), `EnrichmentAssumption` (the limits of `LdapEnrichment`),
`ScenesAssumption` (the demo has a scene), and, for the resolution,
`ConfigAssumption`, `LoginAssumption` and `DirectoryAssumption`: what the model
classes of the configuration accept, a protocol that has an adapter, finite
lists of groups. The `ConfigAssumption` of `DemoVerification` also has the weights
between 0 and 1.

### The two services: ServiceProofs, PipelineProofs, LedgerProofs

`ServiceProofs` first brings every action to one of a few forms (`ServiceStep`:
a reply, an appended message, a delivery, a local step of a replica, ...), so
that an invariant is shown per form and not per action (`StepCases`). Three
inductive invariants of `Pipeline` then follow one another.

* `ServiceInv` is about the streams, the group and the processes, not the rows.
  Ownership survives the re-creation of the group only because what a replica
  holds lies below `Frontier`, which never goes back (`GroupInv`,
  `EntriesAccounted`); a request has no answer and no rows before its commit
  (`RequestInv`), and only one that got past its commit, and was not answered
  422 or 500, is on the stream (`PublisherInv`). From it: `TypeOK`,
  `EntriesAccounted`, `OneOwner`, `RefusedNeverPublished`,
  `PendingIsHeldUnlessFailed` and the action property
  `AttemptedOnce`: the code delivers at most once per message, whatever fails and
  however the group is created, which is why `crash_resume` has a message
  that is never completed. As it does not mention rows,
  it also holds beside the demo client, whose DELETE breaks the next one.
* `IInv` adds the rows: a request that publishes has committed (`StoredInv`), and
  the current message of a replica is written from "publish" on and announced at
  "ack" (`WorkerInv`, `WrittenInv`). From it: `StreamEntryHasRow`, `AckedIsDone`,
  `AnnouncedIsNormalized` and `AcceptedIsStored`; with `PassedIsPublished` (without
  a failed call the loop of `_safe_publish` has put on the stream what it has
  passed) also `StrandedIsSignalled`.
* `LedgerInv` holds if the client library never sends an XADD twice
  (`MaxResends = 0`, a hypothesis of these theorems): each event is on the stream
  once (`LogOnce`), and an event that no replica has reached yet is neither
  written nor announced (`Untouched`). Without it a second copy of a message
  would have its row normalized again, which is why the theorems need the
  hypothesis. From it: `AnnouncedMatchesRow`, `NormalizedIsFinal`, with
  `AnnouncedIsBehind` and one replica `AnnouncedInOrder`, with
  `HeldWasDelivered` `OnlyEvictionLeavesRaw` (what the cap takes was in no
  replica's hands, hence untouched), and the refinement
  `ImplementsLedger`: every form of a step is a step of `EventLedger` or changes
  nothing the ledger sees.

### The enrichment: LdapEnrichmentProofs, ContractProofs

`LdapEnrichment!IInv` adds to the properties `FlightIsRecent` (a result on its way
to the cache is as old as its lag, without which a SETEX could write anything),
`HeldNow` (the history agrees with the directory, without which a search could
find something old) and `CallWellFormed`. From it: `TypeOK`, `CacheIsRecent`,
`SlotsConserved` and the action property `DeliveriesAreRecent`, the part of the
contract that is about age.

`RefusedAtMostPoolSize` needs `DeadAreAhead`: while the directory is up, the position
of a dead connection in the queue and the errors so far, the one in use included,
are together at most the size of the pool. It is the FIFO order of the queue that
makes it inductive: every error uses up one position, and the slot it gives back
goes to the end, behind every dead connection that is left.

`EnrichmentKeepsContract` is the refinement, from `IInv`: the step that returns
(`Finished` in one of its forms) is `GiveLive`, `GiveRemembered` or `Refuse` of the
contract, and what it gives is recent by `FlightIsRecent` for a search and by
`CacheIsRecent` for a hit; no other step of a call, and no outage, changes anything
the contract sees. A search that failed is never given as a
missing entry, since `Refuse` is the only step its form can be.

### The resolution: ResolutionProofs

`CallInv` says that a call returns what its login, its configuration and the
answer of the directory determine; all five properties follow from it in one
state. The lemmas under them are about the operators: there are at most two
sources, so the values are one value exactly if the sources agree (`OneValue`);
the winner of a conflict is one of its sources, since a priority list that names
one has a first that does and weights have a maximum (`FirstListed`, `MaxWeight`,
`WinnerIsSource`); the fraction of shared groups is at most 1 (`FractionBound`,
`MergedConfidence`); and a canonical department is in the table under its own
lower-case form, so a recognized claim is found again (`CanonicalIsMapped`,
`RecognizedIsMapped`). The converse is false (section 3). `ConflictNotMoreConfident` needs no range of the weights: a
negative one is refused, or clamped to nothing.

### The demo client: DemoProofs, ScenesProofs

`DInv` is `ServiceInv` with what the run knows: it has noted the ids of the scenes
it posted, and those requests are its own (`RunInv`); only what was noted is
deleted, and all of it unless the run has a reason (`CleanupInv`); a request that publishes has its rows or they
were deleted (`StoredOrDeleted`). From it: `DeletedStaysDeleted`,
`MissingRowIsDeleted`, `OthersAreKept` and `LeftoversExplained`. `ShownInv`, with
`LedgerInv` and so for `MaxResends = 0`, follows a result from the row to the
announcement that may come after the DELETE, and gives `ShownIsAnnounced`.

`StoryInv` says that each result is that of its scene, with what the directory has
exactly if the lookup did not fail, and that the problems are those of the results. `PassedIsMerged`
and `DriftIsReported` follow for every configuration and directory: a conflict in
scene 6 has both sources and shows what its winner says (`SixConflict`), and
groups that are strictly more than the token's are those of both (`SixGroups`).

`StoryHoldsIffEnriched` is about what the repository ships, and its proof is the
calculation of the figures that `verify_results` compares. A scene without an entry
has one source for everything (`AloneDetails`), and its confidence is the weighted sum
of its protocol's weights, less the penalty and the missing type of scene 4
(`AloneFigures`, `FourFigures`): 0.7525, 0.69, 0.8125 and 0.45. In scene 5 the sources
agree and two of three groups are shared (`AliceFigures`, 0.9175); in scene 6 the token
wins the name, the directory the department, and one of three groups is shared
(`DianaFigures`, 0.823). A failed lookup of alice or diana leaves a result that is
not applied, which `Check5` reports; any other failed lookup changes no figure,
since those users have no entry (`StoryOutcomes`).

### Left to TLC

* The properties that need fairness: `HandledIsAnswered`, `WaitingIsRead`,
  `CompletedUnlessFailed`, `EnrichmentEnds`, `DegradedRecovers`, `RunEnds` and
  `DeletedIsAcknowledged`. Liveness and ENABLED are out of the prover's reach.

## 5. Not modelled

* Redis restarts from an append-only file that is synced every second, so it
  may forget its last second. The models have Redis lose the stream as a whole
  or not at all.
* A command in flight when its sender crashes is executed before the crash or
  never.
* The redis client's repetition of an XADD is assumed to be possible, and
  bounded by `MaxResends`.
* The directory closing an idle connection by itself (OpenLDAP's default is
  not to); a connect that straddles an outage.
* A cancellation between taking a slot and giving it back: the process ends
  then, and its pool with it.
* A cache string that is JSON and not an object.
* Rounding of floating point in the confidences.
* The middleware, the logging and the settings keep no state the properties
  are about. Keycloak and the designed services have no code that calls them.
* What the demo client prints: the layout of its panels and tables, and how it
  resolves its options and environment variables.
* The enrichment as steps inside the consumer. A message at "normalize" is held
  by one replica that touches neither the stores of `Pipeline` nor the group
  until it returns, and `EnrichmentEnds` says that it does; `Normalize`,
  `ProcessingFails` and `Stop` at that point are all the outcomes, so the
  product of the two models would show nothing that they do not show apart.

## 6. Plan

Done: the stores, both services and their composition with the ledger; the
enrichment and its contract; the resolution; the demo client, alone, against the pipeline, and its
verification over the resolution; and the theorems of section 4.

Next: a restart of Redis that forgets the last second of both streams, and which
of the theorems survive it.
