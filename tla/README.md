# A formal model of mijobs

TLA+ modules of the stateful parts of `src/` (the Michigan workforce intelligence
service), TLC runs that check them on small instances, and theorems that TLAPS
checks for every value of the constants. `PROJECT.json` maps each definition to the
lines it models and lists the runs, the mutants that show each property can fail,
the hazards, the findings and the theorems.

Paths below are relative to `src/`, the root of the repository.

- [The system](#the-system): the inventory of its parts
- [The modules](#the-modules): how state and actions correspond to the code
- [The runs](#the-runs): what is checked, bounds, fairness
- [The proofs](#the-proofs): what is proved, from what, along which argument
- [Findings](#findings): where the code disagrees with what is said of it
- [Abstractions](#abstractions-and-what-is-left-out) and what is left out
- [Plan](#plan): what could come next

To run something: `tlc -config MCExchangeTerms.cfg MCExchange.tla`, `tlapm
ExchangeProofs.tla`.

## The system

Two programs share a package and little else. The *evidence side* (`src/mijobs`)
harvests public statistics into an append-only, hash-chained SQLite database and
writes reports from it. The *employer exchange* (`src/mijobs/exchange`) is a small
web service with an encrypted store of its own, in which employers that lose workers
and employers that hire agree on transfers.

| Part | State it keeps | Operations | Interacts with |
|---|---|---|---|
| Exchange service (`exchange/service.py`) | employers, signals, transitions: JSON records in the store | provision, revoke, create and close a signal, list and match, propose, accept / decline / withdraw / started | one store transaction per call; the calendar (`date.today()`) |
| Exchange store (`exchange/store.py`) | SQLite: `records` (encrypted payload, credential digest) and `audit` (chained HMACs) | connect, transaction, verify, authenticate, put, audit, provision | worker threads and their connections; SQLite's write lock; start-up and `/health` run verify |
| Exchange application (`exchange/app.py`) | none of its own, but a rate window per client | `api` dispatches to a thread, `mcp_request` runs two dispatches, `/health` | service and store |
| Evidence repository (`repository.py`, `models.py`, `db.py`) | seven append-only tables; versions per key; triggers that refuse UPDATE and DELETE | `add_*`, `revise_*`, each a flush and an event | SQLAlchemy sessions; the ledger |
| Ledger (`ledger.py`, `canonical.py`) | `ledger_events`, a SHA-256 chain | `append_event`, `verify_ledger`, `audit_evidence_coverage` | called by every repository write; audited before every report |
| Artifact store and ingestion (`artifact_store.py`, `ingestion.py`) | files named by their SHA-256 | `put`; `ingest` = put, record, normalize, observe | the file system shared by processes; the repository |
| Harvest (`harvest.py`, `cli.py`) | the results so far, one session | one task after the other, commit at the end, print a report | connectors, quotas, ingestion |
| HTTP quotas (`sources/http_policy.py`) | SQLite: `requests`, `cooldown` | `reserve`, `block`, event hooks of `governed_client` | every thread and process that fetches; the host's clock |
| Connectors (`sources/*.py`) | none | fetch and parse | providers through `governed_client` |
| Normalizers (`sources/*.py`, `university_reports.py`) | none | file to observations, each with its key | `Ingestor`, which makes versions of what has the same key |
| Insights report (`insights_report.py`) | none; it writes through the repository | audit, two queries, six sections: metric, claim, edge each; commit | repository, audit, other sessions |
| University harvest and report (`university_reports.py`) | none | four ingests between two audits, one commit; audit and five SELECTs | repository, audit, other sessions |
| Epistemics, report context (`epistemics.py`, `reporting.py`) | none | effective status of a claim, traces, context of a report | repository, audit, whoever challenges |
| Analytics (`analytics/*`, `outlook.py`, `economic_context.py`) | none | pure functions on decimals | called by reports and the MCP server |
| MCP server (`mcp_service.py`, `mcp_server.py`) | none | read-only queries, calculators, and `claims_challenge` | repository, audit, a caller that passes results on |
| Manager, deployment (`manager.py`, `deploy/`) | none of its own | docker compose commands, manifests | the operator |
| Release scripts (`scripts/reports.py`, `publish_reports.py`, ...) | GitHub releases | build, replace, publish | a workflow |

### What is hard about it

*Concurrency.* Every exchange request is a thread with its own connection; the only
thing between two of them is `BEGIN IMMEDIATE`. The evidence side relies on the
write lock the first INSERT of a session takes, and reads *before* it: versions are
chosen, and audits made, on a database that may change under them. Quota clients
coordinate through one SQLite file and judge by a clock they read before they wait
for it.

*Failure.* A flush fails after earlier flushes; `append_event` raises after its row
is flushed; `HarvestRunner` catches what a task raises and goes on in the same
session; connection errors are not what it catches; processes die between the
artifact's file, its record and the commit; a store's volume comes back partly old.

*Order.* A signal may be closed, expire, or lose its owner between proposal and
acceptance; several proposals may each fit and together not; answers 429 with
different `Retry-After` arrive in any order; harvests are repeated.

### What makes each part correct

- *Exchange*: accepted and started workers never exceed a signal's headcount on
  either side; an accepted offer is and stays covered by both postings; decisions
  are final; revocation, expiry and closing take effect at once and for good.
- *Exchange store*: requests are atomic and serial; each write has its audit event
  and each audit event its place in one chain; answers are durable; a damaged store
  refuses to go on; nobody keeps the lock.
- *Ledger*: one chain; exactly one event per committed row; versions form one line;
  history only grows.
- *Audit*: an audit that passes was true when it began; one that fails has a cause,
  which may be a transaction committed while it read.
- *Insights report*: what its audit knew, and what is ledgered since, is in the ledger
  before what is computed from it; a figure is the newest there is, a change is one of
  exactly a year.
- *Universities*: a load is committed whole, audited, or not at all; the head hash of
  the report covers what the report cites.
- *Report context*: a claim is not shown stronger than the challenges shown with it;
  every number under it comes with its source.
- *Normalizers*: two cells of a file never share a key, a cell keeps its key in the
  next edition; an award is summed once.
- *Analytics*: people and openings are counted once, flows add up, a score is a mean
  of the signals there are, an outlook is of one series.
- *Harvest*: no record without its file; observations cite what they were read in;
  what is reported is committed; tasks are independent; a repetition adds nothing.
- *Quotas*: spacing, limits in every window, cooldowns honoured by all clients.

The hazards, each at its line with the properties that would catch it, are in
`PROJECT.json`.

## The modules

| Module | Models | Extended or used by |
|---|---|---|
| `Exchange` | what one request does to the records of the exchange | `MCExchange`, `ExchangeProofs` |
| `Placement` | abstract: capacity, bookings, nothing else | refined by `Exchange` (`KeepsPromise`) |
| `ExchangeStore` | the threads, transactions, lock, chain, crashes and probes under those requests | `MCExchangeStore`, `StoreProofs` |
| `AuditedStore` | abstract: one request at a time, each with its trace in a journal | refined by `ExchangeStore` (`RequestsAtomic`) |
| `EvidenceLedger` | sessions, rows, versions, the event chain | `EvidenceAudit`, `Harvest`, `MCEvidenceLedger`, `LedgerProofs`, and all that extends these |
| `HistoryLog` | abstract: a history that only grows, in versions | refined by `EvidenceLedger` (`HistoryGrows`) |
| `EvidenceAudit` | the coverage audit beside writers; `AuditSpec` is also the abstract specification of a command that audits | `InsightsReport`, `UniversityEvidence`, `ReportContext` |
| `InsightsReport`, `UniversityEvidence`, `ReportContext` | the commands that audit and then read or write | `Reporting` |
| `Reporting` | one of those commands beside a harvest and an analyst | `Mijobs`, `AuditProofs`, `ReportProofs`; implements `AuditSpec` (`CommandsAuditFirst`) |
| `Tables` | a table put over another, layer upon layer, and the sum of a table | `SourceFiles`, `Calculators` |
| `SourceFiles` | the normalizers, edition after edition | `Mijobs` |
| `Calculators` | the analytics behind the MCP tools, and the outlook | `Mijobs` |
| `Mijobs` | a process that does one of the three | `MCMijobs`, `MijobsProofs` |
| `Harvest` | harvest runs, artifact directory; composed with `EvidenceLedger` | `MCHarvest`, `HarvestProofs` |
| `HttpQuota` | reservations, limits and cooldowns of one provider | `MCHttpQuota`, `QuotaProofs` |

`MC*` modules hold only the values and symmetry sets of the runs, `*Proofs` modules
only lemmas and theorems. Operators introduced by a comment "Mutant:" are not part
of the specification: they are what a plausible bug would put in place of the
definition that follows, and `PROJECT.json` pairs each with the property that
notices it.

### Exchange

`employers`, `signals`, `transitions` are the rows of the `records` table by kind;
`today` is `date.today()`. A row is the record of `Service` less names, skills,
confidence and free text. There is one action for each call of `exchange/service.py`
that changes a record, with the checks of `dispatch` (`app.py:62`) and
`Store.authenticate` as guards:

| Action | Code |
|---|---|
| `Provision`, `Revoke` | `Store.provision` (`store.py:172`), `Service.revoke` (`service.py:78`) - `put` is called without a credential, so the row loses the one it had |
| `CreateSignal` with `ValidForm` | the validator of `Signal` (`service.py:37`) and `create_signal`, whose cap counts closed signals too |
| `CloseSignal` | `close_signal` by owner or operator |
| `Propose` with `Compatible`, `ActiveSignal` | `propose`, `compatible`, `active` |
| `Accept`, `Decline`, `Withdraw`, `Start` | the four branches of `decide` (`service.py:201`); `HasRoom` on each side is its capacity check |
| `NextDay` | the calendar, between requests |

`Reserved` is the sum that `decide` computes. It is written as the number of
*slots*, one for each worker of each accepted or started transition, so that the
proofs can use cardinalities in place of a recursive sum.

A request that is refused changes no record, so it is no step. That requests can be
single steps at all is what `ExchangeStore` shows.

### ExchangeStore

`disk` is the committed database, `work[r]` what the connection of request `r` sees,
`lock` SQLite's write lock, `worker[r]` the program counter of the thread and what
it asks. The actions are the statements of `Store.transaction` (`Begin`,
`BeginUnverified`, `TimeOut`, `Commit`), of `dispatch` (`Authenticate`, `Write`,
`AuditAccess`), and their failures (`Abort`, from any place before the commit).
`Write` is `Store.put`: row and event. Whose record it is, is its `parties`: the
tenant, and of a transition the receiving employer too, who decides on it and saves it
under the tenant's name (`Service.decide`, `Writers`). `Sensible` leaves out requests for
what their caller may never do, which are refused as a read may be. `op = "tool"` is `mcp_request`, which
authenticates in one transaction (`GET /api/me`) and calls the tool in a second.
`ProbeAudit` and `ProbeRecords` are the two SELECTs of a health probe, which runs
`verify` without a transaction. `Crash` loses connections and answers; `Restart` is
`Store.__init__`, which verifies first. `Damage` (only in `DamagedSpec`) puts a
record back to an earlier version or loses it.

The receipt of a worker and `sound` of a probe are history variables: the number of
the access event of the request, and whether the database verified when the probe
began.

### EvidenceLedger, EvidenceAudit

`disk.rows` are the rows of the seven tables in the order of their insertion,
`disk.events` the ledger. `work[s]` is what the session that holds the lock sees. A
repository call is three steps: `Add...` or `ReviseChallenge` reads what it needs -
outside any transaction if the session has not written yet - and prepares the row;
`Insert` is its flush, which takes the lock and meets the unique constraint;
`AppendEvent` is `append_event`, or `AppendRaises` when `canonical_json` refuses the
payload. `FlushFails` rolls back and leaves the session unusable (`"broken"`),
`Close` is the end of the `with` block or of the process. `AfterException` is the
difference between a session of `HarvestRunner` (`Swallowers`), which catches what
`append_event` raises and goes on, and any other, which is closed.

`EvidenceAudit` adds auditors: `AuditVerifies` is `verify_ledger`, `AuditBegins` the
SELECT of the events, `AuditTable` one SELECT for each table. Each reads what it can
see at its moment, the committed database or, in the transaction of a session that has
written, that session's view. `AuditLeaves` is a command that stops for whatever
reason. In `AuditSpec` everybody else writes what they please (`AddsRow`), and an
auditor that is also a session writes only once its audit is valid (`MayWrite`).

### Reporting and the commands

| Module | Code | Actions |
|---|---|---|
| `InsightsReport` | `InsightsReportGenerator.generate`, `cli.report` | `ReportQueriesMonthly`, `ReportQueriesQuarterly` (the two SELECTs), for each section `ReportSkipsSection` or `ReportAddsMetric`, `ReportAddsClaim`, `ReportAddsEvidence`; `ReportCommits`, `ReportFails` |
| `UniversityEvidence` | `harvest_universities`, `university_report` | `LoadStarts`, for each of four feeds `LoadFetches`, `LoadRecords`, `LoadNormalizes`, `LoadAdds`, `LoadEndsFeed`; `LoadAuditsAgain`, `LoadCommits`, `LoadFails`; `ViewReads...`, a SELECT each |
| `ReportContext` | `ReportContextBuilder.build`, `EpistemicService.trace_claim`, `effective_status` | `ContextMissesClaim`, `ContextReadsEdges`, `ContextReadsSupport`, `ContextGetsArtifacts`, `ContextListsChallenges`, `ContextReadsStatus` for each claim asked for |
| `Reporting` | the commands' sessions, `claims_challenge`, `revise_challenge`, a harvest | `CommandAudits`, `Flushes`, `HarvesterObserves`, `AnalystChallenges`, `AnalystRevises`, `OthersEnd` |

Every write of a command is an action of `EvidenceLedger` (prepare, flush, event), so
that its steps interleave with those of the harvest and the analyst; the harvest may
swallow an exception and commit a row without its event, as `ledger_harvest` finds. Of
a number the model keeps whether it is one, missing, infinite or NaN: `Numeric` is
what SQLite stores of it, `Hashable` what `canonical_json` accepts. A row whose number is
not `Hashable` never gets its event; any other may lose it too (`Events`), because
footnotes, catalogs and the names of periods are hashed with it. Months are numbers;
`YearLength` of them are a year.

The databases that a command may find (`Found`) are `WellKept`, and the assumptions of
`Reporting` say what else they and the facts of a harvest are: rows refer to earlier rows
and versions count from 1 (`InOrder`: the foreign keys of `db.py:33`, the `session.get`
before every reference, `repository.py:102`), and the `observation_key` of a monthly or
quarterly number says which series and period it is of, with one row to a version
(`Keyed`: `sources/bls.py:117`, `sources/census.py:139`, `models.py:43`). The second holds
of what `default_plan` asks for, one geography and no split by industry; the queries of the
report select by metric and geography only, so it is the plan that sees to it and not they.
Rows may lack events, and chains may be broken.
`RestsOnLedgered` and `NewestYearApart` speak of the database that a report leaves behind:
before its audit, or after one that refused, nothing is claimed. The first says that each
metric committed has its event, and that this event comes after those of the observations
it was computed from - of all that the audit knew, and of later ones as far as they ever
get one. It cannot say more: see below what a harvest may commit meanwhile.

`HeadCoversReport` is about rows that have an event. The tables that the universities'
report reads are written by sessions that let exceptions through, so those rows have one.

### SourceFiles

`Normalizers` describes the twelve normalizers as data: layout, needed fields, the
fields of the key, the fields that are values. `Ingest` gives the next edition to one
of them: `Refused` is what it raises on, `Skipped` and `Read` what it passes over,
`KeyOfCell` the `observation_key` it builds, `Number` what it makes of a text. What is
recorded under a key replaces what was current (`Layered`). `archive.stated` is a history
variable: what the files themselves say of each of their cells. A cell is what
`RowIdentity` says, the columns by which those who publish a file tell its rows apart;
the keys of the code are something else, and that they come to the same is the property.
`AwardsAssumption` is what IPEDS says of its files of completions: one row for each
program, award level and major, and for each level a row of all programs that those of
the level add up to (`TotalsAddUp`). The report adds up programs of all levels, so what
`AwardsCountedOnce` compares it with is the sum of these rows.

### Calculators

One operator for each calculator, from payload to result or `Refusal`, and one action
for each tool. `held` is what the caller keeps: `university_summary` takes results of
earlier calls, as a language model passes them on. Rates are counted in parts of
`Whole`, flows through *k* rates in parts of `Whole^k`, so that nothing is rounded.
The loops over lists are tables by place: what `degree_relevance` appends for a program
and an edge is at the place of the two, `seen_socs` is the first place of an occupation,
and the first `Top` or `limit` of a sorted list are those with fewer before them.
`PayloadsAssumption` says what the server makes of a payload before it calls: lists, and
amounts that are numbers.

### Harvest

The sessions of `EvidenceLedger` are harvest commands here. `run[h]` is the place in
the plan, the counters of the current task and the results so far; `files` is what
is found at the path of each content. `Fetch`, `FetchNothing`, `FetchFails` and
`FetchBreaks` are the outcomes of a connector: content, no data, an exception the
runner catches (`harvest.py:192`, `260`), one that it does not. `FindStored`,
`FindCorrupt`, `FindAbsent`, `ReplaceFile`, `StoreFails` are `ArtifactStore.put`;
`Record`, `Normalize`, `Observe`, `Ingested` are `Ingestor.ingest`, whose calls go
through the actions `AddSourceArtifact`, `AddObservation`, `Insert`, `AppendEvent`
of `EvidenceLedger`; `CaughtEvent` and `CaughtBroken` are the `except Exception` of
the runner; `TaskEnds` sets the status of the task; `Report` and `CommitRaises` are
the end of the command (`cli.py:99`).

### HttpQuota

`requests` and `cooldown` are the two tables for one provider. `Ask` reads the clock
(`http_policy.py:48`), `Reserve` gets the lock up to `MaxLag` later, deletes old
rows, checks cooldown, limits and queue, and inserts the time reserved; `Refuse` is
any exception; `Send` and `Answered` are the request and the hook on its
answer. On a 429 or 503 `Throttled` computes the end of the cooldown
(`http_policy.py:82`), `Block` gets the lock up to `MaxLag` later and records it, and
`BlockFails` is a lock that does not come: nothing is recorded, and the provider may
be asked again at once. What a client reserves between the two is not held back by
the cooldown; `CooldownDrains` therefore counts from the recording. `Sweep` is a reservation for another provider, which deletes old rows of
all. `reserved` and `blocked` are history variables.

## The runs

Deadlock is checked where the cfg does not say `CHECK_DEADLOCK FALSE`: the exchange,
which can always revoke, and the quotas, whose clients can always ask again.
Requests, harvests, audits and bounded row counts do run out, so the other runs
switch it off. Symmetry sets are used only in runs of safety properties, over ids
that no definition tells apart.

| Run | Question | Instance | Distinct states |
|---|---|---|---|
| `exchange_capacity` | Can any order of requests overbook a signal? Is each step one of `Placement`? | 2 employers, 3 signals of 2 workers each (sent or wanted), 2 transitions of 1 or 2 workers | 37,533 |
| `exchange_terms` | Does what is agreed stay covered; are decisions and lockout final? | 2 employers, 2 signals, 1 transition; 9 forms that differ from a matching pair in one field each, 13 offers below, at and above what is posted | 51,528 |
| `store_requests` | Do concurrent requests and a crash leave a store that verifies, with durable answers, as if serial? | 4 requests of any kind (3 where there is a crash), 2 employers, 1 record of theirs | 323,155 |
| `store_damage` | Does the store fail closed, does health see damage, does the lock come back? | 2 requests, 1 probe, 1 crash, damage to any record, repeated when it can be | 58,402 |
| `store_health` | *violation*: does a sound store always answer ok? | 1 request, 1 probe | stops at the violation |
| `ledger_sessions` | Chain, coverage, lineage, history, with sessions that let exceptions through | 2 sessions, 1 key, 3 rows of any type | 28,180 |
| `ledger_harvest` | *violation*: coverage with a session of `HarvestRunner` | 1 swallowing session, 1 other, 2 rows | stops at the violation |
| `harvest_runs` | Files, citations and reports of concurrent and successive harvests | 2 harvests of 2 tasks, 3 requests; 5 rows | 578,381 |
| `harvest_independent` | *violation*: are tasks independent? | 1 harvest | stops at the violation |
| `harvest_repeated` | *violation*: does a repetition add nothing? | 2 harvests | stops at the violation |
| `mijobs` | What do the verdicts of an audit mean, and what do the commands that pass one report, load and show, while others write? Do normalizers keep cells apart and calculators count once? | a command of four, beside 2 rows of a swallowing harvest and an analyst; or 2 editions of 12 sources; or a call of 9 tools | 170,917 |
| `http_quota` | Spacing, windows, cooldowns | 2 clients, limits 3 in 4 and 4 in 5, a wait of 1 for the lock to reserve or to record, a clock from 1 to 7 | 2,663,001 |

### Why the bounds are enough

*Exchange.* Overbooking needs two transitions that share a signal on at least one
side; with three signals they may share either side or both, and with headcounts of
1 and 2 fit singly, exactly, or only apart. `LastDay = 2` lets a signal or a
credential run out between proposal, acceptance and start, and `SignalCap = 2` lets
the cap be met. `MaxHeadcount`, `YearDays`, `SignalDays`, `CredentialDays` stand for
10,000, 365, 90 and 90.

*Store.* One request to provision, one to use the credential, one to revoke it is
the shortest history in which all three meet; two to provision, one to propose and
one to decide is the shortest in which an employer saves a transition of another, and
takes four requests. One crash suffices because `Restart` leads back to a state in which
only `disk` remembers it; with a crash `FewRequests` leaves three requests. The actor,
operation and record of each request are chosen freely. `View` merges states that differ
only in what requests that ended had asked for, or in which of the requests is which: no
action and no property of the run looks at either, and a request that was answered keeps
its actor and its receipt.

*Ledger.* Two sessions are enough to fork a chain or a version; three rows are an
artifact, an observation and its revision, or claim, challenge and revised
challenge. With one key every versioned row competes for the same line.

*Harvest.* Two tasks show independence; the second, of two quarters, of which one
may be answered with something unreadable, shows partial results. Files start in any
state, corrupt ones included. Five rows let one harvest complete with rows left for
the other to record an observation again.

*Quotas.* The short window is as long as the counts can matter (3 requests of
interval 1 in 4), the long one equals `Retention`, as 86,400 s do in the code;
`MaxTime = 7` lets a first row leave both windows and be swept. `RetryAfters = {0,
5}` gives a cooldown of the minimum and a longer one. With `MaxLag = 1` another
client may reserve after a cooldown was asked for and before it is recorded.

*Commands and tools* (`mijobs`). Four commands start from databases that fit them: four
months, a quarter and a metric of an earlier report, once with all events and once without
that of an observation; a claim on a change that rests on two
sources and is challenged, one that is contested from the start, and a row that is no
claim, asked for one after the other; before and after a load of two institutions. One command runs in a
behaviour, because two that write exclude each other by the lock and the other's
commits are part of the databases found. Harvest and analyst write `MaxWrites = 2`
rows between them, which is what it takes to add a row and revise it, or to lose an
event and go on; what they may write includes a revision of each figure the report
reads, a new last month, a NaN, an infinity, and a figure of the universities.
`FactsThatMatter`, a constraint, leaves the harvest one of these beside a context, which
reads no new observations, and those of its own beside the report of the universities.
`MaxRows = 14` is a load and those two. Of the six sections of the report two run, one
of each kind (a change of a monthly figure, a level of a quarterly one); the others
differ in the metric only. Two editions (`MaxEditions`) are a file and its revision; the
files hold two rows that differ in one of the fields of a key, short rows, blank and
suppressed cells, missing fields, and awards of two levels at one institution. `MinMonths = 4`, `Recent = 3`, `MaxSpan = 5` stand for
36, 24 and 30 months, `Whole = 10` and `Top = 1` for the rate one and for five listed
institutions. A caller keeps two results (`MaxHeld`), and asks tools that do not depend
on them before it keeps the first. The depth of the run is 70.

### Fairness

One property is a liveness property, `LockReturns` in `store_damage`: a write lock
taken is handed back, again and again. `DamagedSpec` assumes weak fairness of the
steps of each worker, that is, that the operating system schedules a thread that can
run, and nothing about arrivals, probes, crashes, restarts or damage. Waiting for
the lock is bounded by `busy_timeout` (10 s), which is `TimeOut`; no step of a
worker waits for another without it. All other properties are safety properties and
hold without fairness.

## The proofs

The theorems hold for every value of the constants that the named assumptions allow;
TLC evaluates the assumptions in the runs. `Mutant` definitions play no part.

**`ExchangeProofs`** (from `ConstantsAssumption`). `TypeCorrect` is inductive by
itself. `CapacityHolds` (`Spec => []CapacityRespected`) needs that slots are finite
(`FiniteSlots`) and `SlotsGrowByAccept`: a step adds slots to a signal only if it is
an acceptance, and then as many as the transition's headcount, which `HasRoom`
compares; signals keep their headcount (`SignalsKept`). `OffersBind` strengthens
`BindingOffer` by `PartiesOwn`: the parties of *every* transition, committed or not,
are the owners of its signals, which acceptance does not check again.
`StartsFollowOffers` strengthens `StartedAfterOffer` by `OfferAgreed`: an accepted
transition has an offer. `DecisionsAreFinal`, `LockoutIsFinal` and `ConsentHonoured`
are action properties: from type correctness, every action satisfies them
(`LockoutStays`: no action re-activates an employer, because `Provision` takes new
ids only; `AuthenticatedActive`: an employer that is locked out can act on nothing).
`PromiseKept` is the refinement: `Init` maps to `Placement`'s and every step to one of
its actions or a stutter (`SignalKeepsPromise`, `ProposalKeepsPromise`,
`DecisionKeepsPromise`). It needs `KindsOwn`, that a signal is on one side for good:
`Placement` counts what is held of a signal on both sides, the code on one, and the
two agree (`HeldIsSlots`) because no signal both sends and receives.

**`StoreProofs`**. `StoreTypeCorrect` and `CommittedAlwaysVerifies`. Neither is
inductive: what is committed is what a connection holds. The invariant is `TypeOK /\
AllSound`: the committed database *and* what every connection sees between any two
statements verify, where `Sound` adds `HasLast`, that the `CHOOSE` of `LastWrite` is
a choice. The two lemmas that carry it are `ExpectedWrite` and `ExpectedAccess`:
what the events describe after one more event. That the lock is held by exactly the
request in its transaction is part of `TypeOK`.

For the requests, `RInv` adds where each of them is:
what its connection sees is the committed database (`open`, `authenticated`), that with
one write the code permits (`HasWritten`), or with the access event after it
(`IsWhole`). The committed database cannot have moved, since nobody else has the lock;
this is the fact that a deferred BEGIN would break. With it `RequestsAreAtomic` is a
refinement: a commit is `Consult` or `Change1` of `AuditedStore`, everything else a
stutter. `MayChange` says there whose a record is: both employers of a transition write it,
the operator does not, and its parties stay what they were when it was made. `AnswersAreDurable` needs that events only come after the ones there are, and
that receipts are `Distinct`. `RevocationIsFinal` strengthens `NothingAfterRevocation`
by `OwnRows` (a record names no credential but its own, so who authenticates is found
under his own id) and `RevokedRows` (the row of a revoked employer has no credential and
is there, so it is not provisioned again). For a volume that is damaged, `DInv` says that
either everything is sound or the committed database does not verify and nobody has
the lock; `FailsClosed` and `HealthFailsClosed` follow, the second because an unsound
probe reads its second table from the database it read the first from (`ProbeOK`).

**`LedgerProofs`**. `LedgerTypeCorrect`, `ChainAlwaysVerifies`, `LineageHolds`
follow from `Inv`: the committed database and every session's view are `Sound`
(typed, `Lineage`, chained), the holder's view extends the committed one, and a
prepared row *fits* what its session sees (`SessionOK`). The last is what makes the
stale read of the current version harmless: rows are never changed or removed, so
what fitted an earlier database fits a later one (`FitsExtension`) unless its
version is taken, which the unique constraint refuses at `Insert`. `Lineage` is
stronger than `OneLineage`: versions of a key increase with row numbers and have no
gaps, so that a free version is the next one. With the assumption `Swallowers = {}`
(no session goes on after an exception), `EveryWriteIsLedgered` follows by
`LedgeredInv` (a session between calls has an event for each row, one between flush
and event for all but the last), and `HistoryOnlyGrows` proves the refinement of
`HistoryLog`, initial states and steps. The finding `ledger_harvest` shows that the
assumption is needed.

**`QuotaProofs`** (from `ConstantsAssumption`, which asks that rows be kept at least
`MaxLag + Interval`, and windows be no longer than `Retention`). `Inv` adds to the
four properties: rows are lost oldest first and none while a window can count it
(`OldestFirst`, `NotForgotten`), a request is due at most `MaxLag` after the time it
reserved (`DueInTime`), and no cooldown in force is shorter than any that was recorded
(`CooldownCovers`). `WindowsKept` is `QuotaKept` for windows that end at any time,
which is what the induction needs. The slack `MaxLag` in `QuotaKept` is real: the
clock is read before the wait for the lock, so a request may go out later than it
was counted, and closer to the next.

**`AuditProofs`** (from `AuditAssumption`: databases are found as repository and
triggers leave them, `WellKept`; and the assumptions that say which session is whose).
`AuditInvariance` proves `AuditOK`, whose parts are

- `StoreOK`: the committed database and every session's view stay `WellKept`, and the
  holder's rows come after the committed ones, as their events do (`Grown`). Broken
  chains and rows without events are allowed: an audit is for those.
- `WhileReading`: what an auditor sees only grows, `covered` is what the events of
  `since` cover, and each table read so far has added to `uncovered` at least the
  unledgered rows of `since` - and nothing but these and rows that came later.
- `Cause`: an auditor that has refused saw a broken chain, or an unledgered row in
  `since`, or sees other rows by now.

`ValidAlwaysMeansLedgered` and `RefusalAlwaysHasCause` follow. `CommandsAuditFirst` is a
refinement: a step of any command, of the harvest or of the analyst is a step of
`AuditSpec` or a stutter, because a command that writes is `Behind` a valid audit of its
session. The three others use it. `HeadAlwaysCovers`: what the viewer has read is a row
of the database it last saw (`ViewOK`), and a later event of such a row would be a
second one that `Grown` excludes. `LoadsCommitOnlyAudited`: from the second audit on the
loader's view does not change (`LoadAudited`), so that what the audit found is what is
committed. `LoadsAreWhole`, from the further assumption that every load in the databases
found is whole: no session but the loader adds a source artifact (`NoArtifacts`), and
`Progress` says which feeds, and for the current one which institutions, are in its view
at each place of the load.

**`HarvestProofs`** (from `PlanAssumption`, which says what a plan is, and the
assumptions of the ledger). `HarvestsKeepToLedger`: a step of a harvest is a step of
`EvidenceLedger` or a stutter, so that `Inv` of `LedgerProofs` holds of a harvested
database too (`HarvestedLedgerVerifies`). `HInv` adds, of the committed database and of
what each harvest sees, that artifacts have their files and observations cite artifacts
of their content (`Sourced`); that the row a harvest is about to insert has its file and
cites what its session sees (`ReadyOK`); and, from `Record` to the last `Observe`, that
the last artifact of the harvest's own transaction says the content in hand (`InHand`),
which holds because the harvest keeps the write lock from its first row on. A file that
is good stays good: files are written elsewhere and moved into place.
`ReportedHarvestsCommitted` needs an accounting: the observations that a harvest has
committed, those counted in its results and those begun in the current task never exceed
what its session sees and the row it is about to flush. The sum over results is a fold
over a sequence that grows by one element in a step; the invariant therefore carries that
the running sums *exist and are unique*, which a step extends, and the last of them is
the number printed.

**`ReportProofs`** (on top of `AuditProofs`; from `ReportingAssumption` and the
assumptions of the commands). `ReportingOK` adds `AllInOrder` to `AuditOK`: in what is
committed and in what each session sees, rows refer to earlier ones, and so does the row
it prepares.

- `ContextsAreHonest`, `SourcesAreTraced`: `ContextOK` says of each place of
  `trace_claim` what it has read so far. That it stays true while others commit is the
  point: the sources of rows that were there are those they had (`SourcedKept`), a
  challenge that comes in is not among those read, and a key that has an open last version
  among them had it (`LastVersionExists`, by well-founded descent on versions).
- `ReportsRestOnLedgered`: the audit speaks of `since`, and the report reads later, so
  the audit alone does not give it. `WritersOK` follows each session: metrics are written
  by the report only, one without its event is one whose flush is not over, and each event
  of the session is of a later row than all events before it (`EventsOK`), because a row is
  the last of what its session sees when its event is added. `SinceOK` carries both to what
  has been committed since the audit. The inputs of a metric are earlier rows; their events
  are among those of `since`, which come first, or are ordered as the rows are
  (`LedgeredSuffices`). A metric that loses its event ends the report, which is not one
  that goes on after an exception.
- `MetricsAreYearsApart`: `QueriedOK` says what the two SELECTs have read of the rows that
  the audit knew - every one that counts, none superseded by another of them, and one for
  each series and period, which is where `Keyed` is needed (`AllKeyed` carries it through
  every write). `MetricApart` derives from it that the metric of a section is right when it
  is computed, for its basis and the number of the year before are unique (`OneBasis`,
  `OnePrior`); `ApartLater`, that it stays so while versions and months are added, because
  only rows the audit knew are held against it; `AddedApart` and `CommittedApart` follow it
  from the session into the database.

**`MijobsProofs`** (on top of the two; from `FilesAssumption`, `AwardsAssumption`,
`CalculatorsAssumption` and `PayloadsAssumption`). What the normalizers and calculators
compute are folds over lists of any length. The induction theorems of the library take an
operator and are of no use here, but two others do: a set of numbers that has 0 and, with
each number, the next, has all (`Counting`, because `<` is well-founded), and a set of
subsets that has the empty one and grows by one element has the whole (`Gathering`). With
these it is proved that the recursive functions behind the folds exist and what they are:

- A table under layers has what the last layer with that key says (`LayerByLayer`,
  `LayeredSays`). A sum takes its terms in whatever order the `CHOOSE` picks them
  (`AddsAnyOrder`, `AddsAgree`), so it is the same along a bijection (`SumAlong`), apart
  (`SumApart`), linear (`SumLinear`), and a quotient of two sums lies between the
  quotients of their terms (`Between`).
- `EditionsAreCurrent`: `Faithful` says that each current observation carries the cell of
  its key and the number last stated of it, and that every cell stated has one. It is kept
  layer by layer because the columns that each normalizer puts into its key are those that
  identify a row (`NormalizersIdentify`, normalizer by normalizer; the index in the key of
  a software skill is the exception, and there the number is always none).
- `AwardsAreCountedOnce`: `Agrees` adds that what the last accepted file states is what was
  stated. The keys that the report takes for first majors are, one for one, those of the
  rows of programs of the institution (`FirstMajorsAre`), and so is the sum
  (`ProgramsSummed`). The file states it itself, in one row for each award level: the
  programs fall into levels, which have none in common, and a sum is that of its parts
  (`LevelsAddUp`, `SumByParts`).
- `AnswersAlwaysAddUp`: a lemma for each calculator (`DegreesRight`, `BalanceRight`,
  `RetentionRight`, `PolicyRight`, `ScoreRight`, `SummaryRight`, `OutlookRight`). Openings
  are counted once because each occupation in demand that is reached has exactly one first
  place (`FirstPlace`, `OneIsBefore`). Better assumptions never leave a larger gap because
  the people who are left are one product (`StagesAre`, `NetMonotone`). A summary is of
  results that came from somewhere: `AnswersOK` adds that what the caller holds are
  balances and retention risks as the calculators answer them (`HeldOK`), without which an
  institution could be listed both as short and as long of graduates.
- `CommandsKeepTheirWord`, `LoadsAreWholeOrNothing`, `OnlyAuditedIsCommitted`: a behaviour
  of `Mijobs` is one of `Reporting`, or nothing of the evidence database moves
  (`CommandOrNot`), so that what the two modules above prove of the commands is proved of
  the system that the run `mijobs` checks.

**Model-checked only.** `LockReturns` is a liveness property under fairness, out of the
prover's reach; it stays with TLC, as do the four findings, which are counterexamples.
Every other property of a passing run is a theorem.

## Findings

Four runs expect a violation; each states what the repository says of itself.

1. `store_health` / `HealthHonest`. `/health` verifies in two autocommit SELECTs
   (`app.py:190`, `store.py:67`, `82`); a request that commits between them makes a
   sound store answer 503 `integrity_failure`.
2. `ledger_harvest` / `EveryWriteLedgered`. A row is flushed before its event is
   built; `canonical_json` refuses NaN (`canonical.py:41`), which a BLS value can
   be, the runner catches that and the command commits: a row without an event,
   which no later audit accepts (FR-007). The trace is the shortest and loses the event of
   an artifact; that of an observation is lost in the same way.
3. `harvest_independent` / `TasksIndependent`. A refused connection is not an
   exception the runner catches and ends the whole run uncommitted; a failed flush
   makes every later task fail (`harvest.py:161`).
4. `harvest_repeated` / `NoDuplicateObservations`. A repeated run records the same
   observation again as a new version, where `harvest.py:162` promises to skip it.

## Abstractions and what is left out

- **Exchange.** `date.today()` does not change within a request. A market is a
  county and an occupation; skills, names and confidence take part in no check that
  a property is about. Wage and hours are naturals.
- **Exchange store.** Digests are injective: SHA-256 and HMAC values are the values
  they are taken of, the chain digest the sequence of bodies it covers. Expiry of
  credentials is in `Exchange`; what payloads say is left out. The waits of COMMIT
  for readers are part of `Abort` and `TimeOut`.
- **Evidence ledger.** The database is SQLite, the one the code's triggers and tests
  are for; PostgreSQL is only intended. The row number stands for the uuid. Two
  sessions of one process and of two processes are the same.
- **Harvest.** The status rule of `run_bls_task` and `run_qwi_task` is one operator;
  a connector that is not configured is a task without units. What providers answer
  is chosen freely.
- **Commands.** The wording of sections, caveats and summaries is left out, and of the
  coverage summary of the insights report everything. Of a response the model keeps the
  institutions it covers, whether it can be read and whether its number is missing.
- **Normalizers.** Values are opaque texts, dates and units are left out, and so is the
  host allow-list. The text of an example of software, which enters its
  key without case (`sources/onet.py:173`), is one without case from the start. A file has few rows; an edition is chosen freely each time.
- **Calculators.** Exact fractions instead of decimals of 28 digits. The forecast of an
  outlook (floating point) is left out, the conditions for giving one are not.
- **Quotas.** One provider. An unknown host raises before anything is reserved and
  is left out. A sleep ends on time. A run uses one pair of limits, as the BLS
  limits with and without a key do not mix in a process.

### What the models show that the code may not intend

Met while modelling, said by no document, and so neither a finding nor hidden:

- The report audits, and reads its observations afterwards in SELECTs of their own
  (`insights_report.py:108`, `208`). An observation that a harvest commits in between
  without its event is computed from, although the message of line 108 speaks of
  unaudited evidence; the next audit refuses.
- A CSV row that is too short is read as blank in the columns it lacks
  (`sources/ipeds.py:331`), a workbook cell that is blank leaves the number of the
  edition before current, and a program that is missing from a later edition stays
  current. `CurrentIsLastEdition` is therefore about cells that an edition states,
  `AwardsCountedOnce` about programs that the last file has.
- The index of a row is part of the key of a software skill, so that a skill may be
  current twice when the order of the file changes.
- `training_pipeline_gap` refuses negative openings and completions only
  (`analytics/gaps.py:83`), though its message speaks of supply components.
- A workforce depth of "none" is left out of the score of `business_attraction_signal`
  rather than counted as zero, so that no openings can score higher than a few.
- `university_workforce_summary` counts the openings of an occupation once for each
  institution that trains for it.
- Three docstrings of `analytics/university.py` say something else than the code:
  line 197 requires positive openings, which nothing checks; line 269 calls supply the
  completions that map to demand, where all are taken; line 331 names a match rate,
  where the code takes one minus the rate of out-migration.

### Not modelled

The searches of the MCP server and its registration of tools (read-only queries, no
state); `quality.py` and the forecast of `outlook.py` (floating point); the observation
converters of `university.py`, which nothing calls; the rate guard of the exchange (one
deque in one event loop, in front of a service that is checked for any order of
requests); the release scripts, the manager and the deployment (calls of `gh`, git and
docker, whose behaviour the repository does not determine); data collection scripts
(fetches through clients that are modelled, and writing of files); configuration, domain
types and the web page (no state); governance tooling, published reports and their data
(nothing of the running system). `PROJECT.json` lists each under `components`.

## Plan

What could be added, the most useful first:

1. `ReportRelease`: a replacement deletes the old release before the workflow builds the
   new one (`scripts/reports.py:141`), with a model of `gh` from how the script uses it.
2. `RateGuard`: the window of `Guard` (`exchange/app.py:39`) with an abstract limiter.
3. Two commands at a time, in an instance of their own.
