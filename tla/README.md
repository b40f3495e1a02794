# ACAP audit suite: TLA+ models, checks and proofs

This directory models the audit suite: the tamper-evident logs and the workflows
that append to them, the Celery workers that monitor and verify, the autopilot
that drives the UAT tester, the audit engine that analyses uploaded files, and
the intelligence layer of Phase 1. Paths below are relative to the root of
the repository (`src/` here). `PROJECT.json` maps every definition that models
code to the lines it stands for.

- [1. The system](#1-the-system)
- [2. Modules](#2-modules)
- [3. What is checked](#3-what-is-checked)
- [4. What is proved](#4-what-is-proved)
- [5. Where code and documentation disagree](#5-where-code-and-documentation-disagree)
- [6. Not modelled](#6-not-modelled)

## 1. The system

A FastAPI application (`api/`), run by one or more uvicorn processes, serves
audit teams from one PostgreSQL database; Celery workers (`worker/`) and Celery
Beat run the periodic jobs over Redis. Async handlers get one database session
per request from a pool of ten connections plus twenty (`db/async_session.py`):
it does not autoflush, commits when the handler says so and rolls back on an
exception. Isolation is PostgreSQL's default, READ COMMITTED, everywhere.
Handlers declared with plain `def` (all of `api/v1/endpoints/uat.py`) run in a
pool of threads and share process memory.

| Component | State | Operations | Interacts with |
|---|---|---|---|
| Governance ledger (`governance.py`, `_append_worm_log` of `findings.py`) | table `governance_audit_logs`: `previous_hash`, `created_at`, `event_hash` | append inside the transaction of another write | every governance and finding handler |
| Findings workflow (`findings.py`) | one row of `findings`: `status`, `remediation_owner`; `management_responses`; `workflow_logs` | assign remediation, respond, refused delete | ledger, row lock |
| Exception lifecycle (`evaluation.py`) | one row of `audit_exceptions`: `state`, `comments`, `resolved_at`; `workflow_logs` | create, transition | row lock |
| Alerts and monitoring (`continuous_monitoring.py`, `alerts.py`) | `alert_rules`, `alert_events`; Redis queue | sweep with duplicate check, create rule and alert, acknowledge, resolve | Celery retries and redelivery |
| Evidence vault (`vault/writer.py`, `worker/tasks.py`, `worker/integrity.py`, `audit.py`) | `extraction_runs`, `audit_vault` | write evidence, hourly integrity sweep, verify on read, summary, heartbeat | Celery, dashboard |
| UAT runner and autopilot (`uat.py`) | `_RUNNER_STATE`, `_AUTOPILOT_STATE`, the tester's source, report files | run start and stop, autopilot start, stop and approve, patch by hand | child process, background thread |
| Reports (`reports.py`) | `report_runs` | generate: running, complete, failed | all tables, read only |
| Authentication, roles, tenancy (`auth/`, `db/`) | key cache, role table, tenant of the session | validate token, derive role, permit | every handler |
| Request log (`http_middleware.py`) | `system_logs` | one record per request | every handler |
| Audit engine (`engine/`, `api/v1/endpoints/engine.py`) | none while it analyses; then `findings` rows and their verdicts | parse a file, run the tests of every domain, link and rate; store findings, classify them, accuracy; draw samples | one INSERT at a time in the request's transaction |
| Connectors (`connectors/`) | token, connection flag | connect, extract | external services |
| Phase 1 intelligence layer (`ACAP_Phase1/acap_phase1/core`, `agents`, `intelligence.py`) | SQLite tables of findings, summaries, verifications, tests; the engine's last report | group, clear and score events; verify a summary; monkey tests; a monitoring cycle of three agents and a pipeline test | threads of the API and a process of its own share the database file |
| Phase 1 vault (`ACAP_Phase1/acap_phase1/vault`) | extraction runs, records | write evidence | as the vault above, with a synchronous session |
| Watcher, scripts, frontend, metrics | none that the system depends on | | API |

What is hard, per component, and what makes it correct:

* **Ledger.** The tip is read, hashed into the new row and committed without a
  lock. Correct: an entry never names a row that is not committed; the log has
  no cycle; it forks at most between requests that overlapped.
* **Findings, exceptions.** The row is loaded, checked and written later, and
  the ORM's UPDATE takes the row lock late. For findings it writes only the
  columns that differ from the row as loaded. Correct: what the row says can be
  explained from the logs, ledger, workflow log and responses tell one story,
  races leave a state a serial history could have left, no call waits forever
  for the row.
* **Alerts.** The duplicate check, the commit and the acknowledgement of the
  message are separate; a task is retried twice, a message whose worker died is
  redelivered. Correct: duplicates stay bounded, whoever handled an alert
  stays named, a lasting breach is raised again after every handling.
* **Vault.** A write may fail before or after its commit and be repeated; the
  sweep reads, verifies and flags in different moments. Correct: runs and
  records come in pairs, copies are explained by failures, and one missed sweep
  hides no payload that its hash disowns.
* **Autopilot.** Handlers and the background thread share dictionaries without
  a lock; approvals and stops arrive late or twice. Correct: nothing is applied
  without approval, the running flag has a thread that clears it, a stop gets
  through.
* **Audit engine.** A long composition of tests on rows gathered from several
  sheets: users are checked against an HR sheet, linked to transactions by name,
  and findings are raised to CRITICAL after the domains were summed up. Correct:
  how rows are spread over sheets changes nothing, conflicts are those the rows
  hold, whoever is accused is accused by rows of the file and a sheet less never
  looks worse (both with exceptions that are named, section 3), findings are
  stored all or not at all. A monetary sample must be full and proportional to
  value for any population.
* **Phase 1 intelligence.** Groups are cleared, scored as one or scored apart
  at limits of size and amount; a batch is stored by three commits with others'
  between them, and errors are swallowed per row. Correct: no event is lost or
  counted twice, none that is material alone is cleared, more events never
  lower a score, a stored summary has its findings, a false claim is found, a
  report of success is backed by stored results.

The `hazards` of `PROJECT.json` list these by line, with the property that
covers each or the reason none does yet.

## 2. Modules

Each module has the state as VARIABLES, one action per step between two places
where somebody else's step changes the outcome, and its faulty variants (small
operators introduced by a comment that says what bug they stand for; they are
not used by the specification but substituted for the definition they vary, to
see that the property notices). `MC*.tla` and `MC*.cfg` give the constants of a
run.

| Module | Models | Notes on the correspondence |
|---|---|---|
| `HashTree`, `HashChain` | what "hash chain" promises | abstract: a write-once tree; a chain with one tip |
| `GovernanceLedger` | `append_governance_log`, `_append_worm_log` and the transaction around them | `AppendEntry` is the SELECT and `db.add`, `Flush` the INSERT (where the column default stamps `created_at`), `Commit`, `RollBack`. A request writes one entry and names it: SHA-256 is taken to be injective. |
| `FindingsWorkflow` | `assign_remediation`, `respond`, the refused delete | uses `L == INSTANCE GovernanceLedger` for its transactions; `Edited`/`Updated` separate what the handler sets from the columns its UPDATE writes |
| `ExceptionStateMachine` | the lifecycle the docstring of `transition_exception` draws | abstract |
| `ExceptionLifecycle` | `create_exception`, `transition_exception` | `_to_storage_state` and `_to_canonical_state` are the two vocabularies: `remediation_in_progress` does not fit VARCHAR(20) |
| `AlertMonitoring` | the sweep task, its queue, `alerts.py` | queue counts messages by retries made; `Drift` changes what a rule measures |
| `EvidenceVault` | `write_evidence` called by tasks and by the API, the sweep, verification on read, summary, heartbeat | time is counted in hours, between sweeps; a payload has a canonical text, of which the hash is taken, so a payload with its keys in another order verifies; `Tamper` edits payload, hash or both, or clears the hash, which verifies, too (`vault/writer.py:87`); `broken_in` is the hour since which the two disagree, a history variable |
| `DataIntake` | `engine/parser.py`: column mapping, detection of the kind, dates | a column name is a set of tokens; the tables hold the entries of the templates |
| `ControlTest` | what the tests share: blank values, ages of dates, findings | `None`, `""` and 0 are one blank, as in `row.get(a) or row.get(b)`; days count back from today |
| `SegregationOfDuties`, `AccessRules`, `ChangeRules`, `OperationsRules`, `TransactionControls` | `sod.py`, `access.py`, `change.py`, `operations.py`, `itac.py` | one operator per test, a set of findings each. The description of a transaction finding is the set of its texts (`Description`): names a row shows, numbers in the notation they are printed in, words of the program |
| `AuditEngine` | `engine/runner.py`: gathering, HR validation, the domains, linking, nudges, lineage, rating | composes the rule modules on a parsed file; linking asks whether the id of a reported user, which may be `UNKNOWN`, is a substring of any of those texts (`NamesIn`). Ids are taken as already normalised, and an id that would run over from one text of a description into the next is left out |
| `EngineIngest` | `api/v1/endpoints/engine.py` | `AnalyzeFile`, `InsertFindings` with the rows that fail, `CommitFindings` (nothing, if one failed), `DatabaseDown`, `SetVerdict`; accuracy. `session.open` is the transaction: an analysis without findings commits, too. `UploadsAssumption` is the shape of a file: a list of sheets of rows that have the columns the tests read |
| `AuditSampling` | `engine/sampling.py` | both loops step by step, the interval `total / size` kept as a fraction: the rounding that accumulates in `target += interval` is not modelled |
| `SoxValidator` | `core/sox_validator.py` | an event is a record, an amount is in cents and a set of at most one value; the logarithm is a constant function, of which the run gives the hundredths |
| `ForensicEngine` | `core/forensic_engine.py` | a summary is a record with any of the fields the checks look at |
| `UatAgents`, `MonkeyTester` | `core/monitoring_engine.py`, `agents/monkey_tester.py` | what is drawn at random is a parameter; a suite is a sequence of outcomes |
| `IntelligencePipeline` | `intelligence.py`, `core/sqlite_store.py`, the monitoring cycle | a request commits three times; the agents and suites above are its steps; a lost row is kept in `faults.lost`, a history variable, and may be one of the pipeline test's, too |
| `UatAutopilot` | `_start_uat_process`, the loop, its handlers, patches | the tester's source is `original`, `v1` or `v2`; a report is who wrote it and the verdict it leads to; entries shown only (status, history) are left out |
| `*Proofs` | theorems, section 4 | extend the module they are about |

`FindingsWorkflow` composes with `GovernanceLedger`: the variables of the ledger
are its own, every handler's transaction is one of the ledger's, and the
handler `policy` stands for the writers of `governance.py` that share the
ledger. The actions are built from those of the ledger, so the composition never
leaves its protocol; the lemma `LedgerStep` says so to the proofs.

`EngineIngest` composes with `AuditEngine`, which calls the rule modules on what
`DataIntake` makes of a file; `IntelligencePipeline` composes with
`SoxValidator` and `ForensicEngine` (what a request computes) and with
`UatAgents` and `MonkeyTester` (what the monitoring engine stores). Both
components are therefore checked from the upload to the rows they leave, and
the pure parts are checked on the inputs the composed system gives them.

Assumptions made everywhere: the clock advances by a microsecond at least over
a commit; an UPDATE takes the row's lock and keeps it to the end of the
transaction; a crashed process loses its session, which the database rolls
back. In `UatAutopilot` the file system does not fail.

## 3. What is checked

| Run | Bounds | Shows |
|---|---|---|
| `ledger` | 4 requests, pool 3, symmetry | `PredecessorsCommitted`, `StampsFollowPredecessors` (no cycle), `ForksAreConcurrent`; `RefinesTree`: the log implements the tree rooted at GENESIS |
| `ledger_fork` | 2 requests, pool 2 | violation: `NoFork` |
| `findings` | 3 requests, pool 3, two owners, overlapping (with one owner) or one at a time; fairness | `RowExplained` under every race, `LogsMatchLedger` and `CallsEnd`; one at a time `SerialStatusIsLastStage` and `SerialRefinesChain`: the ledger is a chain |
| `exceptions` | 3 clients, pool 3, 4 transitions, fairness | `RecordIsConsistent`, `CommentsAreLogged`, `ResolvedMeansClosed`, `StepsFollowLifecycle`, `TransitionsEnd` |
| `exceptions_closed` | 2 clients, 4 transitions | violation: `ClosedIsFinal` |
| `alerts` | 2 workers, 2 clients, 2 rules (one counts open alerts), 2 messages, 1 fault, 3 calls, fairness | `DuplicatesBounded`, `HandlersStayNamed`, `BreachIsRaised` |
| `vault` | three payloads, two of them with one canonical text; a task and a submission with 2 faults and 2 retries within an hour, in which the payloads of the first two records are edited; or a task with 1 fault over hours 0 to 3, with every edit of the first record, its hash included, and edits of the second one's payload; fairness | `LedgerMatchesVault`, `RepeatsExplainCopies`, `NeverOverstated`, `OneMissTolerated`, `EvidenceArrives` |
| `autopilot` | 1 session of 2 cycles, one other caller, all endpoints and modes; or 2 sessions of 1 cycle with a caller that stops; fairness | `AppliedIsApproved`, `JudgedIsOwn`, `RunningIsBacked`, `StopEnds` |
| `autopilot_patched` | 1 session of 2 cycles, mode apply | violation: `PatchedIsNoOp` |
| `engine` | files of up to two user rows spread over sheets in every way, with up to two invoice sheets, one or two HR sheets or one of six other sheets, or two recovery-test sheets of differing age; one run and one verdict; populations of up to three amounts out of five, requested sizes -1 and 2 | `SheetsDoNotMatter`, `ConflictsMatchRows`, `AccusationsAreJustified`, `LessDataNoWorse`, `AllOrNothing`, `SampleIsFull`, `SelectionIsProportional` |
| `intelligence` | the deployed thresholds (500 dollars, 10 events); 2 clients with ten batches and twelve claims, or the monitoring engine beside the clients with one batch; 2 batches, 2 cycles, 1 error of the store; symmetry of clients. Two assumptions of the proofs are evaluated, `LogGrows` and `SuitesPass` | `EventsAccountedFor`, `MaterialAloneIsKept`, `MoreEventsNoLowerRisk`, `SummaryHasItsFindings`, `AcceptedClaimsAreTrue`, `ReportsAreBacked` |
| `intelligence_counts` | the same | violation: `CountMismatchIsFlagged` |

Where a run has two parts the MC module chooses one in a variable of its own
(`serial`, `kind`, `part`) that never changes: the two parts share no
behaviour, and the properties are those of the union. Type invariants are
proved (section 4) and not repeated in the runs; the rule modules have none,
they have no state.

**Why the bounds are enough.** A fork needs two readers of one tip; four
requests leave a third that reads after both and a late committer whose stamp is
older than the tip's. A stale UPDATE on a finding or an exception needs one
request that holds a loaded row while two others commit. Four transitions take
an exception through `closed` (two suffice, by accepted risk), out of it by a
stale commit and in again. Duplicate alerts need two sweeps between check and
commit; a third call handles what they raised. The one fault of `alerts` repeats
a sweep after its commit or loses its worker; it does not exhaust the retries of
a task. A vault record leaves the sweep's window of two hours within three
hours. The second patch of the autopilot is applied in its second cycle. A
conflict of duties needs two roles of one user, in one row, two rows or two
sheets; linking needs a user and an invoice that names her; each of the six
other sheets fires tests of its domain, on rows one of which breaks the rule at
its limit. A monetary sample needs a row larger than the interval, one without
value, a negative one and an empty population. The batches of `intelligence` lie
below, at and above the systemic limit of ten, and carry amounts below and above
the materiality threshold, in each of the places the validator looks for one.
The bounds on data that would grow forever (messages, transitions, calls,
faults, hours, processes launched, batches, cycles) are constants named Max...,
in the guards; nothing else is bounded.

**Fairness** (`FairSpec`) is what the runtime schedules. A handler whose await
can complete is resumed (`WF Handle(r)`): a waiter on a row lock whose holder
always ends needs no more, because each of three requests runs once. In
`ExceptionLifecycle` clients come back any number of times, so the lock is
granted in the order of waiting, which PostgreSQL does: `SF Write(c)`. Beat
keeps ticking and a live worker goes on (`WF Tick`, `WF Work(w)`); nothing is
assumed of failures, which only the bound on faults ends. In the vault the
queue hands out its messages (`WF Write(t)`), and `EvidenceArrives` is checked
with as many failures as the task has retries. The engine's requests and the
intelligence layer are checked for safety only: no handler of theirs waits for
what another does. The autopilot's thread is
scheduled (`WF Thread(s)`), the tester it waits for is not: it may hang.

`CHECK_DEADLOCK FALSE` stands in every configuration except that of `alerts`:
requests are answered once and sessions end, so those systems really stop.

**Reading the less obvious properties.** `ForksAreConcurrent` uses `seen`, the
entries committed when the tip was read, a history variable. `RowExplained`
survives lost updates although the status need not be the stage of the last log
row (section 5): the former is what an auditor may rely on, the latter,
`SerialStatusIsLastStage`, holds with one call at a time only.
`StepsFollowLifecycle` says that a transition that nobody overtook between its
check and its UPDATE obeys the documented lifecycle, whatever others do; with
one session at a time that is every transition. `DuplicatesBounded` allows one
open alert for each worker process: a sweep inserts at most one alert of a rule
between its check and its commit. `HandlersStayNamed` (alerts) holds for calls
that overtake each other, too: an alert that a late acknowledge takes out of
`resolved` still names who resolved it. `LogsMatchLedger` is a bijection:
entries of the finding handlers, rows of the workflow log and, for `respond`,
responses belong to the same requests, so a refused DELETE has left its alert in
both logs. `OneMissTolerated` speaks of evidence whose payload and hash came
apart in the hour it was recorded, and were not made to agree again; an edit
that clears the hash or computes it anew passes every sweep (section 5).
`JudgedIsOwn` speaks of cycles while every process launched belongs to the
session. `AppliedIsApproved` speaks of a session that is `Alone`: `running` is
checked and set in two steps, so two sessions may share the dictionary that
holds the token and the approved cycle, and then an approval given to one
reaches the other. `SheetsDoNotMatter` joins neighbouring sheets with the same
columns and asks for the same findings. `ConflictsMatchRows` is an equivalence:
it says from the rows and the matrix alone who is reported and who is not, and
that nobody is when there is an HR sheet that misses a user (section 5).
`LessDataNoWorse` compares two analyses of the same file with and without a
sheet; it leaves out files with HR master data, which may block the search for
conflicts, recovery-test sheets, of which the engine looks at the latest test
only, and a sheet of transactions without which the number of times a payment
was found is the id of a reported user (`Miscounted`). `AccusationsAreJustified`
asks for a transaction or an interface run that names whoever was raised to
CRITICAL, and that a finding is about; it excepts ids that occur in a number or
in the words of a description (`NamedByAccident`, section 5).
`SelectionIsProportional` compares the times a row is drawn with its share of
the book value, give or take once; `SampleIsFull` is about rounding, since the
last target may lie on the book value itself. `MoreEventsNoLowerRisk` compares a
batch with the same batch less one event; it excepts the event that decides what
type of control the group is about, and the only one with a date: an unknown age
scores as a middling one (section 5). `SummaryHasItsFindings` says nothing of
rows lost by an error, nor of a row that another batch's of the same id
replaced. `AcceptedClaimsAreTrue` names the one false total that is accepted, a
negative one when nothing was recorded, and leaves claims of zero to section 5.
`ReportsAreBacked` says besides that every stored test passed: the repository's
own test suites, evaluated on the model, are a check of the model
(`SuitesPass`).

## 4. What is proved

TLAPS proves the following for every value of the constants that satisfies the
named assumptions (nonempty pool, `GENESIS` and the null values outside the
sets they are null for).

* **`GovernanceLedgerProofs`**: `TypeCorrect`, `PredecessorsAlwaysCommitted`,
  `StampsAlwaysFollow`, `ForksNeedOverlap`, `ImplementsTree`. The properties
  are not inductive: a flush stamps a row with the time now, and that the
  predecessor's stamp lies before it follows only from the clock being ahead of
  every committed row (`ClockAhead`); a commit forks only if its tip was not
  the newest of what it saw (`TipWasNewest`). The two are the strengthening.
  `SerialImplementsChain` assumes a pool of one and adds `SerialInv`: whoever
  is in flight is alone and holds the present tip. (`TipIsNewest` is the lemma
  that the row just committed is the only newest one.)
* **`FindingsWorkflowProofs`**: every step of the handlers is a step of the
  ledger or leaves it alone (`LedgerStep`), so the ledger's lemmas can be cited.
  `LogsAlwaysMatchLedger` is inductive on the type: a commit, the only step that
  writes any of the three tables, writes all that belong to its request, and a
  request commits once. `TypeCorrect` strengthens the type by "a row is loaded before it
  is updated". `RowAlwaysExplained` is proved from the step lemma: an UPDATE
  writes an owner or a status only in the transaction that commits the entry or
  the response that explains it. `SerialStatusAlwaysLastStage` and
  `SerialImplementsChain` are about runs that admit one call at a time, with
  any size of the pool: `SerialInv` says that the call is alone, that the row it
  loaded is the committed one (so its UPDATE writes what it set), that the newest
  entry of the ledger is the only newest, and that a call holds it as its tip.
  The second shows that the whole composition, finding handlers and policy
  handlers, is then a hash chain.
* **`ExceptionLifecycleProofs`**: what a request writes is computed from the
  row it loaded, so `IInv` says of every loaded row what `RecordIsConsistent`
  says of the committed one, and that the check the request passed still speaks
  of that row. From it `TypeCorrect`, `RecordAlwaysConsistent` and
  `StepsAlwaysFollowLifecycle`. `CommentsAlwaysLogged` adds `Covered`: the
  comments of every loaded row are a subsequence of the log as well.
  `ResolvedAlwaysMeansClosed` is inductive relative to `IInv`.
  `SerialImplementsLifecycle`, `SerialClosedIsFinal` and
  `SerialCommentsComplete` assume a pool of one:
  whoever has a session open is alone and holds the committed row (`SerialInv`),
  so nothing is overtaken, every run is a life of the documented state machine,
  a closed exception stays closed, and the comments are the whole log. What the
  run `exceptions_closed` shows, and the lost comments (section 5), thus come
  from overlapping transitions and nothing else.
* **`AlertMonitoringProofs`**: `DuplicatesAlwaysBounded`. That a rule has at
  most as many open alerts as there are workers is not inductive, since a
  worker that has passed its check commits later. `BudgetKept` counts both:
  open swept alerts plus workers that have taken the rule up never exceed the
  number of workers, because a worker takes a rule up only when no alert of it
  is open. `LoadedExists` says that handlers hold rows of the table.
    `HandlersAlwaysNamed` is an action property whose invariant has two parts: a
  handled row names its handler (`Signed`), and a name a call has seen in the
  row it loaded is still there (`NamesStand`), so that a late commit, which
  leaves a name it has seen as it is, leaves one.
* **`EvidenceVaultProofs`**: `CustodyUnbroken`, `CopiesExplained`,
  `MissesTolerated`, `SummaryNeverOverstated`. The invariant
  says that a run and a record name each other (`Custody`); that a writer has
  stored exactly as often as it was repeated, and once more once committed
  (`CopiesCounted`, an equality where the property is a bound); that the history
  kept of a record says whether it verifies (`HistoryKept`); that of evidence
  broken at once and not flagged every sweep since was missed, except the one
  at work, which has found it (`EscapesExplained`); and that the rows counted
  first are still there (`CountedFirst`).
* **`UatAutopilotProofs`**: `RunningAlwaysBacked`, `JudgedAlwaysOwn`,
  `AppliedAlwaysApproved`. A thread launches once per cycle, so a session whose
  cycle equals the number of processes launched every one of them (`Launches`);
  then all processes but the last have ended (`OthersEnded`), and what the
  thread knows of its process follows from the step it is at (`Follows`).
  `OwnApprovals` says, of a session that is alone, that the token, the approved
  cycle and every call that is about to write one are its own; `Named` that
  every reference to a session names one.
* **`AuditEngineProofs`**, for any files, matrix, roles and names. The engine
  has no state of its own, so its invariant `EngineIInv` says that an answer is
  what the engine computes of the file that was sent (`Answers`), that the
  transaction holds the answer's findings (`Transacting`), and that the rows of
  earlier analyses carry the levels of their answers (`Stored`); from the last,
  `EngineStoresAllOrNothing`. The others are about what is computed.
  `EngineIgnoresSheets`: the rows of a type, gathered sheet by sheet, are the
  concatenation of the sheets' rows, which joining neighbours does not change,
  and nothing else the findings are made of looks at sheets.
  `EngineConflictsMatchRows`: the roles gathered for a user are those of its
  rows, and two roles conflict in the engine's nested loops exactly when they
  cover a rule. `EngineAccusationsJustified`: linking only raises, to CRITICAL,
  findings whose user some text of a description contains; a name in a
  description comes from a row its finding is about (`DescribedNames`, one case
  for each kind of transaction finding), and the other texts are the property's
  exception; a date of termination is that of some row. `EngineLessDataNoWorse`:
  the rows of a file without one of its sheets are embedded in those of the
  whole file, type by type (`FewerRows`). A finding names its row by its place,
  so each of the tests gets a map that moves its findings along the embedding,
  one to one, and lowers no level (`Dominated`; for duplicate payments and busy
  weeks, whose place is a key, the key's rows only become more). Findings of
  different tests never coincide (`DomainRows`). What is said of a finding about
  fewer transactions is said of one about more, but for how often a payment was
  found (`DescribedKept`), so linking keeps the maps (`LinkedDominated`); and
  with one to one maps that lower no level the findings at or above each level
  are no fewer, from which the weighted score follows (`DominatedScore`), its
  three odd values included. It needs the property's three exceptions: the
  blocked search for conflicts, the latest recovery test, and the number of
  duplicates. The sampling theorems are in this module, too: `SampleAlwaysFull`
  and `SelectionAlwaysProportional`, for any list of amounts. The first loop
  leaves its running totals in `prefix`, a history variable that is never read
  by the model; `Totals` says they are monotone and end in the book value,
  `Picking` that the second loop walks the same totals with the next target not
  behind the row at hand, `Windows` that each pick's target lies in the amount
  of its row. The targets are equally spaced, so a row's picks are as many as
  targets fit into its amount.
* **`IntelligencePipelineProofs`**, for any batches, claims, thresholds, number
  of clients and errors, and every interleaving with the monitoring engine.
  * `SummariesHaveTheirFindings`: a request between its first and its second
    commit has its findings in the table or among the lost (`SavedAreKnown`), no
    finding is ever deleted, and the rows of the table of summaries come from
    such requests (`SummariesAreBacked`).
  * `RequestsInvariant`: what a client holds is what the validator or verifier
    computes from a batch or claim that may be sent (`RequestsComputed`). The
    next four theorems are then about these computations. `EventsAreAccountedFor`:
    the groups partition a batch, a group is cleared, or becomes one finding, or
    one for each of its events, and the sum over the findings is the sum over
    the groups that are not cleared. `MaterialEventsAreKept`: the impact of a
    group is at least the amount of each event in it, since amounts are added up
    by their size. `MoreEventsAreNoBetter`: every factor of a score is monotone
    in the number of events, in the impact and in the youngest age; it assumes
    that the logarithm grows (`ScoresGrow`). `AcceptedClaimsHold`: each check of
    the verifier that fails costs the claim its validity.
  * `MonitorInvariant`, `ReportsTrue`: an agent that passes passes all its
    checks but those it may miss, so 7, 8 and 6 of them, and none ever passes
    more. Hence a report passes 21 checks at most, a cycle in which all pass
    reaches it, and a regression needs an agent that did not. That the second
    agent never passes its ninth check rests on its twelve payments being
    spread over five modules, three at most in a group: the theorems assume
    `SystemicThreshold > 3` (10 is deployed).
  * `ReportsBacked` adds that no failed test is stored. It assumes `SuitesPass`,
    that the repository's suites and agents find nothing wrong: a fact about
    particular inputs and the deployed thresholds, which TLC evaluates.

Every module with theorems also proves its inductive invariant and, where it
has one, its type invariant. What the proofs assume of the constants is in the
`ASSUME`s of the modules and in the hypotheses named above, and nowhere else:
finite sets of workers and rules, null values outside the sets they stand
beside, bounds that are numbers, at most 25 cycles (the limit of
`autopilot/start`), a positive sampling interval, a finite matrix of duties,
uploads, batches and claims of the shape the endpoints parse, twelve amounts
where the agent that splits a sum draws twelve.

Several of these theorems are about sums and concatenations over data of any
length, which the models define as recursive functions and folds. The
prover has no induction over data; what the proofs use is that such a function
is a `CHOOSE`: a lemma shows by the least counterexample among the numbers
that a function with the recursive equation exists, and the equation is then
used step by step, along the indices of a list or the parts of a finite set.

Only model-checked:

* liveness (`CallsEnd`, `TransitionsEnd`, `BreachIsRaised`, `EvidenceArrives`,
  `StopEnds`) and fairness, which the prover has no rules for;
* `LogGrows` and `SuitesPass`, of the constants the run gives.

## 5. Where code and documentation disagree

Each of the first four is a run whose counterexample TLC prints.

1. **The ledger forks** (`ledger_fork`). "Append immutable governance event
   with hash-chain signature" (`governance.py:71`): two overlapping requests
   name one predecessor, and every later walk of `previous_hash` misses one of
   them.
2. **Closed exceptions reopen** (`exceptions_closed`). The docstring draws
   "closed → (no further transitions)" (`evaluation.py:192`); a transition
   checked before the close commits after it.
3. **The autopilot fails on its own patch** (`autopilot_patched`). "If already
   patched, return an explicit no-op signal rather than hard failing"
   (`uat.py:721`): after v2 is applied, v1 finds neither its result nor its
   baseline.
4. **A claim of nothing is not checked** (`intelligence_counts`). "Count
   mismatches (summary says N records, but actually M)"
   (`ACAP_Phase1/acap_phase1/core/forensic_engine.py:161`): a claimed count of
   zero is taken for no claim (line 257) and passes.

Seen while modelling, and told by the models when the corresponding property is
added; the properties that do hold are stated around them:

* `stage_from` of `assign_remediation` is the constant `open`, also for a
  finding that is already in remediation (`findings.py:126`).
* With two calls at a time the status need not be the last stage: a commit that
  writes only changed columns leaves the other call's status under its own log
  row (`findings.py:104`).
* Of two overlapping transitions the first one's entry is lost from `comments`
  (`evaluation.py:227`); the workflow log keeps it.
* Two overlapping sweeps both raise an alert of one rule
  (`continuous_monitoring.py:113`); an acknowledge racing a resolve commits
  `acknowledged` over `resolved` (`alerts.py:104`).
* An edit that clears `content_hash` passes every verification
  (`vault/writer.py:87`), though for different reasons: the sweep takes the
  record for verified, `GET /audit/vault/{id}` does not verify it.
* A user is linked to a transaction when its id occurs anywhere in the
  description of a finding (`engine/runner.py:220`), amounts, counts and fixed
  words included: user `2` or `50`, and an account without an id, reported as
  `UNKNOWN` (`engine/access.py:101`) beside an invoice without one
  (`engine/itac.py:76`), are raised to CRITICAL, with the recommendation "User
  identified in transaction test exceptions" (`engine/runner.py:226`), although
  no transaction names them. So leaving a sheet out may look worse: three
  duplicates "appear 3 times", two of them "2 times" (`engine/itac.py:179`).
* The dashboard's `tampered_records` is the difference of two counts and is -1
  when a record commits between them (`audit.py:83`); it never overstates.
* A failure between flush and commit leaves no extraction run, although the
  Phase 1 docstring says the run proves the extraction
  (`ACAP_Phase1/acap_phase1/vault/writer.py:66`).
* Two calls of `autopilot/start` both start a loop (`uat.py:1348`), the loop
  and `run/start` both launch a tester (`uat.py:271`), an approval during the
  last sleep before the deadline is accepted and ignored (`uat.py:516`), a
  cycle counts as `patch_applied` also when the patch was refused
  (`uat.py:539`), and no exit code counts as zero (`uat.py:428`). A loop that ends
  clears `running` first: what it clears after that (`uat.py:551-555`) may be
  the pending cycle and patch of a session that began in between.

In the audit engine:

* The `transactions` template is recognised as `changes`, and the backup,
  incident and interface templates as `transactions` (`engine/parser.py:117`,
  the first match wins), so the tests meant for them do not run on the
  suite's own samples (`api/v1/endpoints/engine.py:437`).
* `access._parse_date` cuts the text to the length of the format string
  (`engine/access.py:73`): a date in the ISO format never parses, and the rule
  is silent.
* A user list next to an HR sheet: the sheet's rows hold no user id under the
  name the check reads (`engine/universal_erp.py:85`), so one user always
  misses and conflicting duties are not looked for at all
  (`engine/runner.py:94`). `ConflictsMatchRows` and `LessDataNoWorse` name this
  exception.
* Anonymisation looks for a key `entity` no finding has (`engine/privacy.py:29`)
  and changes nothing.
* The validation endpoint reads a key `validation` of the parsed file
  (`api/v1/endpoints/engine.py:290`); only its sheets have one, so the answer is
  always empty. Duplicates are never counted (`engine/parser.py:447`): rows
  differ in the number the parser gives them.
* The evidence of a stored finding is overwritten before its lineage is taken
  from it (`api/v1/endpoints/engine.py:159`, `183`), so the stored lineage is
  always null. The error of one INSERT is swallowed (line 191) although it
  aborts the transaction: nothing is stored and the answer is 200. `set_verdict`
  answers `updated` also when there is no such row (line 342).
* An interface that received nothing is not reported, because 0 counts as
  missing; every old backup record is an overdue backup of its own
  (`engine/operations.py:107`).
* A row larger than the sampling interval is drawn several times
  (`engine/sampling.py:112`), so a full sample may have fewer distinct rows.
* Nudges about postings after termination are raised only when the access tests
  found some active terminated user (`engine/runner.py:293`, `309`); the
  lineage of a finding is that of the last row with its id (line 237).

In the intelligence layer of Phase 1 (paths below
`ACAP_Phase1/acap_phase1/`):

* Besides the count, a claimed total of zero is not checked, and a negative
  claimed total passes when the actual one is zero. The layer's own summary of
  a batch with grouped events is invalid by its own check
  (`core/forensic_engine.py:512`, `545`).
* The pipeline test hands the verification a summary with no field it checks
  (`core/monitoring_engine.py:694`): it is always valid. `events_generated` of
  the ghost check never counts anything (line 170).
* The id of a finding is a digest of its signature and count, so the finding of
  a later batch may replace another (`core/sqlite_store.py:166`); an error of
  one row is swallowed (line 199).
* An amount that is text raises in the complexity score
  (`core/sox_validator.py:428`) and fails the whole batch.
* An error of the store turns an agent's passed test into an error and a
  regression warning (`core/monitoring_engine.py:594`); the numbers of monkey
  tests start again for every tester (`agents/monkey_tester.py:108`), so stored
  results replace one another.
* An event without a date scores a middling recency
  (`core/sox_validator.py:479`), so a dated event may lower the score of a group
  that had no date.
* With a systemic threshold below ten the frequency factor falls where a group
  becomes systemic (`core/sox_validator.py:376`); with the deployed ten it does
  not.

Noticed in parts that are not modelled: a report run is left `running` by a
crash, and its failed status is lost in an aborted transaction
(`api/v1/endpoints/reports.py:289`, `430`); a handler that raises leaves no
system log record (`core/http_middleware.py:244`); a rotated signing key is
unknown until the cached one expires (`auth/token_validation.py:31`); the
watcher loses the event during which its token expires (`watcher_agent.py:82`).

## 6. Not modelled

* **Reports and dashboards**: one handler writes a run row and updates it, and
  the payload is a read of other tables; its two hazards are failures of one
  request that no other request observes. **Request log**: one INSERT per
  request, read back by a listing only. **Authentication, roles, tenancy**:
  decided from one token and a fixed table, without state; the session itself
  (pool, commit, rollback) is part of every module. **Control evaluations,
  health, GRC, engagement, AI decisions**: listings and single inserts.
* **Connectors, watcher, helper scripts**: clients of external services and of
  the API; what they send is an arbitrary input of the models.
  `scripts/run_enterprise_v9_comprehensive.py` and
  `agents/uat_enterprise_agent.py` call the API from outside and print a
  report: the latter is present in `UatAutopilot` as the process that ends
  with a verdict or hangs, and as the text the patches rewrite.
* **Frontend, metrics, schemas, scaffold**: layout, wording and types.
* Inside modelled components: the rows governance entries describe; the report
  explorer and the readiness thresholds (an abstract verdict); in the engine
  the confidence-level sampler, formats of numbers and currencies, job records
  (the runner passes none), and the unused `engine/engine_endpoint.py`; in
  Phase 1 the aggregation states, which nothing updates, the wording of
  findings, and the first version of the vault, whose write protocol is the one
  of `EvidenceVault`.

The counterparts of PostgreSQL, SQLite, Celery, Redis and the operating system
are modelled from how the code uses them and marked external in
`PROJECT.json`.
