# RuleGraph in TLA+

RuleGraph clones repositories, has an LLM extract business rules from their
files, stores the rules in Postgres and lets people review, approve and browse
them. This directory specifies the parts of it that are concurrent, that crash
and that resume: ingestion, the life of the rules it produces, the tables that
are derived from them, and the parts of the API that keep state of their own.

## The system

| component | state | operations | what makes it correct |
|---|---|---|---|
| Ingest jobs (`routers/sources.py`, `routers/ingest.py`, `tasks/`) | `ingest_sources.ingest_status`, `ingest_runs`, the arq queue in Redis, what a running job holds in memory | trigger, bulk trigger, resume, retry errors, upload of one file; the job; arq's timeout; the staleness sweep (cron every 5 minutes and web startup) | a dead job's source is recovered, a live job's run is left alone, every failure is recorded |
| Batch pipeline (`ingest/batch_pipeline.py`, `ingest/connectors/github_repo.py`) | `last_commit_sha`, file checkpoints, `batch_id`/`batch_status`, the rules | list changed files, submit or re-attach to a batch, poll, store results one commit per file, complete the run | no file is lost between attempts, none is done twice, the next diff hides nothing that is out of date |
| Single-file pipeline (`ingest/pipeline.py`) | a run of its own | one request | closes the run it opens |
| Rule lifecycle (`services/rule_service.py`, `routers/rules.py`, `routers/admin.py`, `routers/wiki.py`) | `rules`, `rule_versions`, audit log | propose, update, approve, reject, deprecate, mark active, bulk approve, promote, drift found by an ingest | what is approved is what was reviewed; the lineage tells the rule's history |
| Terminology, conflicts, wiki (`services/terminology_service.py`, `services/conflict_service.py`, `ingest/wiki_generator.py`) | derived tables | rescan, infer, edit, detect and replace, regenerate | what they hold follows from the rules; a person's edit survives a scan |
| Chat and rate limiter (`services/chat_service.py`, `security/rate_limit.py`) | sessions and windows in Redis | load, ask, save; count | no message is lost; no more than the limit in a window |
| Notifications, subscriptions, feedback (`services/notification_service.py`, `routers/subscriptions.py`, `services/feedback_service.py`) | rows, `graph_quality_score` | subscribe, notify, read, rate, improve | told once; the score is the mean of what was said |
| Documents, snapshot, data reset (`services/document_service.py`, `routers/admin.py`) | whole tables, `uploads/` | upload, export, clear | the references between tables stay valid; all or nothing |
| Accounts, settings, audit log (`services/auth_service.py`, `services/settings_service.py`, `routers/admin.py`) | `users`, `system_settings`, `audit_log` | create, change, save a form | the log explains the rows |
| Coverage, impact, login and tokens, Cognee client, webhooks, other connectors, frontend, migrations, seeds | | | out of scope, see "Not modelled" |

How they interact: the admin endpoints never touch a job, they put a message in
Redis. The worker takes up to `max_jobs = 10` messages at a time and runs
`run_ingest_impl` for each in one asyncio loop and one database session per job;
it talks to the web process only through Postgres. A source and its runs are
linked by the source's *name*, and "the latest run" of the name is what resume,
retry, the sweep and the page all look at. The end of an ingest calls the
conflict, terminology and wiki passes.

What is hard: the jobs, the endpoints and the sweep interleave at every
`await`; a job may die between any two commits; the session keeps objects across
commits (`expire_on_commit=False`) but a rollback expires them; a resume may find
another HEAD, another proxy setting and another latest run than the attempt it
continues; results of a batch come late, in any order, and may have expired.
`PROJECT.json` lists each hazard at its line.

## Modules

| module | models | against |
|---|---|---|
| `IngestJobs` | who runs when: endpoints, queue, jobs, worker crashes, sweep, time | itself, invariants and one liveness property |
| `BatchIngest` | what one source's ingests do with files, commits and batches | `IncrementalSync` |
| `IncrementalSync` | what incremental ingestion promises: HEAD, last commit, rules | `DiffIsEnough` |
| `RuleLifecycle` | what reviewers, authors and ingests do to rules, and the version log | itself, invariants and action properties |
| `Glossary` | the terminology scan as an algorithm: from rows and a text to rows | `GlossaryExact` |
| `Upkeep` (extends `Glossary`) | the sessions that rewrite conflicts, glossary and wiki pages | itself, invariants and action properties |
| `RateLimiter`, `ChatSession`, `AdminDesk`, `Archive`, `Audience` | one part of the API each, with its own state | itself, invariants |
| `FrontDesk` | the five together | |
| `MCIngestJobs`, `MCRuleLifecycle`, `MCUpkeep`, `MCFrontDesk` | the instances and symmetry sets TLC uses | |
| `IngestJobsProofs`, `BatchIngestProofs`, `IncrementalSyncProofs`, `RuleLifecycleProofs`, `LimiterChatProofs`, `ArchiveAudienceProofs`, `UpkeepProofs`, `FrontDeskProofs` | TLAPS proofs about these; the last one about `AdminDesk` and the composition | |

### IngestJobs

`ingestStatus`, `runs`, `queue` are the tables and the queue. `jobs[j]` is what
the job in slot `j` holds in memory: the run it resumed or opened, its age, and
the values of `ingest_status` and of the run's status its session last loaded,
because SQLAlchemy emits no UPDATE for an attribute assigned the value it
already has (so a second job of a source does not rewrite "ingesting" that a
first one wrote, and the sweep in between matters). `marks` is what a sweep has
decided and not yet committed. One action is one transaction, or one stretch
between two `await`s that matter:

| action | code |
|---|---|
| `TriggerIngest`, `IngestAllSources`, `ResumeIngest`, `RetryErrors`, `SetSourceStatus` | the endpoints, which check and enqueue but do not write `ingest_status` |
| `UploadStart`, `UploadEnd` | a single-file upload labelled with the source's name |
| `LoadJob`, `DropResume` | the first reads of `run_ingest_impl` |
| `RejectSource`, `BeginIngest`, `NothingToIngest`, `OpenRun` | its commits up to the run |
| `Heartbeat`, `MarkFile`, `LoseCheckpoint`, `CompleteRun` | the poll loop, a result, a rolled-back file, the completion |
| `FinishJob`, `FailJob`, `AbandonJob`, `TimeoutJob`, `CrashWorker` | the five ways a job ends |
| `SweepScan`, `SweepCommit` | the reads of `reset_stale_ingests` and its one commit |
| `Tick` | time; no job outlives `job_timeout` |

`broken` is the phase after a rolled-back statement. `AsyncSession.rollback`
expires the session's objects whatever `expire_on_commit` says, and reading an
expired attribute (`run.id`) outside a call to the session raises. So the
checkpoint meant for "its OWN transaction" is not written, nor are those of
later files, and the job can only fail; a rollback with no transaction open (an
exception before the file's first statement) expires nothing, and the file's
error checkpoint is written (`MarkFile`). After a failed *flush* the handler in
`run_ingest_impl` raises as well, at `src.name`: `AbandonJob`.

The queue is a bag although arq orders it by enqueue time, since jobs started
together interleave their first queries. Files are not named here. A sweep is
two steps, so that it interleaves with everything; only one sweep is under way
at a time (the model has one set of marks), and its reads of several sources
are one step.

### BatchIngest

One source, and one job at a time (`IngestJobs` has the concurrency). A commit
is the version of each file; `stored` has for each file the pairs (file, version)
its rules were extracted from, so that a mix-up of files or versions shows: one
pair after `StoreFile`, one more after `StorePart`, where `store_rule` raised for
some of the rules, the others are committed with the "error" checkpoint, and
rules of two versions stand side by side. `run` is the
latest run, since no code reads an older one. `job.todo` is `requests_map`: an
entry's `id` is the file's place in the listing, as in `f"file_{i}"`, and
`batches` keeps which file each id named when the batch was submitted.
`CreateBatch` and `RecordBatch` are two steps because the process may die
between them. A crash, a push or the end of a batch may come between any two
steps. Staleness is a step of its own (`GoStale`): `IngestJobs` shows when it
may happen.

Constants describe the environment, and each run says which it allows:
`Modes` (a proxy or not, or changed between attempts), `Outcomes` (what a result
may be), `FetchFails` (the fetch of the base commit for the diff may fail, then
all files are listed), `PushAnytime` (or only while nothing can be resumed),
`ButtonOnly` (Resume is requested where the page offers it).

### IncrementalSync

The abstract specification: `Push` moves a file on, `Process` stores the rules
of a file's version at HEAD, `ProcessPart` some of them, `Advance` moves the last commit to HEAD, and may do
so only when every file's rules are all stored. `BatchIngest` implements it under
the refinement that forgets all but `head`, `sha` and `stored` (`Sync` and
`KeepsInSync`): every step is a push, a file processed in full or in part, an
advance or a stutter.

### RuleLifecycle

`rows`, `versions` and `notices` are the tables. `req[s]` is the request in slot
`s`: its handler, arguments, the rules it has still to write and how it loaded
them. Every handler selects its rules in one step (`UpdateRule`, `Decide`,
`PromoteWikiChanges`, `StoreRule`) and commits in another (`CommitUpdate`,
`CommitDecision`, `CommitPromotion`, `CommitStored`, `InsertStored`); no
statement checks a version and no lock is taken, so any other request may commit
in between. `Write` is the UPDATE that results: SQLAlchemy sets only the columns
whose value differs from the one loaded, so a stale request overwrites only what
it changes itself, and an assignment of the value it had loaded writes nothing.
The version beside it is built from the object in memory, and may show a
definition that is no longer the rule's.

- `Decide` is approve, reject, deprecate and mark-active: `rule_service` asks
  for no particular status before, so any rule may be given any of the four.
- `write_audit` commits what the session holds. So a bulk approval is one
  transaction per rule, not one in all, and its rules are those loaded by its
  first SELECT: the SELECTs in the loop return the same objects, which
  `expire_on_commit=False` keeps as they are. When `write_audit`'s commit fails
  it rolls back and logs a warning, the objects expire, and the endpoint goes on
  with fresh ones: `LoseRequest`, then possibly a new request.
- An ingest (`StoreRule`) finds its rule by title among the rules joined to its
  service; two matches raise. It may hold the rule for as long as its session
  holds the object.
- A change of status by `PUT /rules/{id}` notifies in a second transaction
  (`Notify`), which may never happen.

The log is a set: nothing modelled reads its order. Every user subscribes to
every rule, the case with the most notices. Left out are `code_behavior`,
`deprecated_at`, scores, the work item of an update, and the deletion of all
data.

### Glossary and Upkeep

`Glossary` has one scan: `Scans(rows, text, name, free)` is every result that
`scan_for_inconsistencies` may have, as the query it loops over has no order. A
term is matched to a row by its synonym group, a row without this service is
preferred, and a row is made if there is none. The batch pass scans under the
*source's* name, an upload and the rescans under a *module's*: `Names` has both.

`Upkeep` has the sessions that rewrite the three derived tables: the closing
passes of an ingest, the upload of one file, rescan, migrate, infer, a
definition edited or accepted, a synonym judged, the wiki regenerated.
`sess[s].tx` is what a session has written and not committed; a row in somebody's
`tx` is locked. `mem` and `out` are the glossary as the session loaded it and as
it is to be; the flush writes the columns that differ (`Changed`). The steps are
cut where the code awaits something long or commits:

| action | code |
|---|---|
| `FinishFiles`, `UploadFile`, `Migrate`, `Rescan`, `InferAgain`, `EditDefinition`, `AcceptDefinition`, `JudgeSynonym`, `Regenerate` | what opens a session |
| `DetectRead`, `ReplaceConflicts`, `WaitToReplace`, `ReplaceAfterWait` | `detect_conflicts`: SELECT, DELETE (which may wait for another's DELETE), INSERT |
| `ScanRead`, `FlushTerms`, `InferFirst`, `Define`, `DefineNothing` | a scan, its flush, and the definitions inferred for the rows it made; the commit before each LLM call is in `InferFirst` |
| `EndPasses`, `PageWritten`, `PageSkipped`, `UpsertPage`, `DuplicatePage` | the wiki: read the rules, ask the LLM with the transaction open, look the page up, write it |
| `End`, `BreakDeadlock`, `LoseSession` | commit; deadlock; Postgres' idle timeout, a crash, `job_timeout` |

What the tables promise cannot be "always": `doubt` is a history variable with
the tables and rows that two sessions rewrote from overlapping reads, or whose
rewriter was lost. `holds` and `clean` say what a session is rewriting and has
had for itself so far; a commit of something clean takes it out of doubt (except
the glossary, which a scan only adds to). `owes` is what the rules of a session
put out of date and it has still to bring up to date. So each invariant says
*exactly when* the table is right, and when it is repaired.

### FrontDesk

Five parts with state of their own. They meet only where a call passes the
limiter before chat begins; that takes requests away from chat and adds none, so
`FrontDesk` has one part move in each behaviour (`part`) and TLC does not
multiply their states.

- `RateLimiter`: `Stamp` reads the clock, `Decide` is Redis' MULTI some time
  later, so calls are counted in another order than their times; `FailOpen` is
  Redis failing before or after. A refused call stays in the set.
- `ChatSession`: `Load`, `Answer` (LLM or fallback, then the save of the whole
  list, which may fail), `GiveUp`, `Expire`. An exchange records which exchanges
  its answer was given, so that a mix-up shows. `spoilt` is the history variable
  for sessions in which requests crossed, Redis failed or the key expired.
- `AdminDesk`: a request begins with its reads and ends with the commit in
  `write_audit`; a form looks its settings up one after the other, each lookup
  flushing the write before it and so taking its lock (`LookUp`). A commit that
  fails is swallowed (`LoseCommit`). `crossed` is what two overlapping requests
  wrote. An encrypted value is a new text each time, so it is always written.
  `given` is a history variable, the role a user was created with: its entry
  does not tell it. Three roles let two requests ask for different new ones.
- `Archive`: `Insert` of a set of rows at once, the reset DELETE by DELETE in the
  code's order with the foreign keys that cascade and those that refuse, the
  export table by table in its order, the document's file before its row.
  Constants give the rows, their tables and what they refer to.
- `Audience`: subscribing is a lookup and an insert with no unique key between
  them; notifying reads the subscriptions and inserts; `POST /improve` loads all
  signals, then one rule after the other, and writes the scores that differ.
  `tangled`, `muddled` and `measured` are history variables: pairs whose
  subscriptions crossed, rules whose scores two improvements disturbed, and what
  the last undisturbed one has read.

What these runs show beyond the properties' words: two saves of a form that
cross may leave one admin's value under the other's name; the audit page orders
by `created_at`, which is when a transaction began, so its newest entry need not
be the value in force; a double click subscribes twice, and from then on the
lookup raises; a reset after any batch ingest is refused, because checkpoints
refer to runs and are not deleted, although the docstring lists "ingest runs"
as deleted (`admin.py` 597-599).

## Runs

| run | bounds | shows |
|---|---|---|
| `jobs_safety` | 1 source, 2 slots (symmetric), timeout 2 ticks, grace 0, 3 requests | `TypeOK`, `LiveRunNotStale`, `SweepSparesFreshRun`, `SweepKeepsFreshRuns` |
| `jobs_recovery` | 2 sources, one without a connector, 2 slots, timeout 1, grace 1, 2 requests, 1 crash, fair | `NoStuckIngesting` |
| `files_any_environment` | 2 files, both modes, all four outcomes, failing fetches, pushes at any time (1), any accepted Resume, 3 jobs | `TypeOK`, `DoneIsFinal`, `RulesNeverGoBack` |
| `files_calm` | 3 files, two with rules, batches, succeeded or errored, no failing fetch, pushes (2) while nothing can be resumed, Resume by the button, 4 jobs | `ShaVouches`, `DoneMeansStored`, `FailedStayInWindow`, `TalliesAreTotals`, `KeepsInSync` |
| `rule_lifecycle` | 2 rules, titles, definitions, users and slots (all symmetric), 4 requests, `PUT` with status "needs_update" or none | `TypeOK`, `LineageHasPolicy`, `StatusIsExplained`, `NoticesAreTrue`, `PolicyChangesAreSigned` |
| `upkeep` | 3 rules, 2 modules, 1 source, 1 upload, 2 synonym groups, 4 rows; empty, or after a first ingest; 2 sessions at a time, 1 loss | `TypeOK`, `ConflictsExact`, `GlossaryExact`, `PagesExact`, `LabelsTrue`, `ScansRespectPeople`, `DecisionsSurvive` |
| `front_desk` | limiter: 4 calls of one key, limit 2, window 4, delay 1, 6 ticks; chat: 4 requests in one session, 1 in another, 2 exchanges remembered; desk: 2 users, 2 admins, 3 roles, a plain and a secret setting, 3 requests, 1 failed commit; archive: 8 rows, 1 reset, 1 export; audience: 2 users, 2 rules, 2 tabs, 4 errands, 2 signals | `TypeOK`, `AtMostLimit`, `RefusalsHaveCause`, `CoherentHistory`, `HistoryKept`, `RolesExplained`, `SettingsExplained`, `ClearedIsClear`, `RefusalsExplained`, `SnapshotClosed`, `ToldOnce`, `ScoresAreMeans` |
| `sweep_race`, `failed_flush`, `expired_file`, `reattach_mix`, `lineage_origin` | smallest instance each | a counterexample each, see below |

Why the bounds are enough. Interference between jobs is pairwise: a job, a
second job or upload that opens the next run of the name, and a sweep between;
three requests give each of the combinations of trigger, resume, retry and
upload. A grace of 0 is the hardest case for the sweep, a timeout of 2 lets a
run make progress, age and be read. For files, a first ingest, an attempt that
crashes, its resume and a later trigger are four jobs; two files with rules and
one without are the least for which places in the listing and files differ; a
file that is already in the repository, one that is added, and one that is
changed twice come from `Init` and two pushes. For rules, a request that makes
the rule, two that have it loaded at the same time, and one more that has seen
the outcome of either are four; a second rule is needed for a bulk request that
is half done. The status `PUT` sets is only copied into row, version and notice,
and no other handler gives "needs_update", so that status stands for all of
them. For the derived tables a conflict of reads and writes needs two sessions,
and the state after a first ingest is an initial one (`LaterInit`), so that two
sessions meet on tables that are filled; three rules, one of them in two
modules, are the least for which a conflict depends on the order of a join, and
a synonym pair and a third term for which a scan may match or insert. A page
whose text and links are of different runs takes three sessions; `PagesExact`
makes no claim for it, as its module is in doubt. Crossings of requests of the
front desk are pairwise as well, and a third request shows whether the state
they leave is repaired. The four callers exceed the limit by two, so a refused
call counts against a later one, and six ticks let a window of four pass.
Deadlock is not checked: with bounded requests, pushes and jobs each system
comes to rest (locks that wait for each other are modelled, and broken as
Postgres breaks them, in `BreakDeadlock`).

Why `files_calm` is calm. The excluded cases are not unlikely, they are where
the code has no defence, and what happens then is either a finding below or a
hazard in `PROJECT.json`: a push between an attempt and its resume makes the
resume skip a file done at the old version (and shifts places in the listing); a
change of mode or a failed fetch shifts them too; an expired result is not an
error; a Resume requested without the button may pick a completed run. In all of
these `files_any_environment` still holds.

What `RulesNeverGoBack` leaves out. Rules stored in full are never taken back to
an older version. Rules stored in part may be, and TLC shows it within the bounds
of `files_any_environment`: batch 1 is submitted at version 1 and the worker
dies; a push; a resume through a proxy stores some rules of version 2, another
raises, and the file has an "error" checkpoint; a retry without the proxy takes
up batch 1, whose status never became "ended", and version 1 overwrites them.
The file is listed again, since the last commit does not vouch for it, but only
a later ingest brings version 2 back. So the property asks, of whatever a store
brings in, that some rule of the file was not newer before.

A reply that cannot be parsed is an extraction without rules, and its file is
done with nothing stored (`StoreNoRules`, the outcome "garbled"). It is in the
run of any environment; `DoneMeansStored` is claimed where it does not happen.

### Findings

- `sweep_race`: the docstring of `_sweep_stale` says the sweep cannot race a
  running job. A job that is cloning has no run yet, so the sweep resets its
  source when there is no run at all or the run of an earlier ingest is stale.
- `failed_flush`: the handler rolls back "because the session may be in a DB
  error state from a failed flush", but reads `src.name` before, which after a
  failed flush raises. The source stays "ingesting" until the sweep.
- `expired_file`: a result that is neither succeeded nor errored does not count
  as an error, so `last_commit_sha` moves past a file that failed.
- `reattach_mix`: results of a re-attached batch are looked up by place in the
  new listing, so a file may be "done" with another file's rules.
- `lineage_origin`: an ingest inserts a rule without a version and an edit logs
  only the new definition, so the definition that was extracted is gone with the
  first edit, although the lineage is "full version history".

### Fairness

`FairSpec` is weakly fair to time, to the cron (`SweepScan`, `SweepCommit`) and
to arq's cancellation (`TimeoutJob`). arq runs the cron every five minutes and
cancels a job at `job_timeout`; the sweep catches the failure of one source and
goes on. No fairness is assumed of a job's own steps: it may hang in a clone or
an LLM call until it is cancelled, nor of the admin. Since time does not pass a
job's timeout before the job is cancelled, `Tick` needs the fairness of
`TimeoutJob`. The liveness run has no symmetry.

## Proofs

`IngestJobsProofs` proves, for any sources and slots, any positive timeout, any
non-negative grace and any bounds, the type invariant and the three safety
properties of `jobs_safety`. The properties are not inductive. `IInv` adds to
them:

- `JobInv`: a job that resumes or works holds a run of its source's name that
  exists; a plain ingest that works has made progress; and **since its last
  progress no more time has passed than the job has lived**
  (`JobRun(j).idle <= jobs[j].age`). With `age <= JobTimeout` (arq) and
  `Grace >= 0` this gives `LiveRunNotStale`: the timing argument of DEC-045.
- `UploadsInv`, `MarksInv`: what an upload or a sweep names is a run that
  exists. An ingest opens a run with a number above all of them, so the marks of
  a sweep under way cannot name it: `SweepSparesFreshRun`.

Two facts carry the proof: every action but `Tick` lets runs only grow and their
idle time only shrink (`RunsGrow`), and every action of a job changes one job
(`OneJobStep`). There is one lemma per action or group of like actions, then
`NextInv`, and the theorems by PTL. The assumptions are those of the module:
`JobTimeout` positive, `Grace` a natural number. The code does not check the
latter, the setting may be negative.

`BatchIngestProofs` has two layers. For any environment, and any number of
files, pushes, jobs and crashes, it proves the types, that a file that is done
stays done while its run is the latest (`DoneFilesStayDone`), and that rules of a
file that are all of some version or newer are never joined or replaced by those
of an older one (`VersionsAscend`). `IInv` adds to the types:

- `BatchIds`: a batch id in the run or the job is that of a batch that was
  submitted, and a job submits at most one.
- `NotAhead`: nothing that is listed or requested is newer than HEAD, and not
  all rules of a file are (`Floor`).
- `TodoIsOpen`, `BatchNotOutdated`: what a job has left to do, and what the batch
  of its run was asked, are files the run is not done with, and **not older than
  all the rules that are stored for them** (`Behind`): the batch may be of an
  older commit than HEAD, but what a file the run is not done with has in full
  was stored before it. What it has in part may be newer, so the invariant
  bounds the oldest of its rules, not the newest.

What the second layer proves is not true of any environment (see the findings
and "Why `files_calm` is calm"). Its theorems have the hypothesis `Calm`, that is
what `BatchIngestCalm.cfg` sets, on the constants that describe the environment:
results succeed or fail, the mode does not change, fetches do not fail, pushes
come while nothing can be resumed, Resume is requested by the button. Files,
logic files, pushes, jobs and crashes are as many as there are. Then last commit
vouches for rules (`ShaIsTrustworthy`), "done" means stored in full (`DoneIsStored`),
failed files are listed again (`FailuresAreListedAgain`), the tallies of a
completed run are totals (`TalliesCoverTheRun`), and `BatchIngest` implements
`IncrementalSync` (`ImplementsIncrementalSync`: the step that moves the last
commit is one of the abstract `Advance`). `CalmInv` is the argument for it: a job
works at HEAD, and **every file of its diff is done, left to do, or has failed in
this very job, which remembers it had a failure** (`JobCoversDue`); the batch of
a run that can be resumed was asked exactly what is left to do, and under the
same ids (`BatchIsCurrent`: the places in a listing only depend on the files);
what the run has done it has done at HEAD's version (`RunIsCurrent`); what HEAD
and the last commit share has HEAD's rules (`ShaIsCurrent`).

`IncrementalSyncProofs` proves that in the abstract specification the diff
between last commit and HEAD hides nothing that is out of date, for any number
of files; the strengthening is that the last commit is never ahead of HEAD.

`RuleLifecycleProofs` proves, for any number of rules, titles, definitions,
users and concurrent requests, the type invariant, the three safety properties
and the action property of `rule_lifecycle`. The invariants about the tables are
not inductive, since a request writes what it loaded at some earlier time. `IInv`
adds what remains true of the loaded copy however old it is (`LoadedInv`): the
status it shows is one the log tells of, and **while a rule has no history its
definition is still the one that was loaded**. So whoever writes the first
version of an ingested rule cannot write one that lacks the rule's definition;
from then on the definition changes only together with a version that has it.
`NoLog` (no history before a rule exists) makes the fact true of a rule that has
just been inserted, and `ArgsInv` ties a pending notification to its version.
`Advance` says how one step moves rows and log, and `RequestAdvance` that any
such step keeps what every waiting request holds; with that there is one lemma
per action, which looks at one rule and one request.

`LimiterChatProofs` proves, for any keys, calls, limit, window and delay, the
types and that no window shorter than `Window` by the delay has more than
`Limit` instants at which calls were let through. The invariant behind it: a
call that was allowed is still among the hits of its key, or a window old
(`KeptInv`), and a key outlives every hit it holds by a window (`HitsInv`), so
neither the removal of an overtaking call nor EXPIRE forgets what still counts.
The count at the time of the last call of a window then bounds all of them.
`FromInv`, every hit is of somebody's call, gives `RefusalsHaveCause`.

The same module proves for any requests and sessions that every list, stored
*or loaded by some request*, is coherent and in the order of the answers; since
a save writes a loaded list with one exchange more, what is true of all the
copies stays true of the stored one.

`ArchiveAudienceProofs` proves `ToldOnce` and `ScoresAreMeans` for any users and rules.
Two subscriptions of a pair come from requests that were open at the same time:
`SubsInv` has that a row which a request is about to insert a second time is
already known to be tangled. For the scores: as long as no other improvement has
ended, what an improvement has loaded is what is there, and it has seen all
signals that were measured before (`ImproveInv`).

It also proves, for any rows and transactions that fit the schema
(`SchemaAssumption`: what the foreign keys refer to, and that a checkpoint's run
is not NULL), that no row is ever without those it needs, that a reset which is
carried out leaves only the sources, why a reset is refused, and that a snapshot
is closed. Three facts about the two lists of tables carry it: parents are
exported first (`ParentsFirst`), children are deleted first but for checkpoints
(`ChildrenGoFirst`), and the reset comes to every table but two (`AllTables`).
The invariant is about the tables the operation has passed: behind the reset,
only rows that came late (`GoneInv`); behind the export, only rows it has read
or that came late (`ReadInv`).

`FrontDeskProofs` proves, for any users, admins, settings, values and requests,
that roles and settings are what the audit log tells (`RolesAreExplained`,
`SettingsAreExplained`). A `user.created` entry has no detail, so the role a user
was created with is told by the first change only, as its `old_role`; the history
variable `given` keeps it, and `RolesExplained` compares the two. That the last
committed change tells the role holds however requests cross, since entry and row
are one transaction. That the entries chain, each from the role before, needs
what the handlers have loaded (`RoleCurrent`): **who is about to update a user
whom no requests crossed on began after the latest change and has read the role
that is stored**, and who began before the first change has read the role given.
For a setting the invariant speaks of the forms
under way: **who is about to save a setting that is not crossed began after the
latest entry about it, and what he has read of it is what is stored**
(`ReadsCurrent`), so the columns his UPDATE leaves alone are right as well, and
the entry he adds is the newest. `DeskAssumption` says of the constants what the
code's types say: a value is not the mask, and nothing is the model's `Unset`.
Then, that a behaviour of `FrontDesk` is one of each of its parts
(`PartsRunAsSpecified`), and so that the run's eleven properties hold of the
composition for every value of the constants (`TypeCorrect`, `PartsKeepTheirs`).

`UpkeepProofs` proves, for any rules, modules, texts, sources, sessions and
losses, all seven properties of the run `upkeep`: that types hold, that conflicts,
glossary, pages and labels are right when they are not in doubt
(`ConflictsStayExact`, `GlossaryStaysExact`, `PagesStayExact`, `LabelsStayTrue`),
and that decisions and people's definitions last (`DecisionsLast`,
`ScansLeavePeople`). It comes in three layers:

- Operators: what a row, a page or a set of columns is after `Over` and
  `Changed`, and what a scan may do to rows (`ScansExtend`: it makes rows of free
  ids only and leaves definitions alone; `ScansWrite`: it keeps one row for each
  group and lists every term of its text). `Scans` is a recursive function of
  the place in the text; what holds at its end is shown by the least place at
  which it fails, since induction is not available.
- One lemma per action, `...Effect`, which gives the types of what it leaves and
  says what it does to each session in terms the later layers use (`Same`,
  `Committed`, `Commits`, `Began`). With them `Types` is inductive.
- Per promise an invariant, one lemma per action that can disturb it, and one
  lemma for sessions the action does not touch:
  `HoldInv`, **what a session has for itself no other session holds, and a table
  or page that is held but not had for oneself is in doubt**;
  `ConflictInv`, a session that has the table for itself has found all conflicts
  of the rules it sees, unless another session owes a detection;
  `PageInv`, a session that has a module for itself was given the rules the
  module has, and the pages it has written are of those;
  `RowInv`, an id has one maker, a session knows the rows it works on, and sets
  a status only in rows it makes or was asked to decide;
  `LabelInv`, of a row it has for itself a session knows the definition that is
  stored, be it accepted meanwhile;
  `WordInv`, while the glossary is not in doubt, what any session would commit has
  one row for each group, and **the terms of a source whose rules are on record,
  or about to be, are listed, or a session owes them**: it has the scan before it,
  its result in memory, or its rows in the transaction.

The assumptions say what the constants are: clashing pairs are pairs of rules
(`ClashAssumption`), modules, tables and ids are different things
(`ThingsAssumption`), NULL is no value of a column (`NullAssumption`), the bounds
are numbers (`BoundsAssumption`). `GlossaryStaysExact` has one hypothesis more:
every source has a rule that no other source has. The property knows that a
source was ingested by its rules being there; a source without rules of its own
would count as ingested before it is. The instance of `upkeep` satisfies it.

Only model-checked: `NoStuckIngesting`, because liveness under fairness is out of
the provers' reach; and what the runs that find a counterexample show.

## Not modelled

Creating, deleting and renaming sources (a rename hands a source another's runs,
see the hazards); work items; login, tokens, password hashing and connected
accounts; the import of a snapshot, which by the driver's typing refuses rows of
strings after it has restored the files; coverage, which nothing calls, and
impact, which only reads; the content of rules, prompts, texts and the
service summaries that pages are also written from; the Cognee graph, whose
failures every caller ignores; webhooks and the other connectors, which are
stubs; a restart of Redis, after which limiter and chat begin again; the
frontend, but for when it offers Resume; migrations (their foreign keys are in
`Archive`), seeds, fixtures.

## Plan

Done: `IngestJobs`, `BatchIngest`, `IncrementalSync`, `RuleLifecycle`,
`Glossary` and `Upkeep`, the five parts of `FrontDesk`, and the proofs listed.
Left:

1. Creation, deletion and renaming of sources in `IngestJobs`, with its proofs.
2. Work items in `RuleLifecycle`; the import.
3. The timing arithmetic (poll budget, job timeout, stale threshold) as
   operators checked over ranges.
