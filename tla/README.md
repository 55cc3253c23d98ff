# Janasunani in TLA+

Janasunani digitises and triages citizen grievances of the Odisha government.
Complaints are copied from a MySQL dump into an OLTP store, their scanned
letters are downloaded, a resumable pipeline reads, redacts, types, summarises
and categorises the pages, and an API serves the results.  This directory holds
TLA+ modules for the parts of it where order, crashes and concurrency decide
whether the result is right, TLC configurations that model-check them on small
instances, and TLAPS proofs that lift the most important properties to every
value of the constants.

Paths below are relative to `src/janasunani/` unless they start with `src/`.

    tlc -workers 2 -config SarvamEgress.cfg SarvamEgressMC    # one run
    tlapm SarvamEgressProofs.tla                              # one proof module

## 1. Inventory

### 1.1 The parts, and how they meet

    MySQL dump --migration--> OLTP store (complaints, document_ingestion, ...)
                                 |  ^  \
                 document ingestion |   \-- grievance redaction --> duplicate index
                                 v  |
                       document store (disk or S3)
                                 |                      model releases
                                 v                        |  (active.json)
       artifact database  <-- pipeline stages  <-- hosted document route
                                 |                      ^  (audit log, limiter)
                                 +--export--> OLTP store --> OLAP lake, analytics
                                                 ^
                       serving API --> request processor (models, triage)

Almost nothing is shared in memory.  The parts meet in tables (the OLTP store,
the SQLite artifact database, the SQLite audit log), in directories (the
document store, the model releases) and at one remote provider; and each is
written by commands that operators start, kill and start again.  Hence what is
hard here: a command that dies between two writes, a selection that is stale by
the time it is acted on, two commands that overlap, and a provider that bills
for what it accepted whether or not the answer arrived.

### 1.2 Each part: state, operations, what makes it correct

| part | state it keeps | operations | what is hard | correct when | module |
|---|---|---|---|---|---|
| Submission limiter (`egress/sarvam.py` `_wait_for_submission_slot`) | deque of call times | wait for a slot, send | window boundary, late wake-ups, the deque dies with the process | no more than the budget in any window; no call waits without need; every wait ends | RateLimiter |
| Hosted document route (`egress/sarvam.py`) | audit log; the provider's jobs | submit with retries, poll, look up, download, fall back, resume | answer lost after acceptance; crash or refused append after acceptance; two processes with the same request; kill switch | a request is billed once unless its job failed; only recorded jobs are polled; a failure the route knows of ends in the local engine | SarvamEgress |
| Transliteration, Extract schema validation (`egress/sarvam.py`) | rows in the same log | POST per chunk; depth and size checks of a schema | a failure midway is paid again (`:782-800`) | every chunk is paid once per call; refused schemas never leave | - |
| Document pipeline (`pipeline/`, six stages) | artifact database | select what is missing, work, write in batches | kill with full buffers; overlapping processes; sharding by position in a stale list; a summary that is blank is pending again | a page has one outcome; what is derived agrees with its source; every stage ends (the summarizer, once its texts are not blank) | ArtifactPipeline |
| Model releases (`tracking/release.py`, `materialize.py`; `inference/service.py` start-up) | release directories, `active.json` | materialize, activate, resolve, preflight | two commands for one id; a move that fails or is killed halfway; a clean-up that fails, or removes a release that was complete; bytes that change on disk | published releases are immutable; the pointer is at a whole one; nothing drifted is loaded | Release |
| Document ingestion (`ingestion/`) | document store, `document_ingestion` rows | list, download, store, record | 429s, failed listings, crash between store and record, two runs at once, file names with a resolution of one second | what is recorded is stored; nothing is skipped silently; one copy | DocumentIngestion |
| Grievance redaction (`pipeline/redact_grievance.py`) | `grievance_redactions` | count, select pending, redact off the transaction, upsert | stamps of analyzers in any order, only compared for equality; runs that overlap; text changed meanwhile | what a run finds redacted it leaves, unless it refreshes and its stamp differs | GrievanceRedaction |
| Duplicate index (`pipeline/dedup_index.py`, `dedup.py`; reader `analytics/findings/workload.py`) | signatures, groups | refresh changed signatures, index pending ones, verify candidates block by block, check again, persist; assert the snapshot | sources that change, or change and come back, while they are read; crash between batches; scopes that split groups or lose pairs | accepted groups are those of the texts they are stamped with; groups stay whole; an undisturbed run certifies its scope | DuplicateIndex |
| Serving API (`serving/`) | submissions (memory or table) | submit, get, history, dashboard | processed, then saved: a failed save loses it | a returned ticket can be fetched | no |
| Request processor, triage (`inference/`, `serving/triage.py`) | none | one function per request, with fallbacks | which failures are fatal | a model that fails degrades its own field only | Release (start-up only) |
| OLTP store (`db/`) | schema; request tracking | upserts, request counters | counters updated without a lock | tracking is monotone | its tables with their writers |
| Artifact export (`pipeline/export.py`) | none | read two tables, upsert in one transaction | the two reads are two snapshots | a document exported has its pages | no |
| Migration (`migration/`) | OLTP rows | stream, insert or ignore | keys noted before the insert commits | re-runnable | no |
| OLAP lake (`olap/`) | Parquet files | copy tables one by one | a lake of several moments | pure I/O | no |
| Routing (`routing/`) | none | rules, look-ups | - | pure functions | no |
| Recognisers, scores, tickets (`pii/`, `pipeline/spam.py`, `ocr_quality.py`, `ticket.py`, `pii_eval.py`) | none | functions of text | - | pure functions | no |
| MLflow tracking (`tracking/mlflow_utils.py`) | remote registry | calls | - | pure I/O | no |
| Analytics, evaluation, experiments; front end, deployment, scripts | - | reports, a client, infrastructure | - | outside the running system | no |

`PROJECT.json` lists every part under "components" with its files, and under
"hazards" each place where the code is hard to test, with the property that
would catch it going wrong, or the reason that none does.

Seen while reading, and not among the hazards because nothing the repository
says depends on them or the effect is slight: Transliterate pays finished chunks
again after a failure midway; an empty grievance may erase an earlier text
(`ingest_grievances.py:136`); a start-up that overlaps an activation may take
models of two releases (`service.py:512`); a document whose ingestion failed is
not selected again (`db/crud.py:440`); the export reads pages and documents at
two moments (`export.py:71`); a `rollback()` is not awaited (`db/crud.py:58`);
`failure_count` is read and written without a lock (`db/crud.py:560`).

## 2. Modules

| module | what it is |
|---|---|
| `SlidingWindow` | what a caller of a rolling limiter is promised (abstract) |
| `RateLimiter`, `RateLimiterProofs` | the limiter, line by line; its proofs |
| `JobLedger` | what the audit log promises about paid jobs (abstract) |
| `SarvamEgress`, `SarvamEgressMC`, `SarvamEgressProofs` | the hosted route over its log and the provider |
| `PageFlow` | what the artifact database promises of each page (abstract) |
| `ArtifactPipeline`, `ArtifactPipelineMC`, `ArtifactPipelineProofs`, `ArtifactPipelineProgress` | six stages, any number of processes; what they keep, and that they end |
| `Release`, `ReleaseMC`, `ReleaseProofs` | operators' commands, the file system, start-ups |
| `DocumentIngestion`, `DocumentIngestionProofs` | the ingestion command, its coroutines, the store |
| `GrievanceRedaction`, `GrievanceRedactionProofs` | the redaction backfill over the complaints |
| `DuplicateIndex`, `DuplicateIndexMC`, `DuplicateIndexProofs` | the index over the redactions, and the reader of its groups; extends GrievanceRedaction |

No module declares a RECURSIVE operator.  "map" in `PROJECT.json` gives, for
every definition that models code, the file and the lines it stands for.  A
definition whose comment says *Mutant of X* is not part of the specification: it
is X with a plausible bug, kept to show that a property would notice it.

### 2.1 RateLimiter

One caller (one adapter, one page at a time); time is what is concurrent.
`clock` is `time.monotonic()`, `times` the deque, `now` the local variable,
`pc` the line of the function: `Ask`, `PopLeft` (each turn of either `while`),
`Sleep`, `Wake` (late by any amount), `Grant`, `Send` (up to `MaxSendDelay`
after `now` was read), `Restart`, which loses the deque.  `grants` and `sent`
are observations: the slots of this process, and the requests of all processes
as the provider sees them.

### 2.2 SarvamEgress

A worker is a process with one adapter.  `log` is the table
`authorized_external_audit` in id order; `jobs` is what the provider has
accepted, and it bills each.  A call goes through the lines of
`digitise_or_fallback` or `extract`: configuration and kill switch, the look-up
of an earlier job (`SubmittedJob`), the POST with its attempts, the polls, the
look-up of the result and the download, and a local fallback.  The remote
effect and the append that records it are *two* steps (`submit` / `posted` and so
on): between them a process may die and SQLite may refuse the row.  A lost
answer is an accepted job with an error answer.

Not every failure is one the route turns into a `SarvamError` and a local
fallback.  Three are raised past it: a row the log refuses; an archive whose
members cannot be unpacked (damaged or encrypted: `_primary_markdown` converts
`BadZipFile` and `UnicodeDecodeError` only, `:1344-1360`), which is the answer
`"corrupt"`; and a status that is a list or an object, `"odd"`, on which
`state in TERMINAL_STATUSES` (`:1072`) raises `TypeError`, and which stays in
the log and raises again when the job is looked up by a later call (`:541`).
`FallbackUnlessUnforeseen` says that there is no fourth.  Waiting for a slot is left to
RateLimiter, which shows that it ends.  Request and response bodies, archives
and schemas are abstracted to what decides the control flow.

### 2.3 ArtifactPipeline

The artifact database is six facts per page and four per document.  A stage run
is: select what lacks the column (`Start...`), take it one by one or batch by
batch, hold results in memory, write at `BatchSize`, write the rest and leave.
`Kill` at any moment loses the memory; an interrupt (Ctrl-C) flushes and leaves,
in the three stages that catch it.  Processes are independent: `Selected` gives each its
`--stages` (the extras `pii`, `ocr-deepseek` and `pipeline-core` conflict, so
the deployment runs several environments against one database), and OCR
processes shard the list by position (`Slice`).  An OCR
process may be started while another of the same shard is at work; nothing in
the command line forbids it.  A model returns any text, a blank one included,
which is stored as it is.  For the summarizer this matters: it fetches what has
no summary *or a blank one* (`summarizer.py:100`), so a document whose summary
came out blank is fetched again by the same run, and the run ends only if its
model gives something else one day, which is what `StagesEnd` says.  The
language and type of a page are properties of the page.

### 2.4 Release

Operators run `janasunani-model-release`, one command after another each;
materialization builds in a private staging directory, then
`mkdir`s the final one (the only exclusion there is), moves the items one at
a time, in any order, and removes the emptied staging directory
(`RemoveStaging`); a failure of any of these removes the final directory, a
kill does not.  So a release that is complete already is removed again when the
`rmdir` of the staging directory fails (`materialize.py:104`).  The removal
ignores errors (`:108`), so it may leave part of the directory (`CleanFails`)
with no command to answer for it.  A release is *published*, and
`PublishedStays` speaks of it, when it is complete and its command has ended.
Activation loads and checks a manifest, then replaces `active.json`.
A start-up resolves each model: operator override, then the active release
(with a digest check cached for this start-up), then the mirror; the preflight
reports on the release after the required models.  Bytes may drift at any time.
Hosted models, digests and the registry are abstracted; a release named by
`JANASUNANI_RELEASE_MANIFEST` instead of the pointer is not modelled (the
component is "partly" for it, and for the registry commands).

`AnyTime` says whether a release may be activated while it is still being
materialized.  The documentation speaks of activating a *previously
materialized* manifest (`src/README.md:340`), so the run has `AnyTime = FALSE`;
with `TRUE`, TLC finds the pointer at a release that is half there, which is
listed as a hazard.  What goes wrong then is one thing only: a failed
run cleans up a release that is active or that an activation has loaded the
manifest of.  That is what the theorems exclude, as `Calm` (section 4).

### 2.5 DocumentIngestion

A run loads all pending complaints, then takes them in chunks; the coroutines of
a chunk interleave, `Slots` of them at a time (the semaphore).  A coroutine
lists what is stored, asks for the document, stores it, and returns one of the
results; a 429 calls the whole of `download_document` again, up to
`MaxRetries`.  The store is the local disk or S3, chosen in `Init`: a local
file is opened and then written, so it can be half there; an upload is whole or
nothing, but its answer can be lost.  A failed S3 listing is an empty one.  The
update of a chunk is one statement, which may fail and end the run; a run may be
killed anywhere; two processes may run the command at once.  `files[c]` are
the names under which complaint c is stored, `whole[c]` those with all their
bytes, and its row holds the one it was recorded with.  A name carries the time
to the second (`document_ingestion.py:53-58`) and is therefore modelled as a
member of `Seconds`, chosen freely when a file is stored, as clocks can be set back:
opening a name that exists truncates the file (`:105`), and `reopened` observes
that this happened to a file of another run.  The batch size of 500 is larger than the chunk of 100,
so the flush inside a chunk never happens from the command and is left out.

### 2.6 GrievanceRedaction

The tables are `complaint` (its text, its district-year, and its *facts*: all
else that the index reads) and `redaction` (the redacted text and the stamp of
the analyzer).  A stamp is a commit, a dirty mark and package versions, and the
code only compares it for equality: a run (`Start`) may hold any stamp, an
earlier one again after a rollback, and `Redact(v, x)` is a *set* of texts, as
two working copies can share a stamp and differ.  A run is given a slice,
perhaps `--refresh-stale` and `--limit`.  It loads a batch (`Load`), redacts it
with no transaction open, and upserts it whatever the rows have become
(`Upsert`); it ends when nothing is pending or the limit is used up; it may be
killed anywhere.  Underneath it `Edit` does what the upserts of `db/crud.py` do
to a complaint: they overwrite every column, perhaps with what it held before.
Runs of several processes may overlap and overwrite one another's rows.

`found` (the redaction each row of a batch was chosen by) and `moved` (a
complaint has changed its district-year) are observations the properties are
stated with; `changes` counts the runs and updates up to the bound `MaxChanges`.

### 2.7 DuplicateIndex

`DuplicateIndex` extends `GrievanceRedaction`: its steps and those of the
redaction interleave between any two transactions.  A run has the stages of
`build_dedup_index`: *refreshing* the signatures whose source has changed, in
batches; *indexing* what is pending, in batches, each one transaction;
*grouping*, the transaction that loads the signatures and checks the sources
and the scope; *verifying*, one transaction per block and per batch of
identities (`PickBlock`, `PickPeople`), which reads the redacted texts **as they
are then**, `BATCH_SIZE` of them per statement (`ReadTexts`), each statement at
a moment of its own; *persisting*,
after the sources were checked once more.  Each refusal (`_moved_sources`,
missing sources, a digest that differs without `--refresh-stale`, legacy
signatures, a scope that would split a group) ends the run.  A run may die
between any two of these.  Rows indexed before digests were recorded are
`Legacy`.  A digest is modelled as what it is taken of (`Record`: district-year,
facts and redacted text; the stamp is not in it), so a snapshot is a set of
source records.  The reader is `Accepted`, `assert_group_source_snapshot` as
the findings call it; it may hold records of any moment (a lake).

The second check of the sources compares digests, so it does not notice a text
that changed *and came back* between two statements; a rollback, or two
redactors of different stamps, can do that.  `quiet`, `returned` and `doubtful`
are observations: no source has changed since the run began; a text has come
back while it was verifying; and the tickets whose groups were found while one
did.  `ConsumerSound` is about the groups outside `doubtful`, and the hazard list
names the gap.

Abstracted: MinHash to a set of bands per text, the Jaccard threshold to a
relation `Alike` of the version, salted keys to the identity and the salt, the
script into the bands.  The transaction that opens the grouping is one step:
what it decides on is read by one statement.  Assumed, because nothing in the
code provides for the contrary: one run of the index at a time.

## 3. Runs

| run | shows |
|---|---|
| `RateLimiter` | `WindowBudget`, `DequeBounded`, `SleepsOnlyWhenFull`, `ProviderSlack` (after r restarts the provider sees up to r + 1 budgets in a window, up to the send delay), `SleeperServed`, and that it implements `SlidingWindow` |
| `SarvamEgress` | one worker, crashes, refused appends, lost answers, changing configuration: `KillSwitch`, `SettledBeforeNext`, `BilledOnce`, `FallbackUnlessUnforeseen`; the log implements `JobLedger`; with two submission and two poll attempts, `CallsEnd` |
| `SarvamEgressTwo` | two workers share log and keys, one extracts: `PollOnlyRecorded`, `RemoteTextIsOurs` |
| `ArtifactPipeline` | two environments at once, kills and interrupts: `OneOutcome`, `ChainAgrees`, `ShardsCoverWork` (one OCR worker), `StagesEnd` (the summarizer unless its model gives blank texts for ever); the stages implement `PageFlow` |
| `ArtifactPipelineShards` | *finding*: with two OCR workers pages are left to nobody |
| `ArtifactPipelineRetry` | *finding*: a page recorded as unreadable by the format classifier is tried again, and may turn into a classified page |
| `Release` | two commands, a start-up, failures, kills, clean-ups that fail or come too late, drift: `PublishedStays`, `ActiveIsComplete`, `NoDebris`, `DriftIsCaught`, `PreflightIsTruthful` |
| `DocumentIngestion` | two processes, three runs, every failure, file names that coincide: `RecordedIsStored`, `NothingSkippedSilently`, `OneCopy`, `DownloadedIsFinal`, `RunsEnd` |
| `DocumentIngestionRecord` | *finding*: a document stored by a run that dies before its update is never recorded |
| `DuplicateIndex` | runs of any scope under two redactors of any stamps, edits, moves, texts that come back, a rotated salt, crashes: `ConsumerSound`, `GroupsWhole`, `CompletedRunCertifies`, `RewrittenByRefresh` |
| `DuplicateIndexMoved` | *finding*: after a move, a run of the slice moved to regroups the complaint alone, and the slice of the half that stays behind is accepted with one row whose group says two |
| `DuplicateIndexSlices` | *finding*: runs of one district-year each lose text duplicates that a corpus run finds |

Each property is stated in words above its definition.  Each one of a passing
run has a mutant in `PROJECT.json` that breaks it.

### 3.1 Bounds, and why they are enough

- *RateLimiter*: budget 2, window 3, horizon 6, send delay 1, one restart.  Two
  full windows pass, a slot expires exactly on the boundary, both `while` loops
  turn more than once, and a sleep overshoots.  The real values (10 and 60) are
  covered by the proofs.
- *SarvamEgress*: one request, one worker, two calls, two submission and two
  poll attempts, one crash, one refused append.  The second call can find each
  state of the log the first can leave, with the crash or the refused row at
  any step, and has retries left and exhausted; both loops turn twice, for `CallsEnd`
  as for the rest.
  *SarvamEgressTwo*: two requests (one of Extract), two workers, one attempt
  each: the least in which two processes look for, submit and resume the same job,
  and enough for two properties of what is recorded under which request.
- *ArtifactPipeline*: one file of two pages of which one is a letter, two
  processes of disjoint stages, batches of two.  Two pages are the least
  for which a document is half read, half redacted or half flushed.
  *Shards* takes three files so that the residue of a position changes when another page disappears.
- *Release*: two ids, two models (one required, one overridden), two commands,
  one start-up.  The commands can want the same id and different ones;
  a release pins both models or none.
- *DocumentIngestion*: three complaints (one with a link), chunks of two, one
  slot, two retries, two processes, three runs, two seconds: a run has more than
  one chunk, a third run sees what two left, and two runs may choose one name or
  two.  With one complaint linked the slot is not contended; that runs get
  through contention is the theorem `IngestionRunsAreBounded`.
- *DuplicateIndex*: two complaints of one petitioner in two district-years
  (each may come to the other's, and the first lose its own), two redactors (symmetric),
  two stamps of which the second may mask a text, two texts and two values of the
  facts, an old and a new version of the index, batches of one, a limit of one or
  none.  `MaxChanges` is 2, runs of redactors and updates together: enough for a
  text to change and come back, for one redactor to overwrite the row another is
  at work on, and for a move followed by a redaction.  One complaint begins
  redacted, indexed under the old version and legacy; the other is new or
  redacted.  Two tickets are the least that can be a group; batches of one put a
  crash and a redaction between any two rows.  Large buckets (`Cap`,
  `AnchorCount`) do not occur among two tickets; the proofs hold for every value
  of both.  *Moved* and *Slices* need no redactor: both complaints are redacted
  and indexed before.  *Moved* has a third district-year, which the moved
  complaint needs to leave the reach of the check.

CHECK_DEADLOCK is off where commands simply end (no more runs, calls or stages
to start): that is the system at rest.

### 3.2 Fairness

Fairness is assumed of processes that are running, never of operators, the
provider's goodwill, crashes or failures.

- `RateLimiter`: the clock ticks and the one caller takes its next step; it is
  a sequential function and the sleep is `time.sleep`.
- `SarvamEgress`: `WF(Run(w))` - a worker process that is in a call goes on;
  every remote call has a time-out, so it gets *some* answer, which may always be
  an error or "pending".  `CallsEnd` therefore rests on the bounded loops of the
  code, not on the provider.
- `ArtifactPipeline`: `WF(Work(m) \/ (todo[m] = {} /\ End(m)))` - a process that
  has entered a stage runs on.  It need not be killed, nor interrupted, and the
  summarizer's model need not ever give a text that is not blank.
- `DocumentIngestion`: `WF(Proceed(r))` - the event loop runs, and the HTTP
  client gives up after its time-out.
- `DuplicateIndex`: none; every property is a safety property.  That a backfill
  ends is not checked: it is a loop over what is pending that each batch makes
  smaller, unless two refreshing runs of different stamps overlap, and then it
  need not end (listed as a hazard).

## 4. Proofs

Each proof module extends its component and proves properties that the runs
check, for all values of the constants that satisfy the named ASSUMEs.
The layout is the same in each: the inductive invariant `IInv`, defined
at the head of the proof module, a lemma for the initial states, one lemma per
action, lemmas for what a helper preserves, and one temporal step per theorem.

Four results need something the code leaves to how it is operated.  They suppose
it of the *behaviour* (`Spec /\ []Apart => ...`), not of a constant, so they hold
for any number of workers, commands and processes; and for each supposition
there is a theorem that a way of operating the code meets it.

| supposition | what it says | why it is needed | met |
|---|---|---|---|
| `Apart` (egress) | no two workers are submitting the same request at one moment | the job is looked up in the log before the POST (`egress/sarvam.py:974`) and nothing reserves the request: TLC finds two paid jobs | with one worker: `EgressOneWorker`; `validate_sarvam_sharding` (`pipeline/config.py:5-18`) allows a hosted run no more, though it cannot see a second run |
| `Disjoint` (pipeline) | OCR processes answer for different pages: to do, held or failed | neither the texts nor the unreadable pages are written with a condition: TLC finds a page with both | `PipelineSameListIsDisjoint` |
| `SameList` (pipeline) | an OCR worker that joins others loads the list the first of them loaded | slices are positions in a list (`shard_work_items`), so slices of different lists overlap, or leave pages to nobody: the run `ArtifactPipelineShards` | with one worker, the default, and no second OCR run started while one is under way (`Alone`): `PipelineOneRunAtATime` |
| `Calm` (releases) | no failed run cleans up a release that is active, or that an activation has loaded the manifest of | `activate_manifest` loads, checks and writes the pointer at three moments, and a run whose `rmdir` fails removes a release that was complete: TLC finds the pointer at half a release | when releases are activated that nobody is materializing: `ReleaseQuietIsCalm` |

| module | theorems | inductive invariant, and why the property alone does not do |
|---|---|---|
| `RateLimiterProofs` | `LimiterTypeOK`, `LimiterKeepsBudget`, `LimiterDequeBounded`, `LimiterSleepsOnlyWhenFull`, `LimiterProviderSlack`, `LimiterImplementsPromise`, `LimiterWaitsAreBounded` | The deque is the tail of the grants, what was dropped is a window old, and the sleep is long enough to expire its head.  The last point is why there is room after the second `while`, though the code does not test the length again.  For the provider, `SlackInv` cuts the requests at the last restart: those before it kept r budgets, those after it answer one to one to the grants.  `Left` counts what a wait has still before it: the entries to drop, the time to sleep, the lines. |
| `SarvamEgressProofs` | `EgressTypeOK`, `EgressPollsOnlyRecorded`, `EgressKillSwitch`, `EgressRemoteTextIsOurs`, `EgressFallbackUnlessUnforeseen`, `EgressCallsAreBounded`; under `Apart` `EgressSettledBeforeNext`, `EgressBilledOnce`, `EgressImplementsLedger`; `EgressOneWorker` | What a worker knows at each line (its job is recorded for its key; the answer it holds is the status of that job).  `BInv`: whoever is about to POST finds every earlier job of the request recorded as unsuccessful, and every accepted job is in the log, in a worker's hands, or in `lost`; the other workers go on polling, resuming, failing and restarting meanwhile.  For the ledger, `LInv`: the log tells of a job how it ended and nothing else, what is polled is the newest job of its request, and an acceptance that is not recorded yet is of a job the log does not name. |
| `ArtifactPipelineProofs` | `PipelineTypeOK`, `PipelineSlicesPartition`, `PipelineSameListIsDisjoint`; under `Disjoint` `PipelineOneOutcome`, `PipelineChainAgrees`, `PipelineImplementsPageFlow`; under `SameList` `PipelineShardsCoverWork`; under `Alone` with one worker `PipelineOneRunAtATime` | What an OCR process has to do, has read or has failed is still pending and it holds each page once; a tagger's batch is what the pages say, a snapshot of redactions is of redactions they still have.  For the refinement, each lemma of a step also shows that rows keep what they have (`Keeps`) and that the OCR outcome changes only where it was pending (`Moves`).  `CInv`: of the list the first worker loaded, a worker at work answers for what is pending of its slice, and a worker that has come to its end left nothing of its slice.  The proof that the slices cover the list is by least counterexample (`LeastExists`), as the position of a page is the number of those before it. |
| `ArtifactPipelineProgress` | `PipelineStagesAreBounded` | A process that holds a page has it in hand, to write, or failed, and each step moves one page on or writes it; what it selected is at most `NumPages`, so a stage takes at most 2 `NumPages` + 1 steps, not counting those that write a blank summary. |
| `ReleaseProofs` | `ReleaseTypeOK`, `ReleaseNoDebris`, `ReleaseImmutable`, `ReleaseDriftIsCaught`, `ReleaseQuietIsCalm`; under `Calm` `ReleaseActiveIsComplete`, `ReleasePreflightIsTruthful` | A directory holds what its owner has moved so far, and has no second owner; one without an owner is complete, or was left by a kill or by a clean-up that failed; what an activation goes on with has its manifest, or has lost it to a command that is removing it, and then it has no artifacts either and fails the check (`Loaded`, `Spoiled`); what a start-up has resolved was sound when it began. |
| `DocumentIngestionProofs` | `IngestionTypeOK`, `IngestionRecordedIsStored`, `IngestionNothingSkipped`, `IngestionOneCopy`, `IngestionDownloadedIsFinal`, `IngestionRunsAreBounded` | What a coroutine knows of its file at each step, that a run accounts for every complaint it has passed, and what runs one after another keep: there is no file where a coroutine is about to store one, so none is opened again.  That what is recorded is stored holds for any number of runs at once, until one of them opens another's name (`reopened`).  For the bound, that coroutines retry only below the limit, and that whoever holds the semaphore has a step to take. |
| `GrievanceRedactionProofs` | `RedactionTypeCorrect`, `RedactionRewritten` | For any number of runs with any stamps: each row of a batch was, when it was loaded, missing or, if the run refreshes, of another stamp than its own (`found`). |
| `DuplicateIndexProofs` | `ImplementsRedaction`, `IndexTypeCorrect`, `ConsumerIsSound`, `GroupsStayWhole`, `RunCertifies`, `IndexRedactionRewritten` | Three invariants on top of the types; see below. |

The three invariants of `DuplicateIndexProofs`:

- `SoundInv`.  The texts are read in many statements between two checks of the
  sources, so what is linked may be of texts that no longer are, or not yet, the
  ones loaded.  Unless a text came back meanwhile (`returned`), a text that the
  second check finds to be the loaded one has been so at every statement in
  between.  Hence `VerifiedSoFar`: provided the texts are still the loaded ones,
  what has been found in the buckets done, together with what the buckets at
  hand still hold (`Linking`), links the duplicates among them; when nothing is
  at hand any more that is `AllVerified`.  `GroupsStamped` and
  `GroupsAreDuplicates`, which speaks of the rows outside `doubtful`, carry it to
  the tables, whose rows may stem from several runs with several scopes and
  versions.
- `WholeInv`.  While nothing moves, a signature and a group row are where the
  complaint is (`Homes`), every group lies within the scope of its run
  (`Contained`), and the root of a group is its member (`Rooted`); with the check
  for straddling groups, a run replaces a group wholly or not at all.
- `CertifyInv`.  As long as a run is quiet, what it has passed by is indexed
  (`Covered`), and what it has loaded is current (`Current`).

They assume the named ASSUMEs only: finite sets of tickets and slices, versions
and batch sizes that are positive numbers.  `Bands`, `Alike`, `District`,
`Window`, `Salt` and `Identities` are arbitrary.

Only model-checked: the liveness properties themselves (`SleeperServed`,
`CallsEnd`, `StagesEnd`, `RunsEnd`), as the prover has no rule for fairness and
ENABLED.  What each rests on is proved for every value of the constants: a bound
on the steps the caller, call, stage or run has left, that each of its steps uses
one up, that nobody else's step adds any (`LimiterWaitsAreBounded`,
`EgressCallsAreBounded`, `PipelineStagesAreBounded`, `IngestionRunsAreBounded`);
for calls and runs also that there is a step to take until the end.  What is left
to TLC is that a step which stays possible is taken.
Every other property of a passing run is a theorem.

The proofs also corrected the models: that `FetchSummarizer` selects a non-empty
batch was written so that the parsers read it in two ways, and the bound on the
steps of a stage could not be proved until it was bracketed.

## 5. Findings

1. "Each worker processes a round-robin slice of the work" (`pipeline/cli.py:83`);
   each slices another list (`ArtifactPipelineShards`).
2. A row in `unreadable_pages` is meant to keep a page from being retried on
   every resume (`format_classifier/stage.py:266`); it does not
   (`ArtifactPipelineRetry`).
3. "Record the download status back into the OLTP store"
   (`document_ingestion.py:1`); a document that is found stored is counted as
   skipped and its row keeps saying it was not downloaded (`DocumentIngestionRecord`).
4. A scope that would split a group "fails closed" (`dedup_index.py:1039`); the
   check goes by the district-year of the *old* group rows.  A corpus run groups
   two complaints of two slices, one of them moves to a third slice, and a run of
   that slice under new parameters (`--refresh-stale`) rewrites its signature and
   regroups it alone, unrefused.  The complaint that stayed behind keeps a
   `group_size` of two with one row, and `assert_group_source_snapshot` accepts its
   slice, whose own sources have not changed (`DuplicateIndexMoved`).
5. "Per-slice runs find the same [text candidates] a corpus run would"
   (`dedup_index.py:118`); a block is a window of days counted from a fixed date,
   and reaches over New Year, a slice does not (`DuplicateIndexSlices`).

Two limits the properties state rather than the runs refute: the limiter's
deque dies with its process, so the "documented ten calls per minute"
(`egress/sarvam.py:1228`) hold per process (`ProviderSlack` has the factor), and
the log called "the duplicate-billing control" (`egress/sarvam.py:496`) cannot
know of an accepted submission whose answer was lost (`BilledOnce` excepts it).

## 6. Plan

In the order of what matters most to the system; each module is written to be
proved about as well as checked.

1. SlidingWindow, RateLimiter, proofs - done.
2. JobLedger, SarvamEgress, proofs - done.
3. PageFlow, ArtifactPipeline, proofs - done.
4. Release, proofs - done.
5. DocumentIngestion, proofs - done.
6. GrievanceRedaction, DuplicateIndex, proofs - done.
7. Refinement theorems for JobLedger and PageFlow; `FallbackUnlessUnforeseen` and
   `ShardsCoverWork` as theorems - done.
   The one-worker assumptions replaced by suppositions on the behaviour, and the
   bounds under the liveness properties - done.
8. Two index runs at once, over the same complaints.
9. Artifact export over ArtifactPipeline (two reads, one transaction) and the
   migration (insert or ignore, keys noted early).
10. Transliterate over the same audit log and limiter.

### 6.1 Not modelled

- *Serving API*, *request processor*: a request is processed by one function in
  one thread and then saved by one transaction; nothing is shared between
  requests but the store.  What can go wrong in it is the save, listed as a
  hazard; what the processor resolves and checks when it starts is in Release.
- *OLTP store*: schema and single-transaction functions; the tables are modelled
  with the components that write them.  Request tracking has no caller.
- *Migration*: a one-time copy, insert or ignore in one process.
- *Artifact export*, *OLAP lake*, *MLflow*: reads and copies, no state of their own.
- *Routing, recognisers, scores, tickets*: functions of their input, for which
  tests and benchmarks are the better instrument.
- *Analytics* (but for the reader of the groups), *evaluation, experiments, front
  end, deployment, scripts*: outside the running system.
