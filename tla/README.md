# A formal model of saknussemm-demo

This directory holds TLA+ modules, TLC configurations and TLAPS proofs about
the program in this repository: a FastAPI server that corrects OCR files with
an LLM through the `saknussemm` library, and the React client that follows a
job. Every definition is written from the source; `PROJECT.json` maps each of
them to its lines.

Run a model with `tlc -config lifecycle.cfg MCJobLifecycle`, a proof with
`tlapm JobLifecycleProofs.tla`; a module `XProofs` holds the theorems about `X`.

## 1. The system

One process, one event loop, a pool of worker threads, state in memory and
outputs on disk.

| Component | State | Operations | Correct if |
|---|---|---|---|
| `JobStore` records | `_jobs`, `_completed_at` | `create_job`, `update_job`, `touch_review`, `delete_job`, `sweep` | a settled job stays settled; exactly the settled jobs are on the retention clock; evictions are justified and thorough |
| `JobStore` fan-out | `_subscribers`: one bounded queue per client | `emit`, `subscribe`, `unsubscribe`, `stream_events` | whoever is connected hears the end, once, last and truthfully; no stream outlives its job |
| `JobRunner` | a task per job | `run`, `_run_pipeline` | every run settles; settling and publishing are one |
| `CancellationRegistry` | an event per live run | `register`, `request`, `discard` | accepted in time means cancelled; no entry leaks |
| `BackgroundTaskRegistry` | the live tasks, a closing flag | `spawn`, `shutdown` | nothing runs after a shutdown |
| `POST /api/jobs` | upload slots | reserve, create, stage, extract, parse, spawn or roll back | slots and caps are exact; nothing half-created survives |
| `UploadSizeLimitMiddleware` | the byte counter of one request | `counting_receive`, `tracking_send` | one response, and the 413 when it is due |
| `save_uploaded_files` | names, stems, images, budget | extraction of several archives | no file replaces another; one budget |
| `FilesystemOutputWriter`, downloads | `.staging/`, the output directory | `write_*`, `commit`, `discard`, `GET /download` | a download is the whole set or nothing |
| Reviews API | `JobManifest.reviews` | `PUT /reviews`, activity, export | what was acknowledged is stored |
| `useJobStream` | an `EventSource`, two timers, a generation | stream, retry, poll, reconnect | one transport; a true and final status |
| Provider adapters, `call_llm` | the bodies of one call | first request, stripped retry, schema fallback, classification; `list_models` | what was refused by name is not sent again; a run ends early only over what no retry can heal |
| Engine | none of ours | one correction | external, may take any time |
| `App`, `useModels`, `retryFetch`, `LayoutViewer` | the chosen provider and model, the fetched views of a job | list, submit, fetch, turn pages, reset | late answers do not overwrite newer state; bounded fetches settle |
| Tokens and signed links | a key per process | sign, verify | a link opens one job, for a short time |
| Read models | none | layout, diff, links from pages to scans | no page is judged against another page's scan |
| `run_corpus_arms.py` | one record per page on disk | measure, interrupt, resume | nothing measured is lost |
| Health, logging, static files | none | pure functions | - |

How they meet. Handlers, runner tasks and stream generators interleave at
their awaits on one loop. The access dependency `require_job_access`, the
sweep, the eviction inside `create_job`, extraction, zipping and staging
writes run in threads, so they interleave with the loop anywhere; `JobStore`
has a lock, and every critical section of it is one step. Handlers receive a
snapshot of the job that was taken in a thread *before* they run: everything
they decide from it may be stale. The browser knows the server only through
three unreliable channels (a stream, a poll, a request of its own).

What is hard: stale snapshots, cancellation against completion, a timeout
while a thread writes, partial commits, eviction in the middle of a stream or
a download, cancelled handlers, full queues, late answers of an earlier
transport. `PROJECT.json` lists each hazard at its line with the properties
that cover it.

## 2. The modules

**`JobStatus`** holds the statuses, the terminal sets (`TERMINAL_SUCCESS_STATES`,
`_TERMINAL_STATES`) and the terminal event of each.

**`JobContract`** is the abstract specification: a job is unknown, pending, then
at most once succeeded, failed or cancelled, then forgotten; its outputs become
available in the very step of its success, and cease to be when it is forgotten.
Available means that a client may download them, the complete set: what else lies on
the disk is not the contract's business, as `download_job` guards it by the status.

**`JobLifecycle`** is the core. Its actors are the creation handler, the runner task, the
cancel requests, eviction and shutdown.

| Variable | In the code |
|---|---|
| `status`, `completedAt` | `JobStore._jobs[j].status`, the keys of `_completed_at` |
| `runner`, `cause`, `chunksLeft` | where the task of `run()` stands, which exception it unwinds with, and what the engine has still to do |
| `event` | `CancellationRegistry._events[j]`: none, clear or set |
| `outputs`, `condemned` | what the output directory of a job holds: nothing, a part of the committed set, or all of it; records popped whose directory is still to be removed |
| `request` | a cancel request between its access check (with the status it saw) and its handler |
| `phase` | `BackgroundTaskRegistry.shutdown` |
| `issued`, `promised` | history: identifiers handed out, cancellations accepted while a chunk was left |

`Finish` is the stretch of `run()` from the return of the engine to the end of
the task: commit, success status, terminal event and the `finally` that drops
the event have no await between them. `SettleUnsuccessful` is the same for the
four handlers. `HandleCancel` uses the admitted status for its guards and
overwrites whatever the store holds by then, as `update_job` does.
`CommitFails` may leave any part of the set in the output directory of the failed
job: the unlinks of the rollback may fail in their turn, and the `rmdir` after the last
rename is outside the `try` (`output_writer.py:77-83`). `CleanUpDisk` may leave any part of what
it should remove, since its errors are only logged. `CreateRecord` does not repeat the
early capacity check, which was passed at some earlier time; `Launch` looks again. STARTED is
merged with RUNNING, whose difference nobody reads. A cancel request presupposes a client that
knows the identifier, so it follows the spawn of the run.

**`OutputPublication`** opens the atomic `Promote` and `CleanUpDisk` of
`JobLifecycle`: one action per file operation, with I/O errors at each of
them (`PromotionFails`, a failing unlink, `RmdirFails`), writes that are in
their thread while the run times out, a kill of the process and the reclaim at
the next start, and downloads that list on the loop and read in a thread. It
refines the same `JobContract`, under the same reading: available is what is complete on
the disk while the status lets a client have it.

**`EventStream`** is the fan-out for one job. `Put` is `put_nowait` with its two
cases of a full queue; `Subscribe`, `CheckStatus`, `Deliver`, `Receive`,
`KeepaliveTimeout` and `DrainOne` are the stretches of `stream_events` between
its yields, since a client may be slow at each of them. An event is a number and a
name; keepalives are not recorded.

**`Retention`** replaces the monotonic time stamps by the idle time of each job,
which stops counting at the TTL. `StaleSets` is `_collect_stale_locked`;
saves, activity and exports act on the snapshot they were admitted with.

**`JobAdmission`** follows several uploads through the admission middleware and
`create_job`, with a failure or a `CancelledError` at every await, and the
worker thread the handler was waiting for going on after it. `JobLifecycle` sees
the same handler as `CreateRecord`, `Launch`, `CreationFails` and `RollBack`.

**`UploadSizeGuard`**, **`UploadIntake`**, **`PageImages`** and their composition
**`UploadPath`** are one upload, inside `JobAdmission`'s stages: the middleware
that counts bytes, and the handler behind it that stages and unpacks. `intake`
is the outcome of the handler and decides what the application answers. Names,
kinds and sizes are chosen by the client; the sizes an archive declares are
unrelated to the real ones. An archive that `zipfile` cannot read raises an
exception that is no `ValueError`, which passes the middleware by and becomes
the framework's 500. `LinkImages` is the handler's last step before the spawn:
`link_alto_to_images` gives each document the image its XML names, or its
namesake; `LayoutImage` is what `build_layout` makes of that for a page, and
`VisionImage` what `page_image_assets` would send to a vision model.

**`CorpusArms`** is the tool: `run_one` of each page up to the semaphore (`Look`),
its run (`Acquire` to `WriteRecord` or `RunRaises`), and the ways a run of the
tool ends: its sum, an interruption, a kill while a record is being written.

**`JobFiles`** puts `JobAdmission`, `UploadPath`, `OutputPublication` and `CorpusArms`
side by side for one run of the checker. They share no variable: each sees the
others as single steps (the whole upload path is `ExtractionEnds` for
`JobAdmission`), so a behaviour moves one of them (`part`) and leaves the others
at rest. A product would check nothing more.

**`JobStreamClient`** is the hook. One action is one JavaScript task. `pending` is
the bag of continuations (timers and fetches) with the job and the generation
they captured; `source` is the `EventSource`; `statusRef` lags behind
`status` until `Mirror`, as an effect does. The server appears only as far as
the hook can see it; a stream may be refused for the cap at any time, after the end of
the run too, when slow streams still hold their slots.

**`CorrectionSession`** is a user's session: `ModelPicker` (App's configuration and
`useModels`, over catalogues of which the adapters read a bounded number of pages),
`ProviderCall` (one chunk in front of a vendor, with the two bodies of
`complete_structured` and the three posts of `call_llm`), `JobAccess` (tokens, signed
links, the clock, restarts) and `ResultView` (the bounded fetches, the page
selector and its scans) follow one another through `stage`, and the answers of one
stage may arrive in any later one, after a reset too. A body is the set of what it
asks of the vendor; a model is its provider and its page in the catalogue. The
server is what the browser and the links notice of it: a job is stored, evicted,
or gone with its process. `useJobStream` in between is `JobStreamClient`.

The `MC*` modules give the constants finite values and the symmetry sets; the `*Proofs`
modules hold the inductive invariants and the theorems (section 4).

## 3. The runs

| Run | Instance | Question |
|---|---|---|
| `lifecycle` | 2 jobs, 2 requests, 1 chunk, cap 2 | safety of the life of a job, that it implements the contract, and that every spawned run settles |
| `event_stream` | 3 clients, 2 slots, queues of 2, 3 events | order, truth and delivery of the terminal event; streams end |
| `retention` | 2 jobs, 2 lines, TTL 2, cap 1, 2 requests | evictions and reviews |
| `job_files` | 3 uploads, 2 slots, 1 run; cap 2 of 4 bytes, 3 files, 2 members, budget 3, documents of 1 or 2 pages; 2 XML files and the trace, 2 downloads; 4 corpus pages, 2 permits | slots, caps, rollback; one response, no overwriting, shared budget, scans; commit, downloads and removal look atomic; nothing measured is lost |
| `stream_client` | 2 jobs, 1 retry, 3 generations | transports and what is shown |
| `session` | 2 providers, catalogues of 1 and 3 pages under a bound of 2, 4 lists, 2 jobs, 2 attempts, links for one instant | what is picked and shown, fetches that settle, `call_llm` |
| `cancel_lands`, `download_races_eviction`, `review_lost_update`, `half_created_job`, `schema_then_parameter`, `stale_scan_link` | as above | a documented promise that the code does not keep |

Why the bounds suffice. Jobs interact only through the cap on runs, the
shutdown and eviction: two show every interplay, and the proofs below hold for
any number, and for any number of chunks. Two requests are one that acts and one
that is stale. One chunk has a cancellation before its probe and one after it. In
`event_stream` the run emits more events than a queue holds, and there are more
clients than slots. A cap of one makes any second finished job excess, a TTL of
two separates recent, ageing and expired. In `job_files` three uploads overfill
the slots, and two of them the cap on runs; a body can end below, at and above
the cap; a stem can collide within a file, an archive and across them, and every
cap can be met and exceeded by one; two files are the least a commit can stop
between, and the trace is the one downloads do not list; a document of two pages
is the least that could share its scan; and of the corpus pages two share a label,
one is alone and one lacks the image its arm wants. One retry exercises the whole
ladder of the hook (retry, exhausted, polling), and three generations allow a
continuation to survive two changes. In `session` two jobs let the answers of the
first meet the second; two attempts are one that is repeated and one that is the
last; four values of the list token cover a list that is abandoned, replaced and
reset; one catalogue fits the bound of pages and one does not; the vendor refuses
any set of fields, with or without naming them; and a lifetime of 0 with a clock of
two instants is a link that is fresh or expired. One sampling parameter is what
every adapter sends.

Symmetry is used only in runs without liveness properties and only over sets
whose elements nothing distinguishes. `CHECK_DEADLOCK FALSE` stands where the
instance really ends: identifiers are never reused, uploads are answered,
clients leave, jobs and lists are bounded. `retention` keeps the deadlock check.

Each property of a passing run has a seeded fault in the modules (below the
heading "Seeded faults"), a plausible bug that breaks it.

### Fairness

* `CorrectionSession`, weak: React runs the effects of a render, and each request
  for a result is answered or fails in the end, as an HTTP request does. Not the
  run, not the user, not the vendor.
* `JobLifecycle`, weak: the steps of a runner task, the timers of its timeout
  and of the shutdown grace, since the loop keeps scheduling ready tasks and
  timers. Not the provider (the engine may hang), not clients, not eviction.
* `EventStream`, weak: the steps of a generator, including its keepalive
  timer: a client may be slow, but one that stops reading for good counts as
  disconnected. Not the run.
* `Retention`, weak: the tick of the clock and the periodic sweep. Not readers.
* `JobStreamClient`, weak: the tasks the browser has queued; strong: an
  answer of the network, which may be lost arbitrarily often but not for ever.
  Without the latter no client could learn anything.

### What the violations show

* `cancel_lands`: a cancel request that arrives after the engine's last look
  at its probe sets `cancel_requested`, and the run ends in a success all the same
  (`jobs.py:524`, `docs/API.md:54`). Cancellation in time is honoured
  (`CancelHonoured`).
* `download_races_eviction`: a download that was admitted, then overtaken by an
  eviction, may list a directory half removed and serve the rest as a complete
  set with a 200 (`runner.py:259`). Without eviction it never happens
  (`ServedIsComplete`).
* `review_lost_update`: two overlapping `PUT /reviews` of different lines both
  merge into the snapshot they were admitted with; the first acknowledged
  judgement is lost (`review.py:133`).
* `half_created_job`: the await of `store.create_job` lies before the `try`
  that rolls back; a cancellation there leaves a queued job that is never
  evicted (`jobs.py:321-334`). Everywhere else the rollback holds
  (`NoHalfCreatedJob`).

* `schema_then_parameter`: `call_llm` looks for a parameter named by a refusal in the
  first reply only. A vendor that reports the strict schema first and the parameter
  when it refuses the fallback body gets no body without it (`base.py:137`,
  `base.py:247`). When it names the parameter in its first refusal the two fallbacks
  compose (`RefusedStaysOut`, `HealsWhatItCan`).
* `stale_scan_link`: the layout is fetched once and its links live 15 minutes, but the
  `<img>` of a page is requested when the reader turns to it (`jobs.py:762`,
  `LayoutViewer.tsx:218`).

Two more defects are in the models and excepted by name in the property that meets
them: pages of a corpus that share a label lose a record (`Alone` in
`NothingMeasuredIsLost`), and a record cut by a kill makes its page fail in every later
run until the file is removed by hand.

## 4. What is proved

Every invariant and action property that a passing run checks, and both refinements of
`JobContract`, are theorems: they hold for every value of the constants that satisfies
the named assumptions of the modules (bounds are natural numbers, a queue has room for
one event, the trace is not an XML file, and the like). The sets of jobs, requests,
streams, files, pages and names may be infinite. The bounds that a module sets to its
unbounded counters (`MaxEvents`, `MaxGenerations`, `MaxBody`, `MaxLists`...) are constants
too, so the theorems hold for each value of them.

| Module | Theorem | States |
|---|---|---|
| `JobLifecycleProofs` | `TypeCorrect`, `PublicationSafe`, `RetentionSafe`, `CancellationSafe`, `RegistrySafe`, `ShutdownSafe` | `TypeOK`, `OutputsMatchStatus`, `RetentionClockExact`, `CancelHonoured`, `RegistryTracksTasks`, `NothingRunsAfterShutdown` are invariants |
| | `Finality` | `TerminalIsFinal`, an action property |
| | `Refinement` | `ImplementsContract`: initial states and steps map to `JobContract` |
| `OutputPublicationProofs` | `DownloadsAreComplete`, `CommitIsAtomic` | `ServedIsComplete`, `AllOrNothing` |
| | `PublicationRefines` | `ImplementsContract`, file by file |
| `EventStreamProofs` | `TypeCorrect`, `TerminalEventsAreTruthful`, `ConnectedClientsHearTheEnd` | `TypeOK`, `TerminalIsTruthful`, `ConnectedHearTheEnd` |
| | `StreamsAreInOrder` | `InOrderAndTerminalLast`, an action property |
| `RetentionProofs` | `TypeCorrect`, `ClockCorrect`, `AcknowledgedStays` | `TypeOK`, `ClockIsExact`, `AcknowledgedIsStored` |
| | `EvictionJustified` | `EvictionIsJustified`, an action property |
| `JobAdmissionProofs` | `LimitsHold`, `CreationIsTransactional` | `LimitsAreExact`, `NoHalfCreatedJob` |
| `JobFilesProofs` | `RespondsOnce`, `InputsAreKept`, `BudgetHolds`, `ScansMatchPages` | `OneResponse`, `EveryInputIsKept`, `BudgetIsShared`, `ScanIsOfItsPage` |
| | `MeasurementsSurvive` | `NothingMeasuredIsLost` |
| | `TypeCorrect` | `TypeOK` of the four parts of `JobFiles` |
| `JobStreamClientProofs` | `TypeCorrect`, `OneTransportOnly`, `ScreenIsTrue` | `TypeOK`, `OneTransport`, `ShownIsTrue` |
| | `ScreenIsFinal` | `ShownIsFinal`, an action property |
| `CorrectionSessionProofs` | `TypeCorrect`, `PickerSafe`, `FallbacksCompose`, `RunsAreHealed`, `ViewSafe` | `TypeOK`, `PickedFromOwnCatalogue`, `RefusedStaysOut`, `HealsWhatItCan`, `ShownIsOfThisJob` |

Each module proves one inductive invariant (`IInv`, or one for each part: `AdmissionInv`,
`PathInv`, `PublicationInv`, `CorpusInv`) with one lemma for an action or a group of
actions, and derives the rest from it. The parts of `JobFiles` share no variable, so
a step of the whole is a step of one part or leaves its variables alone
(`OnlyAdmission`, `OnlyPath`, `OnlyPublication`, `OnlyCorpus`), and each part is proved
alone. Few of the properties are inductive; what they need besides is where the
argument lies:

* **`JobLifecycle`.** A success after an honoured cancellation is excluded only because a
  promised run still has its event set (`PromiseKept`) and so cannot leave the engine
  by returning. A terminal status is final only because a stale cancel request is
  refused by the registry: the event exists exactly while the task is live
  (`StageMatchesEvent`), a live task has no terminal status (`StageMatchesStatus`), and a
  request that was admitted belongs to a job whose run has started (`RequestIsLate`).
  Publication needs `StageMatchesOutputs`: nothing is on disk, and nothing condemned,
  before the runner has settled, and a run that ended for a `cause` never had an output
  there. In the refinement, whatever a failed commit or a failed removal leaves is under a
  status that is no success, so it is not `Downloadable` (`OneDownload`).
* **`OutputPublication`.** The record and the place of the run go together (`RunInv`), and
  a removal is under way only when both are over; the output directory is what `commit()`
  has promoted at each stage (`FilesInv`): nothing before, the list `promoted` during
  the commit, at most that list during a rollback whose unlinks succeed. A download that
  no eviction has overtaken belongs to a completed job, whose directory holds all its files;
  what it has read and what it has still to read make up the whole set (`DownloadInv`). In
  the refinement a kill is a withdrawal of a pending job or the forgetting of a settled
  one, and a removal is invisible: it is about a job that is forgotten, and so are the
  files that a failed commit leaves behind, whose job is recorded as failed.
* **`EventStream`.** What a queue holds is sound (emitted already, the terminal event last
  and named after the real ending), in order, and later than what its client has
  received (`Sound`, `QueueInv`); a client that was connected at the end has the terminal
  event at the end of its queue until it takes it (`Promised`), because `put_nowait` on a
  full queue drops the oldest event and never the one just put (`PutProperties`).
* **`Retention`.** A job outside the store is blank (`AbsentIsBlank`), so a save that merges
  into an old snapshot of an evicted job changes nothing. The justification of an
  eviction is about the order of idle times and a cardinality: `SweepCounts` shows that
  the cap is full of more recent jobs when one goes before its TTL, for which the
  finitely many jobs on the clock are part of the invariant.
* **`JobAdmission`.** The slot counter is the number of the requests that hold one; every
  step takes a slot, gives one back, or moves a request without either (`SlotMoves`), which
  with the finiteness of the set gives the count. A rollback has its thread, and nothing
  exists of a job whose handler has not started (`HandlerInv`): so the handler may leave
  whenever it is cancelled, and somebody is still at work on what it made.
* **`UploadPath`.** `GuardInv` says what has been counted and sent at each stage of
  the application: a response has been started exactly where the middleware may keep
  quiet. `SavedInv` says that what is remembered (`seen_stems`, `images`) is what is on disk
  and that the stems are distinct (`DistinctGrows` for one more file). The links are made in
  one step from files that no later step changes (`LinksInv`); two documents that
  share a scan differ in their stem, so one of them names it (`ShowsItsOwn`).
* **`CorpusArms`.** A page that was measured, and shares its label with no other, is
  neither waiting nor running in any later run of the tool (`RecordInv`), so nothing writes
  its record again. Permits and running tasks together never exceed the semaphore.
* **`JobStreamClient`.** A generation belongs to one job and has at most one continuation; a
  timer never outlives its generation, a fetch may, and its answer stays true in what
  it says of the end (`PendingInv`). What acts for the page is what belongs to the present
  generation, and is there only without a stream and before the end (`ScreenInv`).
* **`CorrectionSession`.** The list with the latest identifier is about the chosen provider
  (`PickerInv`); before each post the fallback body is the least demanding one, and a call
  is rejected for good only over it or over a denial (`CallInv`); a fetch for the
  job on the page is the one shown as under way, at the attempt counted last
  (`FetchIsShown`), so an answer for an earlier job finds a page that is about another.

TLC checks every inductive invariant on the instance of its run, too: they were found
that way, and hold in all reachable states of it.

Only model-checked: the five liveness properties (`LaunchedSettles`, `StreamsEnd`,
`IdleJobsLeave`, `EndIsShown`, `DoneIsShown`), since fairness and `ENABLED` are beyond the
prover; and the six refuted promises, which are violations. Facts about recursive
definitions over data would need induction theorems with operator parameters, which the
installed provers cannot instantiate; no module has a `RECURSIVE` operator, and the
proofs about queues and counts rest on the library's facts about sequences and finite
sets.

## 5. Assumptions

* The run timeout is on (`DEFAULT_JOB_TIMEOUT_SECONDS` is 1800; 0 would
  disable it), and `asyncio.wait_for` behaves as in Python 3.11: it cancels the
  inner task and waits for it.
* Setting a terminal status and emitting the terminal event happen without an
  await; a job that has just settled is neither expired nor the oldest in
  excess of the cap, so no eviction comes between them.
* The grace of a shutdown (30 s) is long enough for each spawned task to take
  its first step.
* A click acts on the page as it was rendered; the hook arms one timer of each
  kind at a time.
* Two different inputs of the HMAC give different values, and the key of a new
  process is a new one.
* The engine's tasks of one page of a corpus all take their first step before
  any of them ends; the model allows every other order as well.
* A failing file operation leaves the file where it was.

## 6. Not modelled

* The engine (external; its outcomes and their timing are free), validation and
  content of documents, reports and exports, the geometry, verdicts and diffs of the read
  models, the text of prompts and replies: data no property tells apart.
* `max_tokens`, the crops and the cap on images of a vision call, the cursors of the
  vendors' catalogues, and the connection pool of the shared HTTP client, which the
  single loop of the server never replaces.
* `LayoutViewer`'s filters and IIIF service, `ReviewPanel` and the loading of saved
  reviews: no comment promises anything about a load that is overtaken by a save.
* The characters of a file name. The layout builds an image URL from the name as it is;
  a name with a `#` or a `?` would need to be quoted.
* The choice of the corpus tool, when no image bears the name of a source, to give every
  page of it the same scan, which `page_image_assets` refuses; its totals and its key.
* Rate limiting, health probes, logging, static files, configuration, the rendering
  components. A client that disconnects in the middle of its body. The store of a
  restarted server is empty, which only `OutputPublication` and `CorrectionSession` model.

## 7. Plan

1. Done: `JobStatus`, `JobContract`, `JobLifecycle` with its proofs, `OutputPublication`,
   `EventStream`, `Retention`, `JobAdmission`, the upload path with its scans,
   `JobStreamClient`, `CorpusArms`, and the session: `ModelPicker`, `ProviderCall`,
   `JobAccess`, `ResultView`.
2. Done: the proofs of all safety properties, action properties and refinements that
   the runs check.
3. Next: an abstract specification of a subscriber's stream (events in the order of
   emission, possibly with gaps, at most one end, and it names how the run ended) that
   `EventStream` is shown to implement, and the safety half of the liveness properties: from
   each state that waits, which step is still possible.
4. Compositions: `EventStream` under `JobStreamClient` in place of its abstract server;
   `Retention`'s reviews under a review panel.
