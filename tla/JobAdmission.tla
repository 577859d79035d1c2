---------------------------- MODULE JobAdmission ----------------------------
(***************************************************************************)
(* POST /api/jobs from the first byte to the spawned run.  The middleware  *)
(* reserves an upload slot; the handler creates the record, streams,       *)
(* extracts and parses the upload with an await between any two of these,  *)
(* and either spawns the run or rolls everything back.  Several handlers   *)
(* interleave at their awaits, and a CancelledError (the code expects one  *)
(* from a client that aborts) may land at any of them, while the worker    *)
(* thread that the handler was waiting for goes on.                        *)
(*                                                                         *)
(* A request creates at most one job, which bears its name.  JobLifecycle  *)
(* sees the handler as CreateRecord, Launch, CreationFails and RollBack.   *)
(***************************************************************************)
EXTENDS FiniteSets, Naturals

CONSTANTS
    Posts,          \* POST /api/jobs requests
    MaxUploads,     \* MAX_CONCURRENT_UPLOADS
    MaxActiveJobs   \* _MAX_ACTIVE_JOBS

ASSUME LimitsAssumption == MaxUploads \in Nat /\ MaxActiveJobs \in Nat

VARIABLES
    stage,      \* the await at which each handler is suspended
    raising,    \* handlers with an exception on its way to the rollback
    uploads,    \* app.state.uploads_in_progress
    record,     \* the job of a request in the store
    directory,  \* the job directory of a request
    extracting, \* save_uploaded_files threads still writing
    deleting,   \* delete_job threads not finished yet
    events,     \* CancellationRegistry._events
    live,       \* BackgroundTaskRegistry._tasks
    closing     \* shutdown has begun

admissionVars == <<stage, raising, uploads, record, directory, extracting,
                   deleting, events, live, closing>>

\* The awaits inside the middleware's reservation.  The other stages are
\* "away", "answered" and "lost": a handler cancelled in create_job's thread.
Inside == { "uploading", "creating", "staging", "extracting", "clearing",
            "parsing", "rollingback" }

AdmissionInit ==
    /\ stage = [p \in Posts |-> "away"]
    /\ raising = {}
    /\ uploads = 0
    /\ record = [p \in Posts |-> "absent"]
    /\ directory = [p \in Posts |-> "none"]
    /\ extracting = {}
    /\ deleting = {}
    /\ events = {}
    /\ live = {}
    /\ closing = FALSE

-----------------------------------------------------------------------------
(* Seeded faults; no part of the specification.                            *)

\* `<=` for `<` in the slot check.
SlotFreeOffByOne == uploads <= MaxUploads

\* The fail-fast check taken for the authoritative one.
NoSecondLook == TRUE
-----------------------------------------------------------------------------
(* Helpers.                                                                *)

AtCapacity == Cardinality(live) >= MaxActiveJobs

SlotFree == uploads < MaxUploads

\* The `finally` of the middleware.
Release(p) == uploads' = uploads - 1

LeaveAs(p, how) ==
    /\ stage' = [stage EXCEPT ![p] = how]
    /\ Release(p)

Answer(p) == LeaveAs(p, "answered")

Advance(p, to) ==
    /\ stage' = [stage EXCEPT ![p] = to]
    /\ UNCHANGED uploads

\* CancellationRegistry.discard.
DropEvent(set, p) == set \ {p}

\* The `except BaseException` branch up to its await, when `registered` is
\* what the registry holds: the delete_job thread starts, and is shielded.
StartRollback(p, registered) ==
    /\ Advance(p, "rollingback")
    /\ events' = DropEvent(registered, p)
    /\ deleting' = deleting \cup {p}

\* `except Exception` would let a CancelledError pass by the rollback.
AbortSkipsRollback(p) ==
    /\ Answer(p)
    /\ UNCHANGED <<events, deleting>>

\* What CancelledError does inside the try block.
Unwind(p) == StartRollback(p, events)
-----------------------------------------------------------------------------
(* The middleware and the framework.                                       *)

\* UploadAdmissionMiddleware: a slot before the first byte, or a 503.
Reserve(p) ==
    /\ stage[p] = "away"
    /\ IF SlotFree
       THEN /\ stage' = [stage EXCEPT ![p] = "uploading"]
            /\ uploads' = uploads + 1
       ELSE /\ stage' = [stage EXCEPT ![p] = "answered"]
            /\ UNCHANGED uploads
    /\ UNCHANGED <<raising, record, directory, extracting, deleting, events,
                   live, closing>>

\* A body over the cap, a bad form, too many files, a bad extension or
\* provider, the early capacity check, or a client that goes away.
TurnedAway(p) ==
    /\ stage[p] = "uploading"
    /\ Answer(p)
    /\ UNCHANGED <<raising, record, directory, extracting, deleting, events,
                   live, closing>>

\* The early checks of the handler pass; store.create_job goes to a thread.
EnterHandler(p) ==
    /\ stage[p] = "uploading"
    /\ ~AtCapacity
    /\ Advance(p, "creating")
    /\ UNCHANGED <<raising, record, directory, extracting, deleting, events,
                   live, closing>>
-----------------------------------------------------------------------------
(* The transactional part of _create_job_reserved.                         *)

\* The record exists; the handler goes on to its directories, or fails to.
CreateRecord(p) ==
    /\ stage[p] = "creating"
    /\ record' = [record EXCEPT ![p] = "queued"]
    /\ directory' = [directory EXCEPT ![p] = "made"]
    /\ \/ Advance(p, "staging") /\ UNCHANGED <<events, deleting>>
       \/ StartRollback(p, events)
    /\ UNCHANGED <<raising, extracting, live, closing>>

\* The uploads are on disk, or one is over its cap.
StagingEnds(p) ==
    /\ stage[p] = "staging"
    /\ \/ /\ Advance(p, "extracting")
          /\ extracting' = extracting \cup {p}
          /\ UNCHANGED <<events, deleting>>
       \/ StartRollback(p, events) /\ UNCHANGED extracting
    /\ UNCHANGED <<raising, record, directory, live, closing>>

\* save_uploaded_files returns, or refuses the upload.  Either way the
\* staging directory is removed next.
ExtractionEnds(p) ==
    /\ stage[p] = "extracting"
    /\ p \in extracting
    /\ extracting' = extracting \ {p}
    /\ raising' \in {raising, raising \cup {p}}
    /\ Advance(p, "clearing")
    /\ UNCHANGED <<record, directory, deleting, events, live, closing>>

StagingCleared(p) ==
    /\ stage[p] = "clearing"
    /\ \/ /\ p \notin raising
          /\ Advance(p, "parsing")
          /\ UNCHANGED <<events, deleting>>
       \/ StartRollback(p, events)
    /\ UNCHANGED <<raising, record, directory, extracting, live, closing>>

\* No await between this check and spawn().
MayLaunch == ~AtCapacity

\* The manifest is built; register() and spawn() follow at once.
Launch(p) ==
    /\ stage[p] = "parsing"
    /\ MayLaunch
    /\ ~closing
    /\ events' = events \cup {p}
    /\ live' = live \cup {p}
    /\ Answer(p)
    /\ UNCHANGED <<raising, record, directory, extracting, deleting, closing>>

\* A parse error, no lines, no capacity.
LaunchRefused(p) ==
    /\ stage[p] = "parsing"
    /\ StartRollback(p, events)
    /\ UNCHANGED <<raising, record, directory, extracting, live, closing>>

\* spawn() raises after shutdown has begun, with the event just registered.
SpawnRefused(p) ==
    /\ stage[p] = "parsing"
    /\ MayLaunch
    /\ closing
    /\ StartRollback(p, events \cup {p})
    /\ UNCHANGED <<raising, record, directory, extracting, live, closing>>

\* The rmtree of delete_job; it may miss what an extraction is writing.
RemoveFiles(p) ==
    \E left \in {"none"} \cup (IF p \in extracting THEN {"left"} ELSE {}) :
        directory' = [directory EXCEPT ![p] = left]

\* delete_job in its thread: the record under the lock, then the files.
DeleteJob(p) ==
    /\ p \in deleting
    /\ record' = [record EXCEPT ![p] = "absent"]
    /\ RemoveFiles(p)
    /\ deleting' = deleting \ {p}
    /\ IF stage[p] = "rollingback" THEN Answer(p) ELSE UNCHANGED <<stage, uploads>>
    /\ UNCHANGED <<raising, extracting, events, live, closing>>
-----------------------------------------------------------------------------
(* CancelledError at an await.                                             *)

\* Inside the try block: rolled back.
Abort(p) ==
    /\ stage[p] \in {"staging", "clearing", "parsing"}
    /\ Unwind(p)
    /\ UNCHANGED <<raising, record, directory, extracting, live, closing>>

\* While save_uploaded_files runs: the `finally` awaits first.
AbortExtraction(p) ==
    /\ stage[p] = "extracting"
    /\ raising' = raising \cup {p}
    /\ Advance(p, "clearing")
    /\ UNCHANGED <<record, directory, extracting, deleting, events, live,
                   closing>>

\* The abandoned extraction ends: it may have made its directories anew.
LateExtraction(p) ==
    /\ p \in extracting
    /\ stage[p] # "extracting"
    /\ extracting' = extracting \ {p}
    /\ \/ UNCHANGED directory
       \/ /\ directory[p] = "none"
          /\ directory' = [directory EXCEPT ![p] = "left"]
    /\ UNCHANGED <<stage, raising, uploads, record, deleting, events, live,
                   closing>>

\* During the rollback: the shielded thread goes on without its handler.
AbortRollback(p) ==
    /\ stage[p] = "rollingback"
    /\ Answer(p)
    /\ UNCHANGED <<raising, record, directory, extracting, deleting, events,
                   live, closing>>

\* While create_job runs in its thread, before the try block: the record is
\* made, and nobody learns its identifier.
AbortCreation(p) ==
    /\ stage[p] = "creating"
    /\ record' = [record EXCEPT ![p] = "queued"]
    /\ LeaveAs(p, "lost")
    /\ UNCHANGED <<raising, directory, extracting, deleting, events, live,
                   closing>>
-----------------------------------------------------------------------------
(* The run and the store, as far as admission sees them.                   *)

RunSettles(p) ==
    /\ p \in live
    /\ live' = live \ {p}
    /\ events' = DropEvent(events, p)
    /\ record' = [record EXCEPT ![p] = "terminal"]
    /\ UNCHANGED <<stage, raising, uploads, directory, extracting, deleting,
                   closing>>

EvictJob(p) ==
    /\ record[p] = "terminal"
    /\ record' = [record EXCEPT ![p] = "absent"]
    /\ directory' = [directory EXCEPT ![p] = "none"]
    /\ UNCHANGED <<stage, raising, uploads, extracting, deleting, events, live,
                   closing>>

Close ==
    /\ ~closing
    /\ closing' = TRUE
    /\ UNCHANGED <<stage, raising, uploads, record, directory, extracting,
                   deleting, events, live>>
-----------------------------------------------------------------------------
AdmissionNext ==
    \/ Close
    \/ \E p \in Posts :
          \/ Reserve(p) \/ TurnedAway(p) \/ EnterHandler(p)
          \/ CreateRecord(p) \/ StagingEnds(p) \/ ExtractionEnds(p)
          \/ StagingCleared(p) \/ Launch(p) \/ LaunchRefused(p)
          \/ SpawnRefused(p) \/ DeleteJob(p)
          \/ Abort(p) \/ AbortExtraction(p) \/ LateExtraction(p)
          \/ AbortRollback(p) \/ AbortCreation(p)
          \/ RunSettles(p) \/ EvictJob(p)
-----------------------------------------------------------------------------
(* Properties.                                                             *)

\* Only finitely many slots are ever lent, and each variable has its type.
AdmissionTypeOK ==
    /\ stage \in [Posts -> Inside \cup {"away", "answered", "lost"}]
    /\ raising \subseteq Posts
    /\ uploads \in 0..MaxUploads
    /\ record \in [Posts -> {"absent", "queued", "terminal"}]
    /\ directory \in [Posts -> {"none", "made", "left"}]
    /\ extracting \subseteq Posts
    /\ deleting \subseteq Posts
    /\ events \subseteq Posts
    /\ live \subseteq Posts
    /\ closing \in BOOLEAN

\* The slots in use are the requests inside the middleware (a slot that leaked
\* would in the end refuse every upload), and however many uploads passed the
\* early check, the runs never exceed their cap.
LimitsAreExact ==
    /\ uploads = Cardinality({p \in Posts : stage[p] \in Inside})
    /\ Cardinality(live) <= MaxActiveJobs

\* Somebody is at work on the job: a run, a handler or a rollback.
InProgress(p) == p \in live \cup deleting \/ stage[p] \in Inside

\* A creation that is refused, fails or is cancelled leaves nothing behind,
\* where only terminal jobs are ever evicted: a queued record is work in
\* progress, and so is a directory without a record.  The exceptions: a
\* handler cancelled before the try block (NoJobIsLost), and the directory of
\* an extraction that outlives its cancelled handler.
NoHalfCreatedJob ==
    \A p \in Posts :
        /\ record[p] = "queued" /\ stage[p] # "lost" => InProgress(p)
        /\ directory[p] = "made" => record[p] # "absent" \/ InProgress(p)

\* "Everything from here to the spawn is TRANSACTIONAL": a creation that was
\* cancelled leaves no queued record, wherever the cancellation landed.
NoJobIsLost ==
    \A p \in Posts : record[p] = "queued" => InProgress(p)
=============================================================================
