---------------------------- MODULE JobLifecycle ----------------------------
(***************************************************************************)
(* The life of correction jobs in the single-worker server.  Three kinds   *)
(* of actors change a job: the POST /api/jobs handler that creates, starts *)
(* or rolls it back; the runner task that executes it under a timeout; and *)
(* the POST /cancel handlers, which act on a snapshot of the job that a    *)
(* thread-pool dependency took earlier.  Eviction and the shutdown of the  *)
(* server interfere with all of them.                                      *)
(*                                                                         *)
(* One action is one uninterrupted stretch of event-loop code, or one      *)
(* critical section of a worker thread.  The staging directory is not      *)
(* visible here: OutputPublication says what Promote and CleanUpDisk do.   *)
(***************************************************************************)
EXTENDS JobStatus, FiniteSets, Naturals

CONSTANTS
    Jobs,           \* the identifiers uuid4 will ever issue
    Requests,       \* slots for concurrent POST /cancel requests
    Chunks,         \* provider chunks of a run, one probe before each
    MaxActiveJobs   \* _MAX_ACTIVE_JOBS

ASSUME ChunksAssumption == Chunks \in Nat \ {0}
ASSUME MaxActiveAssumption == MaxActiveJobs \in Nat \ {0}

VARIABLES
    issued,       \* identifiers create_job has handed out; never reused
    status,       \* JobManifest.status, Absent outside JobStore._jobs
    completedAt,  \* the keys of JobStore._completed_at
    runner,       \* where the handler, then the runner task, of a job stands
    cause,        \* why an unwinding run ends
    chunksLeft,   \* chunks the pipeline has not sent to the provider yet
    event,        \* CancellationRegistry._events: "none", "clear" or "set"
    outputs,      \* what the output directory of a job holds
    condemned,    \* evicted jobs whose directory is not removed yet
    request,      \* the state of each POST /cancel request
    phase,        \* the shutdown of BackgroundTaskRegistry
    promised      \* history: cancel accepted while a probe was still ahead

jobVars == <<issued, status, completedAt>>
runVars == <<runner, cause, chunksLeft>>
diskVars == <<outputs, condemned>>
vars == <<issued, status, completedAt, runner, cause, chunksLeft, event,
          outputs, condemned, request, phase, promised>>

RunnerStates == { "none", "creating", "rollingback", "spawned", "running",
                  "returned", "unwinding", "settled" }
Causes == { "none", "timeout", "aborted", "shutdown", "error" }

\* The committed set, as it can be found in an output directory.
Contents == { "none", "partial", "complete" }

Idle == [pc |-> "idle"]
Admitted == [pc: {"admitted"}, job: Jobs, seen: JobStatuses]

\* BackgroundTaskRegistry._tasks.
LiveTasks ==
    { j \in Jobs : runner[j] \in {"spawned", "running", "returned", "unwinding"} }

Init ==
    /\ issued = {}
    /\ status = [j \in Jobs |-> Absent]
    /\ completedAt = {}
    /\ runner = [j \in Jobs |-> "none"]
    /\ cause = [j \in Jobs |-> "none"]
    /\ chunksLeft = [j \in Jobs |-> Chunks]
    /\ event = [j \in Jobs |-> "none"]
    /\ outputs = [j \in Jobs |-> "none"]
    /\ condemned = {}
    /\ request = [r \in Requests |-> Idle]
    /\ phase = "serving"
    /\ promised = {}

-----------------------------------------------------------------------------
(* Seeded faults: plausible wrong versions of the definitions that follow  *)
(* them.  They are no part of the specification; each must be noticed by   *)
(* a checked property.                                                     *)

\* cancel_job without the answer of CancellationRegistry.request.
RequestedWithoutRegistry(seen, j) == seen \notin TerminalStates

\* register() replacing the event the runner polls instead of returning it.
EventLost(j) == event' = event

\* _run_job without its finally clause.
DiscardForgotten(j) == event' = event

\* A terminal state missing from the store's _TERMINAL_STATES.
UpdateStatusForgettingOne(j, s) ==
    /\ status' = [status EXCEPT ![j] = s]
    /\ completedAt' =
          IF s \in TerminalStates \ {"completed_with_review_required"}
          THEN completedAt \cup {j} ELSE completedAt

\* A terminal status without its commit.
PromotionForgotten(j) == outputs' = outputs

\* The outputs leave the disk while the record still answers.
CleanUpFirst(j) == status[j] # Absent \/ j \in condemned

\* A failure recorded under a name that is no JobStatus.
FailureStatusIsCause(j) == cause[j]

\* A run() that awaits the pipeline without wait_for.
NoDeadline(j) == runner[j] = "running" /\ chunksLeft[j] = 0
-----------------------------------------------------------------------------
(* Helpers.                                                                *)

\* JobStore.update_job(status = s): a no-op on an unknown job; a terminal
\* status starts the retention clock.  The status it replaces is not read.
UpdateStatus(j, s) ==
    IF status[j] = Absent
    THEN UNCHANGED <<status, completedAt>>
    ELSE /\ status' = [status EXCEPT ![j] = s]
         /\ completedAt' = IF s \in TerminalStates
                           THEN completedAt \cup {j} ELSE completedAt

\* CancellationRegistry.request finds and sets the event of the job.
Requested(seen, j) == seen \notin TerminalStates /\ event[j] # "none"
SetEvent(j) == event' = [event EXCEPT ![j] = "set"]

\* CancellationRegistry.discard.
DiscardEvent(j) == event' = [event EXCEPT ![j] = "none"]

\* FilesystemOutputWriter.commit, when it succeeds.
Promote(j) == outputs' = [outputs EXCEPT ![j] = "complete"]

\* What a removal that may fail in the middle leaves of some contents.
Remains(contents) ==
    CASE contents = "none" -> {"none"}
      [] contents = "partial" -> {"none", "partial"}
      [] contents = "complete" -> Contents

\* The terminal status of the except clauses of run().
FailureStatus(j) == IF cause[j] = "aborted" THEN "cancelled" ELSE "failed"

\* wait_for may only expire while the pipeline runs.
DeadlineMayPass(j) == runner[j] = "running"

\* BackgroundTaskRegistry.spawn refuses work once shutdown has started.
Accepts == phase = "serving"

\* _collect_stale_locked only considers the keys of _completed_at.
Evictable(j) == j \in completedAt

\* The directories whose cleanup is due.
CleanUpDue(j) == j \in condemned
-----------------------------------------------------------------------------
(* The POST /api/jobs handler.                                             *)

\* store.create_job, in a worker thread.  The early capacity check has been
\* passed at some earlier time, and may no longer hold: Launch looks again.
CreateRecord(j) ==
    /\ j \notin issued
    /\ issued' = issued \cup {j}
    /\ status' = [status EXCEPT ![j] = "queued"]
    /\ runner' = [runner EXCEPT ![j] = "creating"]
    /\ UNCHANGED <<completedAt, cause, chunksLeft, event, diskVars, request,
                   phase, promised>>

\* The authoritative check, register() and spawn(), with no await between.
Launch(j) ==
    /\ runner[j] = "creating"
    /\ Cardinality(LiveTasks) < MaxActiveJobs
    /\ Accepts
    /\ event' = [event EXCEPT ![j] = "clear"]
    /\ runner' = [runner EXCEPT ![j] = "spawned"]
    /\ UNCHANGED <<jobVars, cause, chunksLeft, diskVars, request, phase,
                   promised>>

\* Refused input, parse failure, capacity, shutdown or an aborted request:
\* the except BaseException branch, up to its await.
CreationFails(j) ==
    /\ runner[j] = "creating"
    /\ DiscardEvent(j)
    /\ runner' = [runner EXCEPT ![j] = "rollingback"]
    /\ UNCHANGED <<jobVars, cause, chunksLeft, diskVars, request, phase,
                   promised>>

\* store.delete_job, shielded, in its worker thread.
RollBack(j) ==
    /\ runner[j] = "rollingback"
    /\ status' = [status EXCEPT ![j] = Absent]
    /\ completedAt' = completedAt \ {j}
    /\ runner' = [runner EXCEPT ![j] = "settled"]
    /\ UNCHANGED <<issued, cause, chunksLeft, event, diskVars, request, phase,
                   promised>>
-----------------------------------------------------------------------------
(* The runner task: JobRunner.run inside _run_job.                         *)

\* Up to the first await of _run_pipeline: STARTED, then RUNNING.
RunStarts(j) ==
    /\ runner[j] = "spawned"
    /\ UpdateStatus(j, "running")
    /\ runner' = [runner EXCEPT ![j] = "running"]
    /\ UNCHANGED <<issued, cause, chunksLeft, event, diskVars, request, phase,
                   promised>>

\* The engine polls should_abort, then sends one more chunk.
ChunkIsCorrected(j) ==
    /\ runner[j] = "running"
    /\ chunksLeft[j] > 0
    /\ event[j] # "set"
    /\ chunksLeft' = [chunksLeft EXCEPT ![j] = @ - 1]
    /\ UNCHANGED <<jobVars, runner, cause, event, diskVars, request, phase,
                   promised>>

\* The inner task of wait_for ends with an exception, or is cancelled.
Unwind(j, why) ==
    /\ runner' = [runner EXCEPT ![j] = "unwinding"]
    /\ cause' = [cause EXCEPT ![j] = why]
    /\ UNCHANGED <<jobVars, chunksLeft, event, diskVars, request, phase,
                   promised>>

\* should_abort trips: CorrectionAborted.
ProbeTrips(j) ==
    /\ runner[j] = "running"
    /\ chunksLeft[j] > 0
    /\ event[j] = "set"
    /\ Unwind(j, "aborted")

\* A permanent provider error, or any other exception of the pipeline or of
\* the writer that stages its outputs.
PipelineFails(j) == runner[j] = "running" /\ Unwind(j, "error")

\* The deadline of asyncio.wait_for.
TimesOut(j) == DeadlineMayPass(j) /\ Unwind(j, "timeout")

\* No probe is left: the outputs are staged and _run_pipeline returns.
PipelineReturns(j) ==
    /\ runner[j] = "running"
    /\ chunksLeft[j] = 0
    /\ runner' = [runner EXCEPT ![j] = "returned"]
    /\ UNCHANGED <<jobVars, cause, chunksLeft, event, diskVars, request, phase,
                   promised>>

\* run() resumes: commit, terminal status, events; then the finally clause of
\* _run_job drops the cancellation event.  One stretch of loop code.
Finish(j) ==
    /\ runner[j] = "returned"
    /\ Promote(j)
    /\ \E result \in RunResult : UpdateStatus(j, SuccessStatus(result))
    /\ DiscardEvent(j)
    /\ runner' = [runner EXCEPT ![j] = "settled"]
    /\ UNCHANGED <<issued, cause, chunksLeft, condemned, request, phase,
                   promised>>

\* commit() raises OSError, and the run has failed.  Promoted files are unlinked
\* if it is a rename that fails; those whose unlink fails in its turn stay, and
\* all of them do if it is the rmdir after the last rename that fails.
CommitFails(j) ==
    /\ runner[j] = "returned"
    /\ \E left \in Contents : outputs' = [outputs EXCEPT ![j] = left]
    /\ UpdateStatus(j, "failed")
    /\ DiscardEvent(j)
    /\ runner' = [runner EXCEPT ![j] = "settled"]
    /\ UNCHANGED <<issued, cause, chunksLeft, condemned, request, phase,
                   promised>>

\* The except clauses of run(), and the same finally clause.
SettleUnsuccessful(j) ==
    /\ runner[j] = "unwinding"
    /\ UpdateStatus(j, FailureStatus(j))
    /\ DiscardEvent(j)
    /\ runner' = [runner EXCEPT ![j] = "settled"]
    /\ UNCHANGED <<issued, cause, chunksLeft, diskVars, request, phase,
                   promised>>
-----------------------------------------------------------------------------
(* POST /api/jobs/{id}/cancel.                                             *)

\* require_job_access, a synchronous dependency, copies the job in a thread
\* of the pool.  A client knows an identifier from the response of the POST
\* that created it, which leaves the server after the runner's first step.
AdmitCancel(r, j) ==
    /\ request[r] = Idle
    /\ status[j] # Absent
    /\ runner[j] \in {"running", "returned", "unwinding", "settled"}
    /\ request' = [request EXCEPT ![r] =
                      [pc |-> "admitted", job |-> j, seen |-> status[j]]]
    /\ UNCHANGED <<jobVars, runVars, event, diskVars, phase, promised>>

\* The body of cancel_job, on the snapshot its dependency took.
HandleCancel(r) ==
    /\ request[r] # Idle
    /\ LET j == request[r].job
           seen == request[r].seen
           requested == Requested(seen, j)
       IN  /\ IF requested THEN SetEvent(j) ELSE UNCHANGED event
           /\ IF requested /\ seen # "cancel_requested"
              THEN UpdateStatus(j, "cancel_requested")
              ELSE UNCHANGED <<status, completedAt>>
           /\ promised' =
                IF requested /\ runner[j] = "running" /\ chunksLeft[j] > 0
                THEN promised \cup {j} ELSE promised
    /\ request' = [request EXCEPT ![r] = Idle]
    /\ UNCHANGED <<issued, runVars, diskVars, phase>>
-----------------------------------------------------------------------------
(* Eviction, in a worker thread: the TTL and the cap decide when, which    *)
(* Retention models; here it may be any time.                              *)

\* _collect_stale_locked pops the record, its subscribers and its clock.
Evict(j) ==
    /\ Evictable(j)
    /\ status' = [status EXCEPT ![j] = Absent]
    /\ completedAt' = completedAt \ {j}
    /\ condemned' = condemned \cup {j}
    /\ UNCHANGED <<issued, runVars, event, outputs, request, phase, promised>>

\* _cleanup_disk, after the lock is released: an error of its rmtree is logged,
\* and what is left then stays until the next start of the server.
CleanUpDisk(j) ==
    /\ CleanUpDue(j)
    /\ \E left \in Remains(outputs[j]) : outputs' = [outputs EXCEPT ![j] = left]
    /\ condemned' = condemned \ {j}
    /\ UNCHANGED <<jobVars, runVars, event, request, phase, promised>>
-----------------------------------------------------------------------------
(* BackgroundTaskRegistry.shutdown.                                        *)

BeginShutdown ==
    /\ phase = "serving"
    /\ phase' = "draining"
    /\ UNCHANGED <<jobVars, runVars, event, diskVars, request, promised>>

\* The grace period ends: task.cancel() on every straggler, in one stretch.
\* A task whose pipeline has returned still delivers its result (wait_for of
\* Python 3.11), and one already unwinding keeps doing so.  Thirty seconds
\* of loop time have started every spawned task.
GraceExpires ==
    /\ phase = "draining"
    /\ \A j \in Jobs : runner[j] # "spawned"
    /\ phase' = "cancelling"
    /\ runner' = [j \in Jobs |->
                     IF runner[j] = "running" THEN "unwinding" ELSE runner[j]]
    /\ cause' = [j \in Jobs |->
                     IF runner[j] = "running" THEN "shutdown" ELSE cause[j]]
    /\ UNCHANGED <<jobVars, chunksLeft, event, diskVars, request, promised>>

\* asyncio.wait found everything done, or gather() collected the stragglers.
ShutdownEnds ==
    /\ phase \in {"draining", "cancelling"}
    /\ LiveTasks = {}
    /\ phase' = "closed"
    /\ UNCHANGED <<jobVars, runVars, event, diskVars, request, promised>>
-----------------------------------------------------------------------------
RunnerStep(j) ==
    \/ RunStarts(j)
    \/ ChunkIsCorrected(j)
    \/ ProbeTrips(j)
    \/ PipelineFails(j)
    \/ TimesOut(j)
    \/ PipelineReturns(j)
    \/ Finish(j)
    \/ CommitFails(j)
    \/ SettleUnsuccessful(j)

Next ==
    \/ \E j \in Jobs :
          \/ CreateRecord(j)
          \/ Launch(j)
          \/ CreationFails(j)
          \/ RollBack(j)
          \/ RunnerStep(j)
          \/ Evict(j)
          \/ CleanUpDisk(j)
    \/ \E r \in Requests, j \in Jobs : AdmitCancel(r, j)
    \/ \E r \in Requests : HandleCancel(r)
    \/ BeginShutdown
    \/ GraceExpires
    \/ ShutdownEnds

\* The event loop runs every ready task, timers fire, worker threads finish.
\* Nothing is assumed of the pipeline, which waits for an external provider,
\* nor of clients, of eviction or of the operator who stops the server.
Fairness ==
    /\ \A j \in Jobs :
          /\ WF_vars(RunStarts(j))
          /\ WF_vars(TimesOut(j))
          /\ WF_vars(Finish(j) \/ CommitFails(j))
          /\ WF_vars(SettleUnsuccessful(j))
          /\ WF_vars(RollBack(j))
          /\ WF_vars(CleanUpDisk(j))
    /\ WF_vars(GraceExpires)
    /\ WF_vars(ShutdownEnds)

Spec == Init /\ [][Next]_vars
FairSpec == Spec /\ Fairness
-----------------------------------------------------------------------------
(* Properties.                                                             *)

TypeOK ==
    /\ issued \subseteq Jobs
    /\ status \in [Jobs -> JobStatuses \cup {Absent}]
    /\ completedAt \subseteq Jobs
    /\ runner \in [Jobs -> RunnerStates]
    /\ cause \in [Jobs -> Causes]
    /\ chunksLeft \in [Jobs -> 0..Chunks]
    /\ event \in [Jobs -> {"none", "clear", "set"}]
    /\ outputs \in [Jobs -> Contents]
    /\ condemned \subseteq Jobs
    /\ request \in [Requests -> {Idle} \cup Admitted]
    /\ phase \in {"serving", "draining", "cancelling", "closed"}
    /\ promised \subseteq Jobs

\* A terminal status is never replaced by another one, though update_job
\* overwrites whatever it finds and cancel handlers act on a stale snapshot:
\* a settled job only ever leaves the store.
TerminalIsFinal ==
    [][\A j \in Jobs :
          status[j] \in TerminalStates => status'[j] \in {status[j], Absent}]_vars

\* A success has its committed set on disk as long as the store answers for it.
\* A run that timed out, was cancelled, or failed or was stopped before its
\* commit never has any output on disk; one that failed in its commit may have
\* some or all of them, which its status keeps from being downloaded.
OutputsMatchStatus ==
    \A j \in Jobs :
        /\ status[j] \in TerminalSuccessStates => outputs[j] = "complete"
        /\ outputs[j] # "none" =>
               /\ status[j] \in TerminalSuccessStates \cup {"failed", Absent}
               /\ cause[j] = "none"

\* Exactly the terminal jobs of the store are on the retention clock: one
\* forgotten would never be evicted, one too many would be evicted alive.
RetentionClockExact ==
    completedAt = {j \in Jobs : status[j] \in TerminalStates}

\* A cancellation accepted while the engine still had a chunk to send never
\* ends in a success, whatever raced it.
CancelHonoured ==
    \A j \in promised : status[j] \notin TerminalSuccessStates

\* The cancellation registry holds an entry for the live tasks and for
\* nobody else: it neither leaks nor loses the event of a run.
RegistryTracksTasks ==
    {j \in Jobs : event[j] # "none"} = LiveTasks

\* Once shutdown() has returned no run is left behind, and none is added.
NothingRunsAfterShutdown == phase = "closed" => LiveTasks = {}

\* Every run settles under the timeout, even when the provider never
\* answers, clients keep cancelling or the server is being stopped.
LaunchedSettles ==
    \A j \in Jobs : runner[j] = "spawned" ~> runner[j] = "settled"

\* download_job serves what is on disk, behind its guard on the status.
Downloadable ==
    { j \in Jobs : status[j] \in TerminalSuccessStates /\ outputs[j] = "complete" }

\* The abstract contract, seen through the store and the download guard: s is
\* the status of a job, known says whether its identifier was issued.
Outcome(s, known) ==
    CASE s = Absent /\ ~known -> "unknown"
      [] s = Absent /\ known -> "forgotten"
      [] s \in TerminalSuccessStates -> "succeeded"
      [] s \in {"failed", "cancelled"} -> s
      [] OTHER -> "pending"

Outcomes == [j \in Jobs |-> Outcome(status[j], j \in issued)]

Contract == INSTANCE JobContract
    WITH outcome <- Outcomes, available <- Downloadable

\* Settling is atomic with publishing, for every client of the store: what a
\* commit that failed has left on disk is never offered.
ImplementsContract == Contract!ContractSpec

\* API.md and cancel_job: a job in cancel_requested lands in cancelled (or
\* fails on the way).
CancelRequestedEndsCancelled ==
    [][\A j \in Jobs :
          status[j] = "cancel_requested" =>
              status'[j] \in {"cancel_requested", "cancelled", "failed"}]_vars
=============================================================================
