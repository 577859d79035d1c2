------------------------- MODULE JobLifecycleProofs -------------------------
(***************************************************************************)
(* Safety of JobLifecycle for any set of jobs and of cancel requests, any  *)
(* number of chunks and any cap.  All of it follows from one inductive     *)
(* invariant, IInv, which says at which stage of its run a job may have    *)
(* which status, which cancellation event and which outputs.               *)
(***************************************************************************)
EXTENDS JobLifecycle, TLAPS

\* The stage of a run and the status in the store.
StageMatchesStatus(j) ==
    /\ runner[j] = "none" <=> j \notin issued
    /\ runner[j] = "none" => status[j] = Absent
    /\ runner[j] \in {"creating", "rollingback", "spawned"} =>
           status[j] = "queued"
    /\ runner[j] \in {"running", "returned", "unwinding"} =>
           status[j] \in {"running", "cancel_requested"}
    /\ runner[j] = "settled" => status[j] \in TerminalStates \cup {Absent}

\* The stage of a run and the cancellation registry.
StageMatchesEvent(j) ==
    event[j] # "none" <=>
        runner[j] \in {"spawned", "running", "returned", "unwinding"}

\* The stage of a run and the output directory: only a run that has returned
\* gets to its commit, and it has no cause to unwind.
StageMatchesOutputs(j) ==
    /\ cause[j] # "none" => runner[j] \in {"unwinding", "settled"}
    /\ status[j] \in TerminalSuccessStates => outputs[j] = "complete"
    /\ outputs[j] # "none" =>
           /\ runner[j] = "settled" /\ cause[j] = "none"
           /\ status[j] \in TerminalSuccessStates \cup {"failed", Absent}
    /\ j \in condemned => runner[j] = "settled" /\ status[j] = Absent

\* An honoured cancellation: the probe that will trip, or its consequence.
PromiseKept(j) ==
    \/ runner[j] = "running" /\ chunksLeft[j] > 0 /\ event[j] = "set"
    \/ runner[j] = "unwinding"
    \/ runner[j] = "settled" /\ status[j] \notin TerminalSuccessStates

\* A cancel request is about a job whose run has started.
RequestIsLate(r) ==
    request[r] # Idle =>
        runner[request[r].job] \in {"running", "returned", "unwinding", "settled"}

IInv ==
    /\ TypeOK
    /\ RetentionClockExact
    /\ \A j \in Jobs : StageMatchesStatus(j)
    /\ \A j \in Jobs : StageMatchesEvent(j)
    /\ \A j \in Jobs : StageMatchesOutputs(j)
    /\ \A j \in promised : PromiseKept(j)
    /\ \A r \in Requests : RequestIsLate(r)
    /\ NothingRunsAfterShutdown
-----------------------------------------------------------------------------
\* However degraded a finished run is, its status is one of the successes.
LEMMA SuccessStatusType ==
    ASSUME NEW result \in RunResult
    PROVE  SuccessStatus(result) \in TerminalSuccessStates
  BY DEF RunResult, SuccessStatus, TerminalSuccessStates

\* The except clauses of run() record a failure or a cancellation.
LEMMA FailureStatusType ==
    ASSUME NEW j \in Jobs
    PROVE  FailureStatus(j) \in TerminalStates \ TerminalSuccessStates
  BY DEF FailureStatus, TerminalStates, TerminalSuccessStates

\* Whatever fails while it removes files leaves some contents, and none where
\* there were none.
LEMMA RemainsType ==
    ASSUME NEW contents \in Contents, NEW left \in Remains(contents)
    PROVE  left \in Contents /\ (contents = "none" => left = "none")
  BY DEF Contents, Remains

\* No job exists yet.
LEMMA InitIInv == Init => IInv
  BY ChunksAssumption
  DEF Init, IInv, TypeOK, RetentionClockExact, StageMatchesStatus,
      StageMatchesEvent, StageMatchesOutputs, PromiseKept, RequestIsLate,
      NothingRunsAfterShutdown, RunnerStates, Causes, JobStatuses, Absent,
      TerminalStates, TerminalSuccessStates, Idle, Contents
-----------------------------------------------------------------------------
\* The handler's actions preserve the invariant.
LEMMA HandlerKeepsIInv ==
    ASSUME IInv, NEW j \in Jobs,
           CreateRecord(j) \/ Launch(j) \/ CreationFails(j) \/ RollBack(j)
    PROVE  IInv'
<1> USE DEF IInv, TypeOK, RetentionClockExact, StageMatchesStatus,
      StageMatchesEvent, StageMatchesOutputs, PromiseKept, RequestIsLate,
      NothingRunsAfterShutdown, RunnerStates, Causes, JobStatuses, Absent,
      TerminalStates, TerminalSuccessStates, Idle, Admitted, jobVars, runVars,
      diskVars, LiveTasks, Contents
<1>1. CASE CreateRecord(j)
  BY <1>1 DEF CreateRecord
<1>2. CASE Launch(j)
  BY <1>2 DEF Launch, Accepts
<1>3. CASE CreationFails(j)
  BY <1>3 DEF CreationFails, DiscardEvent
<1>4. CASE RollBack(j)
  BY <1>4 DEF RollBack
<1>5. QED
  BY <1>1, <1>2, <1>3, <1>4
\* The runner task's actions preserve the invariant: a probe, the deadline and
\* the return of the pipeline agree on who honours a cancellation.
LEMMA RunnerKeepsIInv ==
    ASSUME IInv, NEW j \in Jobs, RunnerStep(j)
    PROVE  IInv'
<1> USE DEF IInv, TypeOK, RetentionClockExact, StageMatchesStatus,
      StageMatchesEvent, StageMatchesOutputs, PromiseKept, RequestIsLate,
      NothingRunsAfterShutdown, RunnerStates, Causes, JobStatuses, Absent,
      TerminalStates, TerminalSuccessStates, Idle, Admitted, jobVars, runVars,
      diskVars, LiveTasks, Contents
<1>1. CASE RunStarts(j)
  BY <1>1 DEF RunStarts, UpdateStatus
<1>2. CASE ChunkIsCorrected(j)
  BY <1>2, ChunksAssumption DEF ChunkIsCorrected
<1>3. CASE ProbeTrips(j)
  BY <1>3 DEF ProbeTrips, Unwind
<1>4. CASE PipelineFails(j)
  BY <1>4 DEF PipelineFails, Unwind
<1>5. CASE TimesOut(j)
  BY <1>5 DEF TimesOut, DeadlineMayPass, Unwind
<1>6. CASE PipelineReturns(j)
  BY <1>6 DEF PipelineReturns
<1>7. CASE Finish(j)
  <2>1. PICK result \in RunResult : UpdateStatus(j, SuccessStatus(result))
    BY <1>7 DEF Finish
  <2>2. SuccessStatus(result) \in TerminalSuccessStates
    BY SuccessStatusType
  <2>3. status' = [status EXCEPT ![j] = SuccessStatus(result)]
        /\ completedAt' = completedAt \cup {j}
    BY <1>7, <2>1, <2>2 DEF Finish, UpdateStatus
  <2>4. QED
    BY <1>7, <2>2, <2>3 DEF Finish, Promote, DiscardEvent
<1>8. CASE CommitFails(j)
  <2>1. PICK left \in Contents : outputs' = [outputs EXCEPT ![j] = left]
    BY <1>8 DEF CommitFails
  <2>2. QED
    BY <1>8, <2>1 DEF CommitFails, UpdateStatus, DiscardEvent
<1>9. CASE SettleUnsuccessful(j)
  BY <1>9, FailureStatusType
     DEF SettleUnsuccessful, UpdateStatus, DiscardEvent
<1>10. QED
  BY <1>1, <1>2, <1>3, <1>4, <1>5, <1>6, <1>7, <1>8, <1>9 DEF RunnerStep

\* Cancel handlers preserve it although they act on an old snapshot: what
\* they write depends on the event, which only a live task has.
LEMMA CancelKeepsIInv ==
    ASSUME IInv, NEW r \in Requests,
           HandleCancel(r) \/ \E j \in Jobs : AdmitCancel(r, j)
    PROVE  IInv'
<1> USE DEF IInv, TypeOK, RetentionClockExact, StageMatchesStatus,
      StageMatchesEvent, StageMatchesOutputs, PromiseKept, RequestIsLate,
      NothingRunsAfterShutdown, RunnerStates, Causes, JobStatuses, Absent,
      TerminalStates, TerminalSuccessStates, Idle, Admitted, jobVars, runVars,
      diskVars, LiveTasks, Contents
<1>1. ASSUME NEW j \in Jobs, AdmitCancel(r, j)
      PROVE  IInv'
  <2>1. status[j] \in JobStatuses
    BY <1>1 DEF AdmitCancel
  <2>2. QED
    BY <1>1, <2>1 DEF AdmitCancel
<1>2. CASE HandleCancel(r)
  <2>1. request[r] \in Admitted /\ request[r].job \in Jobs
    BY <1>2 DEF HandleCancel
  <2> DEFINE j == request[r].job
             requested == Requested(request[r].seen, j)
  <2>2. CASE requested
    <3>1. runner[j] \in {"running", "returned", "unwinding"}
      BY <1>2, <2>1, <2>2 DEF HandleCancel, Requested
    <3>2. status[j] \in {"running", "cancel_requested"}
      BY <2>1, <3>1
    <3>3. /\ event' = [event EXCEPT ![j] = "set"]
          /\ \/ UNCHANGED <<status, completedAt>>
             \/ /\ status' = [status EXCEPT ![j] = "cancel_requested"]
                /\ UNCHANGED completedAt
          /\ promised' \in {promised, promised \cup {j}}
          /\ promised' # promised => runner[j] = "running" /\ chunksLeft[j] > 0
      BY <1>2, <2>1, <2>2, <3>2 DEF HandleCancel, SetEvent, UpdateStatus
    <3>4. QED
      BY <1>2, <2>1, <3>1, <3>2, <3>3 DEF HandleCancel
  <2>3. CASE ~requested
    BY <1>2, <2>1, <2>3 DEF HandleCancel
  <2>4. QED
    BY <2>2, <2>3
<1>3. QED
  BY <1>1, <1>2

\* Eviction and shutdown preserve it.
LEMMA ServerKeepsIInv ==
    ASSUME IInv,
           \/ \E j \in Jobs : Evict(j) \/ CleanUpDisk(j)
           \/ BeginShutdown \/ GraceExpires \/ ShutdownEnds
    PROVE  IInv'
<1> USE DEF IInv, TypeOK, RetentionClockExact, StageMatchesStatus,
      StageMatchesEvent, StageMatchesOutputs, PromiseKept, RequestIsLate,
      NothingRunsAfterShutdown, RunnerStates, Causes, JobStatuses, Absent,
      TerminalStates, TerminalSuccessStates, Idle, Admitted, jobVars, runVars,
      diskVars, LiveTasks, Contents
<1>1. ASSUME NEW j \in Jobs, Evict(j)
      PROVE  IInv'
  BY <1>1 DEF Evict, Evictable
<1>2. ASSUME NEW j \in Jobs, CleanUpDisk(j)
      PROVE  IInv'
  <2>1. PICK left \in Remains(outputs[j]) : outputs' = [outputs EXCEPT ![j] = left]
    BY <1>2 DEF CleanUpDisk
  <2>2. left \in Contents /\ (outputs[j] = "none" => left = "none")
    BY <2>1, RemainsType
  <2>3. QED
    BY <1>2, <2>1, <2>2 DEF CleanUpDisk, CleanUpDue
<1>3. CASE BeginShutdown
  BY <1>3 DEF BeginShutdown
<1>4. CASE GraceExpires
  BY <1>4 DEF GraceExpires
<1>5. CASE ShutdownEnds
  BY <1>5 DEF ShutdownEnds
<1>6. QED
  BY <1>1, <1>2, <1>3, <1>4, <1>5

\* A step outside the server.
LEMMA StutterKeepsIInv == IInv /\ UNCHANGED vars => IInv'
  BY DEF vars, IInv, TypeOK, RetentionClockExact, StageMatchesStatus,
      StageMatchesEvent, StageMatchesOutputs, PromiseKept, RequestIsLate,
      NothingRunsAfterShutdown, Admitted, LiveTasks

\* Record, runner, registry and outputs of every job agree in every reachable
\* state, for any set of jobs and requests.
THEOREM IInvIsInvariant == Spec => []IInv
<1>1. IInv /\ [Next]_vars => IInv'
  BY HandlerKeepsIInv, RunnerKeepsIInv, CancelKeepsIInv, ServerKeepsIInv,
     StutterKeepsIInv
  DEF Next
<1>2. QED
  BY InitIInv, <1>1, PTL DEF Spec
-----------------------------------------------------------------------------
(* What the invariant gives.                                               *)

\* Every variable keeps the type of the field of the code it stands for.
THEOREM TypeCorrect == Spec => []TypeOK
  BY IInvIsInvariant, PTL DEF IInv

\* A success has its committed set on disk; a run that ended before its commit
\* has nothing there, and one that failed in its commit is recorded as a failure,
\* which download_job refuses (JobRunner.run, FilesystemOutputWriter.commit).
THEOREM PublicationSafe == Spec => []OutputsMatchStatus
<1>1. IInv => OutputsMatchStatus
  BY DEF IInv, StageMatchesOutputs, OutputsMatchStatus
<1>2. QED
  BY <1>1, IInvIsInvariant, PTL

\* The store's retention clock runs for the terminal jobs and for no other.
THEOREM RetentionSafe == Spec => []RetentionClockExact
  BY IInvIsInvariant, PTL DEF IInv

\* A cancellation accepted before the last probe never ends in a success.
THEOREM CancellationSafe == Spec => []CancelHonoured
<1>1. IInv => CancelHonoured
  BY DEF IInv, PromiseKept, StageMatchesStatus, CancelHonoured, TypeOK,
         TerminalSuccessStates
<1>2. QED
  BY <1>1, IInvIsInvariant, PTL

\* CancellationRegistry holds exactly the events of the live tasks.
THEOREM RegistrySafe == Spec => []RegistryTracksTasks
<1>1. IInv => RegistryTracksTasks
  BY DEF IInv, StageMatchesEvent, RegistryTracksTasks, LiveTasks
<1>2. QED
  BY <1>1, IInvIsInvariant, PTL

\* BackgroundTaskRegistry.shutdown leaves no task behind.
THEOREM ShutdownSafe == Spec => []NothingRunsAfterShutdown
  BY IInvIsInvariant, PTL DEF IInv
-----------------------------------------------------------------------------
(* Finality, and the contract.                                             *)

\* A terminal status is final for the runner and for every cancel handler:
\* the only steps that touch a terminal job remove it.
THEOREM Finality == Spec => TerminalIsFinal
<1> DEFINE Final == \A j \in Jobs :
       status[j] \in TerminalStates => status'[j] \in {status[j], Absent}
<1> USE DEF TerminalStates, TerminalSuccessStates
<1>1. ASSUME IInv, [Next]_vars
      PROVE  Final
  <2> USE <1>1 DEF IInv, TypeOK, StageMatchesStatus, StageMatchesEvent
  <2>1. ASSUME NEW j \in Jobs, CreateRecord(j)
        PROVE  Final
    BY <2>1 DEF CreateRecord, Absent
  <2>2. ASSUME NEW j \in Jobs,
               Launch(j) \/ CreationFails(j) \/ RollBack(j) \/ Evict(j)
                 \/ CleanUpDisk(j)
        PROVE  Final
    BY <2>2 DEF Launch, CreationFails, RollBack, Evict, CleanUpDisk, jobVars
  <2>3. ASSUME NEW j \in Jobs, RunnerStep(j)
        PROVE  Final
    <3>1. runner[j] \in {"spawned", "running", "returned", "unwinding"}
      BY <2>3 DEF RunnerStep, RunStarts, ChunkIsCorrected, ProbeTrips,
                  PipelineFails, TimesOut, DeadlineMayPass, PipelineReturns,
                  Finish, CommitFails, SettleUnsuccessful
    <3>2. \A k \in Jobs \ {j} : status'[k] = status[k]
      BY <2>3 DEF RunnerStep, RunStarts, ChunkIsCorrected, ProbeTrips,
                  PipelineFails, TimesOut, Unwind, PipelineReturns,
                  Finish, CommitFails, SettleUnsuccessful, UpdateStatus, jobVars
    <3>3. status[j] \notin TerminalStates
      BY <3>1
    <3>4. QED
      BY <3>2, <3>3
  <2>4. ASSUME NEW r \in Requests, NEW j \in Jobs, AdmitCancel(r, j)
        PROVE  Final
    BY <2>4 DEF AdmitCancel, jobVars
  <2>5. ASSUME NEW r \in Requests, HandleCancel(r)
        PROVE  Final
    <3> DEFINE j == request[r].job
    <3>1. j \in Jobs
      BY <2>5 DEF HandleCancel, Admitted
    <3>2. \/ UNCHANGED status
          \/ event[j] # "none" /\ \A k \in Jobs \ {j} : status'[k] = status[k]
      BY <2>5, <3>1 DEF HandleCancel, Requested, UpdateStatus
    <3>3. event[j] # "none" => status[j] \notin TerminalStates
      BY <3>1
    <3>4. QED
      BY <3>1, <3>2, <3>3
  <2>6. CASE BeginShutdown \/ GraceExpires \/ ShutdownEnds
    BY <2>6 DEF BeginShutdown, GraceExpires, ShutdownEnds, jobVars
  <2>7. CASE UNCHANGED vars
    BY <2>7 DEF vars
  <2>8. QED
    BY <1>1, <2>1, <2>2, <2>3, <2>4, <2>5, <2>6, <2>7 DEF Next
<1>2. QED
  BY <1>1, IInvIsInvariant, PTL DEF Spec, TerminalIsFinal
\* The outcome a status stands for.
LEMMA OutcomeValues ==
    ASSUME NEW s, NEW known
    PROVE  /\ s = Absent /\ ~known => Outcome(s, known) = "unknown"
           /\ s = Absent /\ known => Outcome(s, known) = "forgotten"
           /\ s \in TerminalSuccessStates => Outcome(s, known) = "succeeded"
           /\ s \in {"failed", "cancelled"} => Outcome(s, known) = s
           /\ s \in {"queued", "started", "running", "cancel_requested"} =>
                  Outcome(s, known) = "pending"
<1> USE DEF Outcome, Absent, TerminalSuccessStates
<1>1. s = Absent /\ ~known => Outcome(s, known) = "unknown"
  OBVIOUS
<1>2. s = Absent /\ known => Outcome(s, known) = "forgotten"
  OBVIOUS
<1>3. s \in TerminalSuccessStates => Outcome(s, known) = "succeeded"
  OBVIOUS
<1>4. s \in {"failed", "cancelled"} => Outcome(s, known) = s
  OBVIOUS
<1>5. s \in {"queued", "started", "running", "cancel_requested"} =>
          Outcome(s, known) = "pending"
  OBVIOUS
<1>6. QED
  BY <1>1, <1>2, <1>3, <1>4, <1>5
\* A step that leaves every status and the issued identifiers alone is
\* invisible to the contract, and so is one that keeps a pending job pending.
LEMMA PendingStutters ==
    ASSUME NEW j \in Jobs, TypeOK,
           \A k \in Jobs \ {j} : status'[k] = status[k],
           status[j] \in {"queued", "running", "cancel_requested"},
           status'[j] \in {"queued", "running", "cancel_requested"},
           UNCHANGED <<issued, outputs>>
    PROVE  UNCHANGED <<Outcomes, Downloadable>>
<1>1. Outcome(status'[j], j \in issued') = Outcome(status[j], j \in issued)
  BY OutcomeValues
<1>2. Outcomes' = Outcomes
  BY <1>1 DEF Outcomes
<1>3. Downloadable' = Downloadable
  BY DEF Downloadable, TerminalSuccessStates
<1>4. QED
  BY <1>2, <1>3

\* A step that changes one job changes one outcome.
LEMMA OneOutcome ==
    ASSUME NEW j \in Jobs,
           \A k \in Jobs \ {j} : status'[k] = status[k],
           issued' \in {issued, issued \cup {j}},
           NEW o, Outcome(status'[j], j \in issued') = o
    PROVE  Outcomes' = [Outcomes EXCEPT ![j] = o]
<1>1. ASSUME NEW k \in Jobs, k # j
      PROVE  Outcome(status'[k], k \in issued') = Outcome(status[k], k \in issued)
  <2>1. (k \in issued') = (k \in issued) /\ status'[k] = status[k]
    BY <1>1
  <2>2. QED
    BY <2>1
<1> DEFINE Seen(k) == Outcome(status[k], k \in issued)
<1>2. /\ Outcomes = [k \in Jobs |-> Seen(k)]
      /\ Outcomes' = [k \in Jobs |-> Seen(k)']
  BY DEF Outcomes
<1>3. Seen(j)' = o /\ \A k \in Jobs : k # j => Seen(k)' = Seen(k)
  BY <1>1
<1> HIDE DEF Seen
<1>4. QED
  BY <1>2, <1>3

\* A step that changes one job makes it downloadable or not, and no other.
LEMMA OneDownload ==
    ASSUME NEW j \in Jobs,
           \A k \in Jobs \ {j} : status'[k] = status[k] /\ outputs'[k] = outputs[k]
    PROVE  /\ status'[j] \in TerminalSuccessStates /\ outputs'[j] = "complete" =>
                  Downloadable' = Downloadable \cup {j}
           /\ status'[j] \notin TerminalSuccessStates =>
                  Downloadable' = Downloadable \ {j}
           /\ status[j] \notin TerminalSuccessStates => j \notin Downloadable
  BY DEF Downloadable

\* The detailed server implements the contract: accepting, settling with the
\* outputs and forgetting are each one of its steps, and every other step is
\* invisible to a client, a commit that fails half-way and a removal included.
THEOREM Refinement == Spec => ImplementsContract
<1> DEFINE CNext == Contract!ContractNext
           CVars == <<Outcomes, Downloadable>>
<1>1. Init => Contract!ContractInit
  <2> SUFFICES ASSUME Init PROVE Contract!ContractInit
    OBVIOUS
  <2>1. \A j \in Jobs : Outcome(status[j], j \in issued) = "unknown"
    BY OutcomeValues DEF Init
  <2>2. QED
    BY <2>1 DEF Init, Outcomes, Downloadable, Contract!ContractInit
<1>2. ASSUME IInv, [Next]_vars
      PROVE  CNext \/ UNCHANGED CVars
  <2> USE <1>2
  <2>1. TypeOK
    BY DEF IInv
  <2>2. ASSUME NEW j \in Jobs, CreateRecord(j)
        PROVE  Contract!Accept(j)
    <3>1. status[j] = Absent
      BY <2>2 DEF CreateRecord, IInv, StageMatchesStatus
    <3>2. Outcomes[j] = "unknown"
      BY <2>2, <3>1, OutcomeValues DEF CreateRecord, Outcomes
    <3>3. Outcome(status'[j], j \in issued') = "pending"
      BY <2>1, <2>2, OutcomeValues DEF CreateRecord, TypeOK
    <3>4. Outcomes' = [Outcomes EXCEPT ![j] = "pending"]
      BY <2>1, <2>2, <3>3, OneOutcome DEF CreateRecord, TypeOK
    <3>5. Downloadable' = Downloadable
      <4>1. /\ \A k \in Jobs \ {j} :
                   status'[k] = status[k] /\ outputs'[k] = outputs[k]
            /\ status'[j] = "queued"
        BY <2>1, <2>2 DEF CreateRecord, diskVars, TypeOK
      <4>2. /\ status[j] \notin TerminalSuccessStates
            /\ status'[j] \notin TerminalSuccessStates
        BY <3>1, <4>1 DEF Absent, TerminalSuccessStates
      <4>3. QED
        BY <4>1, <4>2, OneDownload
    <3>6. QED
      BY <3>2, <3>4, <3>5 DEF Contract!Accept, Outcomes
  <2>3. ASSUME NEW j \in Jobs, RollBack(j)
        PROVE  Contract!Withdraw(j)
    <3>1. status[j] = "queued" /\ j \in issued
      BY <2>3 DEF RollBack, IInv, StageMatchesStatus
    <3>2. Outcomes[j] = "pending"
      BY <3>1, OutcomeValues DEF Outcomes
    <3>3. Outcome(status'[j], j \in issued') = "forgotten"
      BY <2>1, <2>3, <3>1, OutcomeValues DEF RollBack, TypeOK
    <3>4. Outcomes' = [Outcomes EXCEPT ![j] = "forgotten"]
      BY <2>1, <2>3, <3>3, OneOutcome DEF RollBack, TypeOK
    <3>5. Downloadable' = Downloadable
      BY <2>1, <2>3, <3>1, OneDownload
      DEF RollBack, diskVars, TypeOK, Absent, TerminalSuccessStates
    <3>6. QED
      BY <3>2, <3>4, <3>5 DEF Contract!Withdraw, Outcomes
  <2>4. ASSUME NEW j \in Jobs, Finish(j)
        PROVE  Contract!Succeed(j)
    <3>1. status[j] \in {"running", "cancel_requested"} /\ j \in issued
      BY <2>4 DEF Finish, IInv, StageMatchesStatus
    <3>2. PICK result \in RunResult : UpdateStatus(j, SuccessStatus(result))
      BY <2>4 DEF Finish
    <3>3. /\ \A k \in Jobs \ {j} : status'[k] = status[k]
          /\ status'[j] \in TerminalSuccessStates
      BY <2>1, <3>1, <3>2, SuccessStatusType DEF UpdateStatus, Absent, TypeOK
    <3>4. Outcomes[j] = "pending"
      BY <3>1, OutcomeValues DEF Outcomes
    <3>5. Outcome(status'[j], j \in issued') = "succeeded"
      BY <3>3, OutcomeValues
    <3>6. Outcomes' = [Outcomes EXCEPT ![j] = "succeeded"]
      BY <2>4, <3>3, <3>5, OneOutcome DEF Finish
    <3>7. Downloadable' = Downloadable \cup {j}
      BY <2>1, <2>4, <3>3, OneDownload DEF Finish, Promote, TypeOK
    <3>8. QED
      BY <3>4, <3>6, <3>7 DEF Contract!Succeed, Outcomes
  <2>5. ASSUME NEW j \in Jobs, CommitFails(j) \/ SettleUnsuccessful(j)
        PROVE  \E how \in {"failed", "cancelled"} : Contract!Fail(j, how)
    <3>1. status[j] \in {"running", "cancel_requested"} /\ j \in issued
      BY <2>5 DEF CommitFails, SettleUnsuccessful, IInv, StageMatchesStatus
    <3>2. PICK how \in {"failed", "cancelled"} : UpdateStatus(j, how)
      BY <2>5 DEF CommitFails, SettleUnsuccessful, FailureStatus
    <3>3. /\ \A k \in Jobs \ {j} : status'[k] = status[k]
          /\ status'[j] = how
      BY <2>1, <3>1, <3>2 DEF UpdateStatus, Absent, TypeOK
    <3>4. Outcomes[j] = "pending"
      BY <3>1, OutcomeValues DEF Outcomes
    <3>5. Outcome(status'[j], j \in issued') = how
      BY <3>3, OutcomeValues
    <3>6. Outcomes' = [Outcomes EXCEPT ![j] = how]
      BY <2>5, <3>3, <3>5, OneOutcome DEF CommitFails, SettleUnsuccessful
    <3>7. \A k \in Jobs \ {j} : outputs'[k] = outputs[k]
      BY <2>1, <2>5 DEF CommitFails, SettleUnsuccessful, diskVars, TypeOK
    <3>8. Downloadable' = Downloadable
      BY <3>1, <3>3, <3>7, OneDownload DEF TerminalSuccessStates
    <3>9. QED
      BY <3>4, <3>6, <3>8 DEF Contract!Fail, Outcomes
  <2>6. ASSUME NEW j \in Jobs, Evict(j)
        PROVE  Contract!Forget(j)
    <3>1. status[j] \in TerminalStates /\ j \in issued
      BY <2>6 DEF Evict, Evictable, IInv, RetentionClockExact,
                  StageMatchesStatus, TerminalStates, TerminalSuccessStates,
                  Absent
    <3>2. Outcomes[j] \in {"succeeded", "failed", "cancelled"}
      BY <3>1, OutcomeValues DEF Outcomes, TerminalStates
    <3>3. Outcome(status'[j], j \in issued') = "forgotten"
      BY <2>1, <2>6, <3>1, OutcomeValues DEF Evict, TypeOK
    <3>4. Outcomes' = [Outcomes EXCEPT ![j] = "forgotten"]
      BY <2>1, <2>6, <3>3, OneOutcome DEF Evict, TypeOK
    <3>5. Downloadable' = Downloadable \ {j}
      BY <2>1, <2>6, OneDownload DEF Evict, TypeOK, Absent, TerminalSuccessStates
    <3>6. QED
      BY <3>2, <3>4, <3>5 DEF Contract!Forget, Contract!Settled, Outcomes
  <2>7. ASSUME NEW j \in Jobs, CleanUpDisk(j)
        PROVE  UNCHANGED CVars
    <3>1. status[j] = Absent
      BY <2>7 DEF CleanUpDisk, CleanUpDue, IInv, StageMatchesOutputs
    <3>2. \A k \in Jobs \ {j} : outputs'[k] = outputs[k]
      BY <2>1, <2>7 DEF CleanUpDisk, TypeOK
    <3>3. Downloadable' = Downloadable
      BY <2>7, <3>1, <3>2, OneDownload
      DEF CleanUpDisk, jobVars, Absent, TerminalSuccessStates
    <3>4. QED
      BY <2>7, <3>3 DEF CleanUpDisk, jobVars, Outcomes
  <2>8. ASSUME NEW j \in Jobs, RunStarts(j)
        PROVE  UNCHANGED CVars
    <3>1. status[j] = "queued"
      BY <2>8 DEF RunStarts, IInv, StageMatchesStatus
    <3>2. status' = [status EXCEPT ![j] = "running"]
      BY <2>8, <3>1 DEF RunStarts, UpdateStatus, Absent
    <3>3. QED
      BY <2>1, <2>8, <3>1, <3>2, PendingStutters DEF RunStarts, diskVars, TypeOK
  <2>9. ASSUME NEW r \in Requests, HandleCancel(r)
        PROVE  UNCHANGED CVars
    <3> DEFINE j == request[r].job
    <3>1. j \in Jobs
      BY <2>1, <2>9 DEF HandleCancel, TypeOK, Admitted
    <3>2. CASE UNCHANGED status
      BY <2>9, <3>2 DEF HandleCancel, diskVars, Outcomes, Downloadable
    <3>3. CASE ~UNCHANGED status
      <4>1. event[j] # "none" /\ status' = [status EXCEPT ![j] = "cancel_requested"]
        BY <2>9, <3>1, <3>3 DEF HandleCancel, Requested, UpdateStatus
      <4>2. status[j] \in {"queued", "running", "cancel_requested"}
        BY <3>1, <4>1 DEF IInv, StageMatchesEvent, StageMatchesStatus
      <4>3. QED
        BY <2>1, <2>9, <3>1, <4>1, <4>2, PendingStutters
        DEF HandleCancel, diskVars, TypeOK
    <3>4. QED
      BY <3>2, <3>3
  <2>10. ASSUME UNCHANGED <<jobVars, outputs>>
         PROVE  UNCHANGED CVars
    BY <2>10 DEF jobVars, Outcomes, Downloadable
  <2>11. ASSUME NEW j \in Jobs,
                Launch(j) \/ CreationFails(j) \/ ChunkIsCorrected(j)
                  \/ ProbeTrips(j) \/ PipelineFails(j) \/ TimesOut(j)
                  \/ PipelineReturns(j)
         PROVE  UNCHANGED <<jobVars, outputs>>
    BY <2>11 DEF Launch, CreationFails, ChunkIsCorrected, ProbeTrips,
                 PipelineFails, TimesOut, Unwind, PipelineReturns, diskVars
  <2>12. ASSUME NEW r \in Requests, NEW j \in Jobs, AdmitCancel(r, j)
         PROVE  UNCHANGED <<jobVars, outputs>>
    BY <2>12 DEF AdmitCancel, diskVars
  <2>13. CASE BeginShutdown \/ GraceExpires \/ ShutdownEnds \/ UNCHANGED vars
    BY <2>10, <2>13 DEF BeginShutdown, GraceExpires, ShutdownEnds, vars,
                        jobVars, diskVars
  <2>14. QED
    BY <2>2, <2>3, <2>4, <2>5, <2>6, <2>7, <2>8, <2>9, <2>10, <2>11, <2>12,
       <2>13
    DEF Next, RunnerStep, Contract!ContractNext
<1>3. QED
  BY <1>1, <1>2, IInvIsInvariant, PTL
  DEF Spec, ImplementsContract, Contract!ContractSpec, Contract!contractVars
=============================================================================
