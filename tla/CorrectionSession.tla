------------------------- MODULE CorrectionSession --------------------------
(***************************************************************************)
(* A user's session in the browser, with what the server does for it: a    *)
(* model is picked, a job is created and runs against the vendor, its      *)
(* result is read, the page is reset and another job follows.  Answers to  *)
(* the requests of one stage may arrive in any later one.                  *)
(***************************************************************************)
EXTENDS ModelPicker, ProviderCall, ResultView

VARIABLES
    stage,      \* what useJobStream tells App of its job
    submitting, \* App's submitting: a POST /api/jobs is on its way
    created     \* the jobs created so far

vars == <<pickerVars, callVars, accessVars, viewVars, stage, submitting, created>>

Init ==
    /\ PickerInit /\ CallInit /\ AccessInit /\ ViewInit
    /\ stage = "idle"
    /\ submitting = FALSE
    /\ created = 0

-----------------------------------------------------------------------------
\* isDone, and the states in which the controls are enabled.
IsDone == stage = "done"
Editable == stage \in {"idle", "failed"}
Settled == stage \in {"done", "failed"}

\* canPlay, and the `disabled` of the button.
CanPlay ==
    Editable /\ ~submitting /\ provider # None /\ selected # None

\* The configuration, open while a job is being submitted too.
Configure ==
    /\ Editable
    /\ \/ \E p \in Providers : ChooseProvider(p)
       \/ LoadModels
       \/ \E m \in Models : SelectModel(m)
    /\ UNCHANGED <<callVars, accessVars, viewVars, stage, submitting, created>>

\* handlePlay, up to the answer of POST /api/jobs.
Play ==
    /\ CanPlay
    /\ created < MaxJobs
    /\ submitting' = TRUE
    /\ UNCHANGED <<pickerVars, callVars, accessVars, viewVars, stage, created>>

\* The page turns to the new job, even after a reset during the upload.
JobCreated ==
    /\ submitting
    /\ submitting' = FALSE
    /\ created' = created + 1
    /\ StoreJob(created + 1)
    /\ jobId' = created + 1
    /\ ReachChunk
    /\ stage' = "running"
    /\ UNCHANGED <<pickerVars, now, data, busy, failed, fetching, debug,
                   scanLink, page, scans, broken, tries>>

SubmitFails ==
    /\ submitting
    /\ submitting' = FALSE
    /\ UNCHANGED <<pickerVars, callVars, accessVars, viewVars, stage, created>>

Correct ==
    /\ stage = "running"
    /\ CallNext
    /\ UNCHANGED <<pickerVars, accessVars, viewVars, stage, submitting, created>>

\* A run whose chunk has settled, and what useJobStream reports of it.
RunSucceeds ==
    /\ stage = "running"
    /\ call \in {"corrected", "kept"}
    /\ jobId \in stored
    /\ LeaveChunk
    /\ stage' = "done"
    /\ UNCHANGED <<pickerVars, accessVars, viewVars, submitting, created>>

\* The vendor's last word, a timeout, a cancellation, or a job that is gone.
RunFails ==
    /\ stage = "running"
    /\ LeaveChunk
    /\ stage' = "failed"
    /\ UNCHANGED <<pickerVars, accessVars, viewVars, submitting, created>>

\* handleReset; the button is there while a job is being submitted, too.
Reset ==
    /\ Settled
    /\ requestId < MaxLists
    /\ ClearView
    /\ ForgetModels
    /\ stage' = "idle"
    /\ UNCHANGED <<provider, callVars, accessVars, submitting, created>>

Read ==
    /\ IsDone
    /\ ToggleDebug \/ \E p \in Scans : TurnTo(p)
    /\ UNCHANGED <<pickerVars, callVars, accessVars, stage, submitting, created>>

\* The effects that run after a render.
Fetch(k) ==
    /\ IsDone
    /\ StartFetch(k)
    /\ UNCHANGED <<pickerVars, callVars, accessVars, stage, submitting, created>>

\* Answers, whatever the user is doing when they arrive.
ListArrives ==
    /\ \E r \in listing : ListStep(r)
    /\ UNCHANGED <<callVars, accessVars, viewVars, stage, submitting, created>>

ResultArrives(k) ==
    /\ \E f \in fetching : f.kind = k /\ FetchStep(f)
    /\ UNCHANGED <<pickerVars, callVars, accessVars, stage, submitting, created>>

\* The job that runs is not evicted; nobody looks at the clock before there
\* is a link.
Server ==
    /\ \/ \E j \in Jobs : (j # jobId \/ Settled) /\ EvictJob(j)
       \/ RestartServer
       \/ scanLink # NoLink /\ Tick
    /\ UNCHANGED <<pickerVars, callVars, viewVars, stage, submitting, created>>

Next ==
    \/ Configure \/ ListArrives
    \/ Play \/ JobCreated \/ SubmitFails
    \/ Correct \/ RunSucceeds \/ RunFails
    \/ \E k \in Kinds : Fetch(k) \/ ResultArrives(k)
    \/ Read \/ Reset \/ Server

\* React runs the effects of a render, and a request is answered or fails.
Fairness == \A k \in Kinds : WF_vars(Fetch(k)) /\ WF_vars(ResultArrives(k))

Spec == Init /\ [][Next]_vars
FairSpec == Spec /\ Fairness
-----------------------------------------------------------------------------
(* Properties.                                                             *)

TypeOK ==
    /\ PickerTypeOK /\ CallTypeOK /\ AccessTypeOK /\ ViewTypeOK
    /\ stage \in {"idle", "running", "done", "failed"}
    /\ submitting \in BOOLEAN
    /\ created \in 0..MaxJobs
    /\ jobId <= created /\ (jobId = 0) = (stage = "idle")

\* A finished job's result is shown, or said to be out of reach, in the end,
\* and so is its trace as long as the reader wants it.
DoneIsShown ==
    \A j \in Jobs, k \in Kinds :
        (IsDone /\ jobId = j /\ Wanted(k))
            ~> (data[k] = j \/ k \in failed \/ jobId # j \/ ~Wanted(k))
=============================================================================
