----------------------------- MODULE JobStatus -----------------------------
(***************************************************************************)
(* The vocabulary shared by every module about a correction job: the       *)
(* values of JobStatus, the terminal sets, and the two functions that turn *)
(* the outcome of a run into a status and a status into an SSE event name. *)
(***************************************************************************)

\* TERMINAL_SUCCESS_STATES: the states whose outputs may be downloaded.
TerminalSuccessStates ==
    { "completed", "completed_with_fallbacks",
      "completed_with_review_required", "completed_with_withheld_files" }

\* _TERMINAL_STATES of the store, _SETTLED_STATES of the cancel endpoint.
TerminalStates == TerminalSuccessStates \cup { "failed", "cancelled" }

JobStatuses ==
    TerminalStates \cup { "queued", "started", "running", "cancel_requested" }

\* A job identifier that is not a key of JobStore._jobs.
Absent == "absent"

\* What a CorrectionResult says about the quality of the run, as far as the
\* terminal status depends on it.
RunResult == [undeliverable: BOOLEAN, review: BOOLEAN, fallback: BOOLEAN]

\* The precedence of degradations in JobRunner.run.
SuccessStatus(result) ==
    CASE result.undeliverable -> "completed_with_withheld_files"
      [] ~result.undeliverable /\ result.review ->
             "completed_with_review_required"
      [] ~result.undeliverable /\ ~result.review /\ result.fallback ->
             "completed_with_fallbacks"
      [] OTHER -> "completed"

\* The name of the terminal event that goes with a terminal status.
TerminalEventOf(status) ==
    IF status \in { "failed", "cancelled" } THEN status ELSE "completed"

TerminalEvents == { "completed", "failed", "cancelled" }
=============================================================================
