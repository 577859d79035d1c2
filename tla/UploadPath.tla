----------------------------- MODULE UploadPath -----------------------------
(***************************************************************************)
(* The upload from the wire to the input directory: the handler behind     *)
(* UploadSizeLimitMiddleware is UploadIntake, which starts when the body   *)
(* is complete and whose outcome is the status the application answers;    *)
(* PageImages is its last step before the run.                             *)
(***************************************************************************)
EXTENDS UploadSizeGuard, PageImages

pathVars == <<guardVars, intakeVars, imageVars>>

PathInit == GuardInit /\ IntakeInit /\ ImagesInit

\* What create_job answers: before a file is staged the upload as a whole may
\* be refused (a form without files or with a field missing, capacity, number
\* and types of files, provider), an upload whose files are accepted may still
\* fail to parse, and a parsed one may find the server at capacity.
Answers ==
    CASE intake = "staging" /\ staged = <<>> -> {400, 413, 422, 503}
      [] intake = "too large" -> {413}
      [] intake = "refused" -> {400}
      [] intake = "accepted" -> {400}
      [] intake = "linked" -> {200, 503}
      [] OTHER -> {}

\* The middleware and the framework, while the handler is not running.
Transport ==
    /\ \/ Enter \/ BodyArrives \/ BodyEnds \/ AppEnds \/ Leave
       \/ app # "handling" /\ \E code \in Statuses : AppAnswers(code)
    /\ UNCHANGED <<intakeVars, imageVars>>

Handle ==
    /\ app = "handling"
    /\ \/ IntakeNext /\ UNCHANGED imageVars
       \/ LinkImages
    /\ UNCHANGED guardVars

\* A broken archive, or spawn() during shutdown, ends in a 500.
HandlerAnswers ==
    /\ \/ app = "handling" /\ \E code \in Answers : AppAnswers(code)
       \/ intake \in {"broken", "linked"} /\ Crash
    /\ UNCHANGED <<intakeVars, imageVars>>

PathNext == Transport \/ Handle \/ HandlerAnswers

PathTypeOK ==
    /\ declared \in {{}} \cup {{n} : n \in 0..MaxBody}
    /\ guard \in {"waiting", "serving", "done"}
    /\ app \in {"outside", "reading", "answering", "handling", "aborted", "over"}
    /\ received \in 0..MaxBody
    /\ tripped \in BOOLEAN /\ started \in BOOLEAN
    /\ wire \in Seq(Statuses \cup {200, 400, 413, 422, 500, 503})
    /\ intake \in {"staging", "saving", "too large", "refused", "broken",
                  "accepted", "linked"}
    /\ staged \in Seq(Names) /\ Len(staged) <= MaxFiles
    /\ totalBytes \in Nat /\ membersLeft \in 0..MaxMembers
    /\ extracted \in Nat /\ unpacked \in Nat /\ kept \in Nat
    /\ saved \subseteq Names /\ images \subseteq Names
    /\ seenStems \subseteq {Stem[n] : n \in Names}
    /\ disk \subseteq {"input", "images"} \X Names
    /\ declares \in [DOMAIN declares -> Declarable]
    /\ pageCount \in [DOMAIN declares -> 1..MaxPages]
    /\ linked \subseteq saved \X images
=============================================================================
