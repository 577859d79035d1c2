----------------------------- MODULE ResultView -----------------------------
(***************************************************************************)
(* The result of a finished job in the browser.  App fetches the diff, the *)
(* layout and, in debug mode, the trace, each with a bounded retry whose   *)
(* attempts go on after the user has reset the page; LayoutViewer turns    *)
(* the pages and lets the browser load each page's scan from the link that *)
(* came with the layout.                                                   *)
(***************************************************************************)
EXTENDS JobAccess, FiniteSets

CONSTANTS
    Kinds,      \* "diff", "layout", "trace"
    Attempts,   \* retryFetch: attempts
    Scans       \* the pages of the layout that have a scan

ASSUME KindsAssumption == Kinds \subseteq {"diff", "layout", "trace"}
ASSUME FetchesAssumption == Attempts \in Nat \ {0}
ASSUME ScansAssumption == Scans \subseteq Nat \ {0}

VARIABLES
    jobId,      \* App's jobId and jobIdRef, 0 for null
    data,       \* diffData, layoutData, traceData: the job they are of, or 0
    busy,       \* diffLoading, layoutLoading, traceLoading
    failed,     \* diffError, layoutError, traceError
    fetching,   \* the retryFetch calls on their way
    debug,      \* debugMode
    scanLink,   \* the ?sig= of the layout's image_url
    page,       \* LayoutViewer's pageIdx, 0 while nothing is mounted
    scans,      \* the pages whose <img> the browser has loaded
    broken,     \* the pages whose <img> it could not load
    tries       \* history: requests of each kind, up to Attempts + 1

viewVars == <<jobId, data, busy, failed, fetching, debug, scanLink, page,
              scans, broken, tries>>

Blank ==
    /\ data = [k \in Kinds |-> 0]
    /\ busy = {}
    /\ failed = {}
    /\ debug = FALSE
    /\ scanLink = NoLink
    /\ page = 0
    /\ scans = {}
    /\ broken = {}
    /\ tries = [k \in Kinds |-> 0]

ViewInit == jobId = 0 /\ fetching = {} /\ Blank

-----------------------------------------------------------------------------
(* Seeded faults; no part of the specification.                            *)

\* App without jobIdRef.
AlwaysCurrentJob(j) == TRUE

\* A fetch that fails without latching its error flag.
FailsQuietly(k) == failed' = failed

\* One attempt too many.
TriesAgainLate(f) == f.attempt <= Attempts
-----------------------------------------------------------------------------
(* Helpers.                                                                *)

\* isCurrent()
IsCurrentJob(j) == jobId = j

\* One more request of a kind, counted up to one more than there may be.
Counted(k) == [tries EXCEPT ![k] = IF @ > Attempts THEN @ ELSE @ + 1]

\* for (attempt = 1; attempt <= attempts; ...)
MayTryAgain(f) == f.attempt < Attempts

\* The trace is fetched in debug mode only.
Wanted(k) == k = "trace" => debug

\* setDiffError(true) and its like, once retryFetch has resolved to null.
LatchError(k) == failed' = failed \cup {k}

\* handleReset.
ClearView ==
    /\ jobId' = 0
    /\ data' = [k \in Kinds |-> 0]
    /\ busy' = {}
    /\ failed' = {}
    /\ debug' = FALSE
    /\ scanLink' = NoLink
    /\ page' = 0
    /\ scans' = {}
    /\ broken' = {}
    /\ tries' = [k \in Kinds |-> 0]
    /\ UNCHANGED fetching

\* The <img> of page p, requested when the page is rendered.
LoadScan(p, link) ==
    IF p \notin Scans \/ p \in scans
    THEN UNCHANGED <<scans, broken>>
    ELSE IF MayFollow(jobId, link)
         THEN scans' = scans \cup {p} /\ broken' = broken \ {p}
         ELSE broken' = broken \cup {p} /\ UNCHANGED scans
-----------------------------------------------------------------------------
(* The bounded fetches.                                                    *)

\* The effects of App, when the job is done.
StartFetch(k) ==
    /\ data[k] = 0
    /\ k \notin busy \cup failed
    /\ Wanted(k)
    /\ busy' = busy \cup {k}
    /\ fetching' = fetching \cup {[kind |-> k, job |-> jobId, attempt |-> 1]}
    /\ tries' = Counted(k)
    /\ UNCHANGED <<jobId, data, failed, debug, scanLink, page, scans, broken>>

\* The server answers with the data; a settlement for another job than the
\* current one is dropped.  The layout brings a fresh link, and mounts the
\* viewer, whose first page loads its scan.
FetchSucceeds(f) ==
    /\ MayAccess(f.job, f.job)
    /\ fetching' = fetching \ {f}
    /\ IF IsCurrentJob(f.job)
       THEN /\ data' = [data EXCEPT ![f.kind] = f.job]
            /\ busy' = busy \ {f.kind}
            /\ IF f.kind = "layout"
               THEN /\ scanLink' = Sign(f.job)
                    /\ page' = 1
                    /\ LoadScan(1, Sign(f.job))
               ELSE UNCHANGED <<scanLink, page, scans, broken>>
       ELSE UNCHANGED <<data, busy, scanLink, page, scans, broken>>
    /\ UNCHANGED <<jobId, failed, debug, tries>>

\* The attempt fails, and another follows the backoff.
FetchRetries(f) ==
    /\ MayTryAgain(f)
    /\ fetching' = (fetching \ {f}) \cup {[f EXCEPT !.attempt = @ + 1]}
    /\ tries' = IF IsCurrentJob(f.job) THEN Counted(f.kind) ELSE tries
    /\ UNCHANGED <<jobId, data, busy, failed, debug, scanLink, page, scans,
                   broken>>

\* The last attempt fails.
FetchGivesUp(f) ==
    /\ ~MayTryAgain(f)
    /\ fetching' = fetching \ {f}
    /\ IF IsCurrentJob(f.job)
       THEN LatchError(f.kind) /\ busy' = busy \ {f.kind}
       ELSE UNCHANGED <<failed, busy>>
    /\ UNCHANGED <<jobId, data, debug, scanLink, page, scans, broken, tries>>

FetchStep(f) == FetchSucceeds(f) \/ FetchRetries(f) \/ FetchGivesUp(f)
-----------------------------------------------------------------------------
(* The reader.                                                             *)

\* The debug button: turning it off clears the latch of the trace.
ToggleDebug ==
    /\ debug' = ~debug
    /\ IF debug /\ "trace" \in failed
       THEN /\ failed' = failed \ {"trace"}
            /\ tries' = [tries EXCEPT !["trace"] = 0]
       ELSE UNCHANGED <<failed, tries>>
    /\ UNCHANGED <<jobId, data, busy, fetching, scanLink, page, scans, broken>>

\* The page selector, or a line of the review queue on another page.
TurnTo(p) ==
    /\ page # 0
    /\ p # page
    /\ page' = p
    /\ LoadScan(p, scanLink)
    /\ UNCHANGED <<jobId, data, busy, failed, fetching, debug, scanLink, tries>>
-----------------------------------------------------------------------------
(* Properties.                                                             *)

ViewTypeOK ==
    /\ jobId \in 0..MaxJobs
    /\ data \in [Kinds -> 0..MaxJobs]
    /\ busy \subseteq Kinds /\ failed \subseteq Kinds
    /\ \A f \in fetching : f.kind \in Kinds /\ f.job \in Jobs
                           /\ f.attempt \in 1..Attempts
    /\ debug \in BOOLEAN
    /\ page \in Nat /\ scans \subseteq Scans /\ broken \subseteq Scans

\* What the page shows is of the job it is about, and what it says has
\* failed is what this job's own attempts ran into, all of them; an endpoint
\* that keeps failing costs no more than these; and a fetch that is shown as
\* under way is.
ShownIsOfThisJob ==
    \A k \in Kinds :
        /\ data[k] \in {0, jobId}
        /\ tries[k] <= Attempts
        /\ k \in failed => tries[k] = Attempts
        /\ k \in busy => \E f \in fetching : f.kind = k /\ f.job = jobId

\* jobs.py: "browsers fetch the <img> right after the layout response", and
\* the lifetime of the link covers it: a scan the reader turns to can be
\* loaded as long as the job is there.
ScansLoad == broken # {} => jobId \notin stored
=============================================================================
