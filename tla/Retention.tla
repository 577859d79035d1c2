----------------------------- MODULE Retention ------------------------------
(***************************************************************************)
(* How long JobStore keeps finished jobs, and what happens to the reviews  *)
(* readers record on them meanwhile.  The store evicts a job that has been *)
(* idle for the TTL, and the oldest ones in excess of a cap; a saved       *)
(* review, an export or a reported activity restarts the idle time.  The   *)
(* review endpoints act on the snapshot of the job that their access       *)
(* dependency took in a thread.                                            *)
(*                                                                         *)
(* The monotonic time stamps of _completed_at appear as the idle time of   *)
(* each job, which stops counting at the TTL.                              *)
(***************************************************************************)
EXTENDS JobStatus, FiniteSets, Naturals

CONSTANTS
    Jobs,          \* the identifiers uuid4 will ever issue
    Lines,         \* (page_id, line_id) of the lines of a job
    Verdicts,      \* the judgements a reader may record
    Requests,      \* requests of readers, handled concurrently
    TTL,           \* _ttl_seconds, in ticks
    MaxCompleted,  \* _MAX_COMPLETED_JOBS
    None           \* no judgement

ASSUME TTLAssumption == TTL \in Nat \ {0}
ASSUME MaxCompletedAssumption == MaxCompleted \in Nat
ASSUME NoneAssumption == None \notin Verdicts

VARIABLES
    issued,      \* identifiers create_job has handed out
    status,      \* JobManifest.status, Absent outside JobStore._jobs
    clocked,     \* the keys of JobStore._completed_at
    idle,        \* how long ago the time stamp of a job is, up to the TTL
    reviews,     \* JobManifest.reviews
    request,     \* the state of each request
    acked,       \* history: the judgements acknowledged with a 200
    overlapped   \* history: jobs with a save that acted on a stale snapshot

storeVars == <<issued, status, clocked, idle, reviews>>
vars == <<issued, status, clocked, idle, reviews, request, acked, overlapped>>

Judgements == [Lines -> Verdicts \cup {None}]
Idle == [pc |-> "idle"]
Save == [pc: {"save"}, job: Jobs, seen: Judgements, line: Lines,
         verdict: Verdicts]
Touch == [pc: {"touch"}, job: Jobs]

Init ==
    /\ issued = {}
    /\ status = [j \in Jobs |-> Absent]
    /\ clocked = {}
    /\ idle = [j \in Jobs |-> 0]
    /\ reviews = [j \in Jobs |-> [l \in Lines |-> None]]
    /\ request = [r \in Requests |-> Idle]
    /\ acked = [j \in Jobs |-> [l \in Lines |-> None]]
    /\ overlapped = {}

-----------------------------------------------------------------------------
(* Seeded faults; no part of the specification.                            *)

\* touch_review() that trusts its caller instead of the store.
TouchAnything(j) == TRUE

\* The newest in excess of the cap, instead of the oldest.
NewestFirst(j, k) == idle[j] <= idle[k]

\* put_reviews() that stores the batch instead of the merge.
BatchOnly(seen, l, v) == [[k \in Lines |-> None] EXCEPT ![l] = v]

\* A sweep that enforces the cap only.
NeverExpires(j) == FALSE

\* An eviction that leaves a tombstone where the record was.
PoppedToTombstone(gone) ==
    [j \in Jobs |-> IF j \in gone THEN "evicted" ELSE status[j]]
-----------------------------------------------------------------------------
(* _collect_stale_locked.                                                  *)

\* now - ts >= ttl.
Expired(j) == idle[j] >= TTL

\* j is at least as old as k.
OlderThan(j, k) == idle[j] >= idle[k]

\* How many terminal jobs are in excess of the cap.
Excess(C) == Cardinality(C) - MaxCompleted

\* The sets the sweep may pop: every expired job, and the oldest in excess,
\* equally old ones in the order of the dictionary.
StaleSets ==
    LET excess == Excess(clocked)
        oldest == { S \in SUBSET clocked :
                      /\ Cardinality(S) = IF excess > 0 THEN excess ELSE 0
                      /\ \A j \in S, k \in clocked \ S : OlderThan(j, k) }
    IN  { {j \in clocked : Expired(j)} \cup S : S \in oldest }

Blank == [l \in Lines |-> None]

\* _pop_job_locked of each stale job: the record with its reviews, and the
\* time stamp.  What was acknowledged is void with the record.
Popped(gone) == [j \in Jobs |-> IF j \in gone THEN Absent ELSE status[j]]

Pop(gone) ==
    /\ clocked' = clocked \ gone
    /\ reviews' = [j \in Jobs |-> IF j \in gone THEN Blank ELSE reviews[j]]
    /\ acked' = [j \in Jobs |-> IF j \in gone THEN Blank ELSE acked[j]]

\* The periodic sweep.
Sweep ==
    /\ \E gone \in StaleSets : Pop(gone) /\ status' = Popped(gone)
    /\ UNCHANGED <<issued, idle, request, overlapped>>
-----------------------------------------------------------------------------
(* The life of a job, as far as retention sees it.                         *)

\* create_job evicts what is stale, then adds a record: two critical sections
\* in one step, for whatever comes between them commutes with the second,
\* which adds an identifier that nobody knows yet.
Create(j) ==
    /\ j \notin issued
    /\ issued' = issued \cup {j}
    /\ \E gone \in StaleSets :
          Pop(gone) /\ status' = [Popped(gone) EXCEPT ![j] = "running"]
    /\ UNCHANGED <<idle, request, overlapped>>

\* update_job(status = terminal): setdefault on the time stamp.
Settle(j) ==
    /\ status[j] = "running"
    /\ status' = [status EXCEPT ![j] = "completed"]
    /\ clocked' = clocked \cup {j}
    /\ idle' = IF j \in clocked THEN idle ELSE [idle EXCEPT ![j] = 0]
    /\ UNCHANGED <<issued, reviews, request, acked, overlapped>>

\* Time passes for the jobs that carry a time stamp.
Tick ==
    /\ \E j \in clocked : idle[j] < TTL
    /\ idle' = [j \in Jobs |-> IF j \in clocked /\ idle[j] < TTL
                               THEN idle[j] + 1 ELSE idle[j]]
    /\ UNCHANGED <<issued, status, clocked, reviews, request, acked, overlapped>>
-----------------------------------------------------------------------------
(* The review endpoints.                                                   *)

\* require_job_access takes the snapshot; a 404 changes nothing.
Admit(r, what) ==
    /\ request[r] = Idle
    /\ status[what.job] # Absent
    /\ request' = [request EXCEPT ![r] = what]
    /\ UNCHANGED <<storeVars, acked, overlapped>>

AdmitSave(r, j, l, v) ==
    Admit(r, [pc |-> "save", job |-> j, seen |-> reviews[j], line |-> l,
              verdict |-> v])

AdmitTouch(r, j) == Admit(r, [pc |-> "touch", job |-> j])

\* The reviews of the snapshot with the batch on top.
Merged(seen, l, v) == [seen EXCEPT ![l] = v]

\* put_reviews merges into its snapshot and replaces the stored reviews;
\* update_job ignores an evicted job, and restarts the idle time of a
\* terminal one.  The answer is a 200 in every case, and worthless for an
\* evicted job.
HandleSave(r) ==
    /\ request[r].pc = "save"
    /\ LET j == request[r].job
           l == request[r].line
           v == request[r].verdict
       IN  /\ IF status[j] = Absent
              THEN UNCHANGED <<reviews, clocked, idle>>
              ELSE /\ reviews' = [reviews EXCEPT ![j] =
                                     Merged(request[r].seen, l, v)]
                   /\ IF status[j] \in TerminalStates
                      THEN /\ clocked' = clocked \cup {j}
                           /\ idle' = [idle EXCEPT ![j] = 0]
                      ELSE UNCHANGED <<clocked, idle>>
           /\ acked' = IF status[j] = Absent THEN acked
                       ELSE [acked EXCEPT ![j][l] = v]
           /\ overlapped' = IF status[j] # Absent /\ reviews[j] # request[r].seen
                            THEN overlapped \cup {j} ELSE overlapped
    /\ request' = [request EXCEPT ![r] = Idle]
    /\ UNCHANGED <<issued, status>>

\* touch_review re-reads the record under the lock.
Touchable(j) == status[j] \in TerminalStates

\* POST /reviews/activity and GET /reviews/export.
HandleTouch(r) ==
    /\ request[r].pc = "touch"
    /\ LET j == request[r].job
       IN  IF Touchable(j)
           THEN clocked' = clocked \cup {j} /\ idle' = [idle EXCEPT ![j] = 0]
           ELSE UNCHANGED <<clocked, idle>>
    /\ request' = [request EXCEPT ![r] = Idle]
    /\ UNCHANGED <<issued, status, reviews, acked, overlapped>>
-----------------------------------------------------------------------------
Next ==
    \/ Sweep
    \/ Tick
    \/ \E j \in Jobs : Create(j) \/ Settle(j)
    \/ \E r \in Requests :
          \/ \E j \in Jobs, l \in Lines, v \in Verdicts : AdmitSave(r, j, l, v)
          \/ \E j \in Jobs : AdmitTouch(r, j)
          \/ HandleSave(r)
          \/ HandleTouch(r)

\* Time passes, and the lifespan task sweeps periodically.
Spec == Init /\ [][Next]_vars
FairSpec == Spec /\ WF_vars(Tick) /\ WF_vars(Sweep)
-----------------------------------------------------------------------------
(* Properties.                                                             *)

TypeOK ==
    /\ issued \subseteq Jobs
    /\ status \in [Jobs -> {"running", "completed", Absent}]
    /\ clocked \subseteq Jobs
    /\ idle \in [Jobs -> 0..TTL]
    /\ reviews \in [Jobs -> Judgements]
    /\ request \in [Requests -> {Idle} \cup Save \cup Touch]
    /\ acked \in [Jobs -> Judgements]
    /\ overlapped \subseteq Jobs

\* The clock runs for exactly the terminal jobs of the store, whatever late
\* request touches an evicted or a running job.
ClockIsExact == clocked = {j \in Jobs : status[j] \in TerminalStates}

\* A reader who was active within the TTL only loses the job to the cap, and
\* only if at least MaxCompleted jobs at least as recent remain; and whenever
\* the store evicts at all, or creates a job, nothing expired is left and no
\* more than the cap.
EvictionIsJustified ==
    [][/\ \A j \in clocked \ clocked' :
             idle[j] < TTL =>
                 Cardinality({k \in clocked' : idle[k] <= idle[j]}) >= MaxCompleted
       /\ issued' # issued \/ ~(clocked \subseteq clocked') =>
             /\ Cardinality(clocked') <= MaxCompleted
             /\ \A j \in clocked' : idle[j] < TTL
      ]_vars

\* An acknowledged judgement stays until the same line is judged again, as
\* long as the store has the job and no two saves of it overlapped.
AcknowledgedIsStored ==
    \A j \in Jobs :
        status[j] # Absent /\ j \notin overlapped => reviews[j] = acked[j]

\* A finished job that nobody works on is evicted in the end.
IdleJobsLeave ==
    \A j \in Jobs :
        j \in clocked /\ idle[j] > 0 ~> j \notin clocked \/ idle[j] = 0

\* put_reviews records or replaces judgements, line by line: what one reader
\* was told is recorded does not vanish because another line is judged.
JudgementsAreKept ==
    \A j \in Jobs : status[j] # Absent => reviews[j] = acked[j]
=============================================================================
