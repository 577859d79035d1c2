-------------------------- MODULE JobStreamClient --------------------------
(***************************************************************************)
(* The browser's view of a job: the React hook useJobStream.  It follows a *)
(* job over an EventSource, retries a lost stream with a growing delay,    *)
(* falls back to polling the status, and reopens the stream when the user  *)
(* asks.  Every await and every timer is a chance for a transport of an    *)
(* earlier generation, or of an earlier job, to come back late.            *)
(*                                                                         *)
(* An action is one JavaScript task.  The server and the network appear as *)
(* far as the hook can observe them: EventStream and JobLifecycle model    *)
(* what the server does.  Logs, progress and statistics are left out.      *)
(***************************************************************************)
EXTENDS JobStatus, BagsExt, Bags, Functions, Naturals

CONSTANTS
    Jobs,          \* jobs the user starts, one after the other
    Endings,       \* terminal statuses a run may end in
    MaxRetries,    \* MAX_RETRIES
    MaxGenerations \* bound: submissions and manual reconnections

ASSUME RetriesAssumption == MaxRetries \in Nat
ASSUME GenerationsAssumption == MaxGenerations \in Nat
ASSUME EndingsAssumption == Endings \subseteq TerminalStates

VARIABLES
    server,      \* what the server would answer about a job
    settled,     \* history: the status each run ended in
    job,         \* jobId of the hook, None without one
    gen,         \* genRef
    retries,     \* retryCountRef
    capped,      \* capBackoffRef
    source,      \* the EventSource in esRef
    pending,     \* a bag: the timers armed and the fetches in flight
    status,      \* the React state `status`
    statusRef,   \* its mirror
    streamState, \* the React state `streamState`
    muted        \* history: a live stream was lost without a successor

serverVars == <<server, settled>>
vars == <<server, settled, job, gen, retries, capped, source, pending, status,
          statusRef, streamState, muted>>

None == "none"

ASSUME JobsAssumption == None \notin Jobs

Timers == {"retryTimer", "pollTimer"}
Fetches == {"reopen", "poll"}
Lost == "lost"
Snapshots == {None, Lost, "running", Absent} \cup Endings

\* What is armed or in flight: the effect (by its job) and the generation it
\* belongs to, and the answer a fetch has received but not resumed with yet.
Continuation == [kind: Timers \cup Fetches, job: Jobs, gen: 1..MaxGenerations,
                 answer: Snapshots]
Step(kind, g) == [kind |-> kind, job |-> job, gen |-> g, answer |-> None]

Init ==
    /\ server = [j \in Jobs |-> None]
    /\ settled = [j \in Jobs |-> None]
    /\ job = None
    /\ gen = 0
    /\ retries = 0
    /\ capped = FALSE
    /\ source = None
    /\ pending = EmptyBag
    /\ status = None
    /\ statusRef = None
    /\ streamState = "idle"
    /\ muted = FALSE

-----------------------------------------------------------------------------
(* Seeded faults; no part of the specification.                            *)

\* Continuations that only look at `cancelled`, not at the generation.
IgnoresGeneration(c) == c.job = job

\* Retries exhausted: the job is declared failed, as it once was.
DeclareFailed ==
    /\ status' = "failed"
    /\ UNCHANGED <<streamState, pending>>

\* `>` for `>=` against MAX_RETRIES.
ExhaustedLate == retries > MaxRetries

\* A poll loop that gives up on a transport error.
EndsOnError(answer) == answer = Lost \/ answer \in TerminalStates

\* A cleanup or a reconnection that forgets the timers.
KeepTimers(b) == b
-----------------------------------------------------------------------------
(* Helpers.                                                                *)

IsTerminalStatus(s) == s \in TerminalStates

\* The check after every await: `cancelled || genRef.current !== myGen`.
IsCurrent(c) == c.job = job /\ c.gen = gen

\* clearTimeout on retryTimeoutRef and pollTimeoutRef; there is never more
\* than one timer of a kind.
ClearTimers(b) == Restrict(b, {c \in DOMAIN b : c.kind \notin Timers})

Arm(b, kind, g) == BagAdd(b, Step(kind, g))

\* esRef.current?.close()
CloseSource == source' = "closed"

\* startPolling: a cycle of the current generation, its first fetch at once.
StartPolling ==
    /\ streamState' = "polling"
    /\ pending' = Arm(pending, "poll", gen)
    /\ UNCHANGED status

Exhausted == retries >= MaxRetries

RetryLater ==
    /\ streamState' = "reconnecting"
    /\ pending' = Arm(pending, "retryTimer", gen)
    /\ UNCHANGED status

OnOpen == streamState' = "live"

\* An answer after which the poll loop does not come back.
EndsPolling(answer) == answer \in TerminalStates
-----------------------------------------------------------------------------
(* The user and the effect on [jobId].                                     *)

\* handlePlay, once POST /api/jobs has answered.  A job that failed or was
\* cancelled need not be reset first: its effect is cleaned up here.
Submit(j) ==
    /\ server[j] = None
    /\ status \in {None, "failed", "cancelled"}
    /\ gen < MaxGenerations
    /\ server' = [server EXCEPT ![j] = "running"]
    /\ job' = j
    /\ gen' = gen + 1
    /\ retries' = 0
    /\ capped' = FALSE
    /\ source' = "connecting"
    /\ pending' = ClearTimers(pending)
    /\ status' = "queued"
    /\ streamState' = "live"
    /\ muted' = FALSE
    /\ UNCHANGED <<settled, statusRef>>

\* handleReset: the cleanup, and the effect without a job.
Reset ==
    /\ status \in TerminalStates
    /\ job' = None
    /\ source' = None
    /\ pending' = ClearTimers(pending)
    /\ status' = None
    /\ streamState' = "idle"
    /\ UNCHANGED <<serverVars, gen, retries, capped, statusRef, muted>>

\* The effect on [status] runs after the next render.
Mirror ==
    /\ statusRef # status
    /\ statusRef' = status
    /\ UNCHANGED <<serverVars, job, gen, retries, capped, source, pending,
                   status, streamState, muted>>

\* The button of the polling banner, on a page that is rendered.
Reconnect ==
    /\ streamState = "polling"
    /\ status \notin TerminalSuccessStates \cup {"failed"}
    /\ ~IsTerminalStatus(statusRef)
    /\ gen < MaxGenerations
    /\ gen' = gen + 1
    /\ retries' = 0
    /\ streamState' = "reconnecting"
    /\ pending' = Arm(ClearTimers(pending), "reopen", gen + 1)
    /\ UNCHANGED <<serverVars, job, capped, source, status, statusRef, muted>>
-----------------------------------------------------------------------------
(* The EventSource.                                                        *)

StreamOpens ==
    /\ source = "connecting"
    /\ source' = "open"
    /\ retries' = 0
    /\ OnOpen
    /\ UNCHANGED <<serverVars, job, gen, capped, pending, status, statusRef, muted>>

Tells(s) ==
    /\ status' = s
    /\ UNCHANGED <<serverVars, job, gen, retries, pending, streamState, muted>>

\* A stream that was refused for the cap tells nothing more.
Listening == source = "open" /\ ~capped

\* started, document_parsed and the events that leave the status alone.
TellsProgress ==
    /\ Listening
    /\ settled[job] = None
    /\ Tells("running")
    /\ UNCHANGED <<capped, source, statusRef>>

\* The terminal event, live or synthesised.  Only `completed` writes the
\* mirror as well.
TellsEnd ==
    /\ Listening
    /\ settled[job] # None
    /\ Tells(settled[job])
    /\ statusRef' = IF settled[job] \in TerminalSuccessStates
                    THEN settled[job] ELSE statusRef
    /\ CloseSource
    /\ UNCHANGED capped

\* job_not_found is terminal.
TellsNotFound ==
    /\ Listening
    /\ server[job] = Absent
    /\ Tells("failed")
    /\ CloseSource
    /\ UNCHANGED <<capped, statusRef>>

\* subscriber_cap_reached; the server closes the stream next.  Slow streams may
\* hold their slots for a while after the run has settled.
TellsCapReached ==
    /\ Listening
    /\ server[job] # Absent
    /\ capped' = TRUE
    /\ UNCHANGED <<serverVars, job, gen, retries, source, pending, status,
                   statusRef, streamState, muted>>

\* onerror: refused, dropped or closed by the server.
StreamFails ==
    /\ source \in {"connecting", "open"}
    /\ CloseSource
    /\ IF IsTerminalStatus(statusRef)
       THEN /\ muted' = (muted \/ ~IsTerminalStatus(status))
            /\ UNCHANGED <<capped, retries, streamState, pending, status>>
       ELSE /\ capped' = FALSE
            /\ IF capped
               THEN RetryLater /\ UNCHANGED retries
               ELSE IF Exhausted
               THEN StartPolling /\ UNCHANGED retries
               ELSE RetryLater /\ retries' = retries + 1
            /\ UNCHANGED muted
    /\ UNCHANGED <<serverVars, job, gen, statusRef>>
-----------------------------------------------------------------------------
(* Timers and fetches.                                                     *)

\* The retry delay is over: reopenStream asks for a fresh URL.
RetryTimerFires ==
    \E c \in DOMAIN pending :
        /\ c.kind = "retryTimer"
        /\ pending' = Arm(BagRemove(pending, c), "reopen", gen)
        /\ UNCHANGED <<serverVars, job, gen, retries, capped, source, status,
                       statusRef, streamState, muted>>

\* fetchEventsUrl resolves, with the last known URL if all else fails.
ReopenReturns ==
    \E c \in DOMAIN pending :
        /\ c.kind = "reopen"
        /\ pending' = BagRemove(pending, c)
        /\ source' = IF IsCurrent(c) /\ ~IsTerminalStatus(statusRef)
                     THEN "connecting" ELSE source
        /\ UNCHANGED <<serverVars, job, gen, retries, capped, status,
                       statusRef, streamState, muted>>

PollTimerFires ==
    \E c \in DOMAIN pending :
        /\ c.kind = "pollTimer"
        /\ pending' = IF IsCurrent(c)
                      THEN Arm(BagRemove(pending, c), "poll", c.gen)
                      ELSE BagRemove(pending, c)
        /\ UNCHANGED <<serverVars, job, gen, retries, capped, source, status,
                       statusRef, streamState, muted>>

Answered(c, answer) ==
    /\ c.kind = "poll" /\ c.answer = None
    /\ pending' = BagAdd(BagRemove(pending, c), [c EXCEPT !.answer = answer])
    /\ UNCHANGED <<serverVars, job, gen, retries, capped, source, status,
                   statusRef, streamState, muted>>

\* The server answers a status request: a 404 for a job it does not have.
PollAnswered == \E c \in DOMAIN pending : Answered(c, server[c.job])

\* The request or its answer is lost.
PollLost == \E c \in DOMAIN pending : Answered(c, Lost)

\* The poll resumes with its answer.
PollResumes ==
    \E c \in DOMAIN pending :
        /\ c.kind = "poll" /\ c.answer # None
        /\ IF ~IsCurrent(c)
           THEN pending' = BagRemove(pending, c) /\ UNCHANGED <<status, statusRef>>
           ELSE /\ status' = CASE c.answer = Absent -> "failed"
                               [] c.answer = Lost -> status
                               [] OTHER -> c.answer
                /\ statusRef' = IF c.answer \in {Absent, Lost}
                                THEN statusRef ELSE c.answer
                /\ pending' = IF c.answer = Absent \/ EndsPolling(c.answer)
                              THEN BagRemove(pending, c)
                              ELSE Arm(BagRemove(pending, c), "pollTimer", c.gen)
        /\ UNCHANGED <<serverVars, job, gen, retries, capped, source,
                       streamState, muted>>
-----------------------------------------------------------------------------
(* The server.                                                             *)

RunEnds(j, s) ==
    /\ server[j] = "running"
    /\ server' = [server EXCEPT ![j] = s]
    /\ settled' = [settled EXCEPT ![j] = s]
    /\ UNCHANGED <<job, gen, retries, capped, source, pending, status,
                   statusRef, streamState, muted>>

Evict(j) ==
    /\ server[j] \in TerminalStates
    /\ server' = [server EXCEPT ![j] = Absent]
    /\ UNCHANGED <<settled, job, gen, retries, capped, source, pending,
                   status, statusRef, streamState, muted>>
-----------------------------------------------------------------------------
Next ==
    \/ \E j \in Jobs :
          Submit(j) \/ Evict(j) \/ \E s \in Endings : RunEnds(j, s)
    \/ Reset \/ Mirror \/ Reconnect
    \/ StreamOpens \/ StreamFails
    \/ TellsProgress \/ TellsEnd \/ TellsNotFound \/ TellsCapReached
    \/ RetryTimerFires \/ ReopenReturns
    \/ PollTimerFires \/ PollAnswered \/ PollLost \/ PollResumes

\* The browser runs its tasks and timers, and every request ends somehow.  A
\* network that keeps coming back lets an answer through in the end; so does a
\* server whose slots are all taken, since every stream of a run ends after it.
Fairness ==
    /\ WF_vars(Mirror)
    /\ WF_vars(StreamOpens \/ StreamFails)
    /\ SF_vars(TellsEnd \/ TellsNotFound)
    /\ WF_vars(RetryTimerFires)
    /\ WF_vars(ReopenReturns)
    /\ WF_vars(PollTimerFires)
    /\ SF_vars(PollAnswered)
    /\ WF_vars(PollAnswered \/ PollLost)
    /\ WF_vars(PollResumes)

Spec == Init /\ [][Next]_vars
FairSpec == Spec /\ Fairness
-----------------------------------------------------------------------------
(* Properties.                                                             *)

TypeOK ==
    /\ server \in [Jobs -> {None, "running", Absent} \cup Endings]
    /\ settled \in [Jobs -> {None} \cup Endings]
    /\ job \in Jobs \cup {None}
    /\ gen \in 0..MaxGenerations
    /\ retries \in 0..MaxRetries
    /\ capped \in BOOLEAN
    /\ source \in {None, "connecting", "open", "closed"}
    /\ DOMAIN pending \subseteq Continuation
    /\ {status, statusRef} \subseteq {None, "queued", "running", "failed"} \cup Endings
    /\ streamState \in {"idle", "live", "reconnecting", "polling"}
    /\ muted \in BOOLEAN

\* What will touch the hook's state again: a fetch only if it is of the
\* present job and generation, a timer in any case.
Alive(c) == c.kind \in Timers \/ (c.job = job /\ c.gen = gen)
UnderWay == {c \in DOMAIN pending : Alive(c)}
Streaming == source \in {"connecting", "open"}

\* Never two transports side by side: a poll in flight, a timer or a reopening
\* from before a reconnection or from an earlier job never comes alive again,
\* nor does a second copy of one.  And once a terminal status is shown, nothing
\* is open, armed or under way.
OneTransport ==
    /\ \A c, d \in UnderWay : c = d /\ pending[c] = 1
    /\ Streaming => UnderWay = {}
    /\ status \in TerminalStates => ~Streaming /\ UnderWay = {}

\* A lost connection is never a job outcome: the terminal status on screen is
\* the one the run ended in, or the server no longer has the job.  Until then
\* the banner tells the truth about the transport: it offers to reconnect
\* exactly while the poll loop runs, and is gone once a stream is open.
ShownIsTrue ==
    /\ status \in TerminalStates =>
           status = settled[job] \/ (status = "failed" /\ server[job] = Absent)
    /\ status \notin TerminalStates =>
           /\ streamState = "polling"
                 <=> \E c \in UnderWay : c.kind \in {"poll", "pollTimer"}
           /\ source = "open" => streamState = "live"

\* A terminal status stays on screen until the user moves on, whatever
\* arrives late.
ShownIsFinal ==
    [][job' = job /\ status \in TerminalStates => status' = status]_vars

\* However often the stream drops, the user is shown how the run ended.  The
\* exception: a new job's stream that fails before statusRef has been mirrored
\* is taken for the stream of the previous, ended job.
EndIsShown ==
    \A j \in Jobs :
        job = j /\ settled[j] # None
            ~> status \in TerminalStates \/ job # j \/ muted
=============================================================================
