------------------------ MODULE JobStreamClientProofs ------------------------
(***************************************************************************)
(* Safety of useJobStream for any number of jobs, reconnections and        *)
(* retries: no transport of an earlier generation comes alive again, and   *)
(* what the screen says about a job is true and, at the end, final.        *)
(***************************************************************************)
EXTENDS JobStreamClient, TLAPS

\* The server settles a job once, and forgets it only then.
ServerInv ==
    \A j \in Jobs :
        server[j] \in IF settled[j] = None THEN {None, "running"}
                      ELSE {settled[j], Absent}

\* A continuation belongs to one generation, which belongs to one job, and it
\* is the only one of its generation.  An answer it carries is still true in
\* what it says of the end.  A timer never outlives its generation.
ContinuationInv(c) ==
    /\ pending[c] = 1
    /\ c.gen <= gen
    /\ c.gen = gen => c.job = job
    /\ c.kind \in Timers => c.gen = gen
    /\ server[c.job] # None
    /\ c.answer \in TerminalStates => settled[c.job] = c.answer
    /\ c.answer = Absent => server[c.job] = Absent

PendingInv ==
    /\ \A c \in DOMAIN pending : ContinuationInv(c)
    /\ \A c, d \in DOMAIN pending : c.gen = d.gen => c = d

\* What is under way is exactly what belongs to the present generation.
Present == {c \in DOMAIN pending : c.gen = gen}

\* The hook without a job, and with one.
JobInv ==
    /\ job = None => /\ source = None /\ status = None /\ streamState = "idle"
                     /\ Present = {}
    /\ job # None => gen > 0 /\ server[job] # None

\* The transport and the screen.
ScreenInv ==
    /\ Streaming => Present = {} /\ status \notin TerminalStates
    /\ status \in TerminalStates => Present = {}
    /\ status \in TerminalStates =>
           status = settled[job] \/ (status = "failed" /\ server[job] = Absent)
    /\ status \notin TerminalStates =>
           (streamState = "polling"
                <=> \E c \in Present : c.kind \in {"poll", "pollTimer"})
    /\ source = "open" => streamState = "live"
    /\ streamState = "polling" /\ status \in TerminalStates \ {"failed"} =>
           statusRef \in TerminalStates

IInv ==
    /\ TypeOK
    /\ ServerInv
    /\ PendingInv
    /\ JobInv
    /\ ScreenInv
-----------------------------------------------------------------------------
(* Statuses, and the bag of what is armed or in flight.                    *)

\* Statuses that the hook compares are different strings.
LEMMA StatusFacts ==
    /\ {None, Absent, Lost, "queued", "running"} \cap TerminalStates = {}
    /\ "failed" \in TerminalStates
    /\ Endings \subseteq TerminalStates
    /\ TerminalSuccessStates \subseteq TerminalStates
    /\ None # Absent /\ None # Lost /\ None # "running" /\ None # "queued"
    /\ Absent # Lost /\ Absent # "running" /\ Lost # "running"
    /\ None \notin Jobs
  BY EndingsAssumption, JobsAssumption
  DEF TerminalStates, TerminalSuccessStates, None, Absent, Lost

\* One continuation less.
LEMMA RemoveProperties ==
    ASSUME NEW c \in DOMAIN pending, pending[c] = 1
    PROVE  /\ DOMAIN BagRemove(pending, c) = DOMAIN pending \ {c}
           /\ \A d \in DOMAIN pending \ {c} : BagRemove(pending, c)[d] = pending[d]
  BY DEF BagRemove

\* One continuation more.
LEMMA AddProperties ==
    ASSUME NEW B, NEW x, x \notin DOMAIN B
    PROVE  /\ DOMAIN BagAdd(B, x) = DOMAIN B \cup {x}
           /\ BagAdd(B, x)[x] = 1
           /\ \A d \in DOMAIN B : BagAdd(B, x)[d] = B[d]
  BY DEF BagAdd

\* The timers of a generation are cleared.
LEMMA ClearProperties ==
    /\ DOMAIN ClearTimers(pending) = {c \in DOMAIN pending : c.kind \notin Timers}
    /\ \A c \in DOMAIN pending :
          c.kind \notin Timers => ClearTimers(pending)[c] = pending[c]
  BY DEF ClearTimers, Restrict

\* What the type invariant says of the bag of continuations.
LEMMA TypeFacts ==
    ASSUME IInv
    PROVE  /\ MaxGenerations \in Nat /\ gen \in Nat /\ gen <= MaxGenerations
           /\ \A c \in DOMAIN pending :
                 /\ c \in Continuation /\ c.gen \in Nat /\ c.gen >= 1
                 /\ c.job \in Jobs /\ c.answer \in Snapshots
                 /\ c.kind \in Timers \cup Fetches
           /\ job # None => job \in Jobs
  BY GenerationsAssumption DEF IInv, TypeOK, Continuation

\* A continuation armed for the present generation.
LEMMA StepFacts ==
    ASSUME IInv, job # None, NEW kind \in Timers \cup Fetches,
           NEW g \in 1..MaxGenerations
    PROVE  LET x == Step(kind, g)
           IN  x \in Continuation /\ x.gen = g /\ x.job = job /\ x.kind = kind
               /\ x.answer = None
  BY TypeFacts DEF Step, Continuation, Snapshots

\* Whatever the server has answered stays true.
AnswersStand ==
    \A j \in Jobs : /\ server[j] # None => server'[j] # None
                    /\ settled[j] # None => settled'[j] = settled[j]
                    /\ server[j] = Absent => server'[j] = Absent

\* What is left of the bag after a step, and at most one continuation more,
\* of a generation that has none.
LEMMA PendingKept ==
    ASSUME PendingInv, AnswersStand, NEW D \in SUBSET DOMAIN pending,
           gen \in Nat, gen' \in Nat, gen <= gen',
           \A c \in DOMAIN pending : c.gen \in Nat /\ c.job \in Jobs,
           \A c \in D : /\ pending'[c] = pending[c]
                        /\ c.gen = gen' => c.job = job'
                        /\ c.kind \in Timers => c.gen = gen',
           \/ DOMAIN pending' = D
           \/ \E x : /\ DOMAIN pending' = D \cup {x}
                     /\ ContinuationInv(x)'
                     /\ \A c \in D : c.gen # x.gen
    PROVE  PendingInv'
<1>1. ASSUME NEW c \in D PROVE ContinuationInv(c)'
  <2>1. ContinuationInv(c)
    BY DEF PendingInv
  <2>2. QED
    BY <2>1, StatusFacts DEF ContinuationInv, AnswersStand
<1>2. \A c, d \in D : c.gen = d.gen => c = d
  BY DEF PendingInv
<1>3. CASE DOMAIN pending' = D
  BY <1>1, <1>2, <1>3 DEF PendingInv
<1>4. ASSUME NEW x, DOMAIN pending' = D \cup {x}, ContinuationInv(x)',
             \A c \in D : c.gen # x.gen
      PROVE  PendingInv'
  BY <1>1, <1>2, <1>4 DEF PendingInv
<1>5. QED
  BY <1>3, <1>4

\* A new timer or fetch of the present generation, in place of what it had.
LEMMA PendingReplaced ==
    ASSUME IInv, NEW D \in SUBSET DOMAIN pending, UNCHANGED serverVars,
           job # None, UNCHANGED job,
           gen' \in 1..MaxGenerations, gen <= gen',
           NEW kind \in Timers \cup Fetches, NEW x, x = Step(kind, gen'),
           DOMAIN pending' = D \cup {x}, pending'[x] = 1,
           \A c \in D : /\ pending'[c] = pending[c]
                        /\ c.gen # gen' /\ c.kind \notin Timers
    PROVE  /\ PendingInv' /\ DOMAIN pending' \subseteq Continuation
           /\ Present' = {x} /\ x.kind = kind
<1>1. /\ x \in Continuation /\ x.gen = gen' /\ x.job = job /\ x.kind = kind
      /\ x.answer = None
  BY StepFacts
<1>2. server'[x.job] # None
  BY <1>1 DEF IInv, JobInv, serverVars
<1>3. gen' <= gen'
  BY GenerationsAssumption
<1>4. ContinuationInv(x)'
  BY <1>1, <1>2, <1>3, StatusFacts DEF ContinuationInv
<1>5. gen \in Nat /\ gen' \in Nat /\ \A c \in DOMAIN pending : c.gen \in Nat
  BY TypeFacts, GenerationsAssumption
<1>6. PendingInv'
  <2>1. PendingInv
    BY DEF IInv
  <2>2. \A c \in D : c.gen # x.gen
    BY <1>1
  <2>3. AnswersStand /\ \A c \in DOMAIN pending : c.job \in Jobs
    BY TypeFacts DEF AnswersStand, serverVars
  <2>4. QED
    BY <1>4, <1>5, <2>1, <2>2, <2>3, PendingKept
<1>7. Present' = {x}
  BY <1>1 DEF Present
<1>8. QED
  BY <1>1, <1>6, <1>7, TypeFacts
-----------------------------------------------------------------------------
(* The user.                                                               *)

\* No job has been submitted.
LEMMA StartsInIInv == Init => IInv
<1> SUFFICES ASSUME Init PROVE IInv
  OBVIOUS
<1>1. 0 \in 0..MaxGenerations /\ 0 \in 0..MaxRetries
  BY GenerationsAssumption, RetriesAssumption
<1>2. DOMAIN pending = {}
  BY DEF Init, EmptyBag, SetToBag
<1>3. TypeOK
  BY <1>1, <1>2 DEF Init, TypeOK
<1>4. ServerInv /\ PendingInv /\ Present = {}
  BY <1>2 DEF Init, ServerInv, PendingInv, Present
<1>5. JobInv
  BY <1>4 DEF Init, JobInv
<1>6. ScreenInv
  BY <1>4, StatusFacts DEF Init, ScreenInv, Streaming, None
<1>7. QED
  BY <1>3, <1>4, <1>5, <1>6 DEF IInv

\* App has a new job: the hook will open a stream for it.
LEMMA SubmitKeepsIInv ==
    ASSUME IInv, NEW j \in Jobs, Submit(j)
    PROVE  IInv'
<1>1. /\ server[j] = None /\ gen < MaxGenerations
      /\ server' = [server EXCEPT ![j] = "running"]
      /\ job' = j /\ gen' = gen + 1 /\ retries' = 0 /\ capped' = FALSE
      /\ source' = "connecting" /\ pending' = ClearTimers(pending)
      /\ status' = "queued" /\ streamState' = "live" /\ muted' = FALSE
      /\ UNCHANGED <<settled, statusRef>>
  BY DEF Submit
<1> DEFINE D == {c \in DOMAIN pending : c.kind \notin Timers}
<1>2. DOMAIN pending' = D /\ \A c \in D : pending'[c] = pending[c]
  BY <1>1, ClearProperties
<1>3. /\ gen \in Nat /\ gen' \in 1..MaxGenerations /\ gen' \in Nat /\ gen < gen'
      /\ 0 \in 0..MaxRetries /\ gen' > 0 /\ gen <= gen' /\ gen' \in 0..MaxGenerations
  BY <1>1, TypeFacts, RetriesAssumption
<1>4. ServerInv'
  BY <1>1, StatusFacts DEF IInv, ServerInv, TypeOK
<1>5. AnswersStand
  BY <1>1, StatusFacts DEF IInv, TypeOK, AnswersStand
<1>6. \A c \in DOMAIN pending : c.gen <= gen /\ c.gen \in Nat /\ c.job \in Jobs
  BY TypeFacts DEF IInv, PendingInv, ContinuationInv
<1>7. PendingInv'
  <2>1. \A c \in D : c.gen # gen' /\ c.kind \notin Timers
    BY <1>3, <1>6
  <2>2. PendingInv
    BY DEF IInv
  <2> HIDE DEF D
  <2>3. D \in SUBSET DOMAIN pending
    BY DEF D
  <2>4. QED
    BY <1>2, <1>3, <1>5, <1>6, <2>1, <2>2, <2>3, PendingKept
<1>8. Present' = {}
  BY <1>2, <1>3, <1>6 DEF Present
<1>9. TypeOK'
  BY <1>1, <1>2, <1>3, TypeFacts DEF IInv, TypeOK
<1>10. server'[j] = "running" /\ j # None
  BY <1>1, StatusFacts DEF IInv, TypeOK
<1>11. JobInv'
  BY <1>1, <1>3, <1>10, StatusFacts DEF JobInv
<1>12. ScreenInv'
  BY <1>1, <1>8, StatusFacts DEF ScreenInv
<1>13. QED
  BY <1>4, <1>7, <1>9, <1>11, <1>12 DEF IInv

\* A terminal screen has nothing under way: the hook without a job either.
LEMMA ResetKeepsIInv == IInv /\ Reset => IInv'
<1> SUFFICES ASSUME IInv, Reset PROVE IInv'
  OBVIOUS
<1>1. /\ status \in TerminalStates /\ job' = None /\ source' = None
      /\ pending' = ClearTimers(pending) /\ status' = None
      /\ streamState' = "idle"
      /\ UNCHANGED <<server, settled, gen, retries, capped, statusRef, muted>>
  BY DEF Reset, serverVars
<1> DEFINE D == {c \in DOMAIN pending : c.kind \notin Timers}
<1>2. DOMAIN pending' = D /\ \A c \in D : pending'[c] = pending[c]
  BY <1>1, ClearProperties
<1>3. Present = {}
  BY <1>1 DEF IInv, ScreenInv
<1>4. \A c \in DOMAIN pending : c.gen # gen /\ c.gen \in Nat /\ c.job \in Jobs
  BY <1>3, TypeFacts DEF Present
<1>5. gen \in Nat /\ gen' = gen /\ gen <= gen'
  BY <1>1, TypeFacts
<1>6. PendingInv'
  <2>1. \A c \in D : c.gen # gen' /\ c.kind \notin Timers
    BY <1>4, <1>5
  <2>2. PendingInv /\ AnswersStand
    BY <1>1 DEF IInv, AnswersStand
  <2> HIDE DEF D
  <2>3. D \in SUBSET DOMAIN pending
    BY DEF D
  <2>4. QED
    BY <1>2, <1>4, <1>5, <2>1, <2>2, <2>3, PendingKept
<1>7. Present' = {}
  BY <1>2, <1>4, <1>5 DEF Present
<1>8. TypeOK'
  BY <1>1, <1>2 DEF IInv, TypeOK
<1>9. ServerInv'
  BY <1>1 DEF IInv, ServerInv
<1>10. JobInv' /\ ScreenInv'
  BY <1>1, <1>7, StatusFacts DEF JobInv, ScreenInv, Streaming, None
<1>11. QED
  BY <1>6, <1>8, <1>9, <1>10 DEF IInv

\* A step that starts, stops or answers nothing.
LEMMA QuietStep ==
    ASSUME IInv, UNCHANGED <<serverVars, job, gen, pending>>
    PROVE  ServerInv' /\ PendingInv' /\ Present' = Present
  BY DEF serverVars, IInv, ServerInv, PendingInv, ContinuationInv, Present

\* The effect that mirrors the status in statusRef.
LEMMA MirrorKeepsIInv == IInv /\ Mirror => IInv'
<1> SUFFICES ASSUME IInv, Mirror PROVE IInv'
  OBVIOUS
<1>1. statusRef' = status /\ UNCHANGED <<serverVars, job, gen, retries, capped,
         source, pending, status, streamState, muted>>
  BY DEF Mirror
<1>2. ServerInv' /\ PendingInv' /\ Present' = Present
  BY <1>1, QuietStep
<1>3. TypeOK'
  BY <1>1 DEF IInv, TypeOK, serverVars
<1>4. JobInv'
  BY <1>1, <1>2 DEF IInv, JobInv, serverVars
<1>5. ScreenInv'
  BY <1>1, <1>2 DEF IInv, ScreenInv, Streaming, serverVars
<1>6. QED
  BY <1>2, <1>3, <1>4, <1>5 DEF IInv

\* Reconnecting while the poll loop runs: its poll or its timer is cancelled,
\* by its generation or by clearTimeout.
LEMMA ReconnectKeepsIInv == IInv /\ Reconnect => IInv'
<1> SUFFICES ASSUME IInv, Reconnect PROVE IInv'
  OBVIOUS
<1> DEFINE D == {c \in DOMAIN pending : c.kind \notin Timers}
           x == Step("reopen", gen + 1)
<1>1. /\ streamState = "polling" /\ status \notin TerminalSuccessStates \cup {"failed"}
      /\ ~IsTerminalStatus(statusRef) /\ gen < MaxGenerations
      /\ gen' = gen + 1 /\ retries' = 0 /\ streamState' = "reconnecting"
      /\ pending' = BagAdd(ClearTimers(pending), x)
      /\ UNCHANGED <<serverVars, job, capped, source, status, statusRef, muted>>
  BY DEF Reconnect, Arm
<1>2. status \notin TerminalStates
  BY <1>1 DEF IInv, ScreenInv, IsTerminalStatus
<1>3. job # None /\ job \in Jobs
  BY <1>1, TypeFacts DEF IInv, JobInv
<1>4. Present # {} /\ ~Streaming
  BY <1>1, <1>2 DEF IInv, ScreenInv
<1>5. /\ gen \in Nat /\ gen' \in 1..MaxGenerations /\ gen < gen' /\ gen <= gen'
      /\ gen' > 0 /\ 0 \in 0..MaxRetries /\ gen' \in 0..MaxGenerations
      /\ gen + 1 \in 1..MaxGenerations
  BY <1>1, TypeFacts, RetriesAssumption
<1>6. \A c \in DOMAIN pending : c.gen <= gen /\ c.gen \in Nat
  BY TypeFacts DEF IInv, PendingInv, ContinuationInv
<1>7. x.gen = gen + 1 /\ x = Step("reopen", gen')
  BY <1>1, <1>3, <1>5, StepFacts DEF Fetches, Step
<1>8. x \notin DOMAIN ClearTimers(pending)
  BY <1>5, <1>6, <1>7, ClearProperties
<1>9. /\ DOMAIN pending' = D \cup {x} /\ pending'[x] = 1
      /\ \A c \in D : pending'[c] = pending[c]
  <2> DEFINE B == ClearTimers(pending)
  <2>1. pending' = BagAdd(B, x) /\ x \notin DOMAIN B
    BY <1>1, <1>8
  <2>2. DOMAIN B = D /\ \A c \in D : B[c] = pending[c]
    BY ClearProperties
  <2> HIDE DEF x, B
  <2>3. /\ DOMAIN BagAdd(B, x) = DOMAIN B \cup {x}
        /\ BagAdd(B, x)[x] = 1
        /\ \A c \in DOMAIN B : BagAdd(B, x)[c] = B[c]
    BY <2>1, AddProperties, Zenon
  <2>4. QED
    BY <2>1, <2>2, <2>3
<1>10. \A c \in D : c.gen # gen' /\ c.kind \notin Timers
  BY <1>5, <1>6
<1> HIDE DEF D, x
<1>11. /\ PendingInv' /\ DOMAIN pending' \subseteq Continuation
       /\ Present' = {x} /\ x.kind = "reopen"
  <2>1. D \in SUBSET DOMAIN pending
    BY DEF D
  <2>2. "reopen" \in Timers \cup Fetches
    BY DEF Fetches
  <2>3. UNCHANGED <<serverVars, job>>
    BY <1>1
  <2>4. QED
    BY <1>3, <1>5, <1>7, <1>9, <1>10, <2>1, <2>2, <2>3, PendingReplaced
<1>12. TypeOK'
  BY <1>1, <1>5, <1>11 DEF IInv, TypeOK, serverVars
<1>13. ServerInv' /\ JobInv'
  BY <1>1, <1>3, <1>5 DEF IInv, ServerInv, JobInv, serverVars
<1>14. ~Streaming' /\ source' # "open"
  BY <1>1, <1>4 DEF Streaming
<1>15. ScreenInv'
  BY <1>1, <1>2, <1>11, <1>14 DEF ScreenInv
<1>16. QED
  BY <1>11, <1>12, <1>13, <1>15 DEF IInv
-----------------------------------------------------------------------------
(* The EventSource.                                                        *)

\* With a stream under way nothing else of its generation is.
LEMMA StreamingFacts ==
    ASSUME IInv, Streaming
    PROVE  /\ job # None /\ job \in Jobs /\ gen \in 1..MaxGenerations /\ gen > 0
           /\ Present = {} /\ status \notin TerminalStates
           /\ streamState # "polling"
<1>1. job # None /\ Present = {} /\ status \notin TerminalStates
  BY DEF IInv, JobInv, ScreenInv, Streaming, None
<1>2. streamState # "polling"
  BY <1>1 DEF IInv, ScreenInv
<1>3. QED
  BY <1>1, <1>2, TypeFacts DEF IInv, JobInv

\* What an open stream tells changes the screen, and at the end closes it.
LEMMA TellingKeepsIInv ==
    ASSUME IInv, source = "open", source' \in {source, "closed"},
           status' \in {"running", "failed"} \cup Endings \cup {status},
           statusRef' \in {statusRef} \cup Endings, capped' \in BOOLEAN,
           UNCHANGED <<serverVars, job, gen, retries, pending, streamState, muted>>,
           status' \in TerminalStates =>
               /\ source' = "closed"
               /\ \/ status' = settled[job]
                  \/ status' = "failed" /\ server[job] = Absent
    PROVE  IInv'
<1>1. /\ job # None /\ Present = {} /\ status \notin TerminalStates
      /\ streamState # "polling" /\ streamState = "live"
  BY StreamingFacts DEF Streaming, IInv, ScreenInv
<1>2. ServerInv' /\ PendingInv' /\ Present' = Present
  BY QuietStep
<1>3. TypeOK'
  BY DEF IInv, TypeOK, serverVars
<1>4. JobInv'
  BY <1>1, <1>2 DEF IInv, JobInv, serverVars
<1>5. ScreenInv'
  BY <1>1, <1>2 DEF ScreenInv, Streaming, serverVars
<1>6. QED
  BY <1>2, <1>3, <1>4, <1>5 DEF IInv

\* The stream tells of progress, the end, an unknown job or a full server.
LEMMA StreamSpeaksKeepsIInv ==
    ASSUME IInv,
           TellsProgress \/ TellsEnd \/ TellsNotFound \/ TellsCapReached
    PROVE  IInv'
<1>1. capped \in BOOLEAN /\ statusRef \in {statusRef} \cup Endings
  BY DEF IInv, TypeOK
<1>2. CASE TellsProgress
  BY <1>1, <1>2, StatusFacts, TellingKeepsIInv DEF Listening, TellsProgress, Tells
<1>3. CASE TellsEnd
  <2>1. job \in Jobs /\ source = "open"
    BY <1>3, StreamingFacts DEF Listening, TellsEnd, Streaming
  <2>2. settled[job] \in Endings
    BY <1>3, <2>1 DEF Listening, TellsEnd, IInv, TypeOK
  <2>3. /\ source' = "closed" /\ status' = settled[job] /\ capped' = capped
        /\ statusRef' \in {statusRef, settled[job]}
        /\ UNCHANGED <<serverVars, job, gen, retries, pending, streamState, muted>>
    BY <1>3 DEF Listening, TellsEnd, Tells, CloseSource
  <2>4. QED
    BY <1>1, <2>1, <2>2, <2>3, TellingKeepsIInv
<1>4. CASE TellsNotFound
  <2>1. /\ source = "open" /\ server[job] = Absent /\ source' = "closed"
        /\ status' = "failed" /\ capped' = capped /\ statusRef' = statusRef
        /\ UNCHANGED <<serverVars, job, gen, retries, pending, streamState, muted>>
    BY <1>4 DEF Listening, TellsNotFound, Tells, CloseSource
  <2>2. QED
    BY <1>1, <2>1, TellingKeepsIInv
<1>5. CASE TellsCapReached
  <2>1. status \notin TerminalStates
    BY <1>5, StreamingFacts DEF Listening, TellsCapReached, Streaming
  <2>2. /\ source = "open" /\ source' = source /\ status' = status /\ capped' = TRUE
        /\ statusRef' = statusRef
        /\ UNCHANGED <<serverVars, job, gen, retries, pending, streamState, muted>>
    BY <1>5 DEF Listening, TellsCapReached
  <2>3. QED
    BY <2>1, <2>2, TellingKeepsIInv
<1>6. QED
  BY <1>2, <1>3, <1>4, <1>5

\* The EventSource reports that it is open.
LEMMA StreamOpensKeepsIInv == IInv /\ StreamOpens => IInv'
<1> SUFFICES ASSUME IInv, StreamOpens PROVE IInv'
  OBVIOUS
<1>1. /\ source = "connecting" /\ source' = "open" /\ retries' = 0
      /\ streamState' = "live"
      /\ UNCHANGED <<serverVars, job, gen, capped, pending, status, statusRef, muted>>
  BY DEF StreamOpens, OnOpen
<1>2. job # None /\ Present = {} /\ status \notin TerminalStates
  BY <1>1, StreamingFacts DEF Streaming
<1>3. ServerInv' /\ PendingInv' /\ Present' = Present
  BY <1>1, QuietStep
<1>4. 0 \in 0..MaxRetries
  BY RetriesAssumption
<1>5. TypeOK'
  BY <1>1, <1>4 DEF IInv, TypeOK, serverVars
<1>6. JobInv' /\ ScreenInv'
  BY <1>1, <1>2, <1>3 DEF IInv, JobInv, ScreenInv, Streaming, serverVars
<1>7. QED
  BY <1>3, <1>5, <1>6 DEF IInv

\* The stream is gone, and the one thing armed or sent instead is x.
LEMMA LostStreamKeepsIInv ==
    ASSUME IInv, Streaming, source' = "closed",
           NEW kind \in {"retryTimer", "poll"},
           pending' = Arm(pending, kind, gen),
           streamState' = IF kind = "poll" THEN "polling" ELSE "reconnecting",
           retries' \in 0..MaxRetries, capped' \in BOOLEAN,
           UNCHANGED <<serverVars, job, gen, status, statusRef, muted>>
    PROVE  IInv'
<1> DEFINE x == Step(kind, gen)
<1>1. /\ job # None /\ job \in Jobs /\ gen \in 1..MaxGenerations /\ gen > 0
      /\ Present = {} /\ status \notin TerminalStates
  BY StreamingFacts
<1>2. kind \in Timers \cup Fetches
  BY DEF Timers, Fetches
<1>3. x.gen = gen
  BY <1>1, <1>2, StepFacts
<1>4. x \notin DOMAIN pending
  BY <1>1, <1>3 DEF Present
<1>5. /\ DOMAIN pending' = DOMAIN pending \cup {x} /\ pending'[x] = 1
      /\ \A c \in DOMAIN pending : pending'[c] = pending[c]
  <2>1. pending' = BagAdd(pending, x)
    BY DEF Arm
  <2> HIDE DEF x
  <2>2. /\ DOMAIN BagAdd(pending, x) = DOMAIN pending \cup {x}
        /\ BagAdd(pending, x)[x] = 1
        /\ \A c \in DOMAIN pending : BagAdd(pending, x)[c] = pending[c]
    BY <1>4, AddProperties, Zenon
  <2>3. QED
    BY <2>1, <2>2
<1>6. \A c \in DOMAIN pending : c.gen # gen /\ c.kind \notin Timers
  BY <1>1 DEF Present, IInv, PendingInv, ContinuationInv
<1>7. gen' = gen /\ gen <= gen' /\ gen' \in 1..MaxGenerations /\ x = Step(kind, gen')
  BY <1>1 DEF Step
<1> HIDE DEF x
<1>8. /\ PendingInv' /\ DOMAIN pending' \subseteq Continuation
      /\ Present' = {x} /\ x.kind = kind
  <2>1. \A c \in DOMAIN pending : /\ pending'[c] = pending[c]
                                  /\ c.gen # gen' /\ c.kind \notin Timers
    BY <1>5, <1>6, <1>7
  <2>2. QED
    BY <1>1, <1>2, <1>5, <1>7, <2>1, PendingReplaced
<1>9. TypeOK'
  BY <1>8 DEF IInv, TypeOK, serverVars
<1>10. ServerInv' /\ JobInv'
  BY <1>1 DEF IInv, ServerInv, JobInv, serverVars
<1>11. streamState' = "polling" <=> \E c \in Present' : c.kind \in {"poll", "pollTimer"}
  BY <1>8
<1>12. ScreenInv'
  BY <1>1, <1>11 DEF ScreenInv, Streaming
<1>13. QED
  BY <1>8, <1>9, <1>10, <1>12 DEF IInv

\* The EventSource reports an error: the retry ladder.
LEMMA StreamFailsKeepsIInv == IInv /\ StreamFails => IInv'
<1> SUFFICES ASSUME IInv, StreamFails PROVE IInv'
  OBVIOUS
<1>1. Streaming /\ source' = "closed" /\ UNCHANGED <<serverVars, job, gen, statusRef>>
  BY DEF StreamFails, Streaming, CloseSource
<1>2. /\ job # None /\ Present = {} /\ status \notin TerminalStates
      /\ streamState # "polling"
  BY <1>1, StreamingFacts
<1>3. retries \in 0..MaxRetries /\ MaxRetries \in Nat
  BY RetriesAssumption DEF IInv, TypeOK
<1>4. CASE IsTerminalStatus(statusRef)
  <2>1. UNCHANGED <<capped, retries, streamState, pending, status>>
        /\ muted' \in BOOLEAN
    BY <1>4 DEF StreamFails, IInv, TypeOK
  <2>2. ServerInv' /\ PendingInv' /\ Present' = Present
    BY <1>1, <2>1, QuietStep
  <2>3. TypeOK'
    BY <1>1, <2>1 DEF IInv, TypeOK, serverVars
  <2>4. JobInv' /\ ScreenInv'
    BY <1>1, <1>2, <2>1, <2>2 DEF IInv, JobInv, ScreenInv, Streaming, serverVars
  <2>5. QED
    BY <2>2, <2>3, <2>4 DEF IInv
<1>5. CASE ~IsTerminalStatus(statusRef)
  <2>1. capped' \in BOOLEAN /\ UNCHANGED muted
    BY <1>5 DEF StreamFails
  <2>2. CASE StartPolling /\ UNCHANGED retries
    BY <1>1, <1>3, <2>1, <2>2, LostStreamKeepsIInv DEF StartPolling
  <2>3. CASE RetryLater /\ retries' \in 0..MaxRetries
    BY <1>1, <2>1, <2>3, LostStreamKeepsIInv DEF RetryLater
  <2>4. ~Exhausted => retries + 1 \in 0..MaxRetries
    BY <1>3 DEF Exhausted
  <2>5. QED
    BY <1>3, <1>5, <2>2, <2>3, <2>4 DEF StreamFails
<1>6. QED
  BY <1>4, <1>5
-----------------------------------------------------------------------------
(* Timers and fetches.                                                     *)

\* At most one continuation belongs to the present generation.
LEMMA PresentFacts ==
    ASSUME IInv, NEW c \in DOMAIN pending, c.gen = gen
    PROVE  /\ job # None /\ job \in Jobs /\ c.job = job
           /\ gen \in 1..MaxGenerations /\ gen > 0
           /\ Present = {c} /\ ~Streaming /\ status \notin TerminalStates
<1>1. Present = {c}
  BY DEF Present, IInv, PendingInv
<1>2. job # None /\ ~Streaming /\ status \notin TerminalStates
  BY <1>1 DEF IInv, JobInv, ScreenInv
<1>3. c.job = job
  BY DEF IInv, PendingInv, ContinuationInv
<1>4. QED
  BY <1>1, <1>2, <1>3, TypeFacts DEF IInv, JobInv

\* The check after an await only looks at the generation and the job; the
\* generation alone would do.
LEMMA CurrentIsPresent ==
    ASSUME IInv, NEW c \in DOMAIN pending
    PROVE  /\ IsCurrent(c) <=> c.gen = gen
           /\ c.kind \in Timers => c.gen = gen
  BY DEF IsCurrent, IInv, PendingInv, ContinuationInv

\* A continuation has run: it is gone, whatever its generation.
LEMMA DropKeepsPending ==
    ASSUME IInv, NEW c \in DOMAIN pending, pending' = BagRemove(pending, c),
           UNCHANGED <<serverVars, job, gen>>
    PROVE  /\ PendingInv' /\ DOMAIN pending' \subseteq Continuation
           /\ Present' = Present \ {c}
<1>1. pending[c] = 1
  BY DEF IInv, PendingInv, ContinuationInv
<1>2. /\ DOMAIN pending' = DOMAIN pending \ {c}
      /\ \A d \in DOMAIN pending \ {c} : pending'[d] = pending[d]
  BY <1>1, RemoveProperties
<1>3. PendingInv'
  BY <1>2 DEF IInv, PendingInv, ContinuationInv, serverVars
<1>4. QED
  BY <1>2, <1>3, TypeFacts DEF Present

\* One continuation of the present generation hands over to another.
LEMMA HandOverKeepsPending ==
    ASSUME IInv, NEW c \in DOMAIN pending, c.gen = gen,
           NEW kind \in Timers \cup Fetches,
           pending' = Arm(BagRemove(pending, c), kind, gen),
           UNCHANGED <<serverVars, job, gen>>
    PROVE  /\ PendingInv' /\ DOMAIN pending' \subseteq Continuation
           /\ \E x : Present' = {x} /\ x.kind = kind
<1> DEFINE x == Step(kind, gen)
           B == BagRemove(pending, c)
<1>1. /\ job # None /\ gen \in 1..MaxGenerations /\ Present = {c}
  BY PresentFacts
<1>2. pending[c] = 1
  BY DEF IInv, PendingInv, ContinuationInv
<1>3. /\ DOMAIN B = DOMAIN pending \ {c}
      /\ \A d \in DOMAIN pending \ {c} : B[d] = pending[d]
  BY <1>2, RemoveProperties
<1>4. x.gen = gen
  BY <1>1, StepFacts
<1>5. \A d \in DOMAIN pending \ {c} : d.gen # gen /\ d.kind \notin Timers
  BY <1>1, CurrentIsPresent DEF Present
<1>6. x \notin DOMAIN B /\ pending' = BagAdd(B, x)
  BY <1>3, <1>4, <1>5 DEF Arm
<1>7. gen' = gen /\ gen' \in 1..MaxGenerations /\ gen <= gen' /\ x = Step(kind, gen')
  BY <1>1 DEF Step
<1> HIDE DEF x, B
<1>8. /\ DOMAIN BagAdd(B, x) = DOMAIN B \cup {x}
      /\ BagAdd(B, x)[x] = 1
      /\ \A d \in DOMAIN B : BagAdd(B, x)[d] = B[d]
  BY <1>6, AddProperties, Zenon
<1> DEFINE D == DOMAIN pending \ {c}
<1>9. /\ DOMAIN pending' = D \cup {x} /\ pending'[x] = 1
      /\ \A d \in D : /\ pending'[d] = pending[d]
                      /\ d.gen # gen' /\ d.kind \notin Timers
  BY <1>3, <1>5, <1>6, <1>7, <1>8
<1>10. D \in SUBSET DOMAIN pending
  OBVIOUS
<1> HIDE DEF D
<1>11. /\ PendingInv' /\ DOMAIN pending' \subseteq Continuation
       /\ Present' = {x} /\ x.kind = kind
  BY <1>1, <1>7, <1>9, <1>10, PendingReplaced
<1>12. QED
  BY <1>11

\* The retry delay is over: a fresh URL is asked for.
LEMMA RetryTimerKeepsIInv == IInv /\ RetryTimerFires => IInv'
<1> SUFFICES ASSUME IInv, RetryTimerFires PROVE IInv'
  OBVIOUS
<1>1. PICK c \in DOMAIN pending :
         /\ c.kind = "retryTimer"
         /\ pending' = Arm(BagRemove(pending, c), "reopen", gen)
  BY DEF RetryTimerFires
<1>2. UNCHANGED <<serverVars, job, gen, retries, capped, source, status,
                  statusRef, streamState, muted>>
  BY DEF RetryTimerFires
<1>3. c.gen = gen
  BY <1>1, CurrentIsPresent DEF Timers
<1>4. /\ job # None /\ Present = {c} /\ ~Streaming /\ status \notin TerminalStates
  BY <1>3, PresentFacts
<1>5. /\ PendingInv' /\ DOMAIN pending' \subseteq Continuation
      /\ \E x : Present' = {x} /\ x.kind = "reopen"
  BY <1>1, <1>2, <1>3, HandOverKeepsPending DEF Fetches
<1>6. TypeOK' /\ ServerInv' /\ JobInv'
  BY <1>2, <1>4, <1>5 DEF IInv, TypeOK, ServerInv, JobInv, serverVars
<1>7. ScreenInv'
  BY <1>1, <1>2, <1>4, <1>5 DEF IInv, ScreenInv, Streaming
<1>8. QED
  BY <1>5, <1>6, <1>7 DEF IInv

\* The fetch of a fresh URL returns: the stream is opened again.
LEMMA ReopenReturnsKeepsIInv == IInv /\ ReopenReturns => IInv'
<1> SUFFICES ASSUME IInv, ReopenReturns PROVE IInv'
  OBVIOUS
<1>1. PICK c \in DOMAIN pending :
         /\ c.kind = "reopen" /\ pending' = BagRemove(pending, c)
         /\ source' = IF IsCurrent(c) /\ ~IsTerminalStatus(statusRef)
                      THEN "connecting" ELSE source
  BY DEF ReopenReturns
<1>2. UNCHANGED <<serverVars, job, gen, retries, capped, status, statusRef,
                  streamState, muted>>
  BY DEF ReopenReturns
<1>3. /\ PendingInv' /\ DOMAIN pending' \subseteq Continuation
      /\ Present' = Present \ {c}
  BY <1>1, <1>2, DropKeepsPending
<1>4. source' \in {source, "connecting"}
  BY <1>1
<1>5. TypeOK' /\ ServerInv'
  BY <1>2, <1>3, <1>4 DEF IInv, TypeOK, ServerInv, serverVars
<1>6. CASE c.gen = gen
  <2>1. /\ job # None /\ Present = {c} /\ ~Streaming /\ status \notin TerminalStates
    BY <1>6, PresentFacts
  <2>2. streamState # "polling"
    BY <1>1, <2>1 DEF IInv, ScreenInv
  <2>3. Present' = {} /\ source' # "open"
    BY <1>3, <1>4, <2>1 DEF Streaming
  <2>4. JobInv' /\ ScreenInv'
    BY <1>2, <2>1, <2>2, <2>3 DEF IInv, JobInv, ScreenInv, serverVars
  <2>5. QED
    BY <1>3, <1>5, <2>4 DEF IInv
<1>7. CASE c.gen # gen
  <2>1. Present' = Present /\ source' = source
    BY <1>1, <1>3, <1>7, CurrentIsPresent DEF Present
  <2>2. JobInv' /\ ScreenInv'
    BY <1>2, <2>1 DEF IInv, JobInv, ScreenInv, Streaming, serverVars
  <2>3. QED
    BY <1>3, <1>5, <2>2 DEF IInv
<1>8. QED
  BY <1>6, <1>7

\* The poll timer sends the next poll.
LEMMA PollTimerKeepsIInv == IInv /\ PollTimerFires => IInv'
<1> SUFFICES ASSUME IInv, PollTimerFires PROVE IInv'
  OBVIOUS
<1>1. PICK c \in DOMAIN pending :
         /\ c.kind = "pollTimer"
         /\ pending' = IF IsCurrent(c)
                       THEN Arm(BagRemove(pending, c), "poll", c.gen)
                       ELSE BagRemove(pending, c)
  BY DEF PollTimerFires
<1>2. UNCHANGED <<serverVars, job, gen, retries, capped, source, status,
                  statusRef, streamState, muted>>
  BY DEF PollTimerFires
<1>3. c.gen = gen /\ IsCurrent(c)
  BY <1>1, CurrentIsPresent DEF Timers
<1>4. /\ job # None /\ Present = {c} /\ ~Streaming /\ status \notin TerminalStates
  BY <1>3, PresentFacts
<1>5. /\ PendingInv' /\ DOMAIN pending' \subseteq Continuation
      /\ \E x : Present' = {x} /\ x.kind = "poll"
  BY <1>1, <1>2, <1>3, HandOverKeepsPending DEF Fetches
<1>6. TypeOK' /\ ServerInv' /\ JobInv'
  BY <1>2, <1>4, <1>5 DEF IInv, TypeOK, ServerInv, JobInv, serverVars
<1>7. ScreenInv'
  BY <1>1, <1>2, <1>4, <1>5 DEF IInv, ScreenInv, Streaming
<1>8. QED
  BY <1>5, <1>6, <1>7 DEF IInv

\* A poll receives its answer, in the present generation or too late.
LEMMA AnswerKeepsIInv ==
    ASSUME IInv, NEW c \in DOMAIN pending, NEW answer \in {server[c.job], Lost},
           Answered(c, answer)
    PROVE  IInv'
<1> DEFINE x == [c EXCEPT !.answer = answer]
           B == BagRemove(pending, c)
           D == DOMAIN pending \ {c}
<1>1. /\ c.kind = "poll" /\ pending' = BagAdd(B, x)
      /\ UNCHANGED <<serverVars, job, gen, retries, capped, source, status,
                     statusRef, streamState, muted>>
  BY DEF Answered
<1>2. c \in Continuation /\ c.job \in Jobs /\ ContinuationInv(c)
  BY TypeFacts DEF IInv, PendingInv
<1>3. /\ server[c.job] # None
      /\ server[c.job] \in Snapshots \ {Lost}
      /\ server[c.job] \in TerminalStates => settled[c.job] = server[c.job]
  BY <1>2, StatusFacts
  DEF ContinuationInv, IInv, TypeOK, ServerInv, Snapshots
<1>4. /\ answer \in Snapshots
      /\ answer \in TerminalStates => settled[c.job] = answer
      /\ answer = Absent => server[c.job] = Absent
  BY <1>3, StatusFacts DEF Snapshots
<1>5. /\ x \in Continuation /\ x.kind = c.kind /\ x.gen = c.gen /\ x.job = c.job
      /\ x.answer = answer
  BY <1>2, <1>4 DEF Continuation
<1>6. DOMAIN B = D /\ \A d \in D : B[d] = pending[d]
  BY <1>2, RemoveProperties DEF ContinuationInv
<1>7. \A d \in D : d.gen # c.gen
  BY DEF IInv, PendingInv
<1>8. x \notin DOMAIN B
  BY <1>5, <1>6, <1>7
<1> HIDE DEF x, B
<1>9. /\ DOMAIN BagAdd(B, x) = DOMAIN B \cup {x}
      /\ BagAdd(B, x)[x] = 1
      /\ \A d \in DOMAIN B : BagAdd(B, x)[d] = B[d]
  BY <1>8, AddProperties, Zenon
<1>10. /\ DOMAIN pending' = D \cup {x} /\ pending'[x] = 1
       /\ \A d \in D : pending'[d] = pending[d]
  BY <1>1, <1>6, <1>9
<1>11. ASSUME NEW y, y = x PROVE ContinuationInv(y)'
  BY <1>1, <1>2, <1>4, <1>5, <1>10, <1>11 DEF ContinuationInv, serverVars, Timers
<1>12. PendingInv'
  <2>1. \A d \in D : ContinuationInv(d)'
    BY <1>1, <1>10 DEF IInv, PendingInv, ContinuationInv, serverVars
  <2>2. \A d, e \in D : d.gen = e.gen => d = e
    BY DEF IInv, PendingInv
  <2> HIDE DEF D
  <2>3. \A d \in DOMAIN pending' : ContinuationInv(d)'
    BY <1>10, <1>11, <2>1
  <2>4. QED
    BY <1>5, <1>7, <1>10, <2>2, <2>3 DEF PendingInv
<1>13. DOMAIN pending' \subseteq Continuation
  BY <1>5, <1>10, TypeFacts
<1>14. Present' = IF c.gen = gen THEN (Present \ {c}) \cup {x} ELSE Present
  BY <1>1, <1>5, <1>10 DEF Present
<1>15. TypeOK' /\ ServerInv'
  BY <1>1, <1>13 DEF IInv, TypeOK, ServerInv, serverVars
<1>16. JobInv' /\ ScreenInv'
  <2>1. CASE c.gen = gen
    <3>1. /\ job # None /\ Present = {c} /\ ~Streaming /\ status \notin TerminalStates
      BY <2>1, PresentFacts
    <3>2. Present' = {x}
      BY <1>14, <2>1, <3>1
    <3>3. QED
      BY <1>1, <1>5, <3>1, <3>2 DEF IInv, JobInv, ScreenInv, Streaming, serverVars
  <2>2. CASE c.gen # gen
    BY <1>1, <1>14, <2>2 DEF IInv, JobInv, ScreenInv, Streaming, serverVars
  <2>3. QED
    BY <2>1, <2>2
<1>17. QED
  BY <1>12, <1>15, <1>16 DEF IInv

\* The poll resumes: too late, for the last time, or to come back.
LEMMA PollResumesKeepsIInv == IInv /\ PollResumes => IInv'
<1> SUFFICES ASSUME IInv, PollResumes PROVE IInv'
  OBVIOUS
<1>1. PICK c \in DOMAIN pending :
        /\ c.kind = "poll" /\ c.answer # None
        /\ IF ~IsCurrent(c)
           THEN pending' = BagRemove(pending, c) /\ UNCHANGED <<status, statusRef>>
           ELSE /\ status' = CASE c.answer = Absent -> "failed"
                               [] c.answer = Lost -> status
                               [] OTHER -> c.answer
                /\ statusRef' = IF c.answer \in {Absent, Lost}
                                THEN statusRef ELSE c.answer
                /\ pending' = IF c.answer = Absent \/ EndsPolling(c.answer)
                              THEN BagRemove(pending, c)
                              ELSE Arm(BagRemove(pending, c), "pollTimer", c.gen)
  BY DEF PollResumes
<1>2. UNCHANGED <<serverVars, job, gen, retries, capped, source, streamState, muted>>
  BY DEF PollResumes
<1>3. ServerInv'
  BY <1>2 DEF IInv, ServerInv, serverVars
<1>4. CASE c.gen # gen
  <2>1. pending' = BagRemove(pending, c) /\ UNCHANGED <<status, statusRef>>
    BY <1>1, <1>4, CurrentIsPresent
  <2>2. /\ PendingInv' /\ DOMAIN pending' \subseteq Continuation
        /\ Present' = Present
    BY <1>2, <1>4, <2>1, DropKeepsPending DEF Present
  <2>3. TypeOK'
    BY <1>2, <2>1, <2>2 DEF IInv, TypeOK, serverVars
  <2>4. JobInv' /\ ScreenInv'
    BY <1>2, <2>1, <2>2 DEF IInv, JobInv, ScreenInv, Streaming, serverVars
  <2>5. QED
    BY <1>3, <2>2, <2>3, <2>4 DEF IInv
<1>5. CASE c.gen = gen
  <2>1. /\ job # None /\ job \in Jobs /\ c.job = job /\ Present = {c}
        /\ ~Streaming /\ status \notin TerminalStates
    BY <1>5, PresentFacts
  <2>2. IsCurrent(c) /\ ContinuationInv(c) /\ c.answer \in Snapshots
    BY <1>5, CurrentIsPresent, TypeFacts DEF IInv, PendingInv
  <2>3. streamState = "polling"
    BY <1>1, <2>1 DEF IInv, ScreenInv
  <2>4. /\ status' = IF c.answer = Absent THEN "failed"
                     ELSE IF c.answer = Lost THEN status ELSE c.answer
        /\ statusRef' = IF c.answer \in {Absent, Lost} THEN statusRef ELSE c.answer
        /\ pending' = IF c.answer = Absent \/ c.answer \in TerminalStates
                      THEN BagRemove(pending, c)
                      ELSE Arm(BagRemove(pending, c), "pollTimer", gen)
    BY <1>1, <1>5, <2>2, StatusFacts DEF EndsPolling
  <2>5. c.answer \in {"running", Absent, Lost} \cup Endings
    BY <1>1, <2>2 DEF Snapshots
  <2>6. {status', statusRef'} \subseteq {None, "queued", "running", "failed"} \cup Endings
    BY <2>4, <2>5 DEF IInv, TypeOK
  <2>7. JobInv'
    BY <1>2, <2>1 DEF IInv, JobInv, serverVars
  <2>8. CASE c.answer = Absent \/ c.answer \in TerminalStates
    <3>1. /\ PendingInv' /\ DOMAIN pending' \subseteq Continuation
          /\ Present' = {}
      BY <1>2, <2>1, <2>4, <2>8, DropKeepsPending
    <3>2. TypeOK'
      BY <1>2, <2>6, <3>1 DEF IInv, TypeOK, serverVars
    <3>3. \/ /\ c.answer = Absent /\ status' = "failed" /\ server[job] = Absent
          \/ /\ c.answer \in TerminalStates /\ status' = c.answer
             /\ statusRef' = c.answer /\ settled[job] = c.answer
      BY <2>1, <2>2, <2>4, <2>8, StatusFacts DEF ContinuationInv
    <3>4. status' \in TerminalStates
      BY <3>3, StatusFacts
    <3>5. ScreenInv'
      BY <1>2, <2>1, <2>3, <3>1, <3>3, <3>4 DEF ScreenInv, Streaming, serverVars
    <3>6. QED
      BY <1>3, <2>7, <3>1, <3>2, <3>5 DEF IInv
  <2>9. CASE ~(c.answer = Absent \/ c.answer \in TerminalStates)
    <3>1. /\ PendingInv' /\ DOMAIN pending' \subseteq Continuation
          /\ \E x : Present' = {x} /\ x.kind = "pollTimer"
      BY <1>2, <1>5, <2>4, <2>9, HandOverKeepsPending DEF Timers
    <3>2. TypeOK'
      BY <1>2, <2>6, <3>1 DEF IInv, TypeOK, serverVars
    <3>3. status' \notin TerminalStates
      BY <2>1, <2>4, <2>9
    <3>4. ScreenInv'
      BY <1>2, <2>1, <2>3, <3>1, <3>3 DEF ScreenInv, Streaming
    <3>5. QED
      BY <1>3, <2>7, <3>1, <3>2, <3>4 DEF IInv
  <2>10. QED
    BY <2>8, <2>9
<1>6. QED
  BY <1>4, <1>5
-----------------------------------------------------------------------------
(* The server, and the invariant.                                          *)

\* A run ends, or the job of an ended run is evicted.
LEMMA ServerKeepsIInv ==
    ASSUME IInv, NEW j \in Jobs,
           Evict(j) \/ \E s \in Endings : RunEnds(j, s)
    PROVE  IInv'
<1>1. UNCHANGED <<job, gen, retries, capped, source, pending, status,
                  statusRef, streamState, muted>>
  BY DEF Evict, RunEnds
<1>2. \/ /\ server[j] \in TerminalStates
         /\ server' = [server EXCEPT ![j] = Absent] /\ settled' = settled
      \/ \E s \in Endings : /\ server[j] = "running"
                            /\ server' = [server EXCEPT ![j] = s]
                            /\ settled' = [settled EXCEPT ![j] = s]
  BY DEF Evict, RunEnds
<1>3. ServerInv'
  BY <1>2, StatusFacts DEF IInv, TypeOK, ServerInv
<1>4. AnswersStand /\ \A k \in Jobs : server'[k] = Absent \/ settled'[k] = settled[k]
                                        \/ server[k] = "running"
  BY <1>2, StatusFacts DEF IInv, TypeOK, ServerInv, AnswersStand
<1>5. TypeOK'
  BY <1>1, <1>2 DEF IInv, TypeOK
<1>6. PendingInv'
  <2>1. gen \in Nat /\ gen' = gen /\ gen <= gen'
    BY <1>1, TypeFacts
  <2>2. PendingInv /\ \A c \in DOMAIN pending :
                         /\ c.gen \in Nat /\ c.job \in Jobs
                         /\ pending'[c] = pending[c]
                         /\ c.gen = gen' => c.job = job'
                         /\ c.kind \in Timers => c.gen = gen'
    BY <1>1, TypeFacts DEF IInv, PendingInv, ContinuationInv
  <2>3. DOMAIN pending \in SUBSET DOMAIN pending /\ DOMAIN pending' = DOMAIN pending
    BY <1>1
  <2>4. QED
    BY <1>4, <2>1, <2>2, <2>3, PendingKept
<1>7. Present' = Present
  BY <1>1 DEF Present
<1>8. JobInv'
  BY <1>1, <1>4, <1>7, TypeFacts DEF IInv, JobInv, AnswersStand
<1>9. status \in TerminalStates =>
         status = settled'[job] \/ (status = "failed" /\ server'[job] = Absent)
  <2>1. SUFFICES ASSUME status \in TerminalStates
                 PROVE  status = settled'[job]
                            \/ (status = "failed" /\ server'[job] = Absent)
    OBVIOUS
  <2>2. job \in Jobs
    BY <2>1, StatusFacts, TypeFacts DEF IInv, JobInv
  <2>3. QED
    BY <1>4, <2>1, <2>2, StatusFacts DEF IInv, ScreenInv, AnswersStand
<1>10. ScreenInv'
  BY <1>1, <1>7, <1>9 DEF IInv, ScreenInv, Streaming
<1>11. QED
  BY <1>3, <1>5, <1>6, <1>8, <1>10 DEF IInv

\* Every step keeps the invariant.
LEMMA StepKeepsIInv == IInv /\ [Next]_vars => IInv'
<1> SUFFICES ASSUME IInv, [Next]_vars PROVE IInv'
  OBVIOUS
<1>1. ASSUME NEW j \in Jobs,
             Submit(j) \/ Evict(j) \/ \E s \in Endings : RunEnds(j, s)
      PROVE  IInv'
  BY <1>1, SubmitKeepsIInv, ServerKeepsIInv
<1>2. CASE Reset \/ Mirror \/ Reconnect
  BY <1>2, ResetKeepsIInv, MirrorKeepsIInv, ReconnectKeepsIInv
<1>3. CASE StreamOpens \/ StreamFails
  BY <1>3, StreamOpensKeepsIInv, StreamFailsKeepsIInv
<1>4. CASE TellsProgress \/ TellsEnd \/ TellsNotFound \/ TellsCapReached
  BY <1>4, StreamSpeaksKeepsIInv
<1>5. CASE RetryTimerFires \/ ReopenReturns
  BY <1>5, RetryTimerKeepsIInv, ReopenReturnsKeepsIInv
<1>6. CASE PollAnswered \/ PollLost
  BY <1>6, AnswerKeepsIInv DEF PollAnswered, PollLost
<1>7. CASE PollTimerFires \/ PollResumes
  BY <1>7, PollTimerKeepsIInv, PollResumesKeepsIInv
<1>8. CASE UNCHANGED vars
  <2>1. UNCHANGED <<serverVars, job, gen, pending>>
    BY <1>8 DEF vars, serverVars
  <2>2. ServerInv' /\ PendingInv' /\ Present' = Present
    BY <2>1, QuietStep
  <2>3. QED
    BY <1>8, <2>2
    DEF vars, serverVars, IInv, TypeOK, JobInv, ScreenInv, Streaming
<1>9. QED
  BY <1>1, <1>2, <1>3, <1>4, <1>5, <1>6, <1>7, <1>8 DEF Next

\* Transport, screen and server agree in every reachable state, for any set of
\* jobs and any number of retries.
THEOREM IInvIsInvariant == Spec => []IInv
<1>1. Init => IInv
  BY StartsInIInv
<1>2. IInv /\ [Next]_vars => IInv'
  BY StepKeepsIInv
<1>3. QED
  BY <1>1, <1>2, PTL DEF Spec
-----------------------------------------------------------------------------
(* What the user may rely on.                                              *)

\* Every field keeps its type, the retry counter its bound.
THEOREM TypeCorrect == Spec => []TypeOK
<1>1. IInv => TypeOK
  BY DEF IInv
<1>2. QED
  BY <1>1, IInvIsInvariant, PTL

\* What acts for the page is what belongs to the present generation.
LEMMA UnderWayIsPresent == IInv => UnderWay = Present
  BY DEF IInv, PendingInv, ContinuationInv, UnderWay, Alive, Present

\* A stream, a timer or a fetch: never two of them, whatever of an earlier
\* generation or job is still in flight, and none once the end is shown.
THEOREM OneTransportOnly == Spec => []OneTransport
<1>1. IInv => OneTransport
  <2> SUFFICES ASSUME IInv PROVE OneTransport
    OBVIOUS
  <2>1. \A c, d \in Present : c = d /\ pending[c] = 1
    BY DEF IInv, PendingInv, ContinuationInv, Present
  <2>2. QED
    BY <2>1, UnderWayIsPresent DEF IInv, ScreenInv, OneTransport
<1>2. QED
  BY <1>1, IInvIsInvariant, PTL

\* A lost connection is never taken for the end of a job, and the banner
\* offers to reconnect exactly while the poll loop runs.
THEOREM ScreenIsTrue == Spec => []ShownIsTrue
<1>1. IInv => ShownIsTrue
  BY UnderWayIsPresent DEF IInv, ScreenInv, ShownIsTrue
<1>2. QED
  BY <1>1, IInvIsInvariant, PTL

\* What arrives late changes nothing on a screen that shows the end.
THEOREM ScreenIsFinal == Spec => ShownIsFinal
<1>1. ASSUME IInv, [Next]_vars, job' = job, status \in TerminalStates
      PROVE  status' = status
  <2>1. ~Streaming /\ Present = {} /\ job # None
    BY <1>1, StatusFacts DEF IInv, ScreenInv, JobInv
  <2>2. \A c \in DOMAIN pending : ~IsCurrent(c)
    BY <2>1 DEF Present, IsCurrent
  <2>3. ASSUME NEW j \in Jobs, Submit(j) PROVE FALSE
    BY <1>1, <2>1, <2>3 DEF Submit, IInv, JobInv
  <2>4. ~Reset
    BY <1>1, <2>1 DEF Reset
  <2>5. CASE StreamOpens \/ StreamFails \/ TellsProgress \/ TellsEnd
             \/ TellsNotFound \/ TellsCapReached
    BY <2>1, <2>5
    DEF StreamOpens, StreamFails, TellsProgress, TellsEnd, TellsNotFound,
        TellsCapReached, Listening, Streaming
  <2>6. CASE PollResumes
    BY <2>2, <2>6 DEF PollResumes
  <2>7. \/ UNCHANGED status
        \/ \E j \in Jobs : Submit(j)
        \/ Reset \/ PollResumes
        \/ StreamOpens \/ StreamFails \/ TellsProgress \/ TellsEnd
        \/ TellsNotFound \/ TellsCapReached
    BY <1>1
    DEF Next, vars, Evict, RunEnds, Mirror, Reconnect, RetryTimerFires,
        ReopenReturns, PollTimerFires, PollAnswered, PollLost, Answered
  <2>8. QED
    BY <2>3, <2>4, <2>5, <2>6, <2>7
<1>2. IInv /\ [Next]_vars =>
          [job' = job /\ status \in TerminalStates => status' = status]_vars
  BY <1>1
<1>3. QED
  BY <1>2, IInvIsInvariant, PTL DEF Spec, ShownIsFinal
=============================================================================
