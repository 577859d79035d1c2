---------------------------- MODULE EventStream -----------------------------
(***************************************************************************)
(* The SSE fan-out of JobStore for one job: emit() pushes events into one  *)
(* bounded queue per subscriber, stream_events() generators drain them at  *)
(* the pace of their clients, and a worker thread may evict the job        *)
(* between any two of their steps.                                         *)
(*                                                                         *)
(* Jobs do not share queues, so one job is enough.  Events carry a number  *)
(* in place of their payload.  Keepalive events are not recorded.          *)
(***************************************************************************)
EXTENDS JobStatus, Integers, FiniteSets, Sequences

CONSTANTS
    Streams,        \* GET /events requests, each served by one generator
    QueueSize,      \* maxsize of a subscriber's asyncio.Queue
    MaxSubscribers, \* MAX_SUBSCRIBERS_PER_JOB
    MaxEvents,      \* bound: progress events the run emits
    Endings         \* terminal statuses the run may end in

ASSUME QueueAssumption == QueueSize \in Nat \ {0}
ASSUME BoundsAssumption == MaxSubscribers \in Nat /\ MaxEvents \in Nat
ASSUME EndingsAssumption == Endings \subseteq TerminalStates

VARIABLES
    status,      \* of the job in JobStore._jobs, or Absent once evicted
    emitted,     \* number of events emitted so far
    registered,  \* JobStore._subscribers[job_id]
    queue,       \* the queue of each stream
    reader,      \* where the generator of a stream stands
    found,       \* the record a draining generator holds on to
    heard,       \* the last event the client of each stream has received
    ended,       \* how each stream ended
    ending,      \* history: the status the run settled in
    present      \* history: the streams registered when it settled

jobVars == <<status, emitted, ending, present>>
vars == <<status, emitted, registered, queue, reader, found, heard, ended,
          ending, present>>

\* An event of the run, or one that stream_events makes up itself.
Live(name, number) == [name |-> name, number |-> number, live |-> TRUE]
MadeUp(name, number) == [name |-> name, number |-> number, live |-> FALSE]
IsTerminal(e) == e.name \in TerminalEvents
EventSet == [name: TerminalEvents \cup {"progress"},
             number: 0..(MaxEvents + 1), live: BOOLEAN]

Attached == {"subscribed", "polling", "draining"}
Refusals == {"job_not_found", "subscriber_cap_reached"}

Init ==
    /\ status = "running"
    /\ emitted = 0
    /\ registered = {}
    /\ queue = [s \in Streams |-> <<>>]
    /\ reader = [s \in Streams |-> "away"]
    /\ found = [s \in Streams |-> Absent]
    /\ heard = [s \in Streams |-> MadeUp("progress", 0)]
    /\ ended = [s \in Streams |-> "open"]
    /\ ending = Absent
    /\ present = {}

-----------------------------------------------------------------------------
(* Seeded faults; no part of the specification.                            *)

\* emit() that ignores the bound of the queue.
PutUnbounded(q, e) == Append(q, e)

\* emit() that drops a terminal event like any other when the queue is full.
PutDroppingTerminal(q, e) == IF Len(q) < QueueSize THEN Append(q, e) ELSE q

\* A drain loop without its `return` on a buffered terminal event.
NeverOver(e) == FALSE

\* _synthetic_terminal that knows "completed" and "failed" only.
SyntheticWithoutCancelled(st) ==
    MadeUp(IF st = "failed" THEN "failed" ELSE "completed", emitted)

\* A keepalive that looks at the status of jobs still in the store only.
NoticesStoredOnly == status \in TerminalStates
-----------------------------------------------------------------------------
(* emit().                                                                 *)

\* One subscriber's queue: a full queue drops a progress event, but gives up
\* its oldest event for a terminal one.
Put(q, e) ==
    IF Len(q) < QueueSize THEN Append(q, e)
    ELSE IF IsTerminal(e) THEN Append(Tail(q), e)
    ELSE q

PutAll(e) ==
    queue' = [s \in Streams |->
                 IF s \in registered THEN Put(queue[s], e) ELSE queue[s]]

\* An event of the run that is not terminal.
EmitProgress ==
    /\ status = "running"
    /\ emitted < MaxEvents
    /\ emitted' = emitted + 1
    /\ PutAll(Live("progress", emitted + 1))
    /\ UNCHANGED <<status, registered, reader, found, heard, ended, ending,
                   present>>

\* update_job(terminal status) and the terminal emit are one stretch of loop
\* code.  A job that has just settled is neither old enough nor, as the
\* newest one, in excess of the cap: eviction cannot come between them.
\* The reconcile_stats event of the same stretch is an EmitProgress just before.
Settle(st) ==
    /\ status = "running"
    /\ status' = st
    /\ ending' = st
    /\ emitted' = emitted + 1
    /\ PutAll(Live(TerminalEventOf(st), emitted + 1))
    /\ present' = registered
    /\ UNCHANGED <<registered, reader, found, heard, ended>>

\* _pop_job_locked, in a worker thread: the record and its subscriber list.
Evict ==
    /\ status \in TerminalStates
    /\ status' = Absent
    /\ registered' = {}
    /\ UNCHANGED <<emitted, queue, reader, found, heard, ended, ending,
                   present>>
-----------------------------------------------------------------------------
(* stream_events().  A step delivers at most one event: the generator is   *)
(* suspended in every `yield` until the client has taken the event.        *)

\* The `finally` clause; the queue dies with its generator.
Unsubscribe(s) == registered \ {s}

Leave(s, how) ==
    /\ reader' = [reader EXCEPT ![s] = "left"]
    /\ ended' = [ended EXCEPT ![s] = how]
    /\ registered' = Unsubscribe(s)

\* subscribe(), under the lock: refused, or registered with an empty queue.
Subscribe(s) ==
    /\ reader[s] = "away"
    /\ IF status = Absent \/ Cardinality(registered) >= MaxSubscribers
       THEN /\ reader' = [reader EXCEPT ![s] = "left"]
            /\ ended' = [ended EXCEPT ![s] =
                            IF status = Absent THEN "job_not_found"
                            ELSE "subscriber_cap_reached"]
            /\ UNCHANGED registered
       ELSE /\ reader' = [reader EXCEPT ![s] = "subscribed"]
            /\ registered' = registered \cup {s}
            /\ UNCHANGED ended
    /\ UNCHANGED <<jobVars, queue, found, heard>>

\* The record a generator drains for, if the status it reads is terminal.
StartDraining(s) ==
    /\ reader' = [reader EXCEPT ![s] = "draining"]
    /\ found' = [found EXCEPT ![s] = status]

\* The re-check that follows, without the lock.  Only an eviction can really
\* come in between; the docstring argues for any event, and so does the model.
CheckStatus(s) ==
    /\ reader[s] = "subscribed"
    /\ IF status \in TerminalStates
       THEN StartDraining(s)
       ELSE reader' = [reader EXCEPT ![s] = "polling"] /\ UNCHANGED found
    /\ UNCHANGED <<jobVars, registered, queue, heard, ended>>

\* The stream is over once a buffered terminal event has been yielded.
EndsStream(e) == IsTerminal(e)

\* Take the oldest event from the queue and yield it.
Deliver(s) ==
    LET e == Head(queue[s])
    IN  /\ queue' = [queue EXCEPT ![s] =
                         IF EndsStream(e) THEN <<>> ELSE Tail(@)]
        /\ heard' = [heard EXCEPT ![s] = e]
        /\ IF EndsStream(e) THEN Leave(s, "terminal")
           ELSE UNCHANGED <<reader, ended, registered>>
        /\ UNCHANGED <<jobVars, found>>

\* queue.get() returns in the poll loop.
Receive(s) ==
    /\ reader[s] = "polling"
    /\ queue[s] # <<>>
    /\ Deliver(s)

\* wait_for expires, which may happen although an event was just queued: the
\* authoritative record decides.  A running job only gets a keepalive.
NoticesEnd == status # "running"

KeepaliveTimeout(s) ==
    /\ reader[s] = "polling"
    /\ NoticesEnd
    /\ StartDraining(s)
    /\ UNCHANGED <<jobVars, registered, queue, heard, ended>>

\* The drain loops.
DrainOne(s) ==
    /\ reader[s] = "draining"
    /\ queue[s] # <<>>
    /\ Deliver(s)

\* _synthetic_terminal, from the record the generator holds.
Synthetic(st) == MadeUp(TerminalEventOf(st), emitted)

DrainEnds(s) ==
    /\ reader[s] = "draining"
    /\ queue[s] = <<>>
    /\ IF found[s] = Absent
       THEN Leave(s, "job_not_found") /\ UNCHANGED heard
       ELSE /\ Leave(s, "terminal")
            /\ heard' = [heard EXCEPT ![s] = Synthetic(found[s])]
    /\ UNCHANGED <<jobVars, queue, found>>

\* The client goes away; closing the generator runs its finally clause.
Disconnect(s) ==
    /\ reader[s] \in Attached
    /\ Leave(s, "disconnected")
    /\ queue' = [queue EXCEPT ![s] = <<>>]
    /\ UNCHANGED <<jobVars, found, heard>>
-----------------------------------------------------------------------------
StreamStep(s) ==
    \/ Receive(s)
    \/ DrainOne(s)
    \/ DrainEnds(s)

Next ==
    \/ EmitProgress
    \/ \E st \in Endings : Settle(st)
    \/ Evict
    \/ \E s \in Streams :
          \/ Subscribe(s)
          \/ CheckStatus(s)
          \/ StreamStep(s)
          \/ KeepaliveTimeout(s)
          \/ Disconnect(s)

\* The loop resumes a generator whose client reads, and the keepalive timer
\* fires.  The run, eviction and the arrival of clients are not assumed.
Fairness ==
    \A s \in Streams :
        /\ WF_vars(CheckStatus(s))
        /\ WF_vars(StreamStep(s))
        /\ WF_vars(KeepaliveTimeout(s))

Spec == Init /\ [][Next]_vars
FairSpec == Spec /\ Fairness
-----------------------------------------------------------------------------
(* Properties.                                                             *)

TypeOK ==
    /\ status \in {"running", Absent} \cup Endings
    /\ emitted \in 0..(MaxEvents + 1)
    /\ registered \subseteq Streams
    /\ \A s \in Streams :
          /\ Len(queue[s]) \in 0..QueueSize
          /\ \A i \in 1..Len(queue[s]) : queue[s][i] \in EventSet
    /\ heard \in [Streams -> EventSet]
    /\ reader \in [Streams -> Attached \cup {"away", "left"}]
    /\ found \in [Streams -> Endings \cup {Absent}]
    /\ ended \in [Streams -> Refusals \cup {"open", "terminal", "disconnected"}]
    /\ ending \in Endings \cup {Absent}
    /\ present \subseteq Streams

\* A client receives a subsequence of what the run emitted, in order and
\* without repetition, and at most one terminal event, which is the last one:
\* the queue and the synthetic event never both deliver it.
InOrderAndTerminalLast ==
    [][\A s \in Streams :
          heard'[s] # heard[s] => /\ heard[s].number < heard'[s].number
                                  /\ ~IsTerminal(heard[s])]_vars

\* The terminal event a client receives, live or synthesised, names the way
\* the run really ended.
TerminalIsTruthful ==
    \A s \in Streams :
        IsTerminal(heard[s]) => heard[s].name = TerminalEventOf(ending)

\* API.md: terminal events have guaranteed delivery.  A client connected when
\* the run settles hears how it ended, however slow it is and whatever is
\* evicted behind its back, unless it leaves.  What it depends on: the
\* subscriber list holds the generators still running, up to the cap, and none
\* of a job that has left the store.
ConnectedHearTheEnd ==
    /\ \A s \in present : ended[s] \in {"open", "terminal", "disconnected"}
    /\ registered = IF status = Absent THEN {}
                    ELSE {s \in Streams : reader[s] \in Attached}
    /\ Cardinality(registered) <= MaxSubscribers

\* No stream outlives its job: whether the job settles or is evicted, every
\* attached generator reaches its end.
StreamsEnd ==
    \A s \in Streams :
        reader[s] \in Attached /\ status # "running" ~> reader[s] = "left"
=============================================================================
