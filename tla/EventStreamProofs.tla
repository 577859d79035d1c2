-------------------------- MODULE EventStreamProofs --------------------------
(***************************************************************************)
(* Safety of the SSE fan-out for any number of clients, any queue size and *)
(* any number of events: order, truth and delivery of the terminal event   *)
(* however slow a client is and whatever is evicted behind its back.       *)
(***************************************************************************)
EXTENDS EventStream, FiniteSetTheorems, SequenceTheorems, TLAPS

\* The record, and what the history remembers of the run.
JobInv ==
    /\ status \in {"running", Absent} \cup Endings
    /\ ending \in Endings \cup {Absent}
    /\ status = "running" <=> ending = Absent
    /\ status \in {"running", Absent, ending}
    /\ emitted \in 0..(MaxEvents + 1)
    /\ status = "running" => emitted <= MaxEvents /\ present = {}
    /\ present \subseteq Streams

\* JobStore._subscribers: the generators at work, as long as there is a job.
RegistryInv ==
    /\ registered = IF status = Absent THEN {}
                    ELSE {s \in Streams : reader[s] \in Attached}
    /\ IsFiniteSet(registered)
    /\ Cardinality(registered) <= MaxSubscribers

\* An event that a queue holds, or a client has received, is one the run has
\* emitted so far, the terminal one after all others.
Sound(e) ==
    /\ e \in EventSet
    /\ e.number <= emitted
    /\ IsTerminal(e) => /\ ending # Absent
                        /\ e.name = TerminalEventOf(ending)
                        /\ e.number = emitted
    /\ ~IsTerminal(e) /\ ending # Absent => e.number < emitted

\* A queue in the order of emission.
InOrder(q) == \A i, k \in 1..Len(q) : i < k => q[i].number < q[k].number

\* One subscriber's queue, against what its client has received.
QueueInv(s) ==
    /\ queue[s] \in Seq(EventSet)
    /\ Len(queue[s]) <= QueueSize
    /\ InOrder(queue[s])
    /\ \A i \in 1..Len(queue[s]) :
          Sound(queue[s][i]) /\ heard[s].number < queue[s][i].number
    /\ reader[s] \notin Attached => queue[s] = <<>>

\* One generator.
ReaderInv(s) ==
    /\ Sound(heard[s])
    /\ IsTerminal(heard[s]) => reader[s] = "left"
    /\ ended[s] = "open" <=> reader[s] # "left"
    /\ reader[s] = "draining" => status # "running" /\ found[s] \in {ending, Absent}

\* A client that was connected when the run settled has the terminal event in
\* its queue, the last one, until it takes it.
Promised(s) ==
    \/ ended[s] \in {"terminal", "disconnected"}
    \/ /\ reader[s] \in Attached
       /\ queue[s] # <<>>
       /\ IsTerminal(queue[s][Len(queue[s])])

FieldTypes ==
    /\ queue \in [Streams -> Seq(EventSet)]
    /\ heard \in [Streams -> EventSet]
    /\ reader \in [Streams -> Attached \cup {"away", "left"}]
    /\ found \in [Streams -> Endings \cup {Absent}]
    /\ ended \in [Streams -> Refusals \cup {"open", "terminal", "disconnected"}]

IInv ==
    /\ JobInv
    /\ RegistryInv
    /\ FieldTypes
    /\ \A s \in Streams : QueueInv(s) /\ ReaderInv(s)
    /\ \A s \in present : Promised(s)
-----------------------------------------------------------------------------
(* The queue of a subscriber.                                              *)

\* Statuses that the code compares are different strings.
LEMMA StatusesDiffer ==
    /\ Absent \notin Endings /\ "running" \notin Endings
    /\ Endings \subseteq TerminalStates
    /\ Absent # "running" /\ Absent \notin TerminalStates
    /\ "running" \notin TerminalStates
  BY EndingsAssumption DEF TerminalStates, TerminalSuccessStates, Absent

\* Put keeps the order and the bound, invents nothing, and never loses a
\* terminal event.
LEMMA PutProperties ==
    ASSUME NEW q \in Seq(EventSet), Len(q) <= QueueSize,
           NEW e \in EventSet,
           InOrder(q),
           \A i \in 1..Len(q) : q[i].number < e.number
    PROVE  LET p == Put(q, e)
           IN  /\ p \in Seq(EventSet)
               /\ Len(p) <= QueueSize
               /\ InOrder(p)
               /\ \A i \in 1..Len(p) : p[i] = e \/ \E k \in 1..Len(q) : p[i] = q[k]
               /\ IsTerminal(e) => p # <<>> /\ p[Len(p)] = e
<1>1. Len(q) \in Nat /\ QueueSize \in Nat \ {0}
  BY LenProperties, QueueAssumption
<1>2. CASE Len(q) < QueueSize
  <2>1. Put(q, e) = Append(q, e)
    BY <1>2 DEF Put
  <2>2. /\ Append(q, e) \in Seq(EventSet)
        /\ Len(Append(q, e)) = Len(q) + 1
        /\ \A i \in 1..Len(q) : Append(q, e)[i] = q[i]
        /\ Append(q, e)[Len(q) + 1] = e
    BY <1>1
  <2>3. InOrder(Append(q, e))
    BY <1>1, <2>2 DEF InOrder
  <2>4. Append(q, e) # <<>>
    BY <1>1, <2>2
  <2>5. \A i \in 1..Len(Append(q, e)) : i \in 1..Len(q) \/ i = Len(q) + 1
    BY <1>1, <2>2
  <2>6. QED
    BY <1>1, <1>2, <2>1, <2>2, <2>3, <2>4, <2>5
<1>3. CASE ~(Len(q) < QueueSize) /\ IsTerminal(e)
  <2>1. Put(q, e) = Append(Tail(q), e)
    BY <1>3 DEF Put
  <2>2. Len(q) = QueueSize /\ q # <<>>
    BY <1>1, <1>3
  <2>3. /\ Tail(q) \in Seq(EventSet)
        /\ Len(Tail(q)) = Len(q) - 1
        /\ \A i \in 1..(Len(q) - 1) : Tail(q)[i] = q[i + 1]
    BY <2>2, HeadTailProperties
  <2>4. /\ Append(Tail(q), e) \in Seq(EventSet)
        /\ Len(Append(Tail(q), e)) = Len(q)
        /\ \A i \in 1..(Len(q) - 1) : Append(Tail(q), e)[i] = q[i + 1]
        /\ Append(Tail(q), e)[Len(q)] = e
    BY <1>1, <2>2, <2>3
  <2>5. InOrder(Append(Tail(q), e))
    BY <1>1, <2>2, <2>4 DEF InOrder
  <2>6. \A i \in 1..Len(q) : i = Len(q) \/ (i \in 1..(Len(q) - 1) /\ i + 1 \in 1..Len(q))
    BY <1>1
  <2>7. Append(Tail(q), e) # <<>>
    BY <1>1, <2>2, <2>4
  <2>8. QED
    BY <2>1, <2>2, <2>4, <2>5, <2>6, <2>7
<1>4. CASE ~(Len(q) < QueueSize) /\ ~IsTerminal(e)
  BY <1>4 DEF Put
<1>5. QED
  BY <1>2, <1>3, <1>4

\* What Deliver takes from a queue comes before what it leaves there.
LEMMA TakeProperties ==
    ASSUME NEW q \in Seq(EventSet), q # <<>>, InOrder(q)
    PROVE  /\ Head(q) = q[1] /\ 1 \in 1..Len(q) /\ Head(q) \in EventSet
           /\ Tail(q) \in Seq(EventSet)
           /\ Len(Tail(q)) = Len(q) - 1
           /\ InOrder(Tail(q))
           /\ \A i \in 1..Len(Tail(q)) : /\ i + 1 \in 1..Len(q)
                                         /\ Tail(q)[i] = q[i + 1]
                                         /\ Head(q).number < Tail(q)[i].number
<1>1. Len(q) \in Nat \ {0}
  BY EmptySeq
<1>2. /\ Head(q) \in EventSet /\ Head(q) = q[1]
      /\ Tail(q) \in Seq(EventSet)
      /\ Len(Tail(q)) = Len(q) - 1
      /\ \A i \in 1..Len(Tail(q)) : Tail(q)[i] = q[i + 1]
  BY HeadTailProperties
<1>3. QED
  BY <1>1, <1>2 DEF InOrder
-----------------------------------------------------------------------------
(* emit() and the job's own steps.                                         *)

\* The job runs, and nobody listens yet.
LEMMA StartsInIInv == Init => IInv
<1> SUFFICES ASSUME Init PROVE IInv
  OBVIOUS
<1>1. 0 \in 0..(MaxEvents + 1) /\ 0 <= MaxEvents /\ 0 <= MaxSubscribers
      /\ 0 <= QueueSize
  BY BoundsAssumption, QueueAssumption
<1>2. MadeUp("progress", 0) \in EventSet /\ ~IsTerminal(MadeUp("progress", 0))
      /\ MadeUp("progress", 0).number = 0
  BY <1>1 DEF MadeUp, EventSet, IsTerminal, TerminalEvents
<1>3. JobInv
  BY <1>1, StatusesDiffer DEF Init, JobInv
<1>4. RegistryInv
  <2>1. {s \in Streams : reader[s] \in Attached} = {}
    BY DEF Init, Attached
  <2>2. IsFiniteSet({}) /\ Cardinality({}) = 0
    BY FS_EmptySet
  <2>3. QED
    BY <1>1, <2>1, <2>2 DEF Init, RegistryInv
<1>5. FieldTypes
  BY <1>2 DEF Init, FieldTypes
<1>6. ASSUME NEW s \in Streams PROVE QueueInv(s) /\ ReaderInv(s)
  <2>1. queue[s] = <<>> /\ heard[s] = MadeUp("progress", 0)
        /\ reader[s] = "away" /\ ended[s] = "open"
    BY DEF Init
  <2>2. Len(<<>>) = 0 /\ <<>> \in Seq(EventSet)
    BY EmptySeq
  <2>3. QueueInv(s)
    BY <1>1, <2>1, <2>2 DEF QueueInv, InOrder
  <2>4. Sound(heard[s])
    BY <1>1, <1>2, <2>1 DEF Sound, Init
  <2>5. QED
    BY <1>2, <2>1, <2>3, <2>4 DEF ReaderInv
<1>7. present = {}
  BY DEF Init
<1>8. QED
  BY <1>3, <1>4, <1>5, <1>6, <1>7 DEF IInv

\* While the run goes on no client has heard, and no queue holds, a terminal
\* event, and a new event comes after all others.
LEMMA SoundBefore ==
    ASSUME IInv, status = "running", NEW e, Sound(e)
    PROVE  e \in EventSet /\ ~IsTerminal(e) /\ e.number < emitted + 1
           /\ e.number \in Nat /\ emitted \in Nat
  BY BoundsAssumption DEF IInv, JobInv, Sound, EventSet

\* emit() of an event that fits the state it leaves.
LEMMA EmitKeepsStreams ==
    ASSUME IInv, status = "running",
           NEW e \in EventSet, e.number = emitted + 1, emitted' = emitted + 1,
           Sound(e)', ending' = Absent \/ IsTerminal(e),
           PutAll(e), UNCHANGED <<registered, reader, found, heard, ended>>
    PROVE  /\ queue' \in [Streams -> Seq(EventSet)]
           /\ \A s \in Streams : QueueInv(s)' /\ Sound(heard[s])'
           /\ \A s \in registered :
                 IsTerminal(e) => /\ queue'[s] # <<>>
                                  /\ queue'[s][Len(queue'[s])] = e
<1>1. emitted \in Nat
  BY BoundsAssumption DEF IInv, JobInv
<1>2. ASSUME NEW x, Sound(x) PROVE Sound(x)'
  <2>1. x \in EventSet /\ ~IsTerminal(x) /\ x.number < emitted + 1 /\ x.number \in Nat
    BY <1>2, SoundBefore
  <2>2. QED
    BY <1>1, <2>1 DEF Sound, IsTerminal
<1>3. registered = {s \in Streams : reader[s] \in Attached}
  BY StatusesDiffer DEF IInv, RegistryInv
<1>4. ASSUME NEW s \in Streams
      PROVE  /\ queue'[s] \in Seq(EventSet) /\ QueueInv(s)' /\ Sound(heard[s])'
             /\ s \in registered /\ IsTerminal(e) =>
                    queue'[s] # <<>> /\ queue'[s][Len(queue'[s])] = e
  <2>1. QueueInv(s) /\ Sound(heard[s])
    BY DEF IInv, ReaderInv
  <2>2. Sound(heard[s])' /\ heard[s].number < e.number
    BY <1>2, <2>1, SoundBefore
  <2>3. CASE s \notin registered
    <3>1. queue'[s] = queue[s]
      BY <2>3 DEF PutAll
    <3>2. reader[s] \notin Attached
      BY <1>3, <2>3
    <3>3. queue[s] = <<>> /\ Len(queue[s]) = 0
      BY <2>1, <3>2, EmptySeq DEF QueueInv
    <3>4. QED
      BY <2>1, <2>2, <2>3, <3>1, <3>3 DEF QueueInv, InOrder
  <2>4. CASE s \in registered
    <3> DEFINE p == Put(queue[s], e)
    <3>1. queue'[s] = p
      BY <2>4 DEF PutAll
    <3>2. \A i \in 1..Len(queue[s]) : queue[s][i].number < e.number
      BY <2>1, SoundBefore DEF QueueInv
    <3>3. /\ p \in Seq(EventSet) /\ Len(p) <= QueueSize /\ InOrder(p)
          /\ \A i \in 1..Len(p) :
                p[i] = e \/ \E k \in 1..Len(queue[s]) : p[i] = queue[s][k]
          /\ IsTerminal(e) => p # <<>> /\ p[Len(p)] = e
      BY <2>1, <3>2, PutProperties DEF QueueInv
    <3> HIDE DEF p
    <3>4. ASSUME NEW i \in 1..Len(p), NEW x, x = p[i]
          PROVE  Sound(x)' /\ heard[s].number < x.number
      <4>1. CASE x = e
        <5>1. Sound(x)'
          BY <4>1
        <5>2. QED
          BY <2>2, <4>1, <5>1
      <4>2. CASE \E k \in 1..Len(queue[s]) : x = queue[s][k]
        <5>1. Sound(x) /\ heard[s].number < x.number
          BY <2>1, <4>2 DEF QueueInv
        <5>2. QED
          BY <1>2, <5>1
      <4>3. QED
        BY <3>3, <3>4, <4>1, <4>2
    <3>5. reader[s] \in Attached
      BY <1>3, <2>4
    <3>6. \A i \in 1..Len(queue'[s]) :
             Sound(queue[s][i])' /\ heard'[s].number < queue'[s][i].number
      BY <3>1, <3>4
    <3>7. InOrder(queue[s])'
      BY <3>1, <3>3 DEF InOrder
    <3>8. QueueInv(s)'
      BY <3>1, <3>3, <3>5, <3>6, <3>7 DEF QueueInv
    <3>9. QED
      BY <2>2, <2>4, <3>1, <3>3, <3>8
  <2>5. QED
    BY <2>3, <2>4
<1>5. DOMAIN queue' = Streams
  BY DEF PutAll
<1>6. queue' = [s \in Streams |-> queue'[s]]
  BY DEF PutAll
<1>7. QED
  BY <1>3, <1>4, <1>6

\* emit() of a progress event, to queues that may be full.
LEMMA EmitProgressKeepsIInv == IInv /\ EmitProgress => IInv'
<1> SUFFICES ASSUME IInv, EmitProgress PROVE IInv'
  OBVIOUS
<1> DEFINE e == Live("progress", emitted + 1)
<1>1. /\ status = "running" /\ emitted < MaxEvents /\ emitted' = emitted + 1
      /\ PutAll(e)
      /\ UNCHANGED <<status, registered, reader, found, heard, ended, ending,
                     present>>
  BY DEF EmitProgress
<1>2. emitted \in Nat /\ emitted' \in 0..(MaxEvents + 1) /\ emitted' <= MaxEvents
  BY <1>1, BoundsAssumption DEF IInv, JobInv
<1>3. e \in EventSet /\ ~IsTerminal(e) /\ e.number = emitted + 1
  BY <1>1, <1>2 DEF Live, EventSet, IsTerminal, TerminalEvents
<1> HIDE DEF e
<1>4. ending = Absent
  BY <1>1 DEF IInv, JobInv
<1>5. \A x : x = e => Sound(x)'
  BY <1>1, <1>2, <1>3, <1>4 DEF Sound, IsTerminal
<1>6. PICK x : x = e
  OBVIOUS
<1>7. /\ queue' \in [Streams -> Seq(EventSet)]
      /\ \A s \in Streams : QueueInv(s)' /\ Sound(heard[s])'
  BY <1>1, <1>3, <1>4, <1>5, <1>6, EmitKeepsStreams
<1>8. JobInv'
  BY <1>1, <1>2 DEF IInv, JobInv
<1>9. RegistryInv'
  BY <1>1 DEF IInv, RegistryInv
<1>10. \A s \in Streams : ReaderInv(s)'
  BY <1>1, <1>7 DEF IInv, ReaderInv, IsTerminal
<1>11. present' = {}
  BY <1>1 DEF IInv, JobInv
<1>12. FieldTypes'
  BY <1>1, <1>7 DEF IInv, FieldTypes
<1>13. QED
  BY <1>7, <1>8, <1>9, <1>10, <1>11, <1>12 DEF IInv

\* The terminal status and the terminal event, in one stretch of the loop.
LEMMA SettleKeepsIInv ==
    ASSUME IInv, NEW st \in Endings, Settle(st)
    PROVE  IInv'
<1> DEFINE e == Live(TerminalEventOf(st), emitted + 1)
<1>1. /\ status = "running" /\ status' = st /\ ending' = st
      /\ emitted' = emitted + 1 /\ PutAll(e) /\ present' = registered
      /\ UNCHANGED <<registered, reader, found, heard, ended>>
  BY DEF Settle
<1>2. emitted \in Nat /\ emitted' \in 0..(MaxEvents + 1)
  BY <1>1, BoundsAssumption DEF IInv, JobInv
<1>3. TerminalEventOf(st) \in TerminalEvents
  BY DEF TerminalEventOf, TerminalEvents
<1>4. /\ e \in EventSet /\ IsTerminal(e) /\ e.number = emitted + 1
      /\ e.name = TerminalEventOf(st)
  BY <1>1, <1>2, <1>3 DEF Live, EventSet, IsTerminal
<1> HIDE DEF e
<1>5. st # Absent /\ st # "running"
  BY StatusesDiffer
<1>6. \A x : x = e => Sound(x)'
  BY <1>1, <1>2, <1>4, <1>5 DEF Sound, IsTerminal
<1>7. PICK x : x = e
  OBVIOUS
<1>8. /\ queue' \in [Streams -> Seq(EventSet)]
      /\ \A s \in Streams : QueueInv(s)' /\ Sound(heard[s])'
      /\ \A s \in registered : /\ queue'[s] # <<>>
                               /\ queue'[s][Len(queue'[s])] = x
  BY <1>1, <1>4, <1>6, <1>7, EmitKeepsStreams
<1>9. registered = {s \in Streams : reader[s] \in Attached}
  BY <1>1, StatusesDiffer DEF IInv, RegistryInv
<1>10. JobInv'
  BY <1>1, <1>2, <1>5, <1>9 DEF IInv, JobInv
<1>11. RegistryInv'
  BY <1>1, <1>5, <1>9 DEF IInv, RegistryInv
<1>12. \A s \in Streams : ReaderInv(s)'
  BY <1>1, <1>5, <1>8 DEF IInv, ReaderInv, IsTerminal
<1>13. FieldTypes'
  BY <1>1, <1>8 DEF IInv, FieldTypes
<1>14. \A s \in present' : Promised(s)'
  BY <1>1, <1>4, <1>7, <1>8, <1>9 DEF Promised, IsTerminal
<1>15. QED
  BY <1>8, <1>10, <1>11, <1>12, <1>13, <1>14 DEF IInv

\* The record and its subscriber list go; the generators keep their queues.
LEMMA EvictKeepsIInv == IInv /\ Evict => IInv'
<1> SUFFICES ASSUME IInv, Evict PROVE IInv'
  OBVIOUS
<1>1. /\ status \in TerminalStates /\ status' = Absent /\ registered' = {}
      /\ UNCHANGED <<emitted, queue, reader, found, heard, ended, ending,
                     present>>
  BY DEF Evict
<1>2. status # "running" /\ Absent # "running"
  BY <1>1, StatusesDiffer
<1>3. JobInv'
  BY <1>1, <1>2 DEF IInv, JobInv
<1>4. IsFiniteSet({}) /\ Cardinality({}) = 0
  BY FS_EmptySet
<1>5. RegistryInv'
  BY <1>1, <1>4, BoundsAssumption DEF RegistryInv
<1>6. \A s \in Streams : QueueInv(s)' /\ ReaderInv(s)'
  BY <1>1, <1>2 DEF IInv, QueueInv, ReaderInv, Sound, InOrder, IsTerminal
<1>7. \A s \in present' : Promised(s)'
  BY <1>1 DEF IInv, Promised, IsTerminal
<1>8. FieldTypes'
  BY <1>1 DEF IInv, FieldTypes
<1>9. QED
  BY <1>3, <1>5, <1>6, <1>7, <1>8 DEF IInv
-----------------------------------------------------------------------------
(* stream_events().                                                        *)

\* A step of one generator is judged by that generator and the registry.
LEMMA OneStreamMoves ==
    ASSUME IInv, NEW s \in Streams, UNCHANGED jobVars,
           \A t \in Streams \ {s} :
              /\ queue'[t] = queue[t] /\ heard'[t] = heard[t]
              /\ reader'[t] = reader[t] /\ found'[t] = found[t]
              /\ ended'[t] = ended[t],
           FieldTypes', RegistryInv', QueueInv(s)', ReaderInv(s)',
           s \in present => Promised(s)'
    PROVE  IInv'
<1>1. UNCHANGED <<status, emitted, ending, present>>
  BY DEF jobVars
<1>2. JobInv'
  BY <1>1 DEF IInv, JobInv
<1>3. \A x : Sound(x) => Sound(x)'
  BY <1>1 DEF Sound, IsTerminal
<1>4. ASSUME NEW t \in Streams \ {s} PROVE QueueInv(t)' /\ ReaderInv(t)'
  <2>1. QueueInv(t) /\ ReaderInv(t)
    BY DEF IInv
  <2>2. QueueInv(t)'
    BY <1>3, <2>1 DEF QueueInv, InOrder
  <2>3. Sound(heard[t])'
    BY <1>3, <2>1 DEF ReaderInv
  <2>4. QED
    BY <1>1, <2>1, <2>2, <2>3 DEF ReaderInv, IsTerminal
<1>5. ASSUME NEW t \in present, t # s PROVE Promised(t)'
  <2>1. Promised(t) /\ t \in Streams \ {s}
    BY <1>5 DEF IInv, JobInv
  <2>2. QED
    BY <2>1 DEF Promised, IsTerminal
<1>6. QED
  BY <1>1, <1>2, <1>4, <1>5 DEF IInv

\* The registry follows a generator that stays attached or leaves.
LEMMA StayingKeepsRegistry ==
    ASSUME RegistryInv, NEW s \in Streams, UNCHANGED <<status, registered>>,
           reader[s] \in Attached, reader'[s] \in Attached,
           \A t \in Streams \ {s} : reader'[t] = reader[t]
    PROVE  RegistryInv'
<1>1. {t \in Streams : reader'[t] \in Attached} = {t \in Streams : reader[t] \in Attached}
  OBVIOUS
<1>2. QED
  BY <1>1 DEF RegistryInv

\* unsubscribe() of a generator that ends.
LEMMA LeavingKeepsRegistry ==
    ASSUME RegistryInv, NEW s \in Streams, UNCHANGED status,
           registered' = Unsubscribe(s), reader'[s] = "left",
           \A t \in Streams \ {s} : reader'[t] = reader[t]
    PROVE  RegistryInv'
<1>1. {t \in Streams : reader'[t] \in Attached}
          = {t \in Streams : reader[t] \in Attached} \ {s}
  BY DEF Attached
<1>2. registered' = registered \ {s}
  BY DEF Unsubscribe
<1>3. IsFiniteSet(registered \ {s}) /\ Cardinality(registered \ {s}) <= Cardinality(registered)
      /\ Cardinality(registered) \in Nat /\ Cardinality(registered \ {s}) \in Nat
  BY FS_RemoveElement, FS_Subset, FS_CardinalityType DEF RegistryInv
<1>4. QED
  BY <1>1, <1>2, <1>3, BoundsAssumption DEF RegistryInv

\* What the invariant says of one stream.
LEMMA StreamFacts ==
    ASSUME IInv, NEW s \in Streams
    PROVE  /\ QueueInv(s) /\ ReaderInv(s) /\ (s \in present => Promised(s))
           /\ FieldTypes /\ RegistryInv /\ JobInv
           /\ reader[s] = "away" => ended[s] = "open" /\ s \notin present
           /\ reader[s] # "left" => ~IsTerminal(heard[s]) /\ ended[s] = "open"
  BY DEF IInv, ReaderInv, Promised, Attached

\* subscribe(), or the refusal over the cap or without a job.
LEMMA SubscribeKeepsIInv ==
    ASSUME IInv, NEW s \in Streams, Subscribe(s)
    PROVE  IInv'
<1>1. /\ reader[s] = "away" /\ UNCHANGED <<jobVars, queue, found, heard>>
      /\ UNCHANGED <<status, emitted, ending, present>>
  BY DEF Subscribe, jobVars
<1>2. /\ QueueInv(s) /\ ReaderInv(s) /\ FieldTypes /\ RegistryInv
      /\ ended[s] = "open" /\ s \notin present /\ ~IsTerminal(heard[s])
  BY <1>1, StreamFacts
<1>3. \A x : Sound(x) => Sound(x)'
  BY <1>1 DEF Sound, IsTerminal
<1>4. QueueInv(s)'
  <2>1. queue[s] = <<>> /\ Len(queue[s]) = 0
    BY <1>1, <1>2, EmptySeq DEF QueueInv, Attached
  <2>2. QED
    BY <1>1, <1>2, <2>1 DEF QueueInv, InOrder
<1>5. CASE status = Absent \/ Cardinality(registered) >= MaxSubscribers
  <2>1. PICK why \in Refusals : ended' = [ended EXCEPT ![s] = why]
    BY <1>5 DEF Subscribe, Refusals
  <2>2. reader' = [reader EXCEPT ![s] = "left"] /\ UNCHANGED registered
    BY <1>5 DEF Subscribe
  <2>3. reader'[s] = "left" /\ ended'[s] = why
    BY <1>2, <2>1, <2>2 DEF FieldTypes
  <2>4. {t \in Streams : reader'[t] \in Attached} = {t \in Streams : reader[t] \in Attached}
    BY <1>1, <2>2, <2>3 DEF Attached
  <2>5. RegistryInv'
    BY <1>1, <1>2, <2>2, <2>4 DEF RegistryInv
  <2>6. FieldTypes'
    BY <1>1, <1>2, <2>1, <2>2 DEF FieldTypes
  <2>7. Sound(heard[s])'
    BY <1>1, <1>2, <1>3 DEF ReaderInv
  <2>8. ReaderInv(s)'
    BY <1>1, <2>3, <2>7 DEF ReaderInv, Refusals
  <2>9. QED
    BY <1>1, <1>2, <1>4, <2>1, <2>2, <2>5, <2>6, <2>8, OneStreamMoves
<1>6. CASE ~(status = Absent \/ Cardinality(registered) >= MaxSubscribers)
  <2>1. /\ reader' = [reader EXCEPT ![s] = "subscribed"]
        /\ registered' = registered \cup {s} /\ UNCHANGED ended
    BY <1>6 DEF Subscribe
  <2>2. reader'[s] = "subscribed"
    BY <1>2, <2>1 DEF FieldTypes
  <2>3. {t \in Streams : reader'[t] \in Attached}
            = {t \in Streams : reader[t] \in Attached} \cup {s}
    BY <2>1, <2>2 DEF Attached
  <2>4. /\ IsFiniteSet(registered \cup {s})
        /\ Cardinality(registered) \in Nat
        /\ Cardinality(registered \cup {s}) <= Cardinality(registered) + 1
        /\ Cardinality(registered \cup {s}) \in Nat
    <3>1. IsFiniteSet(registered)
      BY <1>2 DEF RegistryInv
    <3>2. /\ IsFiniteSet(registered \cup {s})
          /\ \/ Cardinality(registered \cup {s}) = Cardinality(registered)
             \/ Cardinality(registered \cup {s}) = Cardinality(registered) + 1
      BY <3>1, FS_AddElement
    <3>3. Cardinality(registered) \in Nat
      BY <3>1, FS_CardinalityType
    <3>4. QED
      BY <3>2, <3>3
  <2>5. RegistryInv'
    BY <1>1, <1>2, <1>6, <2>1, <2>3, <2>4, BoundsAssumption DEF RegistryInv
  <2>6. FieldTypes'
    BY <1>1, <1>2, <2>1 DEF FieldTypes, Attached
  <2>7. Sound(heard[s])'
    BY <1>1, <1>2, <1>3 DEF ReaderInv
  <2>8. ReaderInv(s)'
    BY <1>1, <1>2, <2>1, <2>2, <2>7 DEF ReaderInv, IsTerminal
  <2>9. QED
    BY <1>1, <1>2, <1>4, <2>1, <2>5, <2>6, <2>8, OneStreamMoves
<1>7. QED
  BY <1>5, <1>6

\* The generator turns to another loop, and only that.
LEMMA TurningKeepsIInv ==
    ASSUME IInv, NEW s \in Streams, reader[s] \in Attached,
           NEW r \in {"polling", "draining"},
           reader' = [reader EXCEPT ![s] = r],
           NEW f \in Endings \cup {Absent}, found' = [found EXCEPT ![s] = f],
           r = "draining" => status # "running" /\ f = status,
           UNCHANGED <<jobVars, registered, queue, heard, ended>>
    PROVE  IInv'
<1>1. UNCHANGED <<status, emitted, ending, present>>
  BY DEF jobVars
<1>2. /\ QueueInv(s) /\ ReaderInv(s) /\ FieldTypes /\ RegistryInv /\ JobInv
      /\ s \in present => Promised(s)
      /\ ended[s] = "open" /\ ~IsTerminal(heard[s])
  BY StreamFacts DEF Attached
<1>3. reader'[s] = r /\ r \in Attached /\ found'[s] = f
  BY <1>2 DEF FieldTypes, Attached
<1>4. FieldTypes'
  BY <1>2, <1>3 DEF FieldTypes
<1>5. RegistryInv'
  BY <1>1, <1>2, <1>3, StayingKeepsRegistry
<1>6. \A x : Sound(x) => Sound(x)'
  BY <1>1 DEF Sound, IsTerminal
<1>7. QueueInv(s)'
  BY <1>2, <1>3, <1>6 DEF QueueInv, InOrder
<1>8. Sound(heard[s])'
  BY <1>2, <1>6 DEF ReaderInv
<1>9. r = "draining" => status # "running" /\ f \in {ending, Absent}
  BY <1>2 DEF JobInv
<1>10. ReaderInv(s)'
  BY <1>1, <1>2, <1>3, <1>8, <1>9 DEF ReaderInv, IsTerminal
<1>11. s \in present => Promised(s)'
  BY <1>2, <1>3 DEF Promised, IsTerminal
<1>12. QED
  BY <1>4, <1>5, <1>7, <1>10, <1>11, OneStreamMoves

\* The look at the record that follows the subscription.
LEMMA CheckStatusKeepsIInv ==
    ASSUME IInv, NEW s \in Streams, CheckStatus(s)
    PROVE  IInv'
<1>1. /\ reader[s] = "subscribed" /\ reader[s] \in Attached
      /\ UNCHANGED <<jobVars, registered, queue, heard, ended>>
  BY DEF CheckStatus, Attached
<1>2. FieldTypes /\ status \in {"running", Absent} \cup Endings
  BY DEF IInv, JobInv
<1>3. CASE status \in TerminalStates
  <2>1. status # "running" /\ status \in Endings \cup {Absent}
    BY <1>2, <1>3, StatusesDiffer
  <2>2. QED
    BY <1>1, <1>3, <2>1, TurningKeepsIInv DEF CheckStatus, StartDraining
<1>4. CASE status \notin TerminalStates
  <2>1. found[s] \in Endings \cup {Absent} /\ found' = [found EXCEPT ![s] = found[s]]
    BY <1>2, <1>4 DEF CheckStatus, FieldTypes
  <2>2. reader' = [reader EXCEPT ![s] = "polling"]
    BY <1>4 DEF CheckStatus
  <2>3. QED
    BY <1>1, <2>1, <2>2, TurningKeepsIInv
<1>5. QED
  BY <1>3, <1>4

\* The keepalive timer fires: the generator looks at the record again.
LEMMA TimeoutKeepsIInv ==
    ASSUME IInv, NEW s \in Streams, KeepaliveTimeout(s)
    PROVE  IInv'
<1>1. reader[s] \in Attached /\ status # "running"
  BY DEF KeepaliveTimeout, Attached, NoticesEnd
<1>2. status \in Endings \cup {Absent}
  BY <1>1 DEF IInv, JobInv
<1>3. QED
  BY <1>1, <1>2, TurningKeepsIInv DEF KeepaliveTimeout, StartDraining

\* A generator that ends, with its queue emptied or empty already.
LEMMA LeavingKeepsIInv ==
    ASSUME IInv, NEW s \in Streams, reader[s] \in Attached,
           NEW how, Leave(s, how), UNCHANGED <<jobVars, found>>,
           how \in {"terminal", "disconnected", "job_not_found"},
           s \in present => how # "job_not_found",
           queue' = [queue EXCEPT ![s] = <<>>],
           NEW last, heard' = [heard EXCEPT ![s] = last], Sound(last)
    PROVE  IInv'
<1>1. /\ UNCHANGED <<status, emitted, ending, present>>
      /\ reader' = [reader EXCEPT ![s] = "left"]
      /\ ended' = [ended EXCEPT ![s] = how] /\ registered' = Unsubscribe(s)
  BY DEF Leave, jobVars
<1>2. FieldTypes /\ RegistryInv
  BY StreamFacts
<1>3. reader'[s] = "left" /\ ended'[s] = how /\ queue'[s] = <<>> /\ heard'[s] = last
  BY <1>1, <1>2 DEF FieldTypes
<1>4. <<>> \in Seq(EventSet) /\ Len(<<>>) = 0 /\ 0 <= QueueSize
  BY EmptySeq, QueueAssumption
<1>5. last \in EventSet /\ Sound(last)'
  BY <1>1 DEF Sound, IsTerminal
<1>6. FieldTypes'
  BY <1>1, <1>2, <1>4, <1>5 DEF FieldTypes, Refusals
<1>7. RegistryInv'
  BY <1>1, <1>2, <1>3, LeavingKeepsRegistry
<1>8. QueueInv(s)'
  <2>1. InOrder(queue[s])' /\ \A i \in 1..Len(queue'[s]) : FALSE
    BY <1>3, <1>4 DEF InOrder
  <2>2. QED
    BY <1>3, <1>4, <2>1 DEF QueueInv
<1>9. ReaderInv(s)'
  BY <1>3, <1>5 DEF ReaderInv
<1>10. s \in present => Promised(s)'
  BY <1>3 DEF Promised
<1>11. QED
  BY <1>1, <1>6, <1>7, <1>8, <1>9, <1>10, OneStreamMoves

\* The event taken from the queue reaches the client.
LEMMA DeliverKeepsIInv ==
    ASSUME IInv, NEW s \in Streams, reader[s] \in Attached, queue[s] # <<>>,
           Deliver(s)
    PROVE  IInv'
<1> DEFINE e == Head(queue[s])
<1>1. /\ QueueInv(s) /\ ReaderInv(s) /\ FieldTypes /\ RegistryInv
      /\ s \in present => Promised(s)
      /\ ended[s] = "open"
  BY StreamFacts DEF Attached
<1>2. /\ e = queue[s][1] /\ 1 \in 1..Len(queue[s]) /\ e \in EventSet
      /\ Tail(queue[s]) \in Seq(EventSet)
      /\ Len(Tail(queue[s])) = Len(queue[s]) - 1
      /\ InOrder(Tail(queue[s]))
      /\ \A i \in 1..Len(Tail(queue[s])) :
            /\ i + 1 \in 1..Len(queue[s])
            /\ Tail(queue[s])[i] = queue[s][i + 1]
            /\ e.number < Tail(queue[s])[i].number
  BY <1>1, TakeProperties DEF QueueInv
<1>3. Sound(e)
  BY <1>1, <1>2 DEF QueueInv
<1>4. heard' = [heard EXCEPT ![s] = e] /\ UNCHANGED <<jobVars, found>>
      /\ UNCHANGED <<status, emitted, ending, present>>
  BY DEF Deliver, jobVars
<1>5. CASE IsTerminal(e)
  <2>1. queue' = [queue EXCEPT ![s] = <<>>] /\ Leave(s, "terminal")
    BY <1>5 DEF Deliver, EndsStream
  <2> HIDE DEF e
  <2>2. QED
    BY <1>3, <1>4, <2>1, LeavingKeepsIInv
<1>6. CASE ~IsTerminal(e)
  <2> DEFINE q == Tail(queue[s])
  <2>1. queue' = [queue EXCEPT ![s] = q] /\ UNCHANGED <<reader, ended, registered>>
    BY <1>6 DEF Deliver, EndsStream
  <2>2. queue'[s] = q /\ heard'[s] = e
    BY <1>1, <1>4, <2>1 DEF FieldTypes
  <2>3. \A x : Sound(x) => Sound(x)'
    BY <1>4 DEF Sound, IsTerminal
  <2>4. Len(queue[s]) \in Nat /\ Len(q) <= QueueSize
    BY <1>1, <1>2, EmptySeq, QueueAssumption DEF QueueInv
  <2>5. \A i \in 1..Len(q) : Sound(q[i]) /\ e.number < q[i].number
    BY <1>1, <1>2 DEF QueueInv
  <2> HIDE DEF q, e
  <2>6. QueueInv(s)'
    <3>1. \A i \in 1..Len(queue'[s]) :
             Sound(queue[s][i])' /\ heard'[s].number < queue'[s][i].number
      BY <2>2, <2>3, <2>5
    <3>2. InOrder(queue[s])' /\ queue'[s] \in Seq(EventSet)
      BY <1>2, <2>2 DEF InOrder, q
    <3>3. QED
      BY <2>1, <2>2, <2>4, <3>1, <3>2 DEF QueueInv
  <2>7. Sound(heard[s])'
    BY <1>3, <2>2, <2>3
  <2>8. ReaderInv(s)'
    BY <1>1, <1>4, <1>6, <2>1, <2>2, <2>7 DEF ReaderInv, IsTerminal
  <2>9. FieldTypes'
    BY <1>1, <1>2, <1>4, <2>1 DEF FieldTypes, q, e
  <2>10. RegistryInv'
    BY <1>1, <1>4, <2>1 DEF RegistryInv
  <2>11. s \in present => Promised(s)'
    <3>1. SUFFICES ASSUME s \in present PROVE Promised(s)'
      OBVIOUS
    <3>2. IsTerminal(queue[s][Len(queue[s])])
      BY <1>1, <3>1 DEF Promised
    <3>3. Len(queue[s]) # 1
      BY <1>2, <1>6, <3>2 DEF e
    <3>4. Len(q) \in Nat \ {0} /\ q[Len(q)] = queue[s][Len(queue[s])]
      <4>1. Len(q) = Len(queue[s]) - 1 /\ Len(queue[s]) \in Nat \ {0}
        BY <1>1, <1>2, EmptySeq DEF q, QueueInv
      <4>2. Len(q) \in 1..Len(q)
        <5>1. \A n \in Nat \ {0} : n # 1 => n - 1 \in 1..(n - 1)
          OBVIOUS
        <5>2. QED
          BY <3>3, <4>1, <5>1, Zenon
      <4>3. q[Len(q)] = queue[s][Len(q) + 1]
        BY <1>2, <4>2 DEF q
      <4>4. QED
        BY <3>3, <4>1, <4>3
    <3>5. q # <<>>
      BY <3>4, EmptySeq
    <3>6. QED
      BY <2>1, <2>2, <3>2, <3>4, <3>5 DEF Promised, IsTerminal
  <2>12. QED
    BY <1>4, <2>1, <2>6, <2>8, <2>9, <2>10, <2>11, OneStreamMoves
<1>7. QED
  BY <1>5, <1>6

\* The queue of a settled job is empty: the terminal event is made up.
LEMMA DrainEndsKeepsIInv ==
    ASSUME IInv, NEW s \in Streams, DrainEnds(s)
    PROVE  IInv'
<1>1. /\ reader[s] = "draining" /\ reader[s] \in Attached /\ queue[s] = <<>>
      /\ UNCHANGED <<jobVars, queue, found>>
  BY DEF DrainEnds, Attached
<1>2. /\ FieldTypes /\ ReaderInv(s) /\ JobInv /\ (s \in present => Promised(s))
      /\ ended[s] = "open"
  BY <1>1, StreamFacts
<1>3. queue' = [queue EXCEPT ![s] = <<>>]
  BY <1>1, <1>2 DEF FieldTypes
<1>4. s \notin present
  BY <1>1, <1>2 DEF Promised
<1>5. CASE found[s] = Absent
  <2>1. Leave(s, "job_not_found") /\ UNCHANGED heard
    BY <1>5 DEF DrainEnds
  <2>2. Sound(heard[s]) /\ heard' = [heard EXCEPT ![s] = heard[s]]
    BY <1>2, <2>1 DEF ReaderInv, FieldTypes
  <2>3. QED
    BY <1>1, <1>3, <1>4, <2>1, <2>2, LeavingKeepsIInv
<1>6. CASE found[s] # Absent
  <2> DEFINE e == Synthetic(found[s])
  <2>1. Leave(s, "terminal") /\ heard' = [heard EXCEPT ![s] = e]
    BY <1>6 DEF DrainEnds
  <2>2. found[s] = ending /\ ending # Absent
    BY <1>1, <1>2, <1>6 DEF ReaderInv
  <2>3. e.name = TerminalEventOf(ending) /\ e.number = emitted
    BY <2>2 DEF Synthetic, MadeUp
  <2>4. e \in EventSet /\ IsTerminal(e)
    BY <1>2, <2>2 DEF Synthetic, MadeUp, EventSet, IsTerminal,
          TerminalEventOf, TerminalEvents, JobInv
  <2> HIDE DEF e
  <2>5. emitted <= emitted
    BY <1>2, BoundsAssumption DEF JobInv
  <2>6. Sound(e)
    BY <2>2, <2>3, <2>4, <2>5 DEF Sound
  <2>7. QED
    BY <1>1, <1>3, <1>4, <2>1, <2>6, LeavingKeepsIInv
<1>7. QED
  BY <1>5, <1>6

\* A client hangs up, wherever its generator is suspended.
LEMMA DisconnectKeepsIInv ==
    ASSUME IInv, NEW s \in Streams, Disconnect(s)
    PROVE  IInv'
<1>1. Sound(heard[s]) /\ FieldTypes
  BY StreamFacts DEF ReaderInv
<1>2. heard' = [heard EXCEPT ![s] = heard[s]]
  BY <1>1 DEF Disconnect, FieldTypes
<1>3. QED
  BY <1>1, <1>2, LeavingKeepsIInv DEF Disconnect

\* A step outside the fan-out.
LEMMA StutteringKeepsIInv == IInv /\ UNCHANGED vars => IInv'
<1> SUFFICES ASSUME IInv, UNCHANGED vars PROVE IInv'
  OBVIOUS
<1> USE DEF vars
<1>1. JobInv' /\ RegistryInv' /\ FieldTypes'
  BY DEF IInv, JobInv, RegistryInv, FieldTypes
<1>2. \A x : Sound(x) => Sound(x)'
  BY DEF Sound, IsTerminal
<1>3. ASSUME NEW s \in Streams PROVE QueueInv(s)' /\ ReaderInv(s)'
  <2>1. QueueInv(s)'
    BY <1>2 DEF IInv, QueueInv, InOrder
  <2>2. Sound(heard[s])'
    BY <1>2 DEF IInv, ReaderInv
  <2>3. QED
    BY <2>1, <2>2 DEF IInv, ReaderInv, IsTerminal
<1>4. \A s \in present' : Promised(s)'
  BY DEF IInv, Promised, IsTerminal
<1>5. QED
  BY <1>1, <1>3, <1>4 DEF IInv

\* Every step keeps the invariant.
LEMMA StepKeepsIInv == IInv /\ [Next]_vars => IInv'
<1> SUFFICES ASSUME IInv, [Next]_vars PROVE IInv'
  OBVIOUS
<1>1. CASE EmitProgress
  BY <1>1, EmitProgressKeepsIInv
<1>2. ASSUME NEW st \in Endings, Settle(st) PROVE IInv'
  BY <1>2, SettleKeepsIInv
<1>3. CASE Evict
  BY <1>3, EvictKeepsIInv
<1>4. ASSUME NEW s \in Streams, Subscribe(s) PROVE IInv'
  BY <1>4, SubscribeKeepsIInv
<1>5. ASSUME NEW s \in Streams, CheckStatus(s) PROVE IInv'
  BY <1>5, CheckStatusKeepsIInv
<1>6. ASSUME NEW s \in Streams, StreamStep(s) PROVE IInv'
  <2>1. CASE Receive(s)
    BY <2>1, DeliverKeepsIInv DEF Receive, Attached
  <2>2. CASE DrainOne(s)
    BY <2>2, DeliverKeepsIInv DEF DrainOne, Attached
  <2>3. CASE DrainEnds(s)
    BY <2>3, DrainEndsKeepsIInv
  <2>4. QED
    BY <1>6, <2>1, <2>2, <2>3 DEF StreamStep
<1>7. ASSUME NEW s \in Streams, KeepaliveTimeout(s) PROVE IInv'
  BY <1>7, TimeoutKeepsIInv
<1>8. ASSUME NEW s \in Streams, Disconnect(s) PROVE IInv'
  BY <1>8, DisconnectKeepsIInv
<1>9. CASE UNCHANGED vars
  BY <1>9, StutteringKeepsIInv
<1>10. QED
  BY <1>1, <1>2, <1>3, <1>4, <1>5, <1>6, <1>7, <1>8, <1>9 DEF Next

\* The queues, the record and the subscriber list agree in every reachable
\* state, for any number of streams and any size of the queues.
THEOREM IInvIsInvariant == Spec => []IInv
<1>1. Init => IInv
  BY StartsInIInv
<1>2. IInv /\ [Next]_vars => IInv'
  BY StepKeepsIInv
<1>3. QED
  BY <1>1, <1>2, PTL DEF Spec
-----------------------------------------------------------------------------
(* What clients may rely on.                                               *)

\* No queue is ever longer than its bound, and every field keeps its type.
THEOREM TypeCorrect == Spec => []TypeOK
<1>1. IInv => TypeOK
  <2> SUFFICES ASSUME IInv PROVE TypeOK
    OBVIOUS
  <2>1. ASSUME NEW s \in Streams
        PROVE  /\ Len(queue[s]) \in 0..QueueSize
               /\ \A i \in 1..Len(queue[s]) : queue[s][i] \in EventSet
    <3>1. queue[s] \in Seq(EventSet) /\ Len(queue[s]) <= QueueSize
      BY DEF IInv, QueueInv
    <3>2. Len(queue[s]) \in Nat /\ \A i \in 1..Len(queue[s]) : queue[s][i] \in EventSet
      BY <3>1, LenProperties, ElementOfSeq
    <3>3. QED
      BY <3>1, <3>2, QueueAssumption
  <2>2. registered \subseteq Streams
    BY DEF IInv, RegistryInv
  <2>3. QED
    BY <2>1, <2>2 DEF IInv, JobInv, FieldTypes, TypeOK
<1>2. QED
  BY <1>1, IInvIsInvariant, PTL

\* The terminal event a client hears names the way the run ended, whether it
\* was queued before the run settled, displaced another one, or was made up
\* from a record that eviction has removed meanwhile.
THEOREM TerminalEventsAreTruthful == Spec => []TerminalIsTruthful
<1>1. IInv => TerminalIsTruthful
  BY DEF IInv, ReaderInv, Sound, TerminalIsTruthful
<1>2. QED
  BY <1>1, IInvIsInvariant, PTL

\* A client connected when the run settles hears how it ended unless it hangs
\* up, and the subscriber list holds the generators at work, up to the cap.
THEOREM ConnectedClientsHearTheEnd == Spec => []ConnectedHearTheEnd
<1>1. IInv => ConnectedHearTheEnd
  <2> SUFFICES ASSUME IInv PROVE ConnectedHearTheEnd
    OBVIOUS
  <2>1. ASSUME NEW s \in present
        PROVE  ended[s] \in {"open", "terminal", "disconnected"}
    BY DEF IInv, JobInv, Promised, ReaderInv, Attached
  <2>2. QED
    BY <2>1 DEF ConnectedHearTheEnd, IInv, RegistryInv
<1>2. QED
  BY <1>1, IInvIsInvariant, PTL

\* What a queue holds is later than what its client has received.
LEMMA HearingIsLater ==
    ASSUME IInv, NEW s \in Streams, reader[s] \in Attached,
           NEW e, heard[s].number < e.number, heard' = [heard EXCEPT ![s] = e]
    PROVE  \A t \in Streams :
              heard'[t] # heard[t] => /\ heard[t].number < heard'[t].number
                                      /\ ~IsTerminal(heard[t])
<1>1. FieldTypes /\ ~IsTerminal(heard[s])
  BY StreamFacts DEF Attached
<1>2. heard'[s] = e /\ \A t \in Streams \ {s} : heard'[t] = heard[t]
  BY <1>1 DEF FieldTypes
<1>3. QED
  BY <1>1, <1>2

\* Whatever a client hears comes later in the run than what it has heard, and
\* nothing comes after a terminal event: the queue, the drain and the made-up
\* event never deliver the end twice.
THEOREM StreamsAreInOrder == Spec => InOrderAndTerminalLast
<1> DEFINE Later == \A s \in Streams :
                       heard'[s] # heard[s] => /\ heard[s].number < heard'[s].number
                                               /\ ~IsTerminal(heard[s])
<1>1. ASSUME IInv, [Next]_vars PROVE Later
  <2>1. ASSUME NEW s \in Streams, reader[s] \in Attached, queue[s] # <<>>, Deliver(s)
        PROVE  Later
    <3>1. QueueInv(s)
      BY <1>1, StreamFacts
    <3>2. Head(queue[s]) = queue[s][1] /\ 1 \in 1..Len(queue[s])
      BY <2>1, <3>1, TakeProperties DEF QueueInv
    <3>3. heard[s].number < Head(queue[s]).number
      BY <3>1, <3>2 DEF QueueInv
    <3>4. heard' = [heard EXCEPT ![s] = Head(queue[s])]
      BY <2>1 DEF Deliver
    <3>5. QED
      BY <1>1, <2>1, <3>3, <3>4, HearingIsLater
  <2>2. ASSUME NEW s \in Streams, DrainEnds(s) PROVE Later
    <3>1. reader[s] = "draining" /\ reader[s] \in Attached
      BY <2>2 DEF DrainEnds, Attached
    <3>2. JobInv /\ ReaderInv(s) /\ ~IsTerminal(heard[s])
      BY <1>1, <3>1, StreamFacts
    <3>3. ending # Absent
      BY <3>1, <3>2 DEF JobInv, ReaderInv
    <3>4. heard[s].number < emitted
      BY <3>2, <3>3 DEF ReaderInv, Sound
    <3>5. CASE UNCHANGED heard
      BY <3>5
    <3>6. CASE heard' = [heard EXCEPT ![s] = Synthetic(found[s])]
      <4>1. Synthetic(found[s]).number = emitted
        BY DEF Synthetic, MadeUp
      <4>2. QED
        BY <1>1, <3>1, <3>4, <3>6, <4>1, HearingIsLater
    <3>7. QED
      BY <2>2, <3>5, <3>6 DEF DrainEnds
  <2>3. CASE UNCHANGED heard
    BY <2>3
  <2>4. ASSUME NEW s \in Streams, StreamStep(s) PROVE Later
    BY <2>1, <2>2, <2>4 DEF StreamStep, Receive, DrainOne, Attached
  <2>5. \/ UNCHANGED heard
        \/ \E s \in Streams : StreamStep(s)
    BY <1>1 DEF Next, vars, EmitProgress, Settle, Evict, Subscribe, CheckStatus,
                KeepaliveTimeout, Disconnect
  <2>6. QED
    BY <2>3, <2>4, <2>5
<1>2. IInv /\ [Next]_vars => [Later]_vars
  BY <1>1
<1>3. QED
  BY <1>2, IInvIsInvariant, PTL DEF Spec, InOrderAndTerminalLast
=============================================================================
