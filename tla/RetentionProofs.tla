--------------------------- MODULE RetentionProofs ---------------------------
(***************************************************************************)
(* Safety of the retention of finished jobs for any number of jobs,        *)
(* readers and lines, any TTL and any cap: the clock, the reviews, and     *)
(* when a job may be evicted.                                              *)
(***************************************************************************)
EXTENDS Retention, FiniteSetTheorems, TLAPS

\* A job outside the store has left nothing behind: an identifier that is
\* issued later starts without judgements.
AbsentIsBlank ==
    \A j \in Jobs :
        /\ j \notin issued => status[j] = Absent
        /\ status[j] = Absent => reviews[j] = Blank /\ acked[j] = Blank

\* Jobs may be unbounded, but finitely many have a time stamp.
IInv ==
    /\ TypeOK
    /\ IsFiniteSet(clocked)
    /\ ClockIsExact
    /\ AbsentIsBlank
    /\ AcknowledgedIsStored
-----------------------------------------------------------------------------
(* _collect_stale_locked.                                                  *)

\* Statuses that the store compares are different strings.
LEMMA StatusFacts ==
    /\ "completed" \in TerminalStates /\ "running" \notin TerminalStates
    /\ Absent \notin TerminalStates /\ Absent # "running"
    /\ "evicted" # Absent
  BY DEF TerminalStates, TerminalSuccessStates, Absent

\* What the sweep pops: the expired jobs and as many of the oldest as exceed
\* the cap.
LEMMA StaleSetsAre ==
    ASSUME NEW gone \in StaleSets
    PROVE  \E S \in SUBSET clocked :
              /\ gone = {j \in clocked : Expired(j)} \cup S
              /\ Cardinality(S) = IF Excess(clocked) > 0 THEN Excess(clocked) ELSE 0
              /\ \A j \in S, k \in clocked \ S : idle[j] >= idle[k]
  BY DEF StaleSets, OlderThan

\* However many of them are stale, no more than the cap are kept, and if one
\* goes that has not expired, exactly the cap.
LEMMA SweepCounts ==
    ASSUME IInv, NEW gone \in StaleSets
    PROVE  /\ gone \subseteq clocked
           /\ \A j \in clocked \ gone : idle[j] < TTL
           /\ Cardinality(clocked \ gone) <= MaxCompleted
           /\ \A j \in gone :
                 idle[j] < TTL =>
                     Cardinality({k \in clocked \ gone : idle[k] <= idle[j]})
                         = MaxCompleted
<1>1. PICK S \in SUBSET clocked :
              /\ gone = {j \in clocked : Expired(j)} \cup S
              /\ Cardinality(S) = IF Excess(clocked) > 0 THEN Excess(clocked) ELSE 0
              /\ \A j \in S, k \in clocked \ S : idle[j] >= idle[k]
  BY StaleSetsAre
<1>2. /\ clocked \subseteq Jobs /\ IsFiniteSet(clocked)
      /\ \A j \in clocked : idle[j] \in 0..TTL
      /\ TTL \in Nat /\ MaxCompleted \in Nat
  BY TTLAssumption, MaxCompletedAssumption DEF IInv, TypeOK
<1>3. /\ IsFiniteSet(S) /\ IsFiniteSet(clocked \ S) /\ IsFiniteSet(clocked \ gone)
      /\ Cardinality(S) \in Nat /\ Cardinality(clocked) \in Nat
      /\ Cardinality(clocked \ S) \in Nat /\ Cardinality(clocked \ gone) \in Nat
  BY <1>2, FS_Subset, FS_CardinalityType
<1>4. Cardinality(clocked \ S) = Cardinality(clocked) - Cardinality(S)
  <2>1. clocked \cap S = S
    OBVIOUS
  <2>2. QED
    BY <1>2, <1>3, <2>1, FS_Difference
<1>5. Cardinality(clocked \ S) <= MaxCompleted
  BY <1>1, <1>2, <1>3, <1>4 DEF Excess
<1>6. Cardinality(clocked \ gone) <= Cardinality(clocked \ S)
  <2>1. clocked \ gone \subseteq clocked \ S
    BY <1>1
  <2>2. QED
    BY <1>3, <2>1, FS_Subset
<1>7. \A j \in clocked \ gone : idle[j] < TTL
  BY <1>1, <1>2 DEF Expired
<1>8. ASSUME NEW j \in gone, idle[j] < TTL
      PROVE  Cardinality({k \in clocked \ gone : idle[k] <= idle[j]}) = MaxCompleted
  <2>1. j \in S
    BY <1>1, <1>2, <1>8 DEF Expired
  <2>2. \A k \in clocked \ S : idle[k] <= idle[j] /\ idle[k] < TTL
    BY <1>1, <1>2, <1>8, <2>1
  <2>3. {k \in clocked \ gone : idle[k] <= idle[j]} = clocked \ S
    BY <1>1, <1>2, <2>2 DEF Expired
  <2>4. Cardinality(S) # 0
    BY <1>3, <2>1, FS_EmptySet
  <2>5. Cardinality(clocked \ S) = MaxCompleted
    BY <1>1, <1>2, <1>3, <1>4, <2>4 DEF Excess
  <2>6. QED
    BY <2>3, <2>5
<1>9. QED
  BY <1>1, <1>2, <1>3, <1>5, <1>6, <1>7, <1>8
-----------------------------------------------------------------------------
(* The inductive invariant.                                                *)

\* The store is empty.
LEMMA StartsInIInv == Init => IInv
<1> SUFFICES ASSUME Init PROVE IInv
  OBVIOUS
<1>1. [l \in Lines |-> None] \in Judgements /\ 0 \in 0..TTL
  BY TTLAssumption DEF Judgements
<1>2. TypeOK
  BY <1>1 DEF Init, TypeOK
<1>3. IsFiniteSet(clocked)
  BY FS_EmptySet DEF Init
<1>4. ClockIsExact /\ AbsentIsBlank /\ AcknowledgedIsStored
  BY StatusFacts DEF Init, ClockIsExact, AbsentIsBlank, AcknowledgedIsStored, Blank
<1>5. QED
  BY <1>2, <1>3, <1>4 DEF IInv

\* The periodic sweep.
LEMMA SweepKeepsIInv == IInv /\ Sweep => IInv'
<1> SUFFICES ASSUME IInv, Sweep PROVE IInv'
  OBVIOUS
<1>1. PICK gone \in StaleSets : Pop(gone) /\ status' = Popped(gone)
  BY DEF Sweep
<1>2. gone \subseteq clocked
  BY SweepCounts
<1>3. /\ clocked' = clocked \ gone
      /\ reviews' = [j \in Jobs |-> IF j \in gone THEN Blank ELSE reviews[j]]
      /\ acked' = [j \in Jobs |-> IF j \in gone THEN Blank ELSE acked[j]]
      /\ status' = [j \in Jobs |-> IF j \in gone THEN Absent ELSE status[j]]
      /\ UNCHANGED <<issued, idle, request, overlapped>>
  BY <1>1 DEF Pop, Popped, Sweep
<1>4. Blank \in Judgements
  BY DEF Blank, Judgements
<1>5. TypeOK'
  BY <1>3, <1>4 DEF IInv, TypeOK
<1>6. IsFiniteSet(clocked')
  BY <1>3, FS_Subset DEF IInv
<1>7. ClockIsExact'
  BY <1>2, <1>3, StatusFacts DEF IInv, TypeOK, ClockIsExact
<1>8. AbsentIsBlank'
  BY <1>2, <1>3 DEF IInv, AbsentIsBlank
<1>9. AcknowledgedIsStored'
  BY <1>3 DEF IInv, AcknowledgedIsStored
<1>10. QED
  BY <1>5, <1>6, <1>7, <1>8, <1>9 DEF IInv

\* create_job, with the eviction inside it.
LEMMA CreateKeepsIInv ==
    ASSUME IInv, NEW j \in Jobs, Create(j)
    PROVE  IInv'
<1>1. PICK gone \in StaleSets :
         Pop(gone) /\ status' = [Popped(gone) EXCEPT ![j] = "running"]
  BY DEF Create
<1>2. gone \subseteq clocked
  BY SweepCounts
<1>3. j \notin issued /\ status[j] = Absent /\ reviews[j] = Blank /\ acked[j] = Blank
  BY DEF Create, IInv, AbsentIsBlank
<1>4. j \notin clocked /\ clocked \subseteq Jobs
  BY <1>3, StatusFacts DEF IInv, ClockIsExact
<1>5. /\ clocked' = clocked \ gone
      /\ reviews' = [k \in Jobs |-> IF k \in gone THEN Blank ELSE reviews[k]]
      /\ acked' = [k \in Jobs |-> IF k \in gone THEN Blank ELSE acked[k]]
      /\ issued' = issued \cup {j}
      /\ UNCHANGED <<idle, request, overlapped>>
  BY <1>1 DEF Pop, Create
<1>6. status' = [k \in Jobs |-> IF k = j THEN "running"
                                ELSE IF k \in gone THEN Absent ELSE status[k]]
  BY <1>1 DEF Popped
<1>7. Blank \in Judgements
  BY DEF Blank, Judgements
<1>8. TypeOK'
  BY <1>5, <1>6, <1>7 DEF IInv, TypeOK
<1>9. IsFiniteSet(clocked')
  BY <1>5, FS_Subset DEF IInv
<1>10. ClockIsExact'
  BY <1>2, <1>4, <1>5, <1>6, StatusFacts DEF IInv, ClockIsExact
<1>11. AbsentIsBlank'
  BY <1>2, <1>5, <1>6, StatusFacts DEF IInv, AbsentIsBlank
<1>12. AcknowledgedIsStored'
  BY <1>3, <1>5, <1>6 DEF IInv, AcknowledgedIsStored
<1>13. QED
  BY <1>8, <1>9, <1>10, <1>11, <1>12 DEF IInv

\* A terminal status starts the clock, and evicts.
LEMMA SettleKeepsIInv ==
    ASSUME IInv, NEW j \in Jobs, Settle(j)
    PROVE  IInv'
<1>1. /\ status[j] = "running" /\ status' = [status EXCEPT ![j] = "completed"]
      /\ clocked' = clocked \cup {j}
      /\ idle' \in {idle, [idle EXCEPT ![j] = 0]}
      /\ UNCHANGED <<issued, reviews, request, acked, overlapped>>
  BY DEF Settle
<1>2. 0 \in 0..TTL
  BY TTLAssumption
<1>3. TypeOK'
  BY <1>1, <1>2 DEF IInv, TypeOK
<1>4. IsFiniteSet(clocked')
  BY <1>1, FS_AddElement DEF IInv
<1>5. ClockIsExact'
  BY <1>1, StatusFacts DEF IInv, TypeOK, ClockIsExact
<1>6. AbsentIsBlank'
  BY <1>1, StatusFacts DEF IInv, TypeOK, AbsentIsBlank
<1>7. AcknowledgedIsStored'
  BY <1>1, StatusFacts DEF IInv, TypeOK, AcknowledgedIsStored
<1>8. QED
  BY <1>3, <1>4, <1>5, <1>6, <1>7 DEF IInv

\* The clock moves.
LEMMA TickKeepsIInv == IInv /\ Tick => IInv'
<1> SUFFICES ASSUME IInv, Tick PROVE IInv'
  OBVIOUS
<1>1. /\ idle' = [j \in Jobs |-> IF j \in clocked /\ idle[j] < TTL
                                 THEN idle[j] + 1 ELSE idle[j]]
      /\ UNCHANGED <<issued, status, clocked, reviews, request, acked, overlapped>>
  BY DEF Tick
<1>2. ASSUME NEW j \in Jobs PROVE idle'[j] \in 0..TTL
  BY <1>1, TTLAssumption DEF IInv, TypeOK
<1>3. TypeOK'
  BY <1>1, <1>2 DEF IInv, TypeOK
<1>4. QED
  BY <1>1, <1>3 DEF IInv, ClockIsExact, AbsentIsBlank, AcknowledgedIsStored

\* The access dependency only remembers the request.
LEMMA AdmitKeepsIInv ==
    ASSUME IInv, NEW r \in Requests, NEW what \in Save \cup Touch, Admit(r, what)
    PROVE  IInv'
<1>1. /\ request' = [request EXCEPT ![r] = what]
      /\ UNCHANGED <<issued, status, clocked, idle, reviews, acked, overlapped>>
  BY DEF Admit, storeVars
<1>2. TypeOK'
  BY <1>1 DEF IInv, TypeOK
<1>3. QED
  BY <1>1, <1>2 DEF IInv, ClockIsExact, AbsentIsBlank, AcknowledgedIsStored

\* A request restarts the clock of a job in the store that is terminal, and of
\* no other.
LEMMA TouchingKeepsClock ==
    ASSUME IInv, NEW j \in Jobs, status[j] \in TerminalStates,
           clocked' = clocked \cup {j}, UNCHANGED status
    PROVE  IsFiniteSet(clocked') /\ ClockIsExact'
<1>1. clocked' = clocked
  BY DEF IInv, ClockIsExact
<1>2. QED
  BY <1>1 DEF IInv, ClockIsExact

\* put_reviews merges into the snapshot it was admitted with.
LEMMA SaveKeepsIInv ==
    ASSUME IInv, NEW r \in Requests, HandleSave(r)
    PROVE  IInv'
<1> DEFINE j == request[r].job
           l == request[r].line
           v == request[r].verdict
           seen == request[r].seen
<1>1. request[r].pc = "save" /\ request[r] \in Save
  BY DEF HandleSave, IInv, TypeOK, Idle, Touch
<1>2. j \in Jobs /\ l \in Lines /\ v \in Verdicts /\ seen \in Judgements
  BY <1>1 DEF Save
<1>3. /\ request' = [request EXCEPT ![r] = Idle] /\ UNCHANGED <<issued, status>>
      /\ IF status[j] = Absent
         THEN UNCHANGED <<reviews, clocked, idle>>
         ELSE /\ reviews' = [reviews EXCEPT ![j] = [seen EXCEPT ![l] = v]]
              /\ IF status[j] \in TerminalStates
                 THEN /\ clocked' = clocked \cup {j}
                      /\ idle' = [idle EXCEPT ![j] = 0]
                 ELSE UNCHANGED <<clocked, idle>>
      /\ acked' = IF status[j] = Absent THEN acked
                  ELSE [acked EXCEPT ![j][l] = v]
      /\ overlapped' = IF status[j] # Absent /\ reviews[j] # seen
                       THEN overlapped \cup {j} ELSE overlapped
  BY DEF HandleSave, Merged
<1> HIDE DEF j, l, v, seen
<1>4. CASE status[j] = Absent
  <2>1. UNCHANGED <<issued, status, reviews, clocked, idle, acked, overlapped>>
    BY <1>3, <1>4
  <2>2. TypeOK'
    BY <1>3, <2>1 DEF IInv, TypeOK
  <2>3. QED
    BY <2>1, <2>2 DEF IInv, ClockIsExact, AbsentIsBlank, AcknowledgedIsStored
<1>5. CASE status[j] # Absent
  <2>1. /\ reviews' = [reviews EXCEPT ![j] = [seen EXCEPT ![l] = v]]
        /\ acked' = [acked EXCEPT ![j] = [acked[j] EXCEPT ![l] = v]]
        /\ reviews[j] # seen => j \in overlapped'
        /\ overlapped \subseteq overlapped'
    BY <1>3, <1>5
  <2>2. /\ idle' \in {idle, [idle EXCEPT ![j] = 0]}
        /\ overlapped' \in {overlapped, overlapped \cup {j}}
        /\ clocked' \subseteq clocked \cup {j}
    BY <1>3, <1>5
  <2>3. \A f \in Judgements : [f EXCEPT ![l] = v] \in Judgements
    BY <1>2 DEF Judgements
  <2>4. acked[j] \in Judgements /\ 0 \in 0..TTL
    BY <1>2, TTLAssumption DEF IInv, TypeOK
  <2>5. TypeOK'
    <3>1. reviews' \in [Jobs -> Judgements] /\ acked' \in [Jobs -> Judgements]
      BY <1>2, <2>1, <2>3, <2>4 DEF IInv, TypeOK
    <3>2. idle' \in [Jobs -> 0..TTL]
      BY <2>2, <2>4 DEF IInv, TypeOK
    <3>3. request' \in [Requests -> {Idle} \cup Save \cup Touch]
      BY <1>3 DEF IInv, TypeOK
    <3>4. QED
      BY <1>2, <1>3, <2>2, <3>1, <3>2, <3>3 DEF IInv, TypeOK
  <2>6. IsFiniteSet(clocked') /\ ClockIsExact'
    <3>1. CASE status[j] \in TerminalStates
      BY <1>2, <1>3, <1>5, <3>1, TouchingKeepsClock
    <3>2. CASE status[j] \notin TerminalStates
      BY <1>3, <1>5, <3>2 DEF IInv, ClockIsExact
    <3>3. QED
      BY <3>1, <3>2
  <2>7. AbsentIsBlank'
    BY <1>3, <1>5, <2>1 DEF IInv, AbsentIsBlank
  <2>8. ASSUME NEW k \in Jobs, status'[k] # Absent, k \notin overlapped'
        PROVE  reviews'[k] = acked'[k]
    <3>1. reviews[k] = acked[k]
      BY <1>3, <2>1, <2>8 DEF IInv, AcknowledgedIsStored
    <3>2. CASE k = j
      <4>1. seen = acked[j]
        BY <2>1, <2>8, <3>1, <3>2
      <4>2. QED
        BY <1>2, <2>1, <3>2, <4>1 DEF IInv, TypeOK
    <3>3. CASE k # j
      BY <1>2, <2>1, <3>1, <3>3 DEF IInv, TypeOK
    <3>4. QED
      BY <3>2, <3>3
  <2>9. QED
    BY <2>5, <2>6, <2>7, <2>8 DEF IInv, AcknowledgedIsStored
<1>6. QED
  BY <1>4, <1>5

\* Review activity and exports renew a finished job.
LEMMA TouchKeepsIInv ==
    ASSUME IInv, NEW r \in Requests, HandleTouch(r)
    PROVE  IInv'
<1> DEFINE j == request[r].job
<1>1. request[r].pc = "touch" /\ request[r] \in Touch
  BY DEF HandleTouch, IInv, TypeOK, Idle, Save
<1>2. j \in Jobs
  BY <1>1 DEF Touch
<1>3. /\ request' = [request EXCEPT ![r] = Idle]
      /\ UNCHANGED <<issued, status, reviews, acked, overlapped>>
      /\ IF status[j] \in TerminalStates
         THEN clocked' = clocked \cup {j} /\ idle' = [idle EXCEPT ![j] = 0]
         ELSE UNCHANGED <<clocked, idle>>
  BY DEF HandleTouch, Touchable
<1> HIDE DEF j
<1>4. IsFiniteSet(clocked') /\ ClockIsExact'
  <2>1. CASE status[j] \in TerminalStates
    BY <1>2, <1>3, <2>1, TouchingKeepsClock
  <2>2. CASE status[j] \notin TerminalStates
    BY <1>3, <2>2 DEF IInv, ClockIsExact
  <2>3. QED
    BY <2>1, <2>2
<1>5. 0 \in 0..TTL
  BY TTLAssumption
<1>6. TypeOK'
  BY <1>2, <1>3, <1>5 DEF IInv, TypeOK
<1>7. QED
  BY <1>3, <1>4, <1>6 DEF IInv, AbsentIsBlank, AcknowledgedIsStored

\* Every step keeps the invariant.
LEMMA StepKeepsIInv == IInv /\ [Next]_vars => IInv'
<1> SUFFICES ASSUME IInv, [Next]_vars PROVE IInv'
  OBVIOUS
<1>1. CASE Sweep
  BY <1>1, SweepKeepsIInv
<1>2. CASE Tick
  BY <1>2, TickKeepsIInv
<1>3. ASSUME NEW j \in Jobs, Create(j) \/ Settle(j) PROVE IInv'
  BY <1>3, CreateKeepsIInv, SettleKeepsIInv
<1>4. ASSUME NEW r \in Requests, NEW j \in Jobs, NEW l \in Lines,
             NEW v \in Verdicts, AdmitSave(r, j, l, v)
      PROVE  IInv'
  <2>1. [pc |-> "save", job |-> j, seen |-> reviews[j], line |-> l,
         verdict |-> v] \in Save
    BY DEF Save, IInv, TypeOK
  <2>2. QED
    BY <1>4, <2>1, AdmitKeepsIInv DEF AdmitSave
<1>5. ASSUME NEW r \in Requests, NEW j \in Jobs, AdmitTouch(r, j) PROVE IInv'
  <2>1. [pc |-> "touch", job |-> j] \in Touch
    BY DEF Touch
  <2>2. QED
    BY <1>5, <2>1, AdmitKeepsIInv DEF AdmitTouch
<1>6. ASSUME NEW r \in Requests, HandleSave(r) \/ HandleTouch(r) PROVE IInv'
  BY <1>6, SaveKeepsIInv, TouchKeepsIInv
<1>7. CASE UNCHANGED vars
  BY <1>7
  DEF vars, IInv, TypeOK, ClockIsExact, AbsentIsBlank, AcknowledgedIsStored
<1>8. QED
  BY <1>1, <1>2, <1>3, <1>4, <1>5, <1>6, <1>7 DEF Next

\* Records, clock and judgements agree in every reachable state, for any set of
\* jobs, any TTL and any cap.
THEOREM IInvIsInvariant == Spec => []IInv
<1>1. Init => IInv
  BY StartsInIInv
<1>2. IInv /\ [Next]_vars => IInv'
  BY StepKeepsIInv
<1>3. QED
  BY <1>1, <1>2, PTL DEF Spec
-----------------------------------------------------------------------------
(* What readers may rely on.                                               *)

\* An evicted job leaves no tombstone, and every field keeps its type.
THEOREM TypeCorrect == Spec => []TypeOK
<1>1. IInv => TypeOK
  BY DEF IInv
<1>2. QED
  BY <1>1, IInvIsInvariant, PTL

\* The retention clock runs for the terminal jobs of the store and no others,
\* however late a request touches a job that is running or evicted.
THEOREM ClockCorrect == Spec => []ClockIsExact
<1>1. IInv => ClockIsExact
  BY DEF IInv
<1>2. QED
  BY <1>1, IInvIsInvariant, PTL

\* An acknowledged judgement is stored as long as the store has the job,
\* unless a save of the same job acted on a stale snapshot.
THEOREM AcknowledgedStays == Spec => []AcknowledgedIsStored
<1>1. IInv => AcknowledgedIsStored
  BY DEF IInv
<1>2. QED
  BY <1>1, IInvIsInvariant, PTL

\* A job goes before its TTL only for MaxCompleted others at least as recent,
\* and a sweep leaves neither an expired job nor more than the cap.
THEOREM EvictionJustified == Spec => EvictionIsJustified
<1> DEFINE Justified ==
      /\ \A j \in clocked \ clocked' :
            idle[j] < TTL =>
                Cardinality({k \in clocked' : idle[k] <= idle[j]}) >= MaxCompleted
      /\ issued' # issued \/ ~(clocked \subseteq clocked') =>
            /\ Cardinality(clocked') <= MaxCompleted
            /\ \A j \in clocked' : idle[j] < TTL
<1>1. ASSUME IInv, [Next]_vars PROVE Justified
  <2>1. CASE clocked \subseteq clocked' /\ issued' = issued
    BY <2>1
  <2>2. ASSUME NEW gone \in StaleSets, Pop(gone) PROVE Justified
    <3>1. clocked' = clocked \ gone
      BY <2>2 DEF Pop
    <3>2. /\ \A j \in clocked \ gone : idle[j] < TTL
          /\ Cardinality(clocked \ gone) <= MaxCompleted
          /\ \A j \in gone :
                idle[j] < TTL =>
                    Cardinality({k \in clocked \ gone : idle[k] <= idle[j]})
                        = MaxCompleted
      BY <1>1, <2>2, SweepCounts
    <3>3. QED
      BY <3>1, <3>2, MaxCompletedAssumption
  <2>3. \/ clocked \subseteq clocked' /\ issued' = issued
        \/ \E gone \in StaleSets : Pop(gone)
    BY <1>1
    DEF Next, vars, Sweep, Tick, Create, Settle, AdmitSave, AdmitTouch, Admit,
        storeVars, HandleSave, HandleTouch
  <2>4. QED
    BY <2>1, <2>2, <2>3
<1>2. IInv /\ [Next]_vars => [Justified]_vars
  BY <1>1
<1>3. QED
  BY <1>2, IInvIsInvariant, PTL DEF Spec, EvictionIsJustified
=============================================================================
