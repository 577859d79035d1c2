-------------------------- MODULE JobAdmissionProofs --------------------------
(***************************************************************************)
(* Proofs about JobAdmission, for any set of uploads, finite or not, and   *)
(* any limits.  The component runs as one part of JobFiles, so the         *)
(* theorems are about the specification of that module.                    *)
(***************************************************************************)
EXTENDS JobFiles, FiniteSetTheorems, TLAPS

(* The parts of the inductive invariant.                                   *)

\* The requests that hold a slot.
Holders == {p \in Posts : stage[p] \in Inside}

\* The slots lent are the requests that hold one, and the runs are within
\* their cap; the counts mean something because both sets are finite.
CountsInv ==
    /\ IsFiniteSet(Holders) /\ uploads = Cardinality(Holders)
    /\ IsFiniteSet(live) /\ Cardinality(live) <= MaxActiveJobs

\* Nothing of a job exists before its handler starts, and a handler that is
\* rolling back waits for a thread that does the work.
HandlerInv(p) ==
    /\ stage[p] \in {"away", "uploading"} =>
          record[p] = "absent" /\ directory[p] # "made" /\ p \notin live
    /\ stage[p] = "rollingback" => p \in deleting
    /\ record[p] = "queued" /\ stage[p] # "lost" => InProgress(p)
    /\ directory[p] = "made" => record[p] # "absent" \/ InProgress(p)

AdmissionInv ==
    /\ AdmissionTypeOK
    /\ CountsInv
    /\ \A p \in Posts : HandlerInv(p)
-----------------------------------------------------------------------------
\* No request holds a slot, and nothing is created.
LEMMA AdmissionStarts == AdmissionInit => AdmissionInv
<1> SUFFICES ASSUME AdmissionInit PROVE AdmissionInv
  OBVIOUS
<1>1. 0 \in 0..MaxUploads /\ 0 <= MaxActiveJobs
  BY LimitsAssumption
<1>2. AdmissionTypeOK
  BY <1>1 DEF AdmissionInit, AdmissionTypeOK, Inside
<1>3. Holders = {}
  BY DEF AdmissionInit, Holders, Inside
<1>4. IsFiniteSet({}) /\ Cardinality({}) = 0
  BY FS_EmptySet
<1>5. CountsInv
  BY <1>1, <1>3, <1>4 DEF AdmissionInit, CountsInv
<1>6. \A p \in Posts : HandlerInv(p)
  BY DEF AdmissionInit, HandlerInv
<1>7. QED
  BY <1>2, <1>5, <1>6 DEF AdmissionInv

(* What one request does, whoever acts for it.                             *)

StepOf(p) ==
    \/ Reserve(p) \/ TurnedAway(p) \/ EnterHandler(p)
    \/ CreateRecord(p) \/ StagingEnds(p) \/ ExtractionEnds(p)
    \/ StagingCleared(p) \/ Launch(p) \/ LaunchRefused(p)
    \/ SpawnRefused(p) \/ DeleteJob(p)
    \/ Abort(p) \/ AbortExtraction(p) \/ LateExtraction(p)
    \/ AbortRollback(p) \/ AbortCreation(p)
    \/ RunSettles(p) \/ EvictJob(p)

\* The four things a step may do to the slots.
Takes(p) ==
    /\ stage[p] = "away" /\ SlotFree
    /\ stage' = [stage EXCEPT ![p] = "uploading"]
    /\ uploads' = uploads + 1

Stays(p) ==
    /\ \E to \in Inside \cup {"away", "answered", "lost"} :
          /\ stage' = [stage EXCEPT ![p] = to]
          /\ to \in Inside <=> stage[p] \in Inside
    /\ uploads' = uploads

Leaves(p) ==
    /\ stage[p] \in Inside
    /\ \E how \in {"answered", "lost"} : stage' = [stage EXCEPT ![p] = how]
    /\ uploads' = uploads - 1

\* Every step is one of the four.
LEMMA SlotMoves ==
    ASSUME AdmissionTypeOK, NEW p \in Posts, StepOf(p)
    PROVE  Takes(p) \/ Stays(p) \/ Leaves(p) \/ UNCHANGED <<stage, uploads>>
<1> USE DEF AdmissionTypeOK, Inside, Takes, Stays, Leaves
<1>1. CASE Reserve(p)
  BY <1>1 DEF Reserve
<1>2. CASE TurnedAway(p) \/ Launch(p) \/ AbortRollback(p) \/ AbortCreation(p)
  BY <1>2
  DEF TurnedAway, Launch, AbortRollback, AbortCreation, Answer, LeaveAs, Release
<1>3. CASE DeleteJob(p)
  BY <1>3 DEF DeleteJob, Answer, LeaveAs, Release
<1>4. CASE EnterHandler(p) \/ CreateRecord(p) \/ StagingEnds(p)
  BY <1>4 DEF EnterHandler, CreateRecord, StagingEnds, StartRollback, Advance
<1>5. CASE ExtractionEnds(p) \/ StagingCleared(p) \/ AbortExtraction(p)
  BY <1>5
  DEF ExtractionEnds, StagingCleared, AbortExtraction, StartRollback, Advance
<1>6. CASE LaunchRefused(p) \/ SpawnRefused(p) \/ Abort(p)
  BY <1>6 DEF LaunchRefused, SpawnRefused, Abort, Unwind, StartRollback, Advance
<1>7. CASE LateExtraction(p) \/ RunSettles(p) \/ EvictJob(p)
  BY <1>7 DEF LateExtraction, RunSettles, EvictJob
<1>8. QED
  BY <1>1, <1>2, <1>3, <1>4, <1>5, <1>6, <1>7 DEF StepOf

\* A slot is taken only while one is free, and given back once: the counter
\* neither leaks nor goes below zero.
LEMMA SlotsAreCounted ==
    ASSUME AdmissionTypeOK, CountsInv, NEW p \in Posts,
           Takes(p) \/ Stays(p) \/ Leaves(p) \/ UNCHANGED <<stage, uploads>>
    PROVE  /\ stage' \in [Posts -> Inside \cup {"away", "answered", "lost"}]
           /\ uploads' \in 0..MaxUploads
           /\ IsFiniteSet(Holders') /\ uploads' = Cardinality(Holders')
<1> DEFINE Goal ==
      /\ stage' \in [Posts -> Inside \cup {"away", "answered", "lost"}]
      /\ uploads' \in 0..MaxUploads
      /\ IsFiniteSet(Holders') /\ uploads' = Cardinality(Holders')
<1>1. /\ stage \in [Posts -> Inside \cup {"away", "answered", "lost"}]
      /\ uploads \in Nat /\ uploads <= MaxUploads /\ MaxUploads \in Nat
      /\ IsFiniteSet(Holders) /\ uploads = Cardinality(Holders)
  BY LimitsAssumption DEF AdmissionTypeOK, CountsInv
<1>2. CASE Takes(p)
  <2>1. stage' \in [Posts -> Inside \cup {"away", "answered", "lost"}]
    BY <1>1, <1>2 DEF Takes, Inside
  <2>2. Holders' = Holders \cup {p} /\ p \notin Holders
    BY <1>1, <1>2 DEF Takes, Holders, Inside
  <2>3. /\ IsFiniteSet(Holders \cup {p})
        /\ Cardinality(Holders \cup {p}) = Cardinality(Holders) + 1
    BY <1>1, <2>2, FS_AddElement
  <2>4. uploads' = uploads + 1 /\ uploads < MaxUploads
    BY <1>2 DEF Takes, SlotFree
  <2>5. uploads' \in 0..MaxUploads
    BY <1>1, <2>4
  <2>6. QED
    BY <1>1, <2>1, <2>2, <2>3, <2>4, <2>5
<1>3. CASE Stays(p)
  <2>1. stage' \in [Posts -> Inside \cup {"away", "answered", "lost"}]
    BY <1>1, <1>3 DEF Stays
  <2>2. Holders' = Holders /\ uploads' = uploads
    BY <1>1, <1>3 DEF Stays, Holders
  <2>3. uploads \in 0..MaxUploads
    BY DEF AdmissionTypeOK
  <2>4. QED
    BY <1>1, <2>1, <2>2, <2>3
<1>4. CASE Leaves(p)
  <2>1. stage' \in [Posts -> Inside \cup {"away", "answered", "lost"}]
    BY <1>1, <1>4 DEF Leaves
  <2>2. Holders' = Holders \ {p} /\ p \in Holders
    BY <1>1, <1>4 DEF Leaves, Holders, Inside
  <2>3. /\ IsFiniteSet(Holders \ {p})
        /\ Cardinality(Holders \ {p}) = Cardinality(Holders) - 1
    BY <1>1, <2>2, FS_RemoveElement
  <2>4. uploads' = uploads - 1
    BY <1>4 DEF Leaves
  <2>5. Cardinality(Holders \ {p}) \in Nat
    BY <2>3, FS_CardinalityType
  <2>6. uploads' \in Nat /\ uploads' <= MaxUploads
    BY <1>1, <2>3, <2>4, <2>5
  <2>7. uploads' \in 0..MaxUploads
    BY <1>1, <2>6
  <2>8. QED
    BY <1>1, <2>1, <2>2, <2>3, <2>4, <2>7
<1>5. CASE UNCHANGED <<stage, uploads>>
  <2>1. Holders' = Holders
    BY <1>5 DEF Holders
  <2>2. uploads \in 0..MaxUploads
    BY DEF AdmissionTypeOK
  <2>3. QED
    BY <1>1, <1>5, <2>1, <2>2
<1>6. QED
  BY <1>2, <1>3, <1>4, <1>5

\* A run starts after a second look at the cap, with no await in between.
LEMMA RunsAreCounted ==
    ASSUME CountsInv, NEW p \in Posts, StepOf(p)
    PROVE  IsFiniteSet(live') /\ Cardinality(live') <= MaxActiveJobs
<1>1. /\ IsFiniteSet(live) /\ Cardinality(live) <= MaxActiveJobs
      /\ Cardinality(live) \in Nat /\ MaxActiveJobs \in Nat
  BY FS_CardinalityType, LimitsAssumption DEF CountsInv
<1>2. CASE Launch(p)
  <2>1. live' = live \cup {p} /\ ~(Cardinality(live) >= MaxActiveJobs)
    BY <1>2 DEF Launch, MayLaunch, AtCapacity
  <2>2. /\ IsFiniteSet(live \cup {p})
        /\ \/ Cardinality(live \cup {p}) = Cardinality(live)
           \/ Cardinality(live \cup {p}) = Cardinality(live) + 1
    BY <1>1, FS_AddElement
  <2>3. QED
    BY <1>1, <2>1, <2>2
<1>3. CASE RunSettles(p)
  <2>1. live' = live \ {p}
    BY <1>3 DEF RunSettles
  <2>2. /\ IsFiniteSet(live \ {p})
        /\ \/ Cardinality(live \ {p}) = Cardinality(live)
           \/ Cardinality(live \ {p}) = Cardinality(live) - 1
    BY <1>1, FS_RemoveElement
  <2>3. QED
    BY <1>1, <2>1, <2>2
<1>4. CASE ~(Launch(p) \/ RunSettles(p))
  <2>1. live' = live
    BY <1>4
    DEF StepOf, Reserve, TurnedAway, EnterHandler, CreateRecord, StagingEnds,
        ExtractionEnds, StagingCleared, LaunchRefused, SpawnRefused, DeleteJob,
        Abort, AbortExtraction, LateExtraction, AbortRollback, AbortCreation,
        EvictJob
  <2>2. QED
    BY <1>1, <2>1
<1>5. QED
  BY <1>2, <1>3, <1>4

\* The variables that no count is about.
LEMMA RestIsTyped ==
    ASSUME AdmissionTypeOK, NEW p \in Posts, StepOf(p)
    PROVE  /\ raising' \subseteq Posts
           /\ record' \in [Posts -> {"absent", "queued", "terminal"}]
           /\ directory' \in [Posts -> {"none", "made", "left"}]
           /\ extracting' \subseteq Posts
           /\ deleting' \subseteq Posts
           /\ events' \subseteq Posts
           /\ live' \subseteq Posts
           /\ closing' \in BOOLEAN
<1> USE DEF AdmissionTypeOK, StartRollback, DropEvent
<1>1. CASE Reserve(p) \/ TurnedAway(p) \/ EnterHandler(p)
  BY <1>1 DEF Reserve, TurnedAway, EnterHandler
<1>2. CASE CreateRecord(p)
  BY <1>2 DEF CreateRecord
<1>3. CASE StagingEnds(p) \/ StagingCleared(p)
  BY <1>3 DEF StagingEnds, StagingCleared
<1>4. CASE ExtractionEnds(p) \/ AbortExtraction(p)
  BY <1>4 DEF ExtractionEnds, AbortExtraction
<1>5. CASE Launch(p)
  BY <1>5 DEF Launch
<1>6. CASE LaunchRefused(p) \/ SpawnRefused(p) \/ Abort(p)
  BY <1>6 DEF LaunchRefused, SpawnRefused, Abort, Unwind
<1>7. CASE DeleteJob(p)
  BY <1>7 DEF DeleteJob, RemoveFiles
<1>8. CASE LateExtraction(p) \/ AbortRollback(p) \/ AbortCreation(p)
  BY <1>8 DEF LateExtraction, AbortRollback, AbortCreation
<1>9. CASE RunSettles(p) \/ EvictJob(p)
  BY <1>9 DEF RunSettles, EvictJob
<1>10. QED
  BY <1>1, <1>2, <1>3, <1>4, <1>5, <1>6, <1>7, <1>8, <1>9 DEF StepOf

\* A step of one request leaves the others alone, but for the counter.
LEMMA StepIsLocal ==
    ASSUME AdmissionTypeOK, NEW p \in Posts, StepOf(p), NEW q \in Posts, q # p
    PROVE  /\ stage'[q] = stage[q]
           /\ record'[q] = record[q] /\ directory'[q] = directory[q]
           /\ q \in deleting' <=> q \in deleting
           /\ q \in live' <=> q \in live
<1> USE DEF AdmissionTypeOK, StartRollback, Advance, Answer, LeaveAs
<1>1. CASE Reserve(p) \/ TurnedAway(p) \/ EnterHandler(p)
  BY <1>1 DEF Reserve, TurnedAway, EnterHandler
<1>2. CASE CreateRecord(p) \/ StagingEnds(p) \/ StagingCleared(p)
  BY <1>2 DEF CreateRecord, StagingEnds, StagingCleared
<1>3. CASE ExtractionEnds(p) \/ AbortExtraction(p) \/ Launch(p)
  BY <1>3 DEF ExtractionEnds, AbortExtraction, Launch
<1>4. CASE LaunchRefused(p) \/ SpawnRefused(p) \/ Abort(p)
  BY <1>4 DEF LaunchRefused, SpawnRefused, Abort, Unwind
<1>5. CASE DeleteJob(p)
  BY <1>5 DEF DeleteJob, RemoveFiles
<1>6. CASE LateExtraction(p) \/ AbortRollback(p) \/ AbortCreation(p)
  BY <1>6 DEF LateExtraction, AbortRollback, AbortCreation
<1>7. CASE RunSettles(p) \/ EvictJob(p)
  BY <1>7 DEF RunSettles, EvictJob
<1>8. QED
  BY <1>1, <1>2, <1>3, <1>4, <1>5, <1>6, <1>7 DEF StepOf

\* Whatever a request does, somebody stays at work on what it has created.
LEMMA StepKeepsHandler ==
    ASSUME AdmissionTypeOK, NEW p \in Posts, StepOf(p), HandlerInv(p)
    PROVE  HandlerInv(p)'
<1> USE DEF AdmissionTypeOK, HandlerInv, InProgress, Inside, StartRollback,
        Advance, Answer, LeaveAs
<1>1. CASE Reserve(p) \/ TurnedAway(p) \/ EnterHandler(p)
  BY <1>1 DEF Reserve, TurnedAway, EnterHandler
<1>2. CASE CreateRecord(p)
  BY <1>2 DEF CreateRecord
<1>3. CASE StagingEnds(p) \/ StagingCleared(p)
  BY <1>3 DEF StagingEnds, StagingCleared
<1>4. CASE ExtractionEnds(p) \/ AbortExtraction(p)
  BY <1>4 DEF ExtractionEnds, AbortExtraction
<1>5. CASE Launch(p)
  BY <1>5 DEF Launch
<1>6. CASE LaunchRefused(p) \/ SpawnRefused(p) \/ Abort(p)
  BY <1>6 DEF LaunchRefused, SpawnRefused, Abort, Unwind
<1>7. CASE DeleteJob(p)
  <2>1. record'[p] = "absent" /\ directory'[p] \in {"none", "left"}
    BY <1>7 DEF DeleteJob, RemoveFiles
  <2>2. /\ stage'[p] # "rollingback" /\ live' = live
        /\ stage'[p] \in {"away", "uploading"} => stage'[p] = stage[p]
    BY <1>7 DEF DeleteJob
  <2>3. QED
    BY <2>1, <2>2
<1>8. CASE LateExtraction(p)
  BY <1>8 DEF LateExtraction
<1>9. CASE AbortRollback(p) \/ AbortCreation(p)
  BY <1>9 DEF AbortRollback, AbortCreation
<1>10. CASE RunSettles(p)
  BY <1>10 DEF RunSettles
<1>11. CASE EvictJob(p)
  BY <1>11 DEF EvictJob
<1>12. QED
  BY <1>1, <1>2, <1>3, <1>4, <1>5, <1>6, <1>7, <1>8, <1>9, <1>10, <1>11
  DEF StepOf

\* Every step keeps the invariant: the actor by its own lemma, the others
\* because a step is local.
LEMMA AdmissionSteps ==
    AdmissionInv /\ [AdmissionNext]_admissionVars => AdmissionInv'
<1> SUFFICES ASSUME AdmissionInv, [AdmissionNext]_admissionVars
             PROVE  AdmissionInv'
  OBVIOUS
<1>1. ASSUME NEW p \in Posts, StepOf(p)
      PROVE  AdmissionInv'
  <2>1. AdmissionTypeOK /\ CountsInv
    BY DEF AdmissionInv
  <2>2. /\ stage' \in [Posts -> Inside \cup {"away", "answered", "lost"}]
        /\ uploads' \in 0..MaxUploads
        /\ IsFiniteSet(Holders') /\ uploads' = Cardinality(Holders')
    BY <1>1, <2>1, SlotMoves, SlotsAreCounted
  <2>3. AdmissionTypeOK'
    BY <1>1, <2>1, <2>2, RestIsTyped DEF AdmissionTypeOK, Inside
  <2>4. CountsInv'
    BY <1>1, <2>1, <2>2, RunsAreCounted DEF CountsInv
  <2>5. ASSUME NEW q \in Posts
        PROVE  HandlerInv(q)'
    <3>1. HandlerInv(q)
      BY DEF AdmissionInv
    <3>2. CASE q = p
      BY <1>1, <2>1, <3>1, <3>2, StepKeepsHandler
    <3>3. CASE q # p
      <4>1. /\ stage'[q] = stage[q]
            /\ record'[q] = record[q] /\ directory'[q] = directory[q]
            /\ q \in deleting' <=> q \in deleting
            /\ q \in live' <=> q \in live
        BY <1>1, <2>1, <3>3, StepIsLocal
      <4>2. QED
        BY <3>1, <4>1 DEF HandlerInv, InProgress, Inside
    <3>4. QED
      BY <3>2, <3>3
  <2>6. QED
    BY <2>3, <2>4, <2>5 DEF AdmissionInv
<1>2. CASE Close \/ UNCHANGED admissionVars
  BY <1>2 DEF Close, admissionVars, AdmissionInv, AdmissionTypeOK, CountsInv,
              Holders, HandlerInv, InProgress, Inside
<1>3. QED
  BY <1>1, <1>2 DEF AdmissionNext, StepOf

\* A step of the files of a job is a step of the admission or none.
LEMMA OnlyAdmission ==
    /\ Init => AdmissionInit
    /\ [Next]_vars => [AdmissionNext]_admissionVars
BY DEF Init, Next, vars
-----------------------------------------------------------------------------
\* The counters are exact and somebody is at work on whatever is half made,
\* in every reachable state and for any set of requests.
THEOREM AdmissionInvariant == Spec => []AdmissionInv
<1>1. Init => AdmissionInv
  BY AdmissionStarts, OnlyAdmission
<1>2. AdmissionInv /\ [Next]_vars => AdmissionInv'
  BY AdmissionSteps, OnlyAdmission
<1>3. QED
  BY <1>1, <1>2, PTL DEF Spec

\* The slots in use are the requests inside the middleware, and the runs are
\* within their cap, wherever an exception or a cancellation has struck.
THEOREM LimitsHold == Spec => []LimitsAreExact
<1>1. AdmissionInv => LimitsAreExact
  BY DEF AdmissionInv, CountsInv, Holders, LimitsAreExact
<1>2. QED
  BY <1>1, AdmissionInvariant, PTL

\* A creation that is refused, fails or is cancelled leaves neither a queued
\* record nor a directory behind, but for the two exceptions the property
\* names.
THEOREM CreationIsTransactional == Spec => []NoHalfCreatedJob
<1>1. AdmissionInv => NoHalfCreatedJob
  BY DEF AdmissionInv, HandlerInv, NoHalfCreatedJob
<1>2. QED
  BY <1>1, AdmissionInvariant, PTL
=============================================================================
