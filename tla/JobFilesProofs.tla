---------------------------- MODULE JobFilesProofs ----------------------------
(***************************************************************************)
(* Proofs about the other two parts of JobFiles, the way of an upload to   *)
(* the input directory and the records of the corpus tool, and with all    *)
(* four parts the type invariant of the whole.                             *)
(***************************************************************************)
EXTENDS JobAdmissionProofs, OutputPublicationProofs, SequenceTheorems

(* The inductive invariants.                                               *)

\* The pages that hold a permit.
Running == {pg \in Corpus : task[pg] = "running"}

\* A permit is given back once, and a task that is stopped never gives back
\* more than it took.
PermitsInv ==
    /\ IsFiniteSet(Running)
    /\ permits \in Nat /\ permits + Cardinality(Running) <= Concurrency

\* What holds of a page whose label no other page bears.
RecordInv(pg) ==
    /\ result[Label[pg]] \subseteq {pg}
    /\ task[pg] = "done" => answer[pg] \subseteq {pg}
    /\ pg \in measured =>
          /\ result[Label[pg]] = {pg} /\ Label[pg] \notin torn
          /\ task[pg] \notin {"waiting", "running"}
          /\ task[pg] \in {"done", "raised"} => answer[pg] = {pg}

CorpusInv ==
    /\ CorpusTypeOK
    /\ PermitsInv
    /\ \A pg \in Corpus : Alone(pg) => RecordInv(pg)

\* What the client may be answered.
Codes == Statuses \cup {200, 400, 413, 422, 500, 503}

\* What has been counted and sent at each stage of the application.
GuardInv ==
    /\ guard = "waiting" => app = "outside"
    /\ guard = "done" => app \in {"outside", "over"}
    /\ app \in {"outside", "reading", "handling"} => ~tripped /\ ~started
    /\ app = "answering" => ~tripped /\ started
    /\ app = "aborted" => tripped
    /\ app = "over" => tripped \/ started \/ guard = "done"
    /\ guard # "done" /\ ~started => wire = <<>>
    /\ guard = "done" \/ started => \E code \in Codes : wire = <<code>>
    /\ guard = "done" /\ tripped /\ ~started => wire = <<413>>

\* No two files of a set share a stem, so no output, and no scan, is named
\* after two of them.
Distinct(S) ==
    /\ IsFiniteSet(S) /\ IsFiniteSet({Stem[n] : n \in S})
    /\ \A m, n \in S : Stem[m] = Stem[n] => m = n
    /\ Cardinality({Stem[n] : n \in S}) = Cardinality(S)

\* What is saved, what is remembered of it and what is written agree.
SavedInv ==
    /\ Distinct(saved) /\ Distinct(images)
    /\ seenStems = {Stem[n] : n \in saved}
    /\ disk = ({"input"} \X saved) \cup ({"images"} \X images)
    /\ IsFiniteSet(disk) /\ Cardinality(disk) = kept

\* The links are made in one step, and nothing is saved after it.
LinksInv ==
    \/ /\ intake # "linked"
       /\ declares \in [{} -> Declarable] /\ pageCount \in [{} -> 1..MaxPages]
       /\ linked = {}
    \/ /\ intake = "linked"
       /\ declares \in [saved -> Declarable]
       /\ pageCount \in [saved -> 1..MaxPages]
       /\ linked = link_alto_to_images(declares)

PathInv ==
    /\ PathTypeOK
    /\ GuardInv
    /\ BudgetIsShared
    /\ SavedInv
    /\ LinksInv
-----------------------------------------------------------------------------
(* The corpus tool.                                                        *)

\* No page has a record.
LEMMA CorpusStarts == CorpusInit => CorpusInv
<1> SUFFICES ASSUME CorpusInit PROVE CorpusInv
  OBVIOUS
<1>1. Concurrency \in Nat /\ Concurrency \in 0..Concurrency
  BY CorpusAssumption
<1>2. CorpusTypeOK
  BY <1>1 DEF CorpusInit, CorpusTypeOK
<1>3. Running = {}
  BY DEF CorpusInit, Running
<1>4. IsFiniteSet({}) /\ Cardinality({}) = 0
  BY FS_EmptySet
<1>5. permits = Concurrency /\ Concurrency + 0 <= Concurrency
  BY <1>1 DEF CorpusInit
<1>6. PermitsInv
  BY <1>1, <1>3, <1>4, <1>5 DEF PermitsInv
<1>7. \A pg \in Corpus : RecordInv(pg)
  BY DEF CorpusInit, RecordInv, Labels
<1>8. QED
  BY <1>2, <1>6, <1>7 DEF CorpusInv

CorpusStepOf(pg) ==
    Look(pg) \/ Acquire(pg) \/ WriteRecord(pg) \/ RunRaises(pg) \/ KilledWriting(pg)

\* The semaphore of a run, through interruptions that give nothing back.
LEMMA PermitsKept ==
    ASSUME CorpusInv, [CorpusNext]_corpusVars
    PROVE  PermitsInv' /\ permits' \in 0..Concurrency
<1>1. /\ IsFiniteSet(Running) /\ permits \in Nat
      /\ permits + Cardinality(Running) <= Concurrency
      /\ Cardinality(Running) \in Nat /\ Concurrency \in Nat
  BY FS_CardinalityType, CorpusAssumption DEF CorpusInv, PermitsInv
<1>2. task \in [Corpus -> {"none", "new", "waiting", "running", "done", "raised"}]
  BY DEF CorpusInv, CorpusTypeOK
<1>3. IsFiniteSet({}) /\ Cardinality({}) = 0
  BY FS_EmptySet
<1>4. SUFFICES /\ IsFiniteSet(Running') /\ permits' \in Nat
               /\ permits' + Cardinality(Running') <= Concurrency
  <2>1. Cardinality(Running') \in Nat
    BY <1>4, FS_CardinalityType
  <2>2. permits' <= Concurrency
    BY <1>1, <1>4, <2>1
  <2>3. permits' \in 0..Concurrency
    BY <1>1, <1>4, <2>2
  <2>4. QED
    BY <1>4, <2>3 DEF PermitsInv
<1>5. CASE Begin
  <2>1. Running' = {} /\ permits' = Concurrency
    BY <1>5 DEF Begin, Running
  <2>2. Concurrency + 0 <= Concurrency
    BY <1>1
  <2>3. QED
    BY <1>1, <1>3, <2>1, <2>2
<1>6. CASE Stop \/ \E pg \in Corpus : KilledWriting(pg)
  <2>1. Running' = {} /\ permits' = permits
    BY <1>6 DEF Stop, KilledWriting, Running
  <2>2. permits + 0 <= Concurrency
    BY <1>1
  <2>3. QED
    BY <1>1, <1>3, <2>1, <2>2
<1>7. ASSUME NEW pg \in Corpus, Look(pg)
      PROVE  Running' = Running /\ permits' = permits
  BY <1>2, <1>7 DEF Look, Goes, Returns, Running
<1>8. ASSUME NEW pg \in Corpus, Acquire(pg)
      PROVE  /\ IsFiniteSet(Running') /\ permits' \in Nat
             /\ permits' + Cardinality(Running') <= Concurrency
  <2>1. Running' = Running \cup {pg} /\ pg \notin Running
    BY <1>2, <1>8 DEF Acquire, Goes, Running
  <2>2. permits' = permits - 1 /\ permits > 0
    BY <1>8 DEF Acquire
  <2>3. /\ IsFiniteSet(Running \cup {pg})
        /\ Cardinality(Running \cup {pg}) = Cardinality(Running) + 1
    BY <1>1, <2>1, FS_AddElement
  <2>4. /\ permits - 1 \in Nat
        /\ (permits - 1) + (Cardinality(Running) + 1) <= Concurrency
    BY <1>1, <2>2
  <2>5. QED
    BY <2>1, <2>2, <2>3, <2>4
<1>9. ASSUME NEW pg \in Corpus, WriteRecord(pg) \/ RunRaises(pg)
      PROVE  /\ IsFiniteSet(Running') /\ permits' \in Nat
             /\ permits' + Cardinality(Running') <= Concurrency
  <2>1. Running' = Running \ {pg} /\ pg \in Running
    BY <1>2, <1>9 DEF WriteRecord, RunRaises, Returns, Goes, Running
  <2>2. permits' = permits + 1
    BY <1>9 DEF WriteRecord, RunRaises
  <2>3. /\ IsFiniteSet(Running \ {pg})
        /\ Cardinality(Running \ {pg}) = Cardinality(Running) - 1
    BY <1>1, <2>1, FS_RemoveElement
  <2>4. /\ permits + 1 \in Nat
        /\ (permits + 1) + (Cardinality(Running) - 1) <= Concurrency
    BY <1>1
  <2>5. QED
    BY <2>1, <2>2, <2>3, <2>4
<1>10. CASE UNCHANGED corpusVars
  BY <1>1, <1>10 DEF corpusVars, Running
<1>11. QED
  BY <1>1, <1>5, <1>6, <1>7, <1>8, <1>9, <1>10 DEF CorpusNext

\* The types of the other variables.
LEMMA CorpusTypesKept ==
    ASSUME CorpusInv, [CorpusNext]_corpusVars
    PROVE  CorpusTypeOK'
<1> DEFINE Typed ==
      /\ task' \in [Corpus -> {"none", "new", "waiting", "running", "done",
                                "raised"}]
      /\ result' \in [Labels -> SUBSET Corpus]
      /\ torn' \subseteq Labels
      /\ answer' \in [Corpus -> SUBSET Corpus]
      /\ measured' \subseteq Corpus
<1>1. CorpusTypeOK /\ \A pg \in Corpus : Label[pg] \in Labels
  BY DEF CorpusInv, Labels
<1>2. ASSUME Begin \/ Stop \/ UNCHANGED corpusVars
      PROVE  Typed
  BY <1>1, <1>2 DEF CorpusTypeOK, Begin, Stop, corpusVars
<1>3. ASSUME NEW pg \in Corpus, Look(pg) \/ Acquire(pg) \/ RunRaises(pg)
      PROVE  Typed
  BY <1>1, <1>3 DEF CorpusTypeOK, Look, Acquire, RunRaises, Goes, Returns
<1>4. ASSUME NEW pg \in Corpus, WriteRecord(pg) \/ KilledWriting(pg)
      PROVE  Typed
  BY <1>1, <1>4 DEF CorpusTypeOK, WriteRecord, KilledWriting, Returns
<1>5. Typed
  BY <1>2, <1>3, <1>4 DEF CorpusNext
<1>6. QED
  BY <1>5, PermitsKept DEF CorpusTypeOK

\* A page with a label of its own: its record is written by its own task only,
\* and by no task once it is there.
LEMMA RecordKept ==
    ASSUME CorpusInv, [CorpusNext]_corpusVars, NEW pg \in Corpus, Alone(pg)
    PROVE  RecordInv(pg)'
<1> USE DEF RecordInv, CorpusTypeOK
<1>1. CorpusTypeOK /\ RecordInv(pg) /\ \A p \in Corpus : Label[p] \in Labels
  BY DEF CorpusInv, Labels
<1>2. CASE Begin \/ Stop \/ UNCHANGED corpusVars
  BY <1>1, <1>2 DEF Begin, Stop, corpusVars
<1>3. ASSUME NEW other \in Corpus, other # pg, CorpusStepOf(other)
      PROVE  RecordInv(pg)'
  <2>1. Label[other] # Label[pg]
    BY <1>3 DEF Alone
  <2>2. CASE Look(other) \/ Acquire(other) \/ RunRaises(other)
    BY <1>1, <1>3, <2>2 DEF Look, Acquire, RunRaises, Goes, Returns
  <2>3. CASE WriteRecord(other) \/ KilledWriting(other)
    BY <1>1, <1>3, <2>1, <2>3 DEF WriteRecord, KilledWriting, Returns
  <2>4. QED
    BY <1>3, <2>2, <2>3 DEF CorpusStepOf
<1>4. CASE Look(pg)
  BY <1>1, <1>4 DEF Look, HasRecord, Goes, Returns
<1>5. CASE Acquire(pg) \/ RunRaises(pg)
  BY <1>1, <1>5 DEF Acquire, RunRaises, Goes
<1>6. CASE WriteRecord(pg) \/ KilledWriting(pg)
  BY <1>1, <1>6 DEF WriteRecord, KilledWriting, Returns
<1>7. QED
  BY <1>2, <1>3, <1>4, <1>5, <1>6 DEF CorpusNext, CorpusStepOf

\* A step of the files of a job is a step of the tool or none.
LEMMA OnlyCorpus ==
    /\ Init => CorpusInit
    /\ [Next]_vars => [CorpusNext]_corpusVars
BY DEF Init, Next, vars

\* Records, answers and permits agree in every reachable state, for any corpus.
THEOREM CorpusInvariant == Spec => []CorpusInv
<1>1. Init => CorpusInv
  BY CorpusStarts, OnlyCorpus
<1>2. ASSUME CorpusInv, [Next]_vars
      PROVE  CorpusInv'
  <2>1. \A pg \in Corpus : Alone(pg)' => RecordInv(pg)'
    BY <1>2, OnlyCorpus, RecordKept DEF Alone
  <2>2. QED
    BY <1>2, <2>1, OnlyCorpus, CorpusTypesKept, PermitsKept DEF CorpusInv
<1>3. QED
  BY <1>1, <1>2, PTL DEF Spec

\* A page that was measured keeps its record through every interruption, kill
\* and resumption, and the totals count it once.
THEOREM MeasurementsSurvive == Spec => []NothingMeasuredIsLost
<1>1. CorpusInv => NothingMeasuredIsLost
  BY DEF CorpusInv, RecordInv, NothingMeasuredIsLost
<1>2. QED
  BY <1>1, CorpusInvariant, PTL
-----------------------------------------------------------------------------
(* The upload path.  PathTypeOK falls into the parts of its components.    *)

GuardTypes ==
    /\ declared \in {{}} \cup {{n} : n \in 0..MaxBody}
    /\ guard \in {"waiting", "serving", "done"}
    /\ app \in {"outside", "reading", "answering", "handling", "aborted", "over"}
    /\ received \in 0..MaxBody
    /\ tripped \in BOOLEAN /\ started \in BOOLEAN
    /\ wire \in Seq(Codes)

IntakeTypes ==
    /\ intake \in {"staging", "saving", "too large", "refused", "broken",
                   "accepted", "linked"}
    /\ staged \in Seq(Names) /\ Len(staged) <= MaxFiles
    /\ totalBytes \in Nat /\ membersLeft \in 0..MaxMembers
    /\ extracted \in Nat /\ unpacked \in Nat /\ kept \in Nat
    /\ saved \subseteq Names /\ images \subseteq Names

\* What the invariants say of the sets makes up the rest of the types.
LEMMA PathTypesOf ==
    ASSUME GuardTypes, IntakeTypes, SavedInv, LinksInv
    PROVE  PathTypeOK
<1>1. seenStems \subseteq {Stem[n] : n \in Names}
  BY DEF IntakeTypes, SavedInv
<1>2. disk \subseteq {"input", "images"} \X Names
  BY DEF IntakeTypes, SavedInv
<1>3. /\ declares \in [DOMAIN declares -> Declarable]
      /\ pageCount \in [DOMAIN declares -> 1..MaxPages]
      /\ linked \subseteq saved \X images
  BY DEF LinksInv, link_alto_to_images
<1>4. QED
  BY <1>1, <1>2, <1>3 DEF GuardTypes, IntakeTypes, PathTypeOK, Codes

(* The middleware.                                                         *)

GuardStep ==
    \/ Enter \/ BodyArrives \/ BodyEnds \/ AppEnds \/ Leave \/ Crash
    \/ \E code \in Codes : AppAnswers(code)

\* The one response, from an empty wire.
LEMMA FirstResponse ==
    ASSUME NEW code \in Codes
    PROVE  /\ Append(<<>>, code) = <<code>>
           /\ <<code>> \in Seq(Codes) /\ Len(<<code>>) = 1
OBVIOUS

\* The types of the middleware: the counter stays within the body.
LEMMA GuardTypesKept ==
    ASSUME GuardTypes, GuardInv, GuardStep
    PROVE  GuardTypes'
<1> USE DEF GuardTypes
<1>1. 413 \in Codes /\ 500 \in Codes
  BY DEF Codes
<1>2. ASSUME NEW code \in Codes
      PROVE  Append(wire, code) \in Seq(Codes)
  BY <1>2, AppendProperties
<1>3. CASE Enter
  BY <1>1, <1>2, <1>3 DEF Enter
<1>4. CASE BodyArrives
  <2>1. PICK n \in 1..MaxChunk :
           received + n <= MaxBody /\ received' = received + n
    BY <1>4 DEF BodyArrives
  <2>2. received' \in 0..MaxBody
    BY <2>1, CapAssumption
  <2>3. tripped' \in BOOLEAN
    BY <1>4 DEF BodyArrives
  <2>4. QED
    BY <1>4, <2>2, <2>3 DEF BodyArrives
<1>5. CASE BodyEnds \/ AppEnds
  BY <1>5 DEF BodyEnds, AppEnds
<1>6. CASE Leave \/ Crash
  BY <1>1, <1>2, <1>6 DEF Leave, Crash
<1>7. ASSUME NEW code \in Codes, AppAnswers(code)
      PROVE  GuardTypes'
  BY <1>2, <1>7 DEF AppAnswers, SendStart
<1>8. QED
  BY <1>3, <1>4, <1>5, <1>6, <1>7 DEF GuardStep

\* What is counted and sent: at most one response, and none swallowed that was
\* owed.
LEMMA GuardKept ==
    ASSUME GuardTypes, GuardInv, GuardStep
    PROVE  GuardInv'
<1> USE FirstResponse DEF GuardTypes, GuardInv
<1>1. 413 \in Codes /\ 500 \in Codes
  BY DEF Codes
<1>2. CASE Enter
  BY <1>1, <1>2 DEF Enter
<1>3. CASE BodyArrives
  BY <1>3 DEF BodyArrives
<1>4. CASE BodyEnds \/ AppEnds
  BY <1>4 DEF BodyEnds, AppEnds
<1>5. CASE Leave
  <2>1. CASE tripped /\ ~started
    <3>1. wire' = <<413>>
      BY <1>1, <1>5, <2>1 DEF Leave, OwesAnswer
    <3>2. \E code \in Codes : wire' = <<code>>
      BY <1>1, <3>1
    <3>3. QED
      BY <1>5, <3>1, <3>2 DEF Leave
  <2>2. CASE ~(tripped /\ ~started)
    <3>1. started /\ wire' = wire
      BY <1>5, <2>2 DEF Leave, OwesAnswer
    <3>2. QED
      BY <1>5, <3>1 DEF Leave
  <2>3. QED
    BY <2>1, <2>2
<1>6. CASE Crash
  <2>1. ~tripped /\ ~started /\ wire' = <<500>>
    BY <1>1, <1>6 DEF Crash
  <2>2. \E code \in Codes : wire' = <<code>>
    BY <1>1, <2>1
  <2>3. QED
    BY <1>6, <2>1, <2>2 DEF Crash
<1>7. ASSUME NEW code \in Codes, AppAnswers(code)
      PROVE  GuardInv'
  BY <1>7 DEF AppAnswers, SendStart, Swallows
<1>8. QED
  BY <1>2, <1>3, <1>4, <1>5, <1>6, <1>7 DEF GuardStep

\* Nothing has been read or sent.
LEMMA GuardStarts ==
    GuardInit => GuardTypes /\ GuardInv
<1> SUFFICES ASSUME GuardInit PROVE GuardTypes /\ GuardInv
  OBVIOUS
<1>1. 0 \in 0..MaxBody
  BY CapAssumption
<1>2. <<>> \in Seq(Codes)
  BY EmptySeq
<1>3. QED
  BY <1>1, <1>2 DEF GuardInit, GuardTypes, GuardInv

(* The handler, up to the links.                                           *)

\* Nothing has been staged, saved or linked.
LEMMA IntakeStarts ==
    IntakeInit /\ ImagesInit =>
       IntakeTypes /\ BudgetIsShared /\ SavedInv /\ LinksInv
<1> SUFFICES ASSUME IntakeInit, ImagesInit
             PROVE  IntakeTypes /\ BudgetIsShared /\ SavedInv /\ LinksInv
  OBVIOUS
<1>1. /\ 0 \in 0..MaxMembers /\ 0 <= MaxFiles
      /\ 0 <= Budget /\ 0 <= TotalCap /\ 0 \in Nat
  BY CapsAssumption
<1>2. <<>> \in Seq(Names) /\ Len(<<>>) = 0
  BY EmptySeq
<1>3. IsFiniteSet({}) /\ Cardinality({}) = 0
  BY FS_EmptySet
<1>4. IntakeTypes
  BY <1>1, <1>2 DEF IntakeInit, IntakeTypes
<1>5. BudgetIsShared
  BY <1>1 DEF IntakeInit, BudgetIsShared
<1>6. saved = {} /\ images = {} /\ disk = {} /\ seenStems = {} /\ kept = 0
  BY DEF IntakeInit
<1>7. {Stem[n] : n \in {}} = {} /\ ({"input"} \X {}) \cup ({"images"} \X {}) = {}
  OBVIOUS
<1>8. SavedInv
  BY <1>3, <1>6, <1>7 DEF SavedInv, Distinct
<1>9. LinksInv
  BY DEF IntakeInit, ImagesInit, LinksInv
<1>10. QED
  BY <1>4, <1>5, <1>8, <1>9

\* One more file, whose stem is new.
LEMMA DistinctGrows ==
    ASSUME NEW S, Distinct(S), NEW name, Stem[name] \notin {Stem[n] : n \in S}
    PROVE  Distinct(S \cup {name})
<1> DEFINE T == {Stem[n] : n \in S}
<1>1. /\ IsFiniteSet(S) /\ IsFiniteSet(T) /\ Cardinality(T) = Cardinality(S)
      /\ \A m, n \in S : Stem[m] = Stem[n] => m = n
  BY DEF Distinct
<1>2. name \notin S
  OBVIOUS
<1>3. {Stem[n] : n \in S \cup {name}} = T \cup {Stem[name]}
  OBVIOUS
<1>4. /\ IsFiniteSet(S \cup {name})
      /\ Cardinality(S \cup {name}) = Cardinality(S) + 1
  BY <1>1, <1>2, FS_AddElement
<1>5. Stem[name] \notin T
  OBVIOUS
<1> HIDE DEF T
<1>6. /\ IsFiniteSet(T \cup {Stem[name]})
      /\ Cardinality(T \cup {Stem[name]}) = Cardinality(T) + 1
  BY <1>1, <1>5, FS_AddElement
<1>7. \A m, n \in S \cup {name} : Stem[m] = Stem[n] => m = n
  BY <1>1, <1>5 DEF T
<1>8. QED
  BY <1>1, <1>3, <1>4, <1>6, <1>7 DEF Distinct

\* One more path, which nothing has been written to.
LEMMA DiskGrows ==
    ASSUME SavedInv, NEW path, path \notin disk
    PROVE  /\ IsFiniteSet(disk \cup {path})
           /\ Cardinality(disk \cup {path}) = kept + 1
BY FS_AddElement DEF SavedInv

\* _register_flat_name lets a document pass only if name and stem are new.
LEMMA DocumentKept ==
    ASSUME SavedInv, NEW name, KeepDocument(name)
    PROVE  SavedInv'
<1>1. CASE Clashes(name)
  BY <1>1 DEF KeepDocument, SavedInv
<1>2. CASE ~Clashes(name)
  <2>1. /\ saved' = saved \cup {name} /\ images' = images
        /\ seenStems' = seenStems \cup {Stem[name]}
        /\ disk' = disk \cup {<<"input", name>>} /\ kept' = kept + 1
    BY <1>2 DEF KeepDocument
  <2>2. Stem[name] \notin {Stem[n] : n \in saved} /\ name \notin saved
    BY <1>2 DEF Clashes, SavedInv
  <2>3. Distinct(saved \cup {name})
    BY <2>2, DistinctGrows DEF SavedInv
  <2>4. <<"input", name>> \notin disk
    BY <2>2 DEF SavedInv
  <2>5. IsFiniteSet(disk') /\ Cardinality(disk') = kept'
    BY <2>1, <2>4, DiskGrows
  <2>6. disk' = ({"input"} \X saved') \cup ({"images"} \X images')
    BY <2>1 DEF SavedInv
  <2>7. seenStems' = {Stem[n] : n \in saved'}
    BY <2>1 DEF SavedInv
  <2>8. Distinct(saved)' /\ Distinct(images)'
    BY <2>1, <2>3 DEF SavedInv, Distinct
  <2>9. QED
    BY <2>5, <2>6, <2>7, <2>8 DEF SavedInv
<1>3. QED
  BY <1>1, <1>2

\* An image is kept only if no other image has its stem.
LEMMA ImageKept ==
    ASSUME SavedInv, NEW name, KeepImage(name)
    PROVE  SavedInv'
<1>1. CASE ImageClashes(name)
  BY <1>1 DEF KeepImage, SavedInv
<1>2. CASE ~ImageClashes(name)
  <2>1. /\ images' = images \cup {name} /\ saved' = saved
        /\ seenStems' = seenStems
        /\ disk' = disk \cup {<<"images", name>>} /\ kept' = kept + 1
    BY <1>2 DEF KeepImage
  <2>2. Stem[name] \notin {Stem[n] : n \in images} /\ name \notin images
    BY <1>2 DEF ImageClashes
  <2>3. Distinct(images \cup {name})
    BY <2>2, DistinctGrows DEF SavedInv
  <2>4. <<"images", name>> \notin disk
    BY <2>2 DEF SavedInv
  <2>5. IsFiniteSet(disk') /\ Cardinality(disk') = kept'
    BY <2>1, <2>4, DiskGrows
  <2>6. disk' = ({"input"} \X saved') \cup ({"images"} \X images')
    BY <2>1 DEF SavedInv
  <2>7. Distinct(saved)' /\ Distinct(images)'
    BY <2>1, <2>3 DEF SavedInv, Distinct
  <2>8. QED
    BY <2>1, <2>5, <2>6, <2>7 DEF SavedInv
<1>3. QED
  BY <1>1, <1>2

\* A file is kept or the upload refused.
LEMMA KeepTypes ==
    ASSUME IntakeTypes, NEW name \in Names, KeepDocument(name) \/ KeepImage(name)
    PROVE  /\ intake' \in {intake, "refused"}
           /\ saved' \subseteq Names /\ images' \subseteq Names /\ kept' \in Nat
<1>1. saved \subseteq Names /\ images \subseteq Names /\ kept \in Nat
  BY DEF IntakeTypes
<1>2. CASE KeepDocument(name)
  <2>1. \/ intake' = "refused" /\ UNCHANGED <<saved, images, kept>>
        \/ /\ intake' = intake /\ images' = images
           /\ saved' = saved \cup {name} /\ kept' = kept + 1
    BY <1>2 DEF KeepDocument
  <2>2. QED
    BY <1>1, <2>1
<1>3. CASE KeepImage(name)
  <2>1. \/ intake' = "refused" /\ UNCHANGED <<saved, images, kept>>
        \/ /\ intake' = intake /\ saved' = saved
           /\ images' = images \cup {name} /\ kept' = kept + 1
    BY <1>3 DEF KeepImage
  <2>2. QED
    BY <1>1, <2>1
<1>4. QED
  BY <1>2, <1>3

\* The caps are looked at before anything is counted.
LEMMA BudgetKept ==
    ASSUME IntakeTypes, BudgetIsShared, IntakeNext \/ LinkImages
    PROVE  /\ BudgetIsShared'
           /\ totalBytes' \in Nat /\ extracted' \in Nat /\ unpacked' \in Nat
<1> DEFINE Goal ==
      /\ extracted' \in Nat /\ extracted' <= Budget
      /\ totalBytes' \in Nat /\ totalBytes' <= TotalCap
      /\ unpacked' \in Nat
<1>1. /\ extracted \in Nat /\ extracted <= Budget
      /\ totalBytes \in Nat /\ totalBytes <= TotalCap
      /\ unpacked \in Nat /\ Budget \in Nat /\ TotalCap \in Nat
  BY CapsAssumption DEF IntakeTypes, BudgetIsShared
<1>2. ASSUME \/ AllStaged \/ SaveDocument \/ SkipMember \/ AllSaved
             \/ ArchiveIsBroken \/ LinkImages
      PROVE  Goal
  <2>1. UNCHANGED <<extracted, totalBytes, unpacked>>
    BY <1>2 DEF AllStaged, SaveDocument, SkipMember, AllSaved, ArchiveIsBroken,
                Refuse, LinkImages
  <2>2. QED
    BY <1>1, <2>1
<1>3. ASSUME OpenArchive
      PROVE  Goal
  <2>1. UNCHANGED <<extracted, totalBytes>> /\ unpacked' = 0
    BY <1>3 DEF OpenArchive
  <2>2. QED
    BY <1>1, <2>1
<1>4. ASSUME NEW name \in Names, NEW size \in Sizes, StageFile(name, size)
      PROVE  Goal
  <2>1. size \in Nat
    BY NamesAssumption
  <2>2. UNCHANGED <<extracted, unpacked>>
    BY <1>4 DEF StageFile, Refuse
  <2>3. \/ totalBytes' = totalBytes
        \/ totalBytes' = totalBytes + size /\ ~(totalBytes + size > TotalCap)
    BY <1>4 DEF StageFile, Refuse
  <2>4. QED
    BY <1>1, <2>1, <2>2, <2>3
<1>5. ASSUME NEW name \in Names, NEW size \in Sizes, ExtractMember(name, size)
      PROVE  Goal
  <2>1. size \in Nat
    BY NamesAssumption
  <2>2. \/ UNCHANGED <<extracted, unpacked, totalBytes>>
        \/ /\ extracted' = extracted + size /\ unpacked' = unpacked + size
           /\ totalBytes' = totalBytes /\ ~(size > Budget - extracted)
    BY <1>5 DEF ExtractMember, Refuse, Remaining
  <2>3. QED
    BY <1>1, <2>1, <2>2
<1>6. Goal
  BY <1>2, <1>3, <1>4, <1>5 DEF IntakeNext
<1>7. QED
  BY <1>6 DEF BudgetIsShared

\* The queue of staged files stays within the number of files of an upload.
LEMMA StagedKept ==
    ASSUME IntakeTypes, IntakeNext \/ LinkImages
    PROVE  staged' \in Seq(Names) /\ Len(staged') <= MaxFiles
<1>1. /\ staged \in Seq(Names) /\ Len(staged) <= MaxFiles
      /\ Len(staged) \in Nat /\ MaxFiles \in Nat
  BY LenProperties, CapsAssumption DEF IntakeTypes
<1>2. ASSUME NEW name \in Names, NEW size \in Sizes, StageFile(name, size)
      PROVE  staged' \in Seq(Names) /\ Len(staged') <= MaxFiles
  <2>1. \/ staged' = staged
        \/ staged' = Append(staged, name) /\ Len(staged) < MaxFiles
    BY <1>2 DEF StageFile, Refuse
  <2>2. /\ Append(staged, name) \in Seq(Names)
        /\ Len(Append(staged, name)) = Len(staged) + 1
    BY <1>1, AppendProperties
  <2>3. QED
    BY <1>1, <2>1, <2>2
<1>3. CASE SaveDocument \/ OpenArchive
  <2>1. staged # <<>> /\ staged' = Tail(staged)
    BY <1>3 DEF SaveDocument, OpenArchive
  <2>2. Tail(staged) \in Seq(Names) /\ Len(Tail(staged)) = Len(staged) - 1
    BY <1>1, <2>1, HeadTailProperties
  <2>3. QED
    BY <1>1, <2>1, <2>2
<1>4. CASE AllStaged \/ SkipMember \/ AllSaved \/ ArchiveIsBroken \/ LinkImages
  BY <1>1, <1>4
  DEF AllStaged, SkipMember, AllSaved, ArchiveIsBroken, Refuse, LinkImages
<1>5. ASSUME NEW name \in Names, NEW size \in Sizes, ExtractMember(name, size)
      PROVE  staged' \in Seq(Names) /\ Len(staged') <= MaxFiles
  BY <1>1, <1>5 DEF ExtractMember, Refuse
<1>6. QED
  BY <1>2, <1>3, <1>4, <1>5 DEF IntakeNext

\* The types of the handler, and the caps.
LEMMA IntakeTypesKept ==
    ASSUME IntakeTypes, BudgetIsShared, IntakeNext \/ LinkImages
    PROVE  IntakeTypes' /\ BudgetIsShared'
<1> DEFINE Rest ==
      /\ intake' \in {"staging", "saving", "too large", "refused", "broken",
                      "accepted", "linked"}
      /\ membersLeft' \in 0..MaxMembers /\ kept' \in Nat
      /\ saved' \subseteq Names /\ images' \subseteq Names
<1> SUFFICES Rest
  BY BudgetKept, StagedKept DEF IntakeTypes
<1>1. MaxMembers \in Nat
  BY CapsAssumption
<1>2. CASE AllStaged \/ AllSaved \/ ArchiveIsBroken \/ LinkImages
  BY <1>2 DEF IntakeTypes, AllStaged, AllSaved, ArchiveIsBroken, Refuse, LinkImages
<1>3. CASE SaveDocument
  <2>1. Head(staged) \in Names /\ KeepDocument(Head(staged))
    BY <1>3, HeadTailProperties DEF IntakeTypes, SaveDocument
  <2>2. /\ intake' \in {intake, "refused"} /\ kept' \in Nat
        /\ saved' \subseteq Names /\ images' \subseteq Names
    BY <2>1, KeepTypes
  <2>3. QED
    BY <1>3, <2>2 DEF IntakeTypes, SaveDocument
<1>4. CASE OpenArchive
  <2>1. PICK members \in 0..(MaxMembers + 1), size \in 0..(Budget + 1) :
           IF TooMany(members) \/ size > Remaining
           THEN intake' = "refused" /\ UNCHANGED membersLeft
           ELSE membersLeft' = members /\ UNCHANGED intake
    BY <1>4 DEF OpenArchive
  <2>2. members \in 0..MaxMembers \/ TooMany(members)
    BY <1>1 DEF TooMany
  <2>3. QED
    BY <1>4, <2>1, <2>2 DEF IntakeTypes, OpenArchive
<1>5. CASE SkipMember
  <2>1. membersLeft - 1 \in 0..MaxMembers
    BY <1>1, <1>5 DEF IntakeTypes, SkipMember
  <2>2. QED
    BY <1>5, <2>1 DEF IntakeTypes, SkipMember
<1>6. ASSUME NEW name \in Names, NEW size \in Sizes,
             StageFile(name, size) \/ ExtractMember(name, size)
      PROVE  Rest
  <2>1. CASE StageFile(name, size)
    BY <2>1 DEF IntakeTypes, StageFile, Refuse
  <2>2. CASE ExtractMember(name, size) /\ size > Remaining
    BY <2>2 DEF IntakeTypes, ExtractMember, Refuse
  <2>3. CASE ExtractMember(name, size) /\ ~(size > Remaining)
    <3>1. membersLeft - 1 \in 0..MaxMembers
      BY <1>1, <2>3 DEF IntakeTypes, ExtractMember
    <3>2. KeepDocument(name) \/ KeepImage(name)
      BY <2>3 DEF ExtractMember
    <3>3. /\ intake' \in {intake, "refused"} /\ kept' \in Nat
          /\ saved' \subseteq Names /\ images' \subseteq Names
      BY <3>2, KeepTypes
    <3>4. QED
      BY <2>3, <3>1, <3>3 DEF IntakeTypes, ExtractMember
  <2>4. QED
    BY <1>6, <2>1, <2>2, <2>3
<1>7. QED
  BY <1>2, <1>3, <1>4, <1>5, <1>6 DEF IntakeNext

\* Every step of the handler keeps what is saved apart.
LEMMA SavedKept ==
    ASSUME SavedInv, IntakeNext \/ LinkImages
    PROVE  SavedInv'
<1>1. CASE UNCHANGED <<saved, seenStems, images, disk, kept>>
  BY <1>1 DEF SavedInv, Distinct
<1>2. CASE SaveDocument
  <2>1. KeepDocument(Head(staged))
    BY <1>2 DEF SaveDocument
  <2>2. QED
    BY <2>1, DocumentKept
<1>3. ASSUME NEW name \in Names, NEW size \in Sizes, ExtractMember(name, size),
             ~UNCHANGED <<saved, seenStems, images, disk, kept>>
      PROVE  SavedInv'
  <2>1. KeepDocument(name) \/ KeepImage(name)
    BY <1>3 DEF ExtractMember, Refuse
  <2>2. QED
    BY <2>1, DocumentKept, ImageKept
<1>4. ASSUME NEW name \in Names, NEW size \in Sizes, StageFile(name, size)
      PROVE  UNCHANGED <<saved, seenStems, images, disk, kept>>
  BY <1>4 DEF StageFile, Refuse
<1>5. ASSUME \/ AllStaged \/ OpenArchive \/ SkipMember \/ ArchiveIsBroken
             \/ AllSaved \/ LinkImages
      PROVE  UNCHANGED <<saved, seenStems, images, disk, kept>>
  BY <1>5 DEF AllStaged, OpenArchive, SkipMember, ArchiveIsBroken, Refuse,
              AllSaved, LinkImages
<1>6. QED
  BY <1>1, <1>2, <1>3, <1>4, <1>5 DEF IntakeNext

\* The links are made once, from the files that are there for good.
LEMMA LinksKept ==
    ASSUME LinksInv, (IntakeNext /\ UNCHANGED imageVars) \/ LinkImages
    PROVE  LinksInv'
<1>1. CASE LinkImages
  <2>1. PICK named \in [saved -> Declarable] :
           declares' = named /\ linked' = link_alto_to_images(named)
    BY <1>1 DEF LinkImages
  <2>2. /\ UNCHANGED <<saved, images>> /\ intake' = "linked"
        /\ pageCount' \in [saved -> 1..MaxPages]
    BY <1>1 DEF LinkImages
  <2>3. linked' = link_alto_to_images(declares)'
    BY <2>1, <2>2 DEF link_alto_to_images, ImageKey
  <2>4. declares' \in [saved' -> Declarable']
    BY <2>1, <2>2 DEF Declarable
  <2>5. QED
    BY <2>2, <2>3, <2>4 DEF LinksInv
<1>2. CASE IntakeNext /\ UNCHANGED imageVars
  <2>1. intake # "linked" /\ intake' # "linked"
    <3>1. CASE SaveDocument
      BY <3>1 DEF SaveDocument, KeepDocument
    <3>2. CASE AllStaged \/ OpenArchive \/ SkipMember
      BY <3>2 DEF AllStaged, OpenArchive, SkipMember
    <3>3. CASE ArchiveIsBroken \/ AllSaved
      BY <3>3 DEF ArchiveIsBroken, Refuse, AllSaved
    <3>4. ASSUME NEW name \in Names, NEW size \in Sizes,
                 StageFile(name, size) \/ ExtractMember(name, size)
          PROVE  intake # "linked" /\ intake' # "linked"
      BY <3>4 DEF StageFile, ExtractMember, Refuse, KeepDocument, KeepImage
    <3>5. QED
      BY <1>2, <3>1, <3>2, <3>3, <3>4 DEF IntakeNext
  <2>2. QED
    BY <1>2, <2>1 DEF LinksInv, imageVars, Declarable
<1>3. QED
  BY <1>1, <1>2

(* The whole path.                                                         *)

\* Whatever the outcome of the handler, its status is one of those listed.
LEMMA AnswersAreCodes == Answers \subseteq Codes
<1>1. CASE intake = "staging" /\ staged = <<>>
  <2>1. Answers = {400, 413, 422, 503}
    BY <1>1 DEF Answers
  <2>2. QED
    BY <2>1 DEF Codes
<1>2. CASE intake = "linked"
  <2>1. Answers = {200, 503}
    BY <1>2 DEF Answers
  <2>2. QED
    BY <2>1 DEF Codes
<1>3. CASE intake \in {"too large", "refused", "accepted"}
  <2>1. intake = "too large" => Answers = {413}
    BY DEF Answers
  <2>2. intake = "refused" => Answers = {400}
    BY DEF Answers
  <2>3. intake = "accepted" => Answers = {400}
    BY DEF Answers
  <2>4. {413} \subseteq Codes /\ {400} \subseteq Codes
    BY DEF Codes
  <2>5. Answers = {413} \/ Answers = {400}
    BY <1>3, <2>1, <2>2, <2>3, Zenon
  <2>6. QED
    BY <2>4, <2>5
<1>4. CASE /\ ~(intake = "staging" /\ staged = <<>>)
           /\ intake \notin {"linked", "too large", "refused", "accepted"}
  <2>1. Answers = {}
    BY <1>4 DEF Answers
  <2>2. QED
    BY <2>1
<1>5. QED
  BY <1>1, <1>2, <1>3, <1>4

\* The parts of the invariant, and steps that leave one side alone.
LEMMA PathParts ==
    /\ PathTypeOK => GuardTypes /\ IntakeTypes
    /\ UNCHANGED guardVars /\ GuardTypes /\ GuardInv => GuardTypes' /\ GuardInv'
    /\ UNCHANGED <<intakeVars, imageVars>>
          /\ IntakeTypes /\ BudgetIsShared /\ SavedInv /\ LinksInv
       => (IntakeTypes /\ BudgetIsShared /\ SavedInv /\ LinksInv)'
<1>1. PathTypeOK => GuardTypes /\ IntakeTypes
  BY DEF PathTypeOK, GuardTypes, IntakeTypes, Codes
<1>2. UNCHANGED guardVars /\ GuardTypes /\ GuardInv => GuardTypes' /\ GuardInv'
  BY DEF guardVars, GuardTypes, GuardInv, Codes
<1>3. UNCHANGED <<intakeVars, imageVars>> /\ IntakeTypes /\ BudgetIsShared
      => IntakeTypes' /\ BudgetIsShared'
  BY DEF intakeVars, imageVars, IntakeTypes, BudgetIsShared
<1>4. UNCHANGED <<intakeVars, imageVars>> /\ SavedInv => SavedInv'
  BY DEF intakeVars, imageVars, SavedInv, Distinct
<1>5. UNCHANGED <<intakeVars, imageVars>> /\ LinksInv => LinksInv'
  BY DEF intakeVars, imageVars, LinksInv, link_alto_to_images, ImageKey, Declarable
<1>6. QED
  BY <1>1, <1>2, <1>3, <1>4, <1>5

\* A step is one of the middleware or one of the handler, which share nothing
\* but the outcome.
LEMMA PathSteps ==
    PathInv /\ [PathNext]_pathVars => PathInv'
<1> SUFFICES ASSUME PathInv, [PathNext]_pathVars PROVE PathInv'
  OBVIOUS
<1>1. /\ GuardTypes /\ GuardInv
      /\ IntakeTypes /\ BudgetIsShared /\ SavedInv /\ LinksInv
  BY PathParts DEF PathInv
<1>2. \/ GuardStep /\ UNCHANGED <<intakeVars, imageVars>>
      \/ UNCHANGED guardVars /\ ((IntakeNext /\ UNCHANGED imageVars) \/ LinkImages)
      \/ UNCHANGED pathVars
  <2>1. CASE Transport \/ HandlerAnswers
    BY <2>1, AnswersAreCodes DEF Transport, HandlerAnswers, GuardStep, Codes
  <2>2. CASE Handle
    BY <2>2 DEF Handle
  <2>3. QED
    BY <2>1, <2>2 DEF PathNext
<1>3. GuardTypes' /\ GuardInv'
  BY <1>1, <1>2, GuardTypesKept, GuardKept, PathParts DEF pathVars
<1>4. (IntakeTypes /\ BudgetIsShared /\ SavedInv /\ LinksInv)'
  <2>1. CASE (IntakeNext /\ UNCHANGED imageVars) \/ LinkImages
    BY <1>1, <2>1, IntakeTypesKept, SavedKept, LinksKept
  <2>2. CASE UNCHANGED <<intakeVars, imageVars>>
    BY <1>1, <2>2, PathParts
  <2>3. QED
    BY <1>2, <2>1, <2>2 DEF pathVars
<1>5. PathTypeOK'
  <2>1. seenStems' \subseteq {Stem[n] : n \in Names}
    BY <1>4 DEF IntakeTypes, SavedInv
  <2>2. disk' \subseteq {"input", "images"} \X Names
    BY <1>4 DEF IntakeTypes, SavedInv
  <2>3. /\ declares' \in [DOMAIN declares' -> Declarable]
        /\ pageCount' \in [DOMAIN declares' -> 1..MaxPages]
        /\ linked' \subseteq saved' \X images'
    BY <1>4 DEF LinksInv, link_alto_to_images, Declarable
  <2>4. QED
    BY <1>3, <1>4, <2>1, <2>2, <2>3
    DEF GuardTypes, IntakeTypes, PathTypeOK, Codes, Declarable
<1>6. QED
  BY <1>3, <1>4, <1>5 DEF PathInv

\* A step of the files of a job is a step of the upload path or none.
LEMMA OnlyPath ==
    /\ Init => PathInit
    /\ [Next]_vars => [PathNext]_pathVars
BY DEF Init, Next, vars

\* Middleware and handler start in the invariant.
LEMMA PathStarts == PathInit => PathInv
<1> SUFFICES ASSUME PathInit PROVE PathInv
  OBVIOUS
<1>1. GuardTypes /\ GuardInv
  BY GuardStarts DEF PathInit
<1>2. IntakeTypes /\ BudgetIsShared /\ SavedInv /\ LinksInv
  BY IntakeStarts DEF PathInit
<1>3. QED
  BY <1>1, <1>2, PathTypesOf DEF PathInv

\* Middleware, intake and links keep their invariants in every reachable state,
\* for any names, stems, sizes and caps.
THEOREM PathInvariant == Spec => []PathInv
<1>1. Init => PathInv
  BY PathStarts, OnlyPath
<1>2. PathInv /\ [Next]_vars => PathInv'
  BY PathSteps, OnlyPath
<1>3. QED
  BY <1>1, <1>2, PTL DEF Spec

\* One response and never two, for any order in which the body arrives, the
\* counter trips and the application answers, crashes or listens on.
THEOREM RespondsOnce == Spec => []OneResponse
<1>1. PathInv => OneResponse
  <2> SUFFICES ASSUME PathInv PROVE OneResponse
    OBVIOUS
  <2>1. \A code \in Codes : Len(<<code>>) = 1
    BY FirstResponse
  <2>2. wire = <<>> \/ \E code \in Codes : wire = <<code>>
    BY DEF PathInv, GuardInv
  <2>3. Len(wire) <= 1
    <3>1. Len(<<>>) = 0 /\ 0 <= 1 /\ 1 <= 1
      OBVIOUS
    <3>2. QED
      BY <2>1, <2>2, <3>1
  <2>4. guard = "done" => Len(wire) = 1
    BY <2>1 DEF PathInv, GuardInv
  <2>5. QED
    BY <2>3, <2>4 DEF PathInv, GuardInv, OneResponse
<1>2. QED
  BY <1>1, PathInvariant, PTL

\* No file of an upload replaces another one, on disk or under the stem that
\* names its outputs.
THEOREM InputsAreKept == Spec => []EveryInputIsKept
<1>1. PathInv => EveryInputIsKept
  BY DEF PathInv, SavedInv, Distinct, EveryInputIsKept
<1>2. QED
  BY <1>1, PathInvariant, PTL

\* One budget of decompressed bytes for all the archives of an upload.
THEOREM BudgetHolds == Spec => []BudgetIsShared
<1>1. PathInv => BudgetIsShared
  BY DEF PathInv
<1>2. QED
  BY <1>1, PathInvariant, PTL

\* A page that shows an image asks for it by name or is its namesake.
LEMMA ShowsItsOwn ==
    ASSUME PathInv, NEW image \in images, NEW page \in PagesShowing(image)
    PROVE  /\ intake = "linked" /\ page[1] \in saved
           /\ pageCount[page[1]] = 1 /\ page = <<page[1], 1>>
           /\ Stem[image] \in declares[page[1]] \/ Stem[image] = Stem[page[1]]
<1>1. PICK doc \in DOMAIN pageCount :
         image \in LayoutImage(doc) /\ page \in {doc} \X (1..pageCount[doc])
  BY DEF PagesShowing
<1>2. intake = "linked" /\ linked = link_alto_to_images(declares) /\ doc \in saved
  BY <1>1 DEF PathInv, LinksInv
<1>3. <<doc, image>> \in linked /\ pageCount[doc] = 1
  BY <1>1 DEF LayoutImage, OnePage
<1>4. page[1] = doc /\ page = <<doc, 1>>
  BY <1>1, <1>3
<1>5. Stem[image] \in ImageKey(declares, doc)
  BY <1>2, <1>3 DEF link_alto_to_images
<1>6. Stem[image] \in declares[doc] \/ Stem[image] = Stem[doc]
  BY <1>5 DEF ImageKey
<1>7. QED
  BY <1>2, <1>3, <1>4, <1>6

\* No page is judged against the scan of another one.
THEOREM ScansMatchPages == Spec => []ScanIsOfItsPage
<1>1. PathInv => ScanIsOfItsPage
  <2> SUFFICES ASSUME PathInv, NEW image \in images
               PROVE  /\ \A one, other \in PagesShowing(image) :
                            one # other =>
                               /\ one[1] # other[1]
                               /\ Stem[image]
                                     \in declares[one[1]] \cup declares[other[1]]
                      /\ \A page \in PagesShowing(image) :
                            /\ \/ Stem[image] \in declares[page[1]]
                               \/ image \in VisionImage(page[1])
                            /\ <<"images", image>> \in disk
    BY DEF ScanIsOfItsPage
  <2>1. ASSUME NEW one \in PagesShowing(image),
               NEW other \in PagesShowing(image), one # other
        PROVE  /\ one[1] # other[1]
               /\ Stem[image] \in declares[one[1]] \cup declares[other[1]]
    <3>1. one[1] # other[1]
      BY <2>1, ShowsItsOwn
    <3>2. one[1] \in saved /\ other[1] \in saved
      BY ShowsItsOwn
    <3>3. Stem[one[1]] # Stem[other[1]]
      BY <3>1, <3>2 DEF PathInv, SavedInv, Distinct
    <3>4. /\ Stem[image] \in declares[one[1]] \/ Stem[image] = Stem[one[1]]
          /\ Stem[image] \in declares[other[1]] \/ Stem[image] = Stem[other[1]]
      BY ShowsItsOwn
    <3>5. QED
      BY <3>1, <3>3, <3>4
  <2>2. ASSUME NEW page \in PagesShowing(image)
        PROVE  /\ \/ Stem[image] \in declares[page[1]]
                  \/ image \in VisionImage(page[1])
               /\ <<"images", image>> \in disk
    <3>1. Stem[image] \in declares[page[1]] \/ Stem[image] = Stem[page[1]]
      BY ShowsItsOwn
    <3>2. <<"images", image>> \in disk
      BY DEF PathInv, SavedInv
    <3>3. QED
      BY <3>1, <3>2 DEF VisionImage
  <2>3. QED
    BY <2>1, <2>2
<1>2. QED
  BY <1>1, PathInvariant, PTL
-----------------------------------------------------------------------------
\* Every variable of the four parts keeps its type; with it the counters stay
\* within their bounds: slots, permits, members left in an archive.
THEOREM TypeCorrect == Spec => []TypeOK
<1>1. AdmissionInv /\ PathInv /\ PublicationInv /\ CorpusInv => TypeOK
  BY DEF AdmissionInv, PathInv, PublicationInv, CorpusInv, TypeOK
<1>2. QED
  BY <1>1, AdmissionInvariant, PathInvariant, PublicationInvariant,
     CorpusInvariant, PTL
=============================================================================
