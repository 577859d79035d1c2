----------------------- MODULE OutputPublicationProofs -----------------------
(***************************************************************************)
(* Proofs about OutputPublication, for any set of output files and of      *)
(* downloads.  The component runs as one part of JobFiles, so the theorems *)
(* are about the specification of that module: a step of it is a step of   *)
(* the publication or leaves its variables alone.                          *)
(***************************************************************************)
EXTENDS JobFiles, FiniteSetTheorems, TLAPS

(* The parts of the inductive invariant.                                   *)

\* Where the run stands and what the store says of it go together; a removal
\* is under way only once the run is over and its record gone.
RunInv ==
    /\ status \in {"running", "completed", "failed", Absent}
    /\ writer = "idle" => status = Absent
    /\ writer \in {"writing", "committing", "promoted", "unpromoting"}
          <=> status = "running"
    /\ writer = "killed" => status = Absent /\ inThread = {}
    /\ cleaning => status = Absent /\ writer = "done"

\* What the output directory holds at each stage of the commit.
FilesInv ==
    /\ writer \in {"idle", "writing"} => final = {} /\ promoted = {}
    /\ writer \in {"idle", "writing", "committing", "promoted"} => ~stuck
    /\ writer = "committing" => final = promoted /\ staging \cup final = All
    /\ writer = "promoted" => final = All
    /\ writer = "unpromoting" /\ ~stuck => final \subseteq promoted
    /\ status = "completed" => final = All
    /\ status = "failed" /\ ~stuck => final \in {{}, All}

\* What a download that no eviction has overtaken has collected so far.
DownloadInv(d) ==
    /\ download[d] \in {"away", "admitted"} => got[d] = {}
    /\ d \notin overtaken =>
          /\ download[d] \in {"admitted", "zipping"} => status = "completed"
          /\ download[d] = "zipping" => got[d] \cup toRead[d] = produced
          /\ download[d] = "served" => got[d] = produced

PublicationInv ==
    /\ PublicationTypeOK
    /\ RunInv
    /\ FilesInv
    /\ \A d \in Downloads : DownloadInv(d)
-----------------------------------------------------------------------------
\* The thread writes no file or one: the only cardinality of the model.
LEMMA ThreadCounts ==
    \A S : S = {} \/ (\E f : S = {f}) => Cardinality(S) <= 1
<1>1. Cardinality({}) = 0
  BY FS_EmptySet
<1>2. \A f : Cardinality({f}) = 1
  BY FS_Singleton
<1>3. 0 <= 1 /\ 1 <= 1
  OBVIOUS
<1>4. ASSUME NEW S, S = {} PROVE Cardinality(S) <= 1
  BY <1>1, <1>3, <1>4
<1>5. ASSUME NEW S, NEW f, S = {f} PROVE Cardinality(S) <= 1
  BY <1>2, <1>3, <1>5
<1>6. QED
  BY <1>4, <1>5

\* The run has not started, and nothing is on disk.
LEMMA PublicationStarts == PublicationInit => PublicationInv
<1> SUFFICES ASSUME PublicationInit PROVE PublicationInv
  OBVIOUS
<1>1. PublicationTypeOK
  BY ThreadCounts DEF PublicationInit, PublicationTypeOK, JobStatuses, All
<1>2. RunInv
  BY DEF PublicationInit, RunInv, Absent
<1>3. FilesInv
  BY DEF PublicationInit, FilesInv, Absent
<1>4. \A d \in Downloads : DownloadInv(d)
  BY DEF PublicationInit, DownloadInv
<1>5. QED
  BY <1>1, <1>2, <1>3, <1>4 DEF PublicationInv

(* One lemma per kind of step: the run, the removal, the downloads.        *)

\* A step that no download takes keeps what the downloads have, as long as it
\* does not take a completed job away from them.
LEMMA DownloadsKept ==
    ASSUME PublicationInv, UNCHANGED <<readVars, produced>>,
           status' = status \/ status # "completed"
    PROVE  \A d \in Downloads : DownloadInv(d)'
BY DEF PublicationInv, DownloadInv, readVars

RunStep ==
    \/ Start \/ WriteLands \/ RunFails \/ BeginCommit \/ PromotionFails
    \/ RollbackEnds \/ RmdirFails \/ Succeed
    \/ \E f \in XmlFiles \cup {Trace} :
          StartWrite(f) \/ PromoteOne(f) \/ UndoOne(f)

\* The types, through staging, commit and rollback.
LEMMA RunKeepsTypes ==
    ASSUME PublicationInv, RunStep
    PROVE  PublicationTypeOK'
<1> USE ThreadCounts DEF PublicationInv, PublicationTypeOK, JobStatuses,
        TerminalStates, readVars, All
<1>1. CASE Start \/ WriteLands
  BY <1>1 DEF Start, WriteLands
<1>2. CASE RunFails \/ RollbackEnds \/ RmdirFails
  BY <1>2 DEF RunFails, RollbackEnds, RmdirFails, Fail
<1>3. CASE BeginCommit
  BY <1>3 DEF BeginCommit
<1>4. CASE PromotionFails
  BY <1>4 DEF PromotionFails, TakeBack
<1>5. CASE Succeed
  BY <1>5 DEF Succeed, MaySucceed, TerminalSuccessStates
<1>6. ASSUME NEW f \in XmlFiles \cup {Trace}, StartWrite(f)
      PROVE  PublicationTypeOK'
  BY <1>6 DEF StartWrite
<1>7. ASSUME NEW f \in XmlFiles \cup {Trace}, PromoteOne(f)
      PROVE  PublicationTypeOK'
  BY <1>7 DEF PromoteOne
<1>8. ASSUME NEW f \in XmlFiles \cup {Trace}, UndoOne(f)
      PROVE  PublicationTypeOK'
  BY <1>8 DEF UndoOne, ToUndo
<1>9. QED
  BY <1>1, <1>2, <1>3, <1>4, <1>5, <1>6, <1>7, <1>8 DEF RunStep

\* The record follows the run.
LEMMA RunKeepsRun ==
    ASSUME PublicationInv, RunStep
    PROVE  RunInv'
<1> USE DEF PublicationInv, RunInv, Absent
<1>1. CASE Start \/ WriteLands \/ BeginCommit
  BY <1>1 DEF Start, WriteLands, BeginCommit
<1>2. CASE RunFails \/ RollbackEnds \/ RmdirFails
  BY <1>2 DEF RunFails, RollbackEnds, RmdirFails, Fail
<1>3. CASE PromotionFails \/ Succeed
  BY <1>3 DEF PromotionFails, TakeBack, Succeed, MaySucceed
<1>4. ASSUME NEW f \in XmlFiles \cup {Trace},
             StartWrite(f) \/ PromoteOne(f) \/ UndoOne(f)
      PROVE  RunInv'
  BY <1>4 DEF StartWrite, PromoteOne, UndoOne
<1>5. QED
  BY <1>1, <1>2, <1>3, <1>4 DEF RunStep

\* The output directory follows the commit, one file at a time.
LEMMA RunKeepsFiles ==
    ASSUME PublicationInv, RunStep
    PROVE  FilesInv'
<1> USE DEF PublicationInv, PublicationTypeOK, RunInv, FilesInv, Absent, All
<1>1. CASE Start \/ WriteLands
  BY <1>1 DEF Start, WriteLands
<1>2. CASE RunFails \/ RmdirFails
  BY <1>2 DEF RunFails, RmdirFails, Fail
<1>3. CASE RollbackEnds
  BY <1>3 DEF RollbackEnds, ToUndo, Fail
<1>4. CASE BeginCommit
  BY <1>4 DEF BeginCommit
<1>5. CASE PromotionFails \/ Succeed
  BY <1>5 DEF PromotionFails, TakeBack, Succeed, MaySucceed
<1>6. ASSUME NEW f \in XmlFiles \cup {Trace}, StartWrite(f)
      PROVE  FilesInv'
  BY <1>6 DEF StartWrite
<1>7. ASSUME NEW f \in XmlFiles \cup {Trace}, PromoteOne(f)
      PROVE  FilesInv'
  BY <1>7 DEF PromoteOne
<1>8. ASSUME NEW f \in XmlFiles \cup {Trace}, UndoOne(f)
      PROVE  FilesInv'
  BY <1>8 DEF UndoOne, ToUndo
<1>9. QED
  BY <1>1, <1>2, <1>3, <1>4, <1>5, <1>6, <1>7, <1>8 DEF RunStep

\* The run changes nothing a download has, and takes no completed job away.
LEMMA RunKeepsInv ==
    ASSUME PublicationInv, RunStep
    PROVE  PublicationInv'
<1>1. UNCHANGED <<readVars, produced>>
  BY DEF RunStep, Start, WriteLands, RunFails, BeginCommit, PromotionFails,
         RollbackEnds, RmdirFails, Succeed, StartWrite, PromoteOne, UndoOne
<1>2. status' = status \/ status # "completed"
  <2>1. CASE writer = "idle" \/ status = "running"
    BY <2>1 DEF PublicationInv, RunInv, Absent
  <2>2. CASE ~(writer = "idle" \/ status = "running")
    BY <2>2 DEF PublicationInv, RunInv, RunStep, Start, WriteLands, RunFails,
                BeginCommit, PromotionFails, RollbackEnds, RmdirFails, Succeed,
                MaySucceed, StartWrite, PromoteOne, UndoOne
  <2>3. QED
    BY <2>1, <2>2
<1>3. QED
  BY <1>1, <1>2, RunKeepsTypes, RunKeepsRun, RunKeepsFiles, DownloadsKept
  DEF PublicationInv

\* Eviction, the death of the process, and what they leave to be removed.
RemovalStep ==
    \/ Evict \/ CleanUpEnds \/ Kill \/ Restart
    \/ \E f \in XmlFiles \cup {Trace} : RemoveOne(f)

\* Files leave only once the record has: no download that began later, and
\* none that was not overtaken, can see it.
LEMMA RemovalKeepsInv ==
    ASSUME PublicationInv, RemovalStep
    PROVE  PublicationInv'
<1> USE DEF PublicationInv, Absent, runVars, readVars
<1>1. PublicationTypeOK'
  <2> USE ThreadCounts DEF PublicationTypeOK, All
  <2>1. CASE Evict \/ CleanUpEnds
    BY <2>1 DEF Evict, CleanUpEnds, Open
  <2>2. CASE Kill
    BY <2>2 DEF Kill, Open
  <2>3. CASE Restart
    BY <2>3 DEF Restart
  <2>4. ASSUME NEW f \in XmlFiles \cup {Trace}, RemoveOne(f)
        PROVE  PublicationTypeOK'
    BY <2>4 DEF RemoveOne
  <2>5. QED
    BY <2>1, <2>2, <2>3, <2>4 DEF RemovalStep
<1>2. RunInv' /\ FilesInv'
  <2> USE DEF PublicationTypeOK, RunInv, FilesInv, All
  <2>1. CASE Evict
    BY <2>1 DEF Evict, TerminalStates, TerminalSuccessStates
  <2>2. CASE CleanUpEnds
    BY <2>2 DEF CleanUpEnds
  <2>3. CASE Kill
    BY <2>3 DEF Kill
  <2>4. CASE Restart
    BY <2>4 DEF Restart
  <2>5. ASSUME NEW f \in XmlFiles \cup {Trace}, RemoveOne(f)
        PROVE  RunInv' /\ FilesInv'
    BY <2>5 DEF RemoveOne
  <2>6. QED
    BY <2>1, <2>2, <2>3, <2>4, <2>5 DEF RemovalStep
<1>3. \A d \in Downloads : DownloadInv(d)'
  <2>1. CASE Evict
    BY <2>1 DEF Evict, DownloadInv, Open
  <2>2. CASE Kill
    BY <2>2 DEF Kill, DownloadInv, Open, PublicationTypeOK
  <2>3. CASE CleanUpEnds \/ Restart
    BY <2>3, DownloadsKept DEF CleanUpEnds, Restart
  <2>4. ASSUME NEW f \in XmlFiles \cup {Trace}, RemoveOne(f)
        PROVE  \A d \in Downloads : DownloadInv(d)'
    BY <2>4, DownloadsKept DEF RemoveOne
  <2>5. QED
    BY <2>1, <2>2, <2>3, <2>4 DEF RemovalStep
<1>4. QED
  BY <1>1, <1>2, <1>3

\* A download reads what the run has published, and disturbs nothing else.
DownloadStep ==
    \E d \in Downloads :
       \/ Admit(d) \/ List(d) \/ Serve(d)
       \/ \E f \in XmlFiles \cup {Trace} : ReadOne(d, f)

\* What a completed job lists is what it produced, without the trace.
LEMMA CompletedIsListed ==
    ASSUME PublicationInv, status = "completed"
    PROVE  Listed = produced
BY TraceAssumption
DEF PublicationInv, PublicationTypeOK, FilesInv, Listed, All

\* A download that sees a completed job lists the whole set, and finds each
\* file it has listed.
LEMMA DownloadKeepsInv ==
    ASSUME PublicationInv, DownloadStep
    PROVE  PublicationInv'
<1>1. PICK d \in Downloads :
         \/ Admit(d) \/ List(d) \/ Serve(d)
         \/ \E f \in XmlFiles \cup {Trace} : ReadOne(d, f)
  BY DEF DownloadStep
<1>2. UNCHANGED <<status, runVars, staging, final, cleaning, overtaken>>
  BY <1>1 DEF Admit, List, Serve, ReadOne
<1>3. RunInv' /\ FilesInv'
  BY <1>2 DEF PublicationInv, RunInv, FilesInv, All, runVars
<1>4. /\ download' \in [Downloads ->
             {"away", "admitted", "zipping", "served", "refused", "broken"}]
      /\ toRead' \in [Downloads -> SUBSET XmlFiles]
      /\ got' \in [Downloads -> SUBSET XmlFiles]
  <2> USE DEF PublicationInv, PublicationTypeOK
  <2>1. CASE Admit(d) \/ Serve(d)
    BY <2>1 DEF Admit, Serve, RefuseDownload
  <2>2. CASE List(d)
    BY <2>2 DEF List, Listed, RefuseDownload
  <2>3. ASSUME NEW f \in XmlFiles \cup {Trace}, ReadOne(d, f)
        PROVE  /\ download' \in [Downloads ->
                    {"away", "admitted", "zipping", "served", "refused", "broken"}]
               /\ toRead' \in [Downloads -> SUBSET XmlFiles]
               /\ got' \in [Downloads -> SUBSET XmlFiles]
    <3>1. f \in XmlFiles
      BY <2>3 DEF ReadOne
    <3>2. QED
      BY <2>3, <3>1 DEF ReadOne
  <2>4. QED
    BY <1>1, <2>1, <2>2, <2>3
<1>5. PublicationTypeOK'
  BY <1>2, <1>4 DEF PublicationInv, PublicationTypeOK, All, runVars
<1>6. ASSUME NEW e \in Downloads
      PROVE  DownloadInv(e)'
  <2> USE DEF DownloadInv, PublicationInv, PublicationTypeOK, runVars
  <2>1. CASE e # d
    BY <1>1, <1>2, <2>1 DEF Admit, List, Serve, ReadOne, RefuseDownload
  <2>2. CASE e = d /\ Admit(d)
    BY <2>2 DEF Admit, Downloadable, TerminalSuccessStates, RefuseDownload,
                RunInv, Absent
  <2>3. CASE e = d /\ List(d)
    BY <2>3, CompletedIsListed DEF List, RefuseDownload
  <2>4. CASE e = d /\ Serve(d)
    BY <2>4 DEF Serve
  <2>5. ASSUME NEW f \in XmlFiles \cup {Trace}, e = d, ReadOne(d, f)
        PROVE  DownloadInv(e)'
    BY <2>5 DEF ReadOne
  <2>6. QED
    BY <1>1, <2>1, <2>2, <2>3, <2>4, <2>5
<1>7. QED
  BY <1>3, <1>5, <1>6 DEF PublicationInv

\* Every step keeps the invariant.
LEMMA PublicationSteps ==
    PublicationInv /\ [PublicationNext]_publicationVars => PublicationInv'
<1> SUFFICES ASSUME PublicationInv, [PublicationNext]_publicationVars
             PROVE  PublicationInv'
  OBVIOUS
<1>1. CASE PublicationNext
  <2>1. RunStep \/ RemovalStep \/ DownloadStep
    BY <1>1 DEF PublicationNext, RunStep, RemovalStep, DownloadStep
  <2>2. QED
    BY <2>1, RunKeepsInv, RemovalKeepsInv, DownloadKeepsInv
<1>2. CASE UNCHANGED publicationVars
  BY <1>2 DEF publicationVars, PublicationInv, PublicationTypeOK, RunInv,
              FilesInv, DownloadInv, All
<1>3. QED
  BY <1>1, <1>2

\* A step of the files of a job is a step of the publication or none.
LEMMA OnlyPublication ==
    /\ Init => PublicationInit
    /\ [Next]_vars => [PublicationNext]_publicationVars
BY DEF Init, Next, vars
-----------------------------------------------------------------------------
\* Record, run, files and downloads agree in every reachable state, for any set
\* of files and downloads.
THEOREM PublicationInvariant == Spec => []PublicationInv
<1>1. Init => PublicationInv
  BY PublicationStarts, OnlyPublication
<1>2. PublicationInv /\ [Next]_vars => PublicationInv'
  BY PublicationSteps, OnlyPublication
<1>3. QED
  BY <1>1, <1>2, PTL DEF Spec

\* What a client is served is the whole committed set of files, in whatever
\* order promotion, rollback, eviction, kill and reading interleave, unless
\* the job was evicted during the download.
THEOREM DownloadsAreComplete == Spec => []ServedIsComplete
<1>1. PublicationInv => ServedIsComplete
  BY DEF PublicationInv, DownloadInv, ServedIsComplete
<1>2. QED
  BY <1>1, PublicationInvariant, PTL

\* A failed run has published everything or nothing, wherever between two
\* renames or two unlinks it failed.
THEOREM CommitIsAtomic == Spec => []AllOrNothing
<1>1. PublicationInv => AllOrNothing
  BY DEF PublicationInv, FilesInv, AllOrNothing
<1>2. QED
  BY <1>1, PublicationInvariant, PTL

-----------------------------------------------------------------------------
(* The refinement.                                                         *)

\* The outcome of each status.
LEMMA OutcomeValues ==
    \A run :
       /\ Outcome(Absent, "idle") = "unknown"
       /\ run # "idle" => Outcome(Absent, run) = "forgotten"
       /\ Outcome("running", run) = "pending"
       /\ Outcome("completed", run) = "succeeded"
       /\ Outcome("failed", run) = "failed"
BY DEF Outcome, Absent

\* The contract is about a set of jobs, of which there is one here.
LEMMA OneJob ==
    \A old, new :
       /\ [j \in {"job"} |-> old]["job"] = old
       /\ [[j \in {"job"} |-> old] EXCEPT !["job"] = new]
             = [j \in {"job"} |-> new]
OBVIOUS

ContractStep ==
    Contract!ContractNext
    \/ UNCHANGED <<[j \in {"job"} |-> Outcome(status, writer)], Published>>

\* What a client may download is the complete set of a completed job.
LEMMA OnlyCompletedPublished ==
    ASSUME status \in {"running", "completed", "failed", Absent},
           status' \in {"running", "completed", "failed", Absent}
    PROVE  /\ status # "completed" => Published = {}
           /\ status' # "completed" => Published' = {}
           /\ status' = "completed" /\ final' = All' => Published' = {"job"}
BY DEF Published, Downloadable, TerminalSuccessStates, Absent

\* A step of the run is one of the contract: acceptance, success, failure, or
\* none while files are staged, promoted and taken back.
LEMMA RunImplements ==
    ASSUME PublicationInv, RunStep
    PROVE  ContractStep
<1> USE OutcomeValues, OneJob DEF PublicationInv, RunInv
<1>0. RunInv'
  BY RunKeepsRun
<1>1. CASE Start
  <2>1. Published = {} /\ Published' = {}
    BY <1>0, <1>1, OnlyCompletedPublished DEF Start, Absent
  <2>2. Contract!Accept("job")
    BY <1>1, <2>1 DEF Start, Contract!Accept
  <2>3. QED
    BY <2>2 DEF ContractStep, Contract!ContractNext
<1>2. CASE RunFails \/ RollbackEnds \/ RmdirFails
  <2>1. status = "running" /\ status' = "failed"
    BY <1>2 DEF RunFails, RollbackEnds, RmdirFails, Fail
  <2>2. Contract!Fail("job", "failed")
    BY <2>1, OnlyCompletedPublished DEF Contract!Fail
  <2>3. QED
    BY <2>2 DEF ContractStep, Contract!ContractNext
<1>3. CASE Succeed
  <2>1. status = "running" /\ status' = "completed"
    BY <1>3 DEF Succeed, MaySucceed
  <2>2. final' = All'
    BY <1>3 DEF Succeed, MaySucceed, FilesInv, All
  <2>3. Published = {} /\ Published' = {"job"}
    BY <2>1, <2>2, OnlyCompletedPublished
  <2>4. Contract!Succeed("job")
    BY <2>1, <2>3 DEF Contract!Succeed
  <2>5. QED
    BY <2>4 DEF ContractStep, Contract!ContractNext
<1>4. CASE WriteLands
  BY <1>4 DEF WriteLands, ContractStep, Published, All
<1>5. CASE \/ BeginCommit \/ PromotionFails
           \/ \E f \in XmlFiles \cup {Trace} :
                 StartWrite(f) \/ PromoteOne(f) \/ UndoOne(f)
  <2>1. status = "running" /\ status' = "running"
    BY <1>5 DEF BeginCommit, PromotionFails, StartWrite, PromoteOne, UndoOne
  <2>2. QED
    BY <2>1, OnlyCompletedPublished DEF ContractStep
<1>6. QED
  BY <1>1, <1>2, <1>3, <1>4, <1>5 DEF RunStep

\* Eviction forgets the job, a kill withdraws or forgets it, and the removal of
\* its files is about a job that is forgotten already.
LEMMA RemovalImplements ==
    ASSUME PublicationInv, RemovalStep
    PROVE  ContractStep
<1> USE OutcomeValues, OneJob DEF PublicationInv, RunInv
<1>1. Published \subseteq {"job"}
  BY DEF Published
<1>2. CASE Evict
  <2>1. /\ status \in {"completed", "failed"} /\ writer # "idle"
        /\ status' = Absent /\ writer' = writer
    BY <1>2 DEF Evict, TerminalStates, TerminalSuccessStates, Absent, runVars
  <2>2. Published' = {}
    BY <2>1, OnlyCompletedPublished DEF Absent
  <2>3. Contract!Forget("job")
    BY <1>1, <2>1, <2>2 DEF Contract!Forget, Contract!Settled
  <2>4. QED
    BY <2>3 DEF ContractStep, Contract!ContractNext
<1>3. CASE Kill
  <2>1. writer # "idle" /\ status' = Absent /\ writer' # "idle"
    BY <1>3 DEF Kill
  <2>2. Published' = {}
    BY <2>1, OnlyCompletedPublished DEF Absent
  <2>3. CASE status = "running"
    <3>1. Published = {}
      BY <2>1, <2>3, OnlyCompletedPublished
    <3>2. Contract!Withdraw("job")
      BY <2>1, <2>2, <2>3, <3>1 DEF Contract!Withdraw
    <3>3. QED
      BY <3>2 DEF ContractStep, Contract!ContractNext
  <2>4. CASE status \in {"completed", "failed"}
    <3>1. Contract!Forget("job")
      BY <1>1, <2>1, <2>2, <2>4 DEF Contract!Forget, Contract!Settled
    <3>2. QED
      BY <3>1 DEF ContractStep, Contract!ContractNext
  <2>5. CASE status = Absent
    <3>1. Published = {}
      BY <2>1, <2>5, OnlyCompletedPublished DEF Absent
    <3>2. QED
      BY <2>1, <2>2, <2>5, <3>1 DEF ContractStep
  <2>6. QED
    BY <2>3, <2>4, <2>5
<1>4. CASE CleanUpEnds \/ Restart \/ \E f \in XmlFiles \cup {Trace} : RemoveOne(f)
  <2>1. /\ status = Absent /\ writer # "idle"
        /\ status' = Absent /\ writer' # "idle"
    BY <1>4 DEF CleanUpEnds, Restart, RemoveOne, runVars
  <2>2. Published = {} /\ Published' = {}
    BY <2>1, OnlyCompletedPublished DEF Absent
  <2>3. QED
    BY <2>1, <2>2 DEF ContractStep
<1>5. QED
  BY <1>2, <1>3, <1>4 DEF RemovalStep

\* The multi-file commit and the multi-file removal implement the atomic
\* contract of a job: its outputs appear in the same step as its success, and
\* stay until the server has forgotten the job.
THEOREM PublicationRefines == Spec => ImplementsContract
<1> DEFINE CVars == <<[j \in {"job"} |-> Outcome(status, writer)], Published>>
<1>1. Init => Contract!ContractInit
  <2>1. ASSUME PublicationInit
        PROVE  Outcome(status, writer) = "unknown" /\ Published = {}
    BY <2>1, OutcomeValues
    DEF PublicationInit, Published, Downloadable, TerminalSuccessStates, Absent
  <2>2. QED
    BY <2>1, OnlyPublication DEF Contract!ContractInit
<1>2. ASSUME PublicationInv, [Next]_vars
      PROVE  Contract!ContractNext \/ UNCHANGED CVars
  <2>1. CASE PublicationNext
    <3>1. RunStep \/ RemovalStep \/ DownloadStep
      BY <2>1 DEF PublicationNext, RunStep, RemovalStep, DownloadStep
    <3>2. CASE RunStep \/ RemovalStep
      BY <1>2, <3>2, RunImplements, RemovalImplements DEF ContractStep
    <3>3. CASE DownloadStep
      BY <3>3
      DEF DownloadStep, Admit, List, Serve, ReadOne, runVars, Published, All
    <3>4. QED
      BY <3>1, <3>2, <3>3
  <2>2. CASE UNCHANGED publicationVars
    BY <2>2 DEF publicationVars, Published, All
  <2>3. QED
    BY <1>2, <2>1, <2>2, OnlyPublication
<1>3. QED
  BY <1>1, <1>2, PublicationInvariant, PTL
  DEF Spec, ImplementsContract, Contract!ContractSpec, Contract!contractVars
=============================================================================
