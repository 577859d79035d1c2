------------------------- MODULE OutputPublication --------------------------
(***************************************************************************)
(* The files of one job: FilesystemOutputWriter stages them, commit()      *)
(* promotes them one by one, and GET /download reads the output directory, *)
(* while timeouts, I/O errors, eviction and a kill of the process may come *)
(* between any two file operations.  JobLifecycle sees all of this as the  *)
(* atomic Promote and CleanUpDisk.                                         *)
(*                                                                         *)
(* commit() and the listing of a download are event-loop code; staging     *)
(* writes, zipping and rmtree run in worker threads.                       *)
(***************************************************************************)
EXTENDS JobStatus, FiniteSets, Naturals

CONSTANTS
    XmlFiles,   \* the files a run can produce: <stem>_corrected.xml
    Trace,      \* trace.json
    Downloads   \* GET /download requests

ASSUME TraceAssumption == Trace \notin XmlFiles

VARIABLES
    status,      \* the job's status in the store, or Absent
    produced,    \* CorrectionResult.corrected_files: withheld files are out
    writer,      \* where the run stands
    inThread,    \* the file a worker thread is writing, as a set
    staging,     \* the files of .staging
    final,       \* the files of the output directory
    promoted,    \* commit()'s list of promoted files
    stuck,       \* history: an unlink of the rollback has failed
    cleaning,    \* an rmtree of the job directory is under way
    download,    \* the state of each download
    toRead,      \* the listed files each download has not read yet
    got,         \* the files in the archive of each download
    overtaken    \* history: downloads during which the job was evicted

runVars == <<produced, writer, inThread, promoted, stuck>>
readVars == <<download, toRead, got, overtaken>>
publicationVars == <<status, produced, writer, inThread, staging, final,
                     promoted, stuck, cleaning, download, toRead,
                     got, overtaken>>

All == produced \cup {Trace}

PublicationInit ==
    /\ status = Absent
    /\ produced \in SUBSET XmlFiles
    /\ writer = "idle"
    /\ inThread = {}
    /\ staging = {}
    /\ final = {}
    /\ promoted = {}
    /\ stuck = FALSE
    /\ cleaning = FALSE
    /\ download = [d \in Downloads |-> "away"]
    /\ toRead = [d \in Downloads |-> {}]
    /\ got = [d \in Downloads |-> {}]
    /\ overtaken = {}

-----------------------------------------------------------------------------
(* Seeded faults; no part of the specification.                            *)

\* /download without its guard on the status.
ServeAnyStatus(seen) == TRUE

\* commit() without its rollback.
NothingToUndo == {}

\* The terminal status before the commit.
SucceedsEarly == writer \in { "committing", "promoted" }
-----------------------------------------------------------------------------
(* The run: staging, commit, discard.                                      *)

\* JobRunner.run is scheduled.
Start ==
    /\ writer = "idle"
    /\ status' = "running"
    /\ writer' = "writing"
    /\ UNCHANGED <<produced, inThread, staging, final, promoted, stuck,
                   cleaning, readVars>>

\* asyncio.to_thread(write_corrected / write_trace), one file at a time.
StartWrite(f) ==
    /\ writer = "writing"
    /\ inThread = {}
    /\ f \in All \ staging
    /\ inThread' = {f}
    /\ UNCHANGED <<status, produced, writer, staging, final, promoted, stuck,
                   cleaning, readVars>>

\* The thread makes the staging directory if need be, and writes.  Nobody can
\* stop it: it does so even if the run has ended in the meantime.
WriteLands ==
    /\ inThread # {}
    /\ staging' = staging \cup inThread
    /\ inThread' = {}
    /\ UNCHANGED <<status, produced, writer, final, promoted, stuck, cleaning,
                   readVars>>

\* discard(), the failed status, and the end of the run.  The rmtree of
\* discard() ignores errors: what it may leave in staging no download sees.
Fail ==
    /\ staging' = {}
    /\ status' = "failed"
    /\ writer' = "done"

\* Any failure before the commit: the pipeline, a write, the timeout, a
\* cancellation or the shutdown.  A write in a thread is not waited for.
RunFails ==
    /\ writer = "writing"
    /\ Fail
    /\ UNCHANGED <<produced, inThread, final, promoted, stuck, cleaning,
                   readVars>>

BeginCommit ==
    /\ writer = "writing"
    /\ inThread = {}
    /\ staging = All
    /\ writer' = "committing"
    /\ promoted' = {}
    /\ UNCHANGED <<status, produced, inThread, staging, final, stuck, cleaning,
                   readVars>>

\* os.replace of one staged file.
PromoteOne(f) ==
    /\ writer = "committing"
    /\ f \in staging
    /\ staging' = staging \ {f}
    /\ final' = final \cup {f}
    /\ promoted' = promoted \cup {f}
    /\ writer' = IF staging = {f} THEN "promoted" ELSE writer
    /\ UNCHANGED <<status, produced, inThread, stuck, cleaning, readVars>>

\* os.replace raises: the except clause takes what is promoted back.
TakeBack ==
    /\ writer' = "unpromoting"
    /\ UNCHANGED promoted

PromotionFails ==
    /\ writer = "committing"
    /\ TakeBack
    /\ UNCHANGED <<status, produced, inThread, staging, final, stuck, cleaning,
                   readVars>>

\* One dest.unlink(), whose own failure is ignored.
ToUndo == promoted

UndoOne(f) ==
    /\ writer = "unpromoting"
    /\ f \in ToUndo
    /\ promoted' = promoted \ {f}
    /\ \/ final' = final \ {f} /\ UNCHANGED stuck
       \/ stuck' = TRUE /\ UNCHANGED final
    /\ UNCHANGED <<status, produced, writer, inThread, staging, cleaning,
                   readVars>>

RollbackEnds ==
    /\ writer = "unpromoting"
    /\ ToUndo = {}
    /\ Fail
    /\ UNCHANGED <<produced, inThread, final, promoted, stuck, cleaning,
                   readVars>>

\* staging.rmdir() is outside the try: its failure fails the run, and leaves
\* the promoted files where they are.
RmdirFails ==
    /\ writer = "promoted"
    /\ Fail
    /\ UNCHANGED <<produced, inThread, final, promoted, stuck, cleaning,
                   readVars>>

\* The successful terminal status follows the commit.
MaySucceed == writer = "promoted"

Succeed ==
    /\ MaySucceed
    /\ status' = "completed"
    /\ writer' = "done"
    /\ UNCHANGED <<produced, inThread, staging, final, promoted, stuck,
                   cleaning, readVars>>
-----------------------------------------------------------------------------
(* Eviction, and the death of the process.                                 *)

Open == { d \in Downloads : download[d] \in {"admitted", "zipping"} }

\* The record goes first; cleanup_job removes the directory tree afterwards.
Evict ==
    /\ status \in TerminalStates
    /\ status' = Absent
    /\ cleaning' = TRUE
    /\ overtaken' = overtaken \cup Open
    /\ UNCHANGED <<runVars, staging, final, download, toRead, got>>

\* rmtree unlinks one file.
RemoveOne(f) ==
    /\ cleaning
    /\ f \in final \cup staging
    /\ final' = final \ {f}
    /\ staging' = staging \ {f}
    /\ UNCHANGED <<status, runVars, cleaning, readVars>>

\* rmtree is done, or raises an error that _cleanup_disk only logs.
CleanUpEnds ==
    /\ cleaning
    /\ cleaning' = FALSE
    /\ UNCHANGED <<status, runVars, staging, final, readVars>>

\* The process is killed between any two steps.  The store, the threads and
\* the connections are gone; the disk stays as it is.
Kill ==
    /\ writer \notin {"idle", "killed"}
    /\ status' = Absent
    /\ writer' = "killed"
    /\ inThread' = {}
    /\ promoted' = {}
    /\ cleaning' = FALSE
    /\ download' = [d \in Downloads |->
                       IF d \in Open THEN "broken" ELSE download[d]]
    /\ UNCHANGED <<produced, staging, final, stuck, toRead, got,
                   overtaken>>

\* reclaim_orphans, before the new process serves anything.  The errors of its
\* rmtree are ignored, and what is left belongs to no job any more.
Restart ==
    /\ writer = "killed"
    /\ staging' \in SUBSET staging
    /\ final' \in SUBSET final
    /\ writer' = "done"
    /\ UNCHANGED <<status, produced, inThread, promoted, stuck, cleaning,
                   readVars>>
-----------------------------------------------------------------------------
(* GET /api/jobs/{id}/download.                                            *)

\* The event loop is free: it does not yield during commit().
LoopIsFree == writer \notin {"committing", "promoted", "unpromoting", "killed"}

\* get_output_files: the trace and the hidden staging directory are left out.
Listed == final \cap XmlFiles

\* The guard on the snapshot the access dependency took in its thread.
Downloadable(seen) == seen \in TerminalSuccessStates

RefuseDownload(d) == download' = [download EXCEPT ![d] = "refused"]

Admit(d) ==
    /\ download[d] = "away"
    /\ status # Absent
    /\ IF Downloadable(status)
       THEN download' = [download EXCEPT ![d] = "admitted"]
       ELSE RefuseDownload(d)
    /\ UNCHANGED <<status, runVars, staging, final, cleaning, toRead, got,
                   overtaken>>

\* The directory is listed, once; an empty listing is a 404.
List(d) ==
    /\ download[d] = "admitted"
    /\ LoopIsFree
    /\ IF Listed = {}
       THEN RefuseDownload(d) /\ UNCHANGED toRead
       ELSE /\ download' = [download EXCEPT ![d] = "zipping"]
            /\ toRead' = [toRead EXCEPT ![d] = Listed]
    /\ UNCHANGED <<status, runVars, staging, final, cleaning, got, overtaken>>

\* One listed file is read in a thread; one that has vanished is an error.
ReadOne(d, f) ==
    /\ download[d] = "zipping"
    /\ f \in toRead[d]
    /\ toRead' = [toRead EXCEPT ![d] = @ \ {f}]
    /\ IF f \in final
       THEN got' = [got EXCEPT ![d] = @ \cup {f}] /\ UNCHANGED download
       ELSE download' = [download EXCEPT ![d] = "broken"] /\ UNCHANGED got
    /\ UNCHANGED <<status, runVars, staging, final, cleaning, overtaken>>

Serve(d) ==
    /\ download[d] = "zipping"
    /\ toRead[d] = {}
    /\ download' = [download EXCEPT ![d] = "served"]
    /\ UNCHANGED <<status, runVars, staging, final, cleaning, toRead, got,
                   overtaken>>
-----------------------------------------------------------------------------
PublicationNext ==
    \/ Start
    \/ WriteLands
    \/ RunFails
    \/ BeginCommit
    \/ PromotionFails
    \/ RollbackEnds
    \/ RmdirFails
    \/ Succeed
    \/ Evict
    \/ CleanUpEnds
    \/ Kill
    \/ Restart
    \/ \E f \in XmlFiles \cup {Trace} :
          StartWrite(f) \/ PromoteOne(f) \/ UndoOne(f) \/ RemoveOne(f)
    \/ \E d \in Downloads :
          \/ Admit(d) \/ List(d) \/ Serve(d)
          \/ \E f \in XmlFiles \cup {Trace} : ReadOne(d, f)
-----------------------------------------------------------------------------
(* Properties.                                                             *)

PublicationTypeOK ==
    /\ status \in JobStatuses \cup {Absent}
    /\ produced \subseteq XmlFiles
    /\ writer \in { "idle", "writing", "committing", "promoted", "unpromoting",
                    "done", "killed" }
    /\ inThread \subseteq All /\ Cardinality(inThread) <= 1
    /\ staging \subseteq All
    /\ final \subseteq All
    /\ promoted \subseteq All
    /\ stuck \in BOOLEAN
    /\ cleaning \in BOOLEAN
    /\ download \in [Downloads ->
           {"away", "admitted", "zipping", "served", "refused", "broken"}]
    /\ toRead \in [Downloads -> SUBSET XmlFiles]
    /\ got \in [Downloads -> SUBSET XmlFiles]
    /\ overtaken \subseteq Downloads

\* What is served is the whole set, for as long as nobody evicts the job.
ServedIsComplete ==
    \A d \in Downloads :
        download[d] = "served" => got[d] = produced \/ d \in overtaken

\* commit(): all or nothing on any error, unless the file system also refuses
\* to take the promoted files back.
AllOrNothing == status = "failed" /\ ~stuck => final \in {{}, All}

\* What a client learns of the job from its record.
Outcome(seen, run) ==
    CASE seen = Absent /\ run = "idle" -> "unknown"
      [] seen = Absent /\ run # "idle" -> "forgotten"
      [] seen = "running" -> "pending"
      [] seen = "completed" -> "succeeded"
      [] OTHER -> "failed"

\* The outputs count while the guard of download_job lets a client have them.
Published == IF Downloadable(status) /\ final = All THEN {"job"} ELSE {}

Contract == INSTANCE JobContract WITH
    Jobs <- {"job"},
    outcome <- [j \in {"job"} |-> Outcome(status, writer)],
    available <- Published

\* The multi-file commit and the multi-file removal look atomic from outside,
\* through crashes and I/O errors alike.
ImplementsContract == Contract!ContractSpec

\* run(): a client that sees the status can always download the complete,
\* committed set.
ServedIsAlwaysComplete ==
    \A d \in Downloads : download[d] = "served" => got[d] = produced
=============================================================================
