----------------------------- MODULE CorpusArms -----------------------------
(***************************************************************************)
(* tools/run_corpus_arms.py: one arm over a corpus.  Every page gets a     *)
(* task, the tasks share a semaphore, and each ends by writing one record; *)
(* a page whose record exists is not run again, which is how an            *)
(* interrupted arm resumes.  The tool may be interrupted, or killed while  *)
(* it writes.                                                              *)
(***************************************************************************)
EXTENDS FiniteSets, Naturals

CONSTANTS
    Corpus,       \* the pages find_pages returns
    Label,        \* the label of a page; nothing makes it unique
    Scanless,     \* pages without the image the arm wants
    Concurrency

ASSUME CorpusAssumption ==
    /\ DOMAIN Label = Corpus
    /\ Scanless \subseteq Corpus
    /\ Concurrency \in Nat

VARIABLES
    task,      \* where each page's run_one stands; "none" between two runs
    permits,   \* the semaphore
    result,    \* the page measured in the record file of each label, as a set
    torn,      \* labels whose record file was cut: json.loads refuses it
    answer,    \* the page whose record run_one returned; {} if None
    measured   \* history: pages whose record was written to its end

corpusVars == <<task, permits, result, torn, answer, measured>>

Labels == {Label[pg] : pg \in Corpus}

CorpusInit ==
    /\ task = [pg \in Corpus |-> "none"]
    /\ permits = Concurrency
    /\ result = [l \in Labels |-> {}]
    /\ torn = {}
    /\ answer = [pg \in Corpus |-> {}]
    /\ measured = {}

-----------------------------------------------------------------------------
(* Seeded fault; no part of the specification.                             *)

\* run_one without its look at the record.
AlwaysMeasures(pg) == FALSE
-----------------------------------------------------------------------------
Goes(pg, where) ==
    /\ task' = [task EXCEPT ![pg] = where]
    /\ UNCHANGED answer

Returns(pg, pages) ==
    /\ task' = [task EXCEPT ![pg] = "done"]
    /\ answer' = [answer EXCEPT ![pg] = pages]

\* main: gather() makes a task of every page.
Begin ==
    /\ \A pg \in Corpus : task[pg] = "none"
    /\ task' = [pg \in Corpus |-> "new"]
    /\ permits' = Concurrency
    /\ answer' = [pg \in Corpus |-> {}]
    /\ UNCHANGED <<result, torn, measured>>

\* target.exists()
HasRecord(pg) == result[Label[pg]] # {} \/ Label[pg] \in torn

\* The first step of a task, up to the semaphore; gather() keeps what the
\* reading of a torn record raises.
Look(pg) ==
    /\ task[pg] = "new"
    /\ \/ /\ HasRecord(pg)
          /\ IF Label[pg] \in torn THEN Goes(pg, "raised")
             ELSE Returns(pg, result[Label[pg]])
       \/ /\ ~HasRecord(pg)
          /\ IF pg \in Scanless THEN Returns(pg, {}) ELSE Goes(pg, "waiting")
    /\ UNCHANGED <<permits, result, torn, measured>>

Acquire(pg) ==
    /\ task[pg] = "waiting"
    /\ permits > 0
    /\ permits' = permits - 1
    /\ Goes(pg, "running")
    /\ UNCHANGED <<result, torn, measured>>

\* JobRunner.run has settled the job, whatever its status; no await from
\* there to the record, which replaces what the file of the label holds.
WriteRecord(pg) ==
    /\ task[pg] = "running"
    /\ permits' = permits + 1
    /\ result' = [result EXCEPT ![Label[pg]] = {pg}]
    /\ torn' = torn \ {Label[pg]}
    /\ measured' = measured \cup {pg}
    /\ Returns(pg, {pg})

\* The manifest or an image cannot be read.
RunRaises(pg) ==
    /\ task[pg] = "running"
    /\ permits' = permits + 1
    /\ Goes(pg, "raised")
    /\ UNCHANGED <<result, torn, measured>>

\* The tool has summed up and ends, or it is interrupted at an await.
Stop ==
    /\ \E pg \in Corpus : task[pg] # "none"
    /\ task' = [pg \in Corpus |-> "none"]
    /\ UNCHANGED <<permits, result, torn, answer, measured>>

\* It is killed while write_text, which has truncated the file, writes it.
KilledWriting(pg) ==
    /\ task[pg] = "running"
    /\ task' = [p \in Corpus |-> "none"]
    /\ result' = [result EXCEPT ![Label[pg]] = {}]
    /\ torn' = torn \cup {Label[pg]}
    /\ UNCHANGED <<permits, answer, measured>>

CorpusNext ==
    \/ Begin
    \/ Stop
    \/ \E pg \in Corpus :
          \/ Look(pg) \/ Acquire(pg) \/ WriteRecord(pg) \/ RunRaises(pg)
          \/ KilledWriting(pg)
-----------------------------------------------------------------------------
CorpusTypeOK ==
    /\ task \in [Corpus -> {"none", "new", "waiting", "running", "done",
                        "raised"}]
    /\ permits \in 0..Concurrency
    /\ result \in [Labels -> SUBSET Corpus]
    /\ torn \subseteq Labels
    /\ answer \in [Corpus -> SUBSET Corpus]
    /\ measured \subseteq Corpus

Alone(pg) == \A other \in Corpus \ {pg} : Label[other] # Label[pg]

\* "An interrupted run resumes and nothing measured is lost": through every
\* interruption, kill and resumption a page that was measured keeps its record,
\* and the totals of a run that reaches its end count that record once and
\* take none for another page's.  The exception the code makes: pages that
\* share a label.
NothingMeasuredIsLost ==
    \A pg \in Corpus : Alone(pg) =>
        /\ pg \in measured => result[Label[pg]] = {pg}
        /\ task[pg] = "done" => answer[pg] \subseteq {pg}
        /\ pg \in measured /\ task[pg] \in {"done", "raised"} => answer[pg] = {pg}
=============================================================================
