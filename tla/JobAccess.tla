----------------------------- MODULE JobAccess ------------------------------
(***************************************************************************)
(* Who may read a job's result.  Every endpoint wants the capability token *)
(* of the job in a header; where a browser cannot send one, for the <img>  *)
(* of a scan, a link signed for one job, one purpose and a short time      *)
(* does.  The key is drawn when the process starts, and the jobs die with  *)
(* it.  The purpose of the links below is "images".                        *)
(***************************************************************************)
EXTENDS Naturals

CONSTANTS
    MaxJobs,    \* bound: jobs of the session, numbered in order of creation
    Lifetime,   \* _IMAGE_SIG_TTL_SECONDS, in the unit of the clock
    MaxNow      \* bound: the last instant

ASSUME LifetimeAssumption == Lifetime \in Nat
ASSUME AccessBoundsAssumption == MaxJobs \in Nat /\ MaxNow \in Nat

VARIABLES
    stored,     \* the jobs in the store
    now         \* time.time()

accessVars == <<stored, now>>

Jobs == 1..MaxJobs
NoLink == [exp |-> 0, mac |-> <<>>]

AccessInit ==
    /\ stored = {}
    /\ now = 0

-----------------------------------------------------------------------------
(* Helpers.                                                                *)

\* _mac.  Different inputs give different values.
Mac(j, exp) == <<j, exp>>

\* sign_url_credential.
Sign(j) ==
    LET exp == now + Lifetime
    IN  [exp |-> exp, mac |-> Mac(j, exp)]

\* verify_url_credential.
Verifies(j, link) ==
    /\ link # NoLink
    /\ now <= link.exp
    /\ link.mac = Mac(j, link.exp)

\* require_job_access, for a caller with the token of `owner`.  An unknown
\* job and a wrong token get the same 404.
MayAccess(j, owner) == j \in stored /\ owner = j

\* require_job_access_signed, for a caller with nothing but a link.
MayFollow(j, link) == j \in stored /\ Verifies(j, link)
-----------------------------------------------------------------------------
(* What happens to the server and to its clock.                            *)

StoreJob(j) == stored' = stored \cup {j}

\* Expiry of the TTL, or the cap on terminal jobs: Retention says when.
EvictJob(j) ==
    /\ j \in stored
    /\ stored' = stored \ {j}
    /\ UNCHANGED now

\* The process dies and another takes its place, with an empty store.  Its
\* key is a new one, which no link of a stored job was signed with.
RestartServer ==
    /\ stored # {}
    /\ stored' = {}
    /\ UNCHANGED now

Tick ==
    /\ now < MaxNow
    /\ now' = now + 1
    /\ UNCHANGED stored

AccessTypeOK ==
    /\ stored \subseteq Jobs
    /\ now \in 0..MaxNow
=============================================================================
