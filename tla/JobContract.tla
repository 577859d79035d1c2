----------------------------- MODULE JobContract ----------------------------
(***************************************************************************)
(* What the server promises about a correction job, whatever happens in    *)
(* between: an accepted job is settled at most once, its outputs become    *)
(* available in the same step as its success and never otherwise, and they *)
(* stay available exactly as long as the server still answers for the job. *)
(***************************************************************************)
CONSTANT Jobs

VARIABLES
    outcome,    \* what the server answers about a job
    available   \* jobs whose complete set of outputs a client may download

contractVars == <<outcome, available>>

Settled == { "succeeded", "failed", "cancelled" }

ContractInit ==
    /\ outcome = [j \in Jobs |-> "unknown"]
    /\ available = {}

Accept(j) ==
    /\ outcome[j] = "unknown"
    /\ outcome' = [outcome EXCEPT ![j] = "pending"]
    /\ UNCHANGED available

\* The creation is rolled back.
Withdraw(j) ==
    /\ outcome[j] = "pending"
    /\ outcome' = [outcome EXCEPT ![j] = "forgotten"]
    /\ UNCHANGED available

Succeed(j) ==
    /\ outcome[j] = "pending"
    /\ outcome' = [outcome EXCEPT ![j] = "succeeded"]
    /\ available' = available \cup {j}

Fail(j, how) ==
    /\ outcome[j] = "pending"
    /\ outcome' = [outcome EXCEPT ![j] = how]
    /\ UNCHANGED available

\* Eviction, or the end of the process.
Forget(j) ==
    /\ outcome[j] \in Settled
    /\ outcome' = [outcome EXCEPT ![j] = "forgotten"]
    /\ available' = available \ {j}

ContractNext ==
    \E j \in Jobs :
        \/ Accept(j)
        \/ Withdraw(j)
        \/ Succeed(j)
        \/ \E how \in {"failed", "cancelled"} : Fail(j, how)
        \/ Forget(j)

ContractSpec == ContractInit /\ [][ContractNext]_contractVars
=============================================================================
