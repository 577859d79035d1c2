--------------------------- MODULE MCJobLifecycle ---------------------------
(* Two jobs, so that creation, capacity, cancellation and shutdown of one   *)
(* job interleave with the life of another, and one or two cancel requests *)
(* at a time.                                                              *)
EXTENDS JobLifecycle

CONSTANTS j1, j2, r1, r2

MCJobs == {j1, j2}
MCRequests == {r1, r2}
MCOneRequest == {r1}
=============================================================================
