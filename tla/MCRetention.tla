---------------------------- MODULE MCRetention -----------------------------
(* Two jobs under a cap of one, and a TTL of two ticks, so that expiry and *)
(* excess occur together; two readers at a time, two lines.  One verdict:  *)
(* a save is told from none, and the lines tell two saves apart.           *)
EXTENDS Retention

CONSTANTS j1, j2, r1, r2, l1, l2, v1

MCJobs == {j1, j2}
MCRequests == {r1, r2}
MCLines == {l1, l2}
MCVerdicts == {v1}
=============================================================================
