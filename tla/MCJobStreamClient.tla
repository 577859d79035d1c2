------------------------- MODULE MCJobStreamClient -------------------------
(* Two jobs one after the other, ending in a success of either kind or in a *)
(* failure, and one manual reconnection in addition.                       *)
EXTENDS JobStreamClient

CONSTANTS a, b

MCJobs == {a, b}
MCEndings == {"completed_with_withheld_files", "failed"}
=============================================================================
