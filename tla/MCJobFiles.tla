----------------------------- MODULE MCJobFiles -----------------------------
(* Three uploads for two slots and one run at a time: one is refused, two  *)
(* race for the run.  Files that share a stem in different letter case or  *)
(* under different suffixes, and archives that may hold any of them twice. *)
(* Two corrected files and the trace: the smallest set that can be         *)
(* promoted, rolled back and removed in part, under two downloads.  Two    *)
(* corpus pages that share a label, one alone, one without its scan.       *)
EXTENDS JobFiles, TLC

CONSTANTS p1, p2, p3, f1, f2, trace, d1, d2

MCPosts == {p1, p2, p3}
MCSymmetry == Permutations(MCPosts)

MCKind == [aXml |-> "document", aAlto |-> "document", bXml |-> "document",
           aPng |-> "image", aTif |-> "image", zip |-> "archive"]
MCStem == [aXml |-> "a", aAlto |-> "a", bXml |-> "b",
           aPng |-> "a", aTif |-> "a", zip |-> "zip"]
MCNames == DOMAIN MCKind

MCLabel == [v1p1 |-> "l1", w1p1 |-> "l1", v1p2 |-> "l2", v1p3 |-> "l3"]
MCCorpus == DOMAIN MCLabel

MCXmlFiles == {f1, f2}
MCDownloads == {d1, d2}
=============================================================================
