------------------------------ MODULE JobFiles ------------------------------
(***************************************************************************)
(* What becomes of the files of a job: the admission of uploads, one       *)
(* upload's way to the input directory, the outputs of one run, and the    *)
(* records of the tool that runs jobs over a corpus.  The four share no    *)
(* state (each sees the others as single steps), so a behaviour is one of  *)
(* them, with the others at rest.                                          *)
(***************************************************************************)
EXTENDS JobAdmission, UploadPath, OutputPublication, CorpusArms

VARIABLE part   \* the one that moves

vars == <<admissionVars, pathVars, publicationVars, corpusVars, part>>

Init ==
    /\ AdmissionInit /\ PathInit /\ PublicationInit /\ CorpusInit
    /\ part \in {"admission", "path", "publication", "corpus"}
    /\ part = "path" \/ declared = {}
    /\ part = "publication" \/ produced = {}

Next ==
    /\ \/ /\ part = "admission"
          /\ AdmissionNext
          /\ UNCHANGED <<pathVars, publicationVars, corpusVars>>
       \/ /\ part = "path"
          /\ PathNext
          /\ UNCHANGED <<admissionVars, publicationVars, corpusVars>>
       \/ /\ part = "publication"
          /\ PublicationNext
          /\ UNCHANGED <<admissionVars, pathVars, corpusVars>>
       \/ /\ part = "corpus"
          /\ CorpusNext
          /\ UNCHANGED <<admissionVars, pathVars, publicationVars>>
    /\ UNCHANGED part

Spec == Init /\ [][Next]_vars

TypeOK ==
    AdmissionTypeOK /\ PathTypeOK /\ PublicationTypeOK /\ CorpusTypeOK
=============================================================================
