---------------------------- MODULE UploadIntake ----------------------------
(***************************************************************************)
(* What POST /api/jobs does with the files of one upload: it streams them  *)
(* to a staging directory under a cap per file and a cap per request, then *)
(* save_uploaded_files moves them to the input directory and unpacks the   *)
(* archives, whose members are flattened to their base names and share one *)
(* budget of decompressed bytes.                                           *)
(*                                                                         *)
(* A file is its base name and its size; Kind and Stem say what the code   *)
(* derives from the name.  The client chooses every name and size, and the *)
(* sizes an archive declares need not be the sizes of its members.         *)
(***************************************************************************)
EXTENDS FiniteSets, Naturals, Sequences

CONSTANTS
    Names,       \* base names of uploaded files and of archive members
    Kind,        \* "document", "image", "archive" or "other": the suffix
    Stem,        \* the stem in lower case
    Sizes,       \* sizes of files and members
    MaxFiles,    \* _MAX_UPLOAD_FILES
    FileCap,     \* _MAX_UPLOAD_FILE_BYTES
    TotalCap,    \* _MAX_TOTAL_UPLOAD_BYTES
    MaxMembers,  \* _MAX_ZIP_MEMBERS
    Budget       \* _MAX_ZIP_EXTRACTED_BYTES

ASSUME NamesAssumption ==
    /\ DOMAIN Kind = Names /\ DOMAIN Stem = Names
    /\ Sizes \subseteq Nat

ASSUME CapsAssumption ==
    /\ MaxFiles \in Nat /\ FileCap \in Nat /\ TotalCap \in Nat
    /\ MaxMembers \in Nat /\ Budget \in Nat

VARIABLES
    intake,     \* where the handler stands
    staged,     \* the names of the staged files not saved yet
    totalBytes, \* total_bytes of _stream_uploads_to_staging
    membersLeft,\* members of the open archive not looked at yet
    extracted,  \* extracted_total of save_uploaded_files
    unpacked,   \* history: decompressed bytes of the open archive
    saved,      \* the keys of saved
    seenStems,  \* the keys of seen_stems
    images,     \* the names behind the keys of images
    disk,       \* the paths written below the input directory
    kept        \* history: documents and images written

intakeVars == <<intake, staged, totalBytes, membersLeft, extracted, unpacked,
                saved, seenStems, images, disk, kept>>

IntakeInit ==
    /\ intake = "staging"
    /\ staged = <<>>
    /\ totalBytes = 0
    /\ membersLeft = 0
    /\ extracted = 0
    /\ unpacked = 0
    /\ saved = {}
    /\ seenStems = {}
    /\ images = {}
    /\ disk = {}
    /\ kept = 0

-----------------------------------------------------------------------------
(* Seeded faults; no part of the specification.                            *)

\* _register_flat_name that compares the names only.
ClashesByName(name) == name \in saved

\* A budget for every archive.
BudgetPerArchive == Budget - unpacked
-----------------------------------------------------------------------------
(* _stream_uploads_to_staging.                                             *)

Refuse(how) ==
    /\ intake' = how
    /\ UNCHANGED <<staged, totalBytes, membersLeft, extracted, unpacked, saved,
                   seenStems, images, disk, kept>>

\* One file, in chunks: the caps are looked at before a chunk is written.
StageFile(name, size) ==
    /\ intake = "staging"
    /\ Len(staged) < MaxFiles
    /\ Kind[name] \in {"document", "archive"}
    /\ IF size > FileCap \/ totalBytes + size > TotalCap
       THEN Refuse("too large")
       ELSE /\ staged' = Append(staged, name)
            /\ totalBytes' = totalBytes + size
            /\ UNCHANGED <<intake, membersLeft, extracted, unpacked, saved,
                           seenStems, images, disk, kept>>

\* The stream of files is over; save_uploaded_files starts.
AllStaged ==
    /\ intake = "staging"
    /\ staged # <<>>
    /\ intake' = "saving"
    /\ UNCHANGED <<staged, totalBytes, membersLeft, extracted, unpacked, saved,
                   seenStems, images, disk, kept>>
-----------------------------------------------------------------------------
(* save_uploaded_files.                                                    *)

\* _register_flat_name refuses a name, or a stem, it has seen.
Clashes(name) == name \in saved \/ Stem[name] \in seenStems

\* A document goes to the input directory under its base name.
KeepDocument(name) ==
    IF Clashes(name)
    THEN /\ intake' = "refused"
         /\ UNCHANGED <<saved, seenStems, images, disk, kept>>
    ELSE /\ saved' = saved \cup {name}
         /\ seenStems' = seenStems \cup {Stem[name]}
         /\ disk' = disk \cup {<<"input", name>>}
         /\ kept' = kept + 1
         /\ UNCHANGED <<intake, images>>

\* An image that is directly uploaded never gets here: its suffix is refused.
ImageClashes(name) == Stem[name] \in {Stem[i] : i \in images}

KeepImage(name) ==
    IF ImageClashes(name)
    THEN /\ intake' = "refused"
         /\ UNCHANGED <<saved, seenStems, images, disk, kept>>
    ELSE /\ images' = images \cup {name}
         /\ disk' = disk \cup {<<"images", name>>}
         /\ kept' = kept + 1
         /\ UNCHANGED <<intake, saved, seenStems>>

SaveDocument ==
    /\ intake = "saving" /\ membersLeft = 0
    /\ staged # <<>>
    /\ Kind[Head(staged)] = "document"
    /\ KeepDocument(Head(staged))
    /\ staged' = Tail(staged)
    /\ UNCHANGED <<totalBytes, membersLeft, extracted, unpacked>>

\* What is left of the budget of the whole job.
Remaining == Budget - extracted

TooMany(members) == members > MaxMembers

\* An archive: the number of its members, and the size it declares for those
\* that would be extracted.
OpenArchive ==
    /\ intake = "saving" /\ membersLeft = 0
    /\ staged # <<>>
    /\ Kind[Head(staged)] = "archive"
    /\ staged' = Tail(staged)
    /\ unpacked' = 0
    /\ \E members \in 0..(MaxMembers + 1), size \in 0..(Budget + 1) :
          IF TooMany(members) \/ size > Remaining
          THEN intake' = "refused" /\ UNCHANGED membersLeft
          ELSE membersLeft' = members /\ UNCHANGED intake
    /\ UNCHANGED <<totalBytes, extracted, saved, seenStems, images, disk, kept>>

\* A member whose suffix is of no interest.
SkipMember ==
    /\ intake = "saving" /\ membersLeft > 0
    /\ membersLeft' = membersLeft - 1
    /\ UNCHANGED <<intake, staged, totalBytes, extracted, unpacked, saved,
                   seenStems, images, disk, kept>>

\* _safe_zip_read, then the document or the image.
ExtractMember(name, size) ==
    /\ intake = "saving" /\ membersLeft > 0
    /\ Kind[name] \in {"document", "image"}
    /\ IF size > Remaining
       THEN Refuse("refused")
       ELSE /\ membersLeft' = membersLeft - 1
            /\ extracted' = extracted + size
            /\ unpacked' = unpacked + size
            /\ IF Kind[name] = "document" THEN KeepDocument(name)
               ELSE KeepImage(name)
            /\ UNCHANGED <<staged, totalBytes>>

\* An archive that zipfile cannot read: its BadZipFile is no ValueError.
ArchiveIsBroken ==
    /\ intake = "saving"
    /\ \/ membersLeft > 0
       \/ membersLeft = 0 /\ staged # <<>> /\ Kind[Head(staged)] = "archive"
    /\ Refuse("broken")

\* save_uploaded_files returns; without a document the upload is refused.
AllSaved ==
    /\ intake = "saving" /\ membersLeft = 0 /\ staged = <<>>
    /\ intake' = IF saved = {} THEN "refused" ELSE "accepted"
    /\ UNCHANGED <<staged, totalBytes, membersLeft, extracted, unpacked, saved,
                   seenStems, images, disk, kept>>

IntakeNext ==
    \/ AllStaged
    \/ SaveDocument
    \/ OpenArchive
    \/ SkipMember
    \/ ArchiveIsBroken
    \/ AllSaved
    \/ \E name \in Names, size \in Sizes :
          StageFile(name, size) \/ ExtractMember(name, size)
-----------------------------------------------------------------------------
(* Properties.                                                             *)

\* No file ever replaces another one, neither now nor when the run names its
\* outputs, and its scan, after the stem.
EveryInputIsKept ==
    /\ Cardinality(disk) = kept
    /\ \A S \in {saved, images} :
          Cardinality({Stem[n] : n \in S}) = Cardinality(S)

\* However many archives an upload brings, and whatever sizes they declare,
\* it unpacks to no more than one budget.
BudgetIsShared == extracted <= Budget /\ totalBytes <= TotalCap
=============================================================================
