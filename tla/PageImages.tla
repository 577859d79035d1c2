----------------------------- MODULE PageImages -----------------------------
(***************************************************************************)
(* Which scan stands for which page.  The upload's images are per source   *)
(* file, the pages a reader judges are not: link_alto_to_images gives a    *)
(* document the image its XML names, or else its namesake, and a page      *)
(* shows it only if it is the one page of its document.                    *)
(*                                                                         *)
(* Starts where UploadIntake has accepted the files.                       *)
(***************************************************************************)
EXTENDS UploadIntake

CONSTANT MaxPages   \* bound: pages of one document

ASSUME MaxPagesAssumption == MaxPages \in Nat

VARIABLES
    declares,   \* per document, the stem of the first image name in its XML
    pageCount,  \* pages_per_source
    linked      \* JobManifest.images, as pairs of a document and an image

imageVars == <<declares, pageCount, linked>>

ImagesInit ==
    /\ declares = [doc \in {} |-> {}]
    /\ pageCount = [doc \in {} |-> 0]
    /\ linked = {}

-----------------------------------------------------------------------------
(* Seeded fault; no part of the specification.                             *)

\* build_layout before it counted the pages of a source.
ImageForEveryPage(doc) == TRUE
-----------------------------------------------------------------------------
\* What an XML may declare; a name that no image bears is as good as none.
Declarable == {{}} \cup {{Stem[name]} : name \in {n \in Names : Kind[n] = "image"}}

\* The declared stem, unless no image of the upload has it; then its own.
ImageKey(named, doc) ==
    IF \E image \in images : Stem[image] \in named[doc]
    THEN named[doc] ELSE {Stem[doc]}

link_alto_to_images(named) ==
    {link \in saved \X images : Stem[link[2]] \in ImageKey(named, link[1])}

\* build_document_manifest has found some lines; no await until the record
\* holds the manifest and the images.
LinkImages ==
    /\ intake = "accepted"
    /\ \E named \in [saved -> Declarable] :
          /\ declares' = named
          /\ linked' = link_alto_to_images(named)
    /\ pageCount' \in [saved -> 1..MaxPages]
    /\ intake' = "linked"
    /\ UNCHANGED <<staged, totalBytes, membersLeft, extracted, unpacked, saved,
                   seenStems, images, disk, kept>>
-----------------------------------------------------------------------------
(* What the run and the workbench make of it.                              *)

OnePage(doc) == pageCount[doc] = 1

\* build_layout: the image_url of the pages of a document.
LayoutImage(doc) ==
    {image \in images : <<doc, image>> \in linked /\ OnePage(doc)}

\* page_image_assets, for a document of one page (it refuses the others).
VisionImage(doc) == {image \in images : Stem[image] = Stem[doc]}

\* The pages under which the layout puts an image.
PagesShowing(image) ==
    UNION {{doc} \X (1..pageCount[doc]) :
             doc \in {d \in DOMAIN pageCount : image \in LayoutImage(d)}}
-----------------------------------------------------------------------------
\* No page is judged against the scan of another one: where two pages show
\* the same image they are of two documents, and one of them asks for it by
\* name; a page shows its namesake, which a vision run would send, or what its
\* XML names; and what a page shows is among the files of the job.
ScanIsOfItsPage ==
    \A image \in images :
        /\ \A one, other \in PagesShowing(image) :
              one # other =>
                 /\ one[1] # other[1]
                 /\ Stem[image] \in declares[one[1]] \cup declares[other[1]]
        /\ \A page \in PagesShowing(image) :
              /\ Stem[image] \in declares[page[1]] \/ image \in VisionImage(page[1])
              /\ <<"images", image>> \in disk
=============================================================================
