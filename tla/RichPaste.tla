----------------------------- MODULE RichPaste -----------------------------
(***************************************************************************)
(* The images of a pasted document are embedded into it (rich.js           *)
(* inlineImages): a few runners take one image after the other, downloads  *)
(* settle in any order, and a budget bounds the document.                  *)
(***************************************************************************)
EXTENDS Integers, Sequences, FiniteSets

CONSTANTS
    MaxDoc,     \* MAX_DOC_BYTES
    Limit,      \* FETCH_CONCURRENCY
    Sizes       \* lengths a downloaded image has as a data: URI

ASSUME RichPasteAssumption ==
    /\ MaxDoc \in Nat /\ Limit \in Nat \ {0} /\ Sizes \subseteq Nat

VARIABLES
    images,     \* the src of each image, in document order, and its length
    before,     \* length of the markup when embedding starts
    next,       \* images taken so far
    image,      \* image[i]: what became of it
    length,     \* length of the markup as it is now
    used,       \* what is charged to the budget
    inlined, dropped

pasteVars == <<images, before, next, image, length, used, inlined, dropped>>

(* "padded" stands for a source with blanks around it, which the sanitizer *)
(* lets pass, and for what else is neither data: nor http(s): at its start *)
Sources == {"data", "http", "padded"}
Image == [src : Sources, len : Nat]

Start(imgs, markup) ==
    /\ images = imgs /\ before = markup /\ next = 0
    /\ image = [i \in 1..Len(imgs) |-> "waiting"]
    /\ length = markup /\ used = markup
    /\ inlined = 0 /\ dropped = 0

PasteInit == \E imgs \in Seq(Image), markup \in Nat : Start(imgs, markup)

InFlight == {i \in DOMAIN images : image[i] = "fetching"}

----------------------------------------------------------------------------
(* img.remove(), and the src an image is given or keeps.                   *)
DropQuietly(i) ==                         \* mutant: not counted
    /\ image' = [image EXCEPT ![i] = "removed"]
    /\ length' = length - images[i].len
    /\ UNCHANGED <<used, inlined, dropped>>

DropImage(i) ==
    /\ image' = [image EXCEPT ![i] = "removed"]
    /\ length' = length - images[i].len /\ dropped' = dropped + 1
    /\ UNCHANGED <<used, inlined>>

Keep(i) ==
    /\ image' = [image EXCEPT ![i] = "kept"] /\ used' = used + images[i].len
    /\ UNCHANGED <<length, inlined, dropped>>

Embed(i, size) ==
    /\ image' = [image EXCEPT ![i] = "embedded"]
    /\ length' = length - images[i].len + size /\ used' = used + size
    /\ inlined' = inlined + 1 /\ UNCHANGED dropped

FitsAlone(size) == size <= MaxDoc           \* mutant: each image for itself
Fits(size) == used + size <= MaxDoc

LastForgotten == next + 1 < Len(images)     \* mutant: an off-by-one
MoreToDo == next < Len(images)

(* A free runner of mapLimit takes the next image.  An embedded one is     *)
(* charged, though the markup counted it already; any other is fetched     *)
(* unless its source rules that out.                                       *)
Take ==
    /\ MoreToDo /\ Cardinality(InFlight) < Limit
    /\ next' = next + 1
    /\ LET i == next + 1
       IN  \/ /\ images[i].src = "data" /\ Fits(images[i].len) /\ Keep(i)
           \/ /\ images[i].src = "data" /\ ~Fits(images[i].len) /\ DropImage(i)
           \/ /\ images[i].src = "padded" /\ DropImage(i)
           \/ /\ images[i].src = "http"
              /\ image' = [image EXCEPT ![i] = "fetching"]
              /\ UNCHANGED <<length, used, inlined, dropped>>
    /\ UNCHANGED <<images, before>>

(* fetchAsDataUri settles: with an image of some size, or not (no answer   *)
(* in time, an error, not an image, too large).                            *)
Fetched(i) ==
    /\ i \in InFlight
    /\ \E size \in Sizes : IF Fits(size) THEN Embed(i, size) ELSE DropImage(i)
    /\ UNCHANGED <<images, before, next>>

FetchFails(i) ==
    /\ i \in InFlight /\ DropImage(i) /\ UNCHANGED <<images, before, next>>

Settles(i) == Fetched(i) \/ FetchFails(i)

PasteNext == Take \/ \E i \in DOMAIN images : Settles(i)

PasteSpec == PasteInit /\ [][PasteNext]_pasteVars

Done == \A i \in DOMAIN images : image[i] \notin {"waiting", "fetching"}

----------------------------------------------------------------------------
(* The document stays within the budget, in whatever order downloads       *)
(* settle, unless its markup alone did not: then nothing is added to it    *)
(* (rich.js:73-75, 100-105).                                               *)
BudgetHolds == length <= MaxDoc \/ length <= before

(* What the code says and does not keep: an image that was embedded        *)
(* already is kept as it is, if the document fits (rich.js:64, 82-90).     *)
KeepsInlined == Done /\ before <= MaxDoc =>
    \A i \in DOMAIN images : images[i].src = "data" => image[i] = "kept"
=============================================================================
