------------------------------- MODULE Paste -------------------------------
(***************************************************************************)
(* The whole pipeline of a rich paste (rich.js prepareRichPaste): sanitize *)
(* what the clipboard holds, embed its images, sanitize again.             *)
(***************************************************************************)
EXTENDS RichPaste, Sanitizer, SequencesExt

CONSTANTS
    MaxNodes,   \* bound: nodes in a pasted document
    MarkupLen,  \* length of its markup but for the images' sources
    SrcLen      \* length of a source, by class

VARIABLE dirty  \* the clipboard's document

vars == <<dirty, pasteVars>>

----------------------------------------------------------------------------
(* The documents that may be pasted.                                       *)
Style == <<"plain", "moves", "remote url", "data url", "rest">>

Img(attrs) == Node("img", attrs, <<>>)
Leaves == {Node("#text", {}, <<>>), Node("#comment", {}, <<>>), Img({Attr("alt", "x")})}
          \cup {Img({Attr("src", s), Attr("width", "percent")}) : s \in Sources \cup {"relative"}}
Parents == {[tag |-> "p", attrs |-> {Attr("style", Style), Attr("class", "hidden")}],
            [tag |-> "o:p", attrs |-> {}], [tag |-> "style", attrs |-> {}],
            [tag |-> "a", attrs |-> {Attr("href", "mailto")}]}

RECURSIVE Documents(_)
Trees(n) == IF n = 1 THEN Leaves ELSE
    {Node(e.tag, e.attrs, kids) : e \in Parents, kids \in Documents(n - 1)}
Documents(n) == IF n = 0 THEN {<<>>} ELSE
    UNION {{<<t>> \o rest : t \in Trees(k), rest \in Documents(n - k)} : k \in 1..n}

----------------------------------------------------------------------------
first == sanitizeHtml(dirty, TRUE)

Extracted ==
    LET imgs == Images(first)
    IN  [i \in DOMAIN imgs |-> [src |-> Src(imgs[i]), len |-> SrcLen[Src(imgs[i])]]]

Length(imgs) == MarkupLen + FoldSeq(LAMBDA im, n : n + im.len, 0, imgs)

Init == /\ dirty \in UNION {Documents(n) : n \in 1..MaxNodes}
        /\ Start(Extracted, Length(Extracted))

Next == PasteNext /\ UNCHANGED dirty

Spec == Init /\ [][Next]_vars

(* A download settles within FETCH_TIMEOUT_MS, and a runner that is free   *)
(* goes on.                                                                *)
FairSpec == Spec /\ WF_vars(Take /\ UNCHANGED dirty)
                 /\ WF_vars((\E i \in DOMAIN images : Settles(i)) /\ UNCHANGED dirty)

(* The document with its images as they are now.                           *)
AnyBlob == "relative"           \* mutant: whatever was downloaded
EmbeddedSrc == "data"

WithImage(n, outcome) ==
    CASE outcome = "removed"  -> <<>>
      [] outcome = "embedded" ->
            <<Node("img", {a \in n.attrs : a.name # "src"} \cup {Attr("src", EmbeddedSrc)}, <<>>)>>
      [] OTHER -> <<n>>

RECURSIVE WithImages(_, _)
WithImages(doc, outcomes) == IF doc = <<>> THEN <<>> ELSE
    LET n == Head(doc)
        k == Len(Images(<<n>>))
        own == SubSeq(outcomes, 1, k)
        new == IF n.tag = "img" THEN WithImage(n, own[1])
               ELSE <<Node(n.tag, n.attrs, WithImages(n.kids, own))>>
    IN  new \o WithImages(Tail(doc), SubSeq(outcomes, k + 1, Len(outcomes)))

embedded == WithImages(first, image)
final    == sanitizeHtml(embedded, FALSE)

----------------------------------------------------------------------------
(* The walk keeps what it may: all text outside dropped elements, and the  *)
(* allowed elements, in order and nested as they were                      *)
(* (sanitize.js:9-10, 107-154).                                            *)
KeepsWhatItMay == Places(first) = Stays(dirty, TRUE)

(* What leaves the machine needs nothing from the network to render: every *)
(* image and url() of the result is data: (rich.js:5-8).                   *)
SelfContained == Done =>
    LET all == Outline(final, <<>>)
    IN  \A i \in DOMAIN all : \A a \in all[i].attrs :
            /\ a.name = "src" => a.value = "data"
            /\ a.name = "style" => \A d \in DOMAIN a.value : a.value[d] # "remote url"

(* The second pass takes nothing away that the first one left but what     *)
(* embedding removed: sanitizing again is harmless (rich.js:134-145).      *)
NothingElseLost == Done => final = embedded

(* The user is told of every image that is missing (ui.js:685-687).        *)
DroppedTold == Done => Len(Images(final)) + dropped = Len(Images(first))

(* A paste ends, so that sending is possible again (rich.js:147-169).      *)
PasteEnds == <>Done

(* What the code says and does not keep: a url() that is data: already is  *)
(* kept (sanitize.js:59-61, 200).                                          *)
KeepsDataUrls == LET all == Outline(first, <<>>) IN
    \A i \in DOMAIN all : \A style \in Value(all[i].attrs, "style") :
        \A d \in DOMAIN style : style[d] = "data url" => d < Len(style) /\ style[d + 1] = "rest"
=============================================================================
