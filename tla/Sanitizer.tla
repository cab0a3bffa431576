----------------------------- MODULE Sanitizer -----------------------------
(***************************************************************************)
(* The allow-list walk over pasted markup (sanitize.js).  Parsing and      *)
(* serializing are the browser's; here a document is a forest of nodes,    *)
(* with one or two members for each class of tags, attributes and values   *)
(* that the code tells apart.                                              *)
(***************************************************************************)
EXTENDS Naturals, Sequences

ALLOWED_TAGS == {"p", "a", "img"}
DROP_SUBTREE == {"style"}       \* any other element is unwrapped, as "o:p" is
GLOBAL_ATTRS == {"style", "title"}
TAG_ATTRS(tag) == CASE tag = "a" -> {"href"}
                    [] tag = "img" -> {"src", "alt", "width"}
                    [] OTHER -> {}

Node(tag, attrs, kids) == [tag |-> tag, attrs |-> attrs, kids |-> kids]
Attr(name, value) == [name |-> name, value |-> value]
Value(attrs, name) == {a.value : a \in {b \in attrs : b.name = name}}

----------------------------------------------------------------------------
(* A style is the list of its parts between semicolons: a declaration that *)
(* is kept, one that moves or executes, one with a url() that is remote or *)
(* data:, and what follows the semicolon inside a data: url().             *)
AllButEscapes(style) ==         \* mutant: a remote url() passes
    SelectSeq(style, LAMBDA d : d \in {"plain", "remote url", "data url"})
cleanStyle(style) == SelectSeq(style, LAMBDA d : d \in {"plain", "data url"})

(* safeUrl, isHttpUrl and isDataImage, by class of URL; blanks around one  *)
(* do not matter to them.                                                  *)
safeUrl(url)     == url \in {"http", "padded", "mailto"}
isHttpUrl(url)   == url \in {"http", "padded"}
isDataImage(url) == url = "data"

(* A dimension is digits.                                                  *)
Sound(tag, a, allowRemoteImages) ==
    CASE tag = "a" /\ a.name = "href" -> safeUrl(a.value)
      [] tag = "img" /\ a.name = "src" ->
            isDataImage(a.value) \/ (allowRemoteImages /\ isHttpUrl(a.value))
      [] tag = "img" /\ a.name = "width" -> a.value = "digits"
      [] OTHER -> TRUE

cleanAttributes(tag, attrs, allowRemoteImages) ==
    LET named == {a \in attrs : a.name \in GLOBAL_ATTRS \cup TAG_ATTRS(tag)}
        styled == {IF a.name = "style" THEN Attr("style", cleanStyle(a.value)) ELSE a : a \in named}
        kept == {a \in styled : a # Attr("style", <<>>) /\ Sound(tag, a, allowRemoteImages)}
    IN  IF tag = "a" /\ Value(kept, "href") # {}
        THEN kept \cup {Attr("target", "_blank"), Attr("rel", "noopener noreferrer")} ELSE kept

(* cleanNode yields what takes the place of a node: nothing, its children  *)
(* (unwrap), or itself.                                                    *)
RECURSIVE cleanNode(_, _), cleanChildren(_, _)
cleanChildren(kids, remote) ==
    IF kids = <<>> THEN <<>>
    ELSE cleanNode(Head(kids), remote) \o cleanChildren(Tail(kids), remote)

DroppedToo(tag) == tag \notin ALLOWED_TAGS   \* mutant: unknown tags go with their text
Dropped(tag) == tag \in DROP_SUBTREE

cleanNode(n, remote) ==
    IF n.tag = "#text" THEN <<n>>
    ELSE IF n.tag = "#comment" \/ Dropped(n.tag) THEN <<>>
    ELSE IF n.tag \notin ALLOWED_TAGS THEN cleanChildren(n.kids, remote)
    ELSE LET attrs == cleanAttributes(n.tag, n.attrs, remote)
         IN  IF n.tag = "img" /\ Value(attrs, "src") = {} THEN <<>>
             ELSE <<Node(n.tag, attrs, cleanChildren(n.kids, remote))>>

sanitizeHtml(dirty, allowRemoteImages) == cleanChildren(dirty, allowRemoteImages)

----------------------------------------------------------------------------
(* The nodes of a document in order, each with the tags it is in.          *)
RECURSIVE Outline(_, _)
Outline(doc, within) == IF doc = <<>> THEN <<>> ELSE
    LET n == Head(doc)
    IN  <<[tag |-> n.tag, attrs |-> n.attrs, within |-> within]>>
            \o Outline(n.kids, Append(within, n.tag)) \o Outline(Tail(doc), within)

Images(doc) == SelectSeq(Outline(doc, <<>>), LAMBDA n : n.tag = "img")
Src(n) == CHOOSE s \in Value(n.attrs, "src") : TRUE

(* What may stay of a document: text and allowed elements that are in      *)
(* nothing that is dropped, each in the allowed ones it was in; an image   *)
(* needs a source.                                                         *)
MayStay(n, remote) ==
    /\ \A i \in DOMAIN n.within : n.within[i] \notin DROP_SUBTREE
    /\ n.tag \in ALLOWED_TAGS \cup {"#text"}
    /\ n.tag = "img" => \E a \in n.attrs : a.name = "src" /\ Sound("img", a, remote)

Stays(doc, remote) ==
    LET kept == SelectSeq(Outline(doc, <<>>), LAMBDA n : MayStay(n, remote))
    IN  [i \in DOMAIN kept |-> [tag |-> kept[i].tag, within |->
            SelectSeq(kept[i].within, LAMBDA t : t \in ALLOWED_TAGS)]]

Places(doc) ==
    LET all == Outline(doc, <<>>)
    IN  [i \in DOMAIN all |-> [tag |-> all[i].tag, within |-> all[i].within]]
=============================================================================
