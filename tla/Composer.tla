------------------------------ MODULE Composer ------------------------------
(***************************************************************************)
(* The composer of messages (ui.js promptText, #onComposerPaste): one      *)
(* editable element for all peers.  What is pasted with images is embedded *)
(* first, which takes a while and goes on when the dialog is closed.       *)
(***************************************************************************)
EXTENDS Integers, Sequences, FiniteSets

CONSTANTS
    Targets,    \* the peers a message may be for
    MaxPrompts, \* bound: times the composer is opened
    Pastes,     \* bound: the pastes the user makes
    MaxImages   \* bound: image files in one paste

ASSUME ComposerAssumption ==
    /\ MaxPrompts \in Nat /\ MaxImages \in Nat \ {0} /\ IsFiniteSet(Pastes)

VARIABLES
    target,     \* the peer the composer is open for, or Nobody
    prompts,    \* promptText calls so far
    paste,      \* paste[j]: where a paste is and for which prompt it was made
    content,    \* what the composer holds
    pastesInFlight,
    disabled,   \* textSendBtn.disabled
    note,       \* #composerNote says that images were left out
    sent        \* messages handed to sendMessage, oldest first

composerVars == <<target, prompts, paste, content, pastesInFlight, disabled, note, sent>>

NoTarget == "nobody"

(* A piece of content: the paste it came with and what it is.              *)
Piece(j, what) == [of |-> j, what |-> what]
Rich == {c \in content : c.what # "text"}

Unused == [at |-> "unused", in |-> 0, left |-> 0]
Preparing(j) == paste[j].at \in {"html", "images"}
Busy == {j \in Pastes : Preparing(j)}

ComposerInit ==
    /\ target = NoTarget /\ prompts = 0 /\ paste = [j \in Pastes |-> Unused]
    /\ content = {} /\ pastesInFlight = 0 /\ disabled = FALSE /\ note = FALSE
    /\ sent = <<>>

(* #renderComposerState, as far as it is about the send button.            *)
Render == disabled' = (pastesInFlight' > 0)

----------------------------------------------------------------------------
promptText(p) ==
    /\ target = NoTarget /\ prompts < MaxPrompts
    /\ target' = p /\ prompts' = prompts + 1
    /\ content' = {} /\ note' = FALSE
    /\ UNCHANGED <<paste, pastesInFlight, sent>> /\ Render

(* A paste of plain text goes in at once.                                  *)
PasteText(j) ==
    /\ target # NoTarget /\ paste[j] = Unused
    /\ paste' = [paste EXCEPT ![j] = [at |-> "done", in |-> prompts, left |-> 0]]
    /\ content' = content \cup {Piece(j, "text")}
    /\ UNCHANGED <<target, prompts, pastesInFlight, note, sent>> /\ Render

(* whilePreparing, of markup or of image files: its start and its finally. *)
Starts(j, what, n) ==
    /\ target # NoTarget /\ paste[j] = Unused
    /\ paste' = [paste EXCEPT ![j] = [at |-> what, in |-> prompts, left |-> n]]
    /\ pastesInFlight' = pastesInFlight + 1
    /\ UNCHANGED <<target, prompts, content, note, sent>> /\ Render

PasteHtml(j) == Starts(j, "html", 0)
PasteImages(j) == \E n \in 1..MaxImages : Starts(j, "images", n)

OneOverAll(j) == pastesInFlight' = 0                   \* mutant: a flag, not a count
OverUnlessFailed(j) ==                                 \* mutant: no finally
    pastesInFlight' = pastesInFlight - (IF content' = content THEN 0 ELSE 1)
Over(j) == pastesInFlight' = pastesInFlight - 1

Ends(j) == paste' = [paste EXCEPT ![j].at = "done"] /\ Over(j) /\ Render

(* prepareRichPaste settles.  Its markup goes in, with a note on images it *)
(* left out; without any, or when it failed, the plain text does instead,  *)
(* if there is one.                                                        *)
HtmlPrepared(j) ==
    /\ paste[j].at = "html"
    /\ \/ \E dropped \in BOOLEAN :
            content' = content \cup {Piece(j, "html")} /\ note' = dropped
       \/ content' \in {content, content \cup {Piece(j, "text")}} /\ UNCHANGED note
    /\ Ends(j)
    /\ UNCHANGED <<target, prompts, sent>>

(* imageFileToTag settles for the next file of a paste; one that cannot be *)
(* read is left out.                                                       *)
ImagePrepared(j) ==
    /\ paste[j].at = "images"
    /\ content' \in {content, content \cup {Piece(j, "image")}}
    /\ IF paste[j].left = 1 THEN Ends(j)
       ELSE /\ paste' = [paste EXCEPT ![j].left = paste[j].left - 1]
            /\ UNCHANGED <<pastesInFlight, disabled>>
    /\ UNCHANGED <<target, prompts, note, sent>>

(* "Clear formatting", shown while there is any: text stays, images go.    *)
ClearFormat ==
    /\ target # NoTarget /\ Rich # {}
    /\ content' = {Piece(c.of, "text") : c \in {d \in content : d.what # "image"}}
    /\ note' = FALSE
    /\ UNCHANGED <<target, prompts, paste, pastesInFlight, sent>> /\ Render

----------------------------------------------------------------------------
(* Send reads the composer and closes it; an empty one sends nothing.      *)
Message == [to |-> target, prompt |-> prompts, content |-> content,
            html |-> Rich # {},
            waiting |-> {j \in Busy : paste[j].in = prompts}]

Send ==
    /\ target # NoTarget /\ ~disabled
    /\ target' = NoTarget
    /\ sent' = IF content = {} THEN sent ELSE Append(sent, Message)
    /\ UNCHANGED <<prompts, paste, content, pastesInFlight, disabled, note>>

Cancel ==
    /\ target # NoTarget /\ target' = NoTarget
    /\ UNCHANGED <<prompts, paste, content, pastesInFlight, disabled, note, sent>>

Prepared(j) == HtmlPrepared(j) \/ ImagePrepared(j)

UserComposes ==
    \/ \E p \in Targets : promptText(p)
    \/ \E j \in Pastes : PasteText(j) \/ PasteHtml(j) \/ PasteImages(j)
    \/ ClearFormat \/ Send \/ Cancel

----------------------------------------------------------------------------
(* The counter counts the pastes under way, and Send is off meanwhile.     *)
ComposerType ==
    /\ target \in Targets \cup {NoTarget} /\ prompts \in 0..MaxPrompts
    /\ \A j \in Pastes : /\ paste[j].at \in {"unused", "html", "images", "done"}
                         /\ paste[j].left \in 0..MaxImages
    /\ pastesInFlight = Cardinality(Busy) /\ disabled = (pastesInFlight > 0)
    /\ note \in BOOLEAN

(* A message is read only when every paste made for it has settled         *)
(* (ui.js:165-167, 697-714).                                               *)
SendWaits == \A i \in 1..Len(sent) : sent[i].waiting = {}

----------------------------------------------------------------------------
(* What a user would expect and the code does not keep; see the README: a  *)
(* message holds only what was pasted for it.                              *)
OwnPastes == \A i \in 1..Len(sent) :
    \A c \in sent[i].content : paste[c.of].in = sent[i].prompt
=============================================================================
