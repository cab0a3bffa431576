----------------------------- MODULE PageProofs -----------------------------
(***************************************************************************)
(* What the dialogs of a page promise, for any requests, peers and pastes, *)
(* and the byte budget of the images that a paste embeds, for all limits,  *)
(* sizes and numbers.                                                      *)
(***************************************************************************)
EXTENDS Page, RichPaste, FiniteSetTheorems, TLAPS

(* The accept dialog.  An answer "accept" that is still to be delivered    *)
(* was given when all those who wait already waited; a request that comes  *)
(* later takes the answer back before it listens, so that no answer is     *)
(* left while the dialog is up.                                            *)
DialogInv ==
    /\ DialogType
    /\ NoOrphanRequest
    /\ AcceptNeedsClick
    /\ closing /\ returnValue = "accept" => Asking \subseteq consented
    /\ open => returnValue = ""

LEMMA DialogInvInit == DialogInit => DialogInv
  BY DEF DialogInit, DialogInv, DialogType, Outcomes, NoOrphanRequest, AcceptNeedsClick, Asking

LEMMA ConfirmKeeps == ASSUME DialogInv, NEW r \in Requests, Confirm(r) PROVE DialogInv'
  BY DEF DialogInv, DialogType, Outcomes, NoOrphanRequest, AcceptNeedsClick, Asking,
         Confirm, ForgetAnswer

LEMMA PressKeeps ==
    ASSUME DialogInv, PressAccept \/ PressDecline \/ PressEscape PROVE DialogInv'
  <1>1. Asking' = Asking /\ closing' = TRUE /\ request' = request
    BY DEF PressAccept, PressDecline, PressEscape, Shut, Asking
  <1>2. DialogType'
    BY DEF DialogInv, DialogType, PressAccept, PressDecline, PressEscape, Shut, Asking
  <1>3. AcceptNeedsClick'
    BY <1>1 DEF DialogInv, AcceptNeedsClick, PressAccept, PressDecline, PressEscape
  <1>4. closing' /\ returnValue' = "accept" => Asking' \subseteq consented'
    <2>1. CASE PressAccept
      BY <1>1, <2>1 DEF PressAccept
    <2>2. CASE PressDecline
      BY <2>2 DEF PressDecline
    <2>3. CASE PressEscape
      BY <1>1, <2>3 DEF PressEscape, Shut, DialogInv
    <2>. QED BY <2>1, <2>2, <2>3
  <1>5. ~open'
    BY DEF PressAccept, PressDecline, PressEscape, Shut
  <1>. QED BY <1>1, <1>2, <1>3, <1>4, <1>5 DEF DialogInv, NoOrphanRequest

(* All who listen are answered at once, so nobody is left behind.          *)
LEMMA OnCloseKeeps == ASSUME DialogInv, onClose PROVE DialogInv'
  <1>1. /\ closing' = FALSE /\ UNCHANGED <<open, returnValue, consented>>
        /\ request' = [r \in Requests |-> IF r \in Asking THEN Answered(r) ELSE request[r]]
    BY DEF onClose, Listening
  <1>2. \A r \in Requests : Answered(r) \in {"picking", "accepted", "declined"}
    BY DEF Answered
  <1>3. DialogType'
    <2>1. request' \in [Requests -> Outcomes]
      BY <1>1, <1>2 DEF DialogInv, DialogType, Outcomes
    <2>. QED BY <1>1, <2>1 DEF DialogInv, DialogType
  <1>4. Asking' = {}
    BY <1>1, <1>2 DEF Asking
  <1>5. AcceptNeedsClick'
    <2>1. ASSUME NEW r \in Requests, request'[r] \in {"picking", "accepted"}
          PROVE r \in consented'
      <3>1. CASE r \in Asking
        <4>1. returnValue = "accept" /\ closing
          BY <1>1, <2>1, <3>1 DEF Answered, onClose
        <4>. QED BY <1>1, <3>1, <4>1 DEF DialogInv
      <3>2. CASE r \notin Asking
        BY <1>1, <2>1, <3>2 DEF DialogInv, AcceptNeedsClick
      <3>. QED BY <3>1, <3>2
    <2>. QED BY <2>1 DEF AcceptNeedsClick
  <1>. QED BY <1>1, <1>3, <1>4, <1>5 DEF DialogInv, NoOrphanRequest

LEMMA PickerKeeps == ASSUME DialogInv, NEW r \in Requests, PickerSettles(r) PROVE DialogInv'
  BY DEF DialogInv, DialogType, Outcomes, NoOrphanRequest, AcceptNeedsClick, Asking,
         PickerSettles

LEMMA DialogInvStep == ASSUME DialogInv, [DialogNext]_dialogVars PROVE DialogInv'
  <1>1. CASE UNCHANGED dialogVars
    BY <1>1 DEF dialogVars, DialogInv, DialogType, NoOrphanRequest, AcceptNeedsClick, Asking
  <1>. QED BY <1>1, ConfirmKeeps, PressKeeps, OnCloseKeeps, PickerKeeps DEF DialogNext

----------------------------------------------------------------------------
(* The composer.  The counter counts the pastes under way, so that Send    *)
(* is off exactly while there are any.                                     *)
Stages == {"unused", "html", "images", "done"}
Pieces == [of : Pastes, what : {"text", "html", "image"}]
Messages == [to : Targets \cup {NoTarget}, prompt : Nat, content : SUBSET Pieces,
             html : BOOLEAN, waiting : SUBSET Pastes]

PasteType ==
    /\ paste \in [Pastes -> [at : Stages, in : Nat, left : Nat]]
    /\ \A j \in Pastes : paste[j].left <= MaxImages
    /\ \A j \in Pastes : paste[j].at = "images" => paste[j].left # 0

ComposerInv ==
    /\ target \in Targets \cup {NoTarget} /\ prompts \in 0..MaxPrompts
    /\ PasteType
    /\ content \subseteq Pieces /\ note \in BOOLEAN
    /\ pastesInFlight = Cardinality(Busy)
    /\ disabled = (pastesInFlight > 0)
    /\ sent \in Seq(Messages)
    /\ SendWaits

LEMMA BusyFinite == IsFiniteSet(Busy) /\ Cardinality(Busy) \in Nat
  <1>1. Busy \in SUBSET Pastes
    BY DEF Busy
  <1>. QED BY <1>1, FS_Subset, FS_CardinalityType, ComposerAssumption

LEMMA BusyFinitePrime == (IsFiniteSet(Busy) /\ Cardinality(Busy) \in Nat)'
  <1>1. Busy' \in SUBSET Pastes
    BY DEF Busy
  <1>. QED BY <1>1, FS_Subset, FS_CardinalityType, ComposerAssumption

LEMMA ComposerInvInit == ComposerInit => ComposerInv
  <1>. SUFFICES ASSUME ComposerInit PROVE ComposerInv
    OBVIOUS
  <1>1. PasteType
    BY ComposerAssumption, SMT DEF ComposerInit, Unused, PasteType, Stages
  <1>2. Busy = {}
    BY DEF ComposerInit, Unused, Busy, Preparing
  <1>3. sent \in Seq(Messages) /\ SendWaits
    BY DEF ComposerInit, SendWaits
  <1>4. pastesInFlight = Cardinality(Busy)
    BY <1>2, FS_EmptySet DEF ComposerInit
  <1>5. (pastesInFlight > 0) = FALSE
    BY SMT DEF ComposerInit
  <1>6. disabled = (pastesInFlight > 0)
    BY <1>5 DEF ComposerInit
  <1>7. 0 \in 0..MaxPrompts
    BY ComposerAssumption, SMT
  <1>. QED BY <1>1, <1>3, <1>4, <1>6, <1>7, Zenon DEF ComposerInit, ComposerInv

(* What does not touch the pastes under way.                               *)
LEMMA PastesSame ==
    ASSUME ComposerInv, UNCHANGED <<paste, pastesInFlight, disabled, sent>>,
           target' \in Targets \cup {NoTarget}, prompts' \in 0..MaxPrompts,
           content' \subseteq Pieces, note' \in BOOLEAN
    PROVE ComposerInv'
  BY DEF ComposerInv, PasteType, Busy, Preparing, SendWaits

(* What starts a paste, settles part of one, or ends one.                  *)
LEMMA PasteMoves ==
    ASSUME ComposerInv, NEW j \in Pastes,
           NEW p \in [at : Stages, in : Nat, left : 0..MaxImages],
           p.at = "images" => p.left # 0,
           paste' = [paste EXCEPT ![j] = p],
           UNCHANGED <<target, prompts, sent>>,
           content' \subseteq Pieces, note' \in BOOLEAN,
           disabled' = (pastesInFlight' > 0),
           pastesInFlight' = pastesInFlight + (IF p.at \in {"html", "images"} THEN 1 ELSE 0)
                                            - (IF Preparing(j) THEN 1 ELSE 0)
    PROVE ComposerInv'
  <1>1. PasteType'
    BY ComposerAssumption, SMT DEF ComposerInv, PasteType
  <1>2. Busy' = IF p.at \in {"html", "images"} THEN Busy \cup {j} ELSE Busy \ {j}
    BY DEF ComposerInv, PasteType, Busy, Preparing
  <1>3. j \in Busy <=> Preparing(j)
    BY DEF Busy
  <1>4. pastesInFlight' = Cardinality(Busy')
    <2>1. CASE p.at \in {"html", "images"}
      <3>1. Cardinality(Busy') = IF j \in Busy THEN Cardinality(Busy) ELSE Cardinality(Busy) + 1
        BY <1>2, <2>1, BusyFinite, FS_AddElement
      <3>. QED BY <2>1, <3>1, <1>3, BusyFinite, SMT DEF ComposerInv
    <2>2. CASE p.at \notin {"html", "images"}
      <3>1. Cardinality(Busy') = IF j \in Busy THEN Cardinality(Busy) - 1 ELSE Cardinality(Busy)
        BY <1>2, <2>2, BusyFinite, FS_RemoveElement
      <3>. QED BY <2>2, <3>1, <1>3, BusyFinite, SMT DEF ComposerInv
    <2>. QED BY <2>1, <2>2
  <1>5. SendWaits'
    BY DEF ComposerInv, SendWaits
  <1>. QED BY <1>1, <1>4, <1>5 DEF ComposerInv

LEMMA StaysDisabled ==
    ASSUME ComposerInv, Render, UNCHANGED pastesInFlight PROVE disabled' = disabled
  BY DEF ComposerInv, Render

LEMMA UserComposesKeeps == ASSUME ComposerInv, UserComposes PROVE ComposerInv'
  <1>. USE DEF Piece
  <1>1. ASSUME NEW p \in Targets, promptText(p) PROVE ComposerInv'
    <2>1. prompts' \in 0..MaxPrompts
      BY <1>1, ComposerAssumption, SMT DEF ComposerInv, promptText
    <2>2. disabled' = disabled
      BY <1>1, StaysDisabled DEF promptText
    <2>. QED BY <1>1, <2>1, <2>2, PastesSame DEF promptText
  <1>2. ASSUME NEW j \in Pastes, PasteText(j) PROVE ComposerInv'
    <2>. DEFINE p == [at |-> "done", in |-> prompts, left |-> 0]
    <2>1. p \in [at : Stages, in : Nat, left : 0..MaxImages] /\ p.at = "done"
      BY ComposerAssumption, SMT DEF Stages, ComposerInv
    <2>2. ~Preparing(j) /\ content' \subseteq Pieces
      BY <1>2 DEF PasteText, Unused, Preparing, Pieces, ComposerInv
    <2>3. pastesInFlight' = pastesInFlight + (IF p.at \in {"html", "images"} THEN 1 ELSE 0)
                                           - (IF Preparing(j) THEN 1 ELSE 0)
      BY <1>2, <2>1, <2>2, BusyFinite, SMT DEF PasteText, ComposerInv
    <2>4. paste' = [paste EXCEPT ![j] = p] /\ UNCHANGED <<target, prompts, sent, note>>
      BY <1>2 DEF PasteText
    <2>5. disabled' = (pastesInFlight' > 0) /\ note' \in BOOLEAN
      BY <1>2, <2>4 DEF PasteText, Render, ComposerInv
    <2>. HIDE DEF p
    <2>. QED BY <2>1, <2>2, <2>3, <2>4, <2>5, PasteMoves
  <1>3. ASSUME NEW j \in Pastes, NEW what \in {"html", "images"}, NEW n \in 0..MaxImages,
               what = "images" => n # 0, Starts(j, what, n)
        PROVE ComposerInv'
    <2>. DEFINE p == [at |-> what, in |-> prompts, left |-> n]
    <2>1. p \in [at : Stages, in : Nat, left : 0..MaxImages] /\ p.at = what /\ p.left = n
      BY <1>3, ComposerAssumption, SMT DEF Stages, ComposerInv
    <2>2. ~Preparing(j)
      BY <1>3 DEF Starts, Unused, Preparing
    <2>3. pastesInFlight' = pastesInFlight + (IF p.at \in {"html", "images"} THEN 1 ELSE 0)
                                           - (IF Preparing(j) THEN 1 ELSE 0)
      BY <1>3, <2>1, <2>2, BusyFinite, SMT DEF Starts, ComposerInv
    <2>4. paste' = [paste EXCEPT ![j] = p] /\ UNCHANGED <<target, prompts, sent, content, note>>
      BY <1>3 DEF Starts
    <2>5. disabled' = (pastesInFlight' > 0) /\ note' \in BOOLEAN /\ content' \subseteq Pieces
      BY <1>3, <2>4 DEF Starts, Render, ComposerInv
    <2>. HIDE DEF p
    <2>. QED BY <1>3, <2>1, <2>2, <2>3, <2>4, <2>5, PasteMoves
  <1>4. ASSUME ClearFormat PROVE ComposerInv'
    <2>1. content' \subseteq Pieces
      BY <1>4 DEF ClearFormat, ComposerInv, Pieces
    <2>2. disabled' = disabled
      BY <1>4, StaysDisabled DEF ClearFormat
    <2>. QED BY <1>4, <2>1, <2>2, PastesSame DEF ClearFormat, ComposerInv
  <1>5. ASSUME Cancel PROVE ComposerInv'
    BY <1>5, PastesSame DEF Cancel, ComposerInv
  <1>6. ASSUME Send PROVE ComposerInv'
    <2>1. Busy = {}
      <3>1. ~(pastesInFlight > 0)
        BY <1>6 DEF Send, ComposerInv
      <3>2. Cardinality(Busy) = 0
        BY <3>1, BusyFinite, SMT DEF ComposerInv
      <3>. QED BY <3>2, BusyFinite, FS_EmptySet
    <2>2. Message \in Messages /\ Message.waiting = {}
      <3>1. prompts \in Nat
        BY ComposerAssumption, SMT DEF ComposerInv
      <3>. QED BY <2>1, <3>1 DEF Message, Messages, ComposerInv
    <2>3. sent' \in Seq(Messages) /\ SendWaits'
      <3>1. CASE sent' = sent
        BY <3>1 DEF ComposerInv, SendWaits
      <3>2. CASE sent' = Append(sent, Message)
        BY <2>2, <3>2 DEF ComposerInv, SendWaits
      <3>. QED BY <1>6, <3>1, <3>2 DEF Send
    <2>4. Busy' = Busy /\ PasteType'
      BY <1>6 DEF Send, Busy, Preparing, ComposerInv, PasteType
    <2>. QED BY <1>6, <2>3, <2>4 DEF Send, ComposerInv
  <1>7. 0 \in 0..MaxImages /\ \A n \in 1..MaxImages : n \in 0..MaxImages /\ n # 0
    BY ComposerAssumption, SMT
  <1>. QED BY <1>1, <1>2, <1>3, <1>4, <1>5, <1>6, <1>7 DEF UserComposes, PasteHtml, PasteImages

LEMMA PreparedKeeps == ASSUME ComposerInv, NEW j \in Pastes, Prepared(j) PROVE ComposerInv'
  <1>. USE DEF Piece
  <1>1. paste[j] \in [at : Stages, in : Nat, left : Nat] /\ paste[j].left <= MaxImages
    BY DEF ComposerInv, PasteType
  <1>2. content' \subseteq Pieces /\ note' \in BOOLEAN /\ UNCHANGED <<target, prompts, sent>>
    BY DEF Prepared, HtmlPrepared, ImagePrepared, ComposerInv, Pieces
  <1>3. ASSUME Ends(j), Preparing(j) PROVE ComposerInv'
    <2>. DEFINE p == [at |-> "done", in |-> paste[j].in, left |-> paste[j].left]
    <2>1. p \in [at : Stages, in : Nat, left : 0..MaxImages] /\ p.at = "done"
      BY <1>1, ComposerAssumption, SMT DEF Stages
    <2>2. paste' = [paste EXCEPT ![j] = p]
      <3>1. [paste[j] EXCEPT !.at = "done"] = p
        BY <1>1, SMT
      <3>. HIDE DEF p
      <3>. QED BY <1>3, <3>1 DEF Ends
    <2>3. pastesInFlight' = pastesInFlight + (IF p.at \in {"html", "images"} THEN 1 ELSE 0)
                                           - (IF Preparing(j) THEN 1 ELSE 0)
      BY <1>3, <2>1, BusyFinite, SMT DEF Ends, Over, ComposerInv
    <2>4. disabled' = (pastesInFlight' > 0)
      BY <1>3 DEF Ends, Render
    <2>. HIDE DEF p
    <2>. QED BY <1>2, <2>1, <2>2, <2>3, <2>4, PasteMoves
  <1>4. CASE HtmlPrepared(j)
    BY <1>3, <1>4 DEF HtmlPrepared, Preparing
  <1>5. CASE ImagePrepared(j) /\ paste[j].left = 1
    BY <1>3, <1>5 DEF ImagePrepared, Preparing
  <1>6. CASE ImagePrepared(j) /\ paste[j].left # 1
    <2>. DEFINE p == [at |-> "images", in |-> paste[j].in, left |-> paste[j].left - 1]
    <2>0. paste[j].at = "images" /\ paste[j].left # 0
      BY <1>6 DEF ImagePrepared, ComposerInv, PasteType
    <2>1. /\ p \in [at : Stages, in : Nat, left : 0..MaxImages]
          /\ p.at = "images" /\ p.left # 0
      BY <1>1, <1>6, <2>0, ComposerAssumption, SMT DEF Stages
    <2>2. paste' = [paste EXCEPT ![j] = p]
      BY <1>1, <1>6, <2>0, SMT DEF ImagePrepared, ComposerInv, PasteType
    <2>3. pastesInFlight' = pastesInFlight + (IF p.at \in {"html", "images"} THEN 1 ELSE 0)
                                           - (IF Preparing(j) THEN 1 ELSE 0)
      BY <1>6, <2>0, <2>1, BusyFinite, SMT DEF ImagePrepared, ComposerInv, Preparing
    <2>4. disabled' = (pastesInFlight' > 0)
      BY <1>6 DEF ImagePrepared, ComposerInv
    <2>. HIDE DEF p
    <2>. QED BY <1>2, <2>1, <2>2, <2>3, <2>4, PasteMoves
  <1>. QED BY <1>4, <1>5, <1>6 DEF Prepared

LEMMA ComposerInvSame == ASSUME ComposerInv, UNCHANGED composerVars PROVE ComposerInv'
  BY PastesSame DEF composerVars, ComposerInv

----------------------------------------------------------------------------
PageInv == DialogInv /\ ComposerInv

LEMMA PageInvStep == ASSUME PageInv, [Next]_vars PROVE PageInv'
  <1>. USE DEF PageInv
  <1>1. CASE Composes
    BY <1>1, UserComposesKeeps, DialogInvStep DEF Composes
  <1>2. CASE Prepares
    BY <1>2, PreparedKeeps, DialogInvStep DEF Prepares
  <1>3. CASE Decides
    BY <1>3, DialogInvStep, ComposerInvSame DEF Decides
  <1>4. CASE UNCHANGED vars
    BY <1>4, DialogInvStep, ComposerInvSame DEF vars
  <1>. QED BY <1>1, <1>2, <1>3, <1>4 DEF Next

LEMMA PageInvHolds == Spec => []PageInv
  <1>1. Init => PageInv
    BY DialogInvInit, ComposerInvInit DEF Init, PageInv
  <1>. QED BY <1>1, PageInvStep, PTL DEF Spec

LEMMA PageInvTypes == ASSUME PageInv PROVE TypeOK
  <1>1. \A j \in Pastes : /\ paste[j].at \in {"unused", "html", "images", "done"}
                          /\ paste[j].left \in 0..MaxImages
    BY ComposerAssumption, SMT DEF PageInv, ComposerInv, PasteType, Stages
  <1>. QED BY <1>1 DEF PageInv, DialogInv, ComposerInv, TypeOK, ComposerType

(* The counter pastesInFlight is the number of pastes under way and the    *)
(* Send button is off exactly while there are any, for all pastes.         *)
THEOREM TypesHold == Spec => []TypeOK
  BY PageInvHolds, PageInvTypes, PTL

(* A request that waits can always be answered, however many come and      *)
(* whenever they do (ui.js:579-602, 617-625).                              *)
THEOREM NobodyWaitsForNothing == Spec => []NoOrphanRequest
  <1>1. PageInv => NoOrphanRequest
    BY DEF PageInv, DialogInv
  <1>. QED BY <1>1, PageInvHolds, PTL

(* Nothing is accepted but what waited when the user pressed Accept        *)
(* (ui.js:580-600, 618-623).                                               *)
THEOREM NothingSlipsThrough == Spec => []AcceptNeedsClick
  <1>1. PageInv => AcceptNeedsClick
    BY DEF PageInv, DialogInv
  <1>. QED BY <1>1, PageInvHolds, PTL

(* A message is read only when every paste made for it has settled, for    *)
(* any number of pastes and openings of the composer (ui.js:697-714).      *)
THEOREM MessagesWait == Spec => []SendWaits
  <1>1. PageInv => SendWaits
    BY DEF PageInv, ComposerInv
  <1>. QED BY <1>1, PageInvHolds, PTL

----------------------------------------------------------------------------
(* The budget of a paste.                                                  *)

Outcome == {"waiting", "fetching", "kept", "embedded", "removed"}

(* What is charged covers what is there, and passes the limit only where   *)
(* the markup alone did.                                                   *)
Charged ==
    /\ images \in Seq(Image) /\ next \in 0..Len(images)
    /\ image \in [DOMAIN images -> Outcome]
    /\ before \in Nat /\ used \in Nat /\ length \in Int
    /\ length <= used
    /\ used <= MaxDoc \/ used = before

LEMMA ChargedInit == ASSUME PasteInit PROVE Charged
  <1>1. PICK imgs \in Seq(Image), markup \in Nat : Start(imgs, markup)
    BY DEF PasteInit
  <1>2. Len(imgs) \in Nat /\ DOMAIN imgs = 1..Len(imgs)
    OBVIOUS
  <1>3. image \in [DOMAIN images -> Outcome]
    BY <1>1, <1>2, SMT DEF Start, Outcome
  <1>. QED BY <1>1, <1>2, <1>3, SMT DEF Start, Charged

(* The four things that can become of an image.                            *)
LEMMA OutcomesCharge ==
    ASSUME Charged, NEW i \in DOMAIN images, UNCHANGED <<images, before>>,
           NEW size \in Nat,
           next' \in 0..Len(images),
           \/ DropImage(i)
           \/ Fits(images[i].len) /\ Keep(i)
           \/ Fits(size) /\ Embed(i, size)
           \/ image' = [image EXCEPT ![i] = "fetching"] /\ UNCHANGED <<length, used>>
    PROVE Charged'
  <1>. USE RichPasteAssumption DEF Charged
  <1>0. images \in Seq(Image) /\ i \in 1..Len(images)
    OBVIOUS
  <1>1. images[i].len \in Nat
    <2>1. images[i] \in Image
      BY <1>0
    <2>. QED BY <2>1 DEF Image
  <1>2. CASE DropImage(i)
    BY <1>1, <1>2, SMT DEF DropImage, Outcome
  <1>3. CASE Fits(images[i].len) /\ Keep(i)
    BY <1>1, <1>3, SMT DEF Fits, Keep, Outcome
  <1>4. CASE Fits(size) /\ Embed(i, size)
    BY <1>1, <1>4, SMT DEF Fits, Embed, Outcome
  <1>5. CASE image' = [image EXCEPT ![i] = "fetching"] /\ UNCHANGED <<length, used>>
    BY <1>5, SMT DEF Outcome
  <1>. QED BY <1>2, <1>3, <1>4, <1>5

LEMMA TakeCharges == ASSUME Charged, Take PROVE Charged'
  <1>1. next + 1 \in DOMAIN images /\ next' \in 0..Len(images) /\ UNCHANGED <<images, before>>
    BY SMT DEF Charged, Take, MoreToDo
  <1>2. \/ DropImage(next + 1)
        \/ Fits(images[next + 1].len) /\ Keep(next + 1)
        \/ image' = [image EXCEPT ![next + 1] = "fetching"] /\ UNCHANGED <<length, used>>
    BY DEF Take
  <1>. QED BY <1>1, <1>2, OutcomesCharge

LEMMA SettlesCharges ==
    ASSUME Charged, NEW i \in DOMAIN images, Settles(i) PROVE Charged'
  <1>1. next' \in 0..Len(images) /\ UNCHANGED <<images, before>>
    BY DEF Charged, Settles, Fetched, FetchFails
  <1>2. CASE FetchFails(i)
    BY <1>1, <1>2, OutcomesCharge DEF FetchFails
  <1>3. CASE Fetched(i)
    <2>1. PICK size \in Sizes : IF Fits(size) THEN Embed(i, size) ELSE DropImage(i)
      BY <1>3 DEF Fetched
    <2>2. size \in Nat
      BY <2>1, RichPasteAssumption
    <2>. QED BY <1>1, <2>1, <2>2, OutcomesCharge
  <1>. QED BY <1>2, <1>3 DEF Settles

LEMMA ChargedStep == ASSUME Charged, [PasteNext]_pasteVars PROVE Charged'
  <1>1. CASE UNCHANGED pasteVars
    BY <1>1 DEF pasteVars, Charged
  <1>. QED BY <1>1, TakeCharges, SettlesCharges DEF PasteNext

LEMMA ChargedBounds == ASSUME Charged PROVE BudgetHolds
  BY RichPasteAssumption, SMT DEF Charged, BudgetHolds

(* However many images a paste has, however large they turn out to be and  *)
(* in whatever order downloads settle, the document stays within the       *)
(* budget unless its markup alone did not (rich.js:73-75, 100-105).        *)
THEOREM BudgetIsKept == PasteSpec => []BudgetHolds
  <1>1. PasteInit => Charged
    BY ChargedInit
  <1>2. Charged /\ [PasteNext]_pasteVars => Charged'
    BY ChargedStep
  <1>3. Charged => BudgetHolds
    BY ChargedBounds
  <1>. QED BY <1>1, <1>2, <1>3, PTL DEF PasteSpec
=============================================================================
