---------------------------- MODULE AcceptDialog ----------------------------
(***************************************************************************)
(* The one dialog that asks the user about everything that comes in        *)
(* (ui.js confirmIncoming, confirmDoc).  A request that arrives while the  *)
(* dialog is up takes it over; each waits for the dialog's close event,    *)
(* which the browser queues, so that a request may also arrive between the *)
(* click that closes the dialog and that event.                            *)
(***************************************************************************)
CONSTANTS
    Requests,   \* what peers announce: batches and large documents
    OneFile,    \* the batches of a single file
    Streams     \* canStreamToDisk()

ASSUME AcceptAssumption == OneFile \subseteq Requests /\ Streams \in BOOLEAN

VARIABLES
    request,    \* request[r]: what became of r; "asking" while it listens
    open,       \* the dialog is on screen
    shownReq,   \* the request its text is about
    returnValue,
    closing,    \* its close event is queued
    consented   \* history: requests that waited when the user pressed Accept

dialogVars == <<request, open, shownReq, returnValue, closing, consented>>

NoRequest == "nothing"
Asking == {r \in Requests : request[r] = "asking"}

DialogInit ==
    /\ request = [r \in Requests |-> "none"] /\ consented = {}
    /\ open = FALSE /\ shownReq = NoRequest /\ returnValue = "" /\ closing = FALSE

----------------------------------------------------------------------------
(* confirmIncoming and confirmDoc: rewrite the text, forget the last       *)
(* answer, listen and show; showing what is shown changes nothing.         *)
KeepAnswer == UNCHANGED returnValue      \* mutant: the last answer stays
ForgetAnswer == returnValue' = ""

Confirm(r) ==
    /\ request[r] = "none"
    /\ request' = [request EXCEPT ![r] = "asking"]
    /\ shownReq' = r /\ open' = TRUE
    /\ ForgetAnswer
    /\ UNCHANGED <<closing, consented>>

(* The user presses a button of the form, or Escape, which leaves          *)
(* returnValue alone.  The browser runs the close event before it looks at *)
(* the user's next action.                                                 *)
Shut == open /\ ~closing /\ open' = FALSE /\ closing' = TRUE

PressAccept ==
    /\ Shut
    /\ returnValue' = "accept" /\ consented' = consented \cup Asking
    /\ UNCHANGED <<request, shownReq>>

PressDecline ==
    /\ Shut /\ returnValue' = "decline" /\ UNCHANGED <<request, shownReq, consented>>

PressEscape == Shut /\ UNCHANGED <<request, shownReq, returnValue, consented>>

(* Every onClose that listens: the picker comes up for a single file.      *)
Answered(r) ==
    IF returnValue # "accept" THEN "declined"
    ELSE IF r \in OneFile /\ Streams THEN "picking" ELSE "accepted"

ListeningLast == Asking \cap {shownReq}  \* mutant: only the one on screen
Listening == Asking

onClose ==
    /\ closing /\ closing' = FALSE
    /\ request' = [r \in Requests |-> IF r \in Listening THEN Answered(r) ELSE request[r]]
    /\ UNCHANGED <<open, shownReq, returnValue, consented>>

(* The picker settles; cancelling it only means assembling in memory.      *)
PickerSettles(r) ==
    /\ request[r] = "picking" /\ request' = [request EXCEPT ![r] = "accepted"]
    /\ UNCHANGED <<open, shownReq, returnValue, closing, consented>>

DialogNext ==
    \/ \E r \in Requests : Confirm(r) \/ PickerSettles(r)
    \/ PressAccept \/ PressDecline \/ PressEscape \/ onClose

----------------------------------------------------------------------------
Outcomes == {"none", "asking", "picking", "accepted", "declined"}

DialogType ==
    /\ request \in [Requests -> Outcomes] /\ consented \subseteq Requests
    /\ open \in BOOLEAN /\ closing \in BOOLEAN
    /\ returnValue \in {"", "accept", "decline"}

(* A request that waits can still be answered: the dialog is up, or its    *)
(* close event is on the way (ui.js:579-602, 617-625).                     *)
NoOrphanRequest == Asking # {} => open \/ closing

(* Nothing is accepted that was not waiting when the user pressed Accept:  *)
(* neither an old answer nor one given before the request came counts      *)
(* (ui.js:580-600, 618-623).                                               *)
AcceptNeedsClick == \A r \in Requests : request[r] \in {"picking", "accepted"} => r \in consented

----------------------------------------------------------------------------
(***************************************************************************)
(* What a user would expect of the dialog and the code does not keep; see  *)
(* the README.                                                             *)
(***************************************************************************)

(* One press of Accept answers the request that is on screen, not others.  *)
OneClickOneRequest == [][
    \A r \in consented' \ consented : r = shownReq]_dialogVars

(* A dialog on screen belongs to a request that waits for it.              *)
DialogHasRequest == open => Asking # {}
=============================================================================
