-------------------------------- MODULE Page --------------------------------
(***************************************************************************)
(* The dialogs of a page together.  Both are modal, and the accept dialog  *)
(* comes on top: while it is up the user cannot reach the composer, but    *)
(* pastes go on settling and requests go on coming.                        *)
(***************************************************************************)
EXTENDS AcceptDialog, Composer

vars == <<dialogVars, composerVars>>

Init == DialogInit /\ ComposerInit

Composes == ~open /\ UserComposes /\ UNCHANGED dialogVars
Prepares == (\E j \in Pastes : Prepared(j)) /\ UNCHANGED dialogVars
Decides  == DialogNext /\ UNCHANGED composerVars

Next == Composes \/ Prepares \/ Decides

Spec == Init /\ [][Next]_vars

(* Every variable has its type; the count of pastes under way is right, and *)
(* the send button is off while there are any (ui.js:697-714).             *)
TypeOK == DialogType /\ ComposerType
=============================================================================
