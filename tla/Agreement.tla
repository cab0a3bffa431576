----------------------------- MODULE Agreement -----------------------------
(***************************************************************************)
(* What the negotiation of two pages promises (peer.js): each end settles  *)
(* on one offer, once, and the two ends settle on the same one.            *)
(***************************************************************************)
CONSTANTS
    Ends,       \* the two ends
    Offers,     \* what they may settle on
    Undecided   \* not an offer

VARIABLES
    chosen,     \* chosen[e]: the offer an end has settled on
    broken      \* an end was lost on the way: nothing is promised any more

Init == chosen = [e \in Ends |-> Undecided] /\ broken = FALSE

Settles(e) ==
    /\ ~broken /\ chosen[e] = Undecided
    /\ \E o \in Offers :
         /\ \A f \in Ends : chosen[f] \in {Undecided, o}
         /\ chosen' = [chosen EXCEPT ![e] = o]
    /\ UNCHANGED broken

Breaks == broken' /\ chosen' \in [Ends -> Offers \cup {Undecided}]

Next == Breaks \/ \E e \in Ends : Settles(e)

Spec == Init /\ [][Next]_<<chosen, broken>>
=============================================================================
