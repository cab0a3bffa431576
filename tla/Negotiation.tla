---------------------------- MODULE Negotiation ----------------------------
(***************************************************************************)
(* Perfect negotiation (peer.js DirectLink) between the pages of two       *)
(* devices, over the server's signaling (signaling.js).  Each page starts  *)
(* on its own when it learns of the other, so that offers cross; the       *)
(* polite page gives way.  The browser's RTCPeerConnection is external: a  *)
(* signaling state and a chain of operations of which one runs at a time,  *)
(* as WebRTC prescribes.  A description is named by the connection it is   *)
(* of, an answer also by the offer it answers.                             *)
(***************************************************************************)
EXTENDS Integers, Sequences, FiniteSets

CONSTANTS
    Candidates, \* bound: ICE candidates gathered for one description
    MaxLosses   \* bound: times a page is reloaded or loses its socket

ASSUME NegotiationAssumption ==
    Candidates \in Nat /\ MaxLosses \in Nat

VARIABLES
    online,     \* pages whose socket is open; the server knows exactly these
    losses,     \* reloads and lost sockets so far
    clean,      \* all of them reloads of a page whose session stood
    up, dn,     \* messages to and from the server, per page, in order
    born,       \* connections a page has made for the other
    sig,        \* signalingState of the current one, "none" without one
    ops,        \* its operations chain, the running operation first
    loc, rem,   \* its local and remote description
    making,     \* #makingOffer
    ignoring,   \* #ignoreOffer
    gathered,   \* candidates sent for loc
    added       \* candidates of rem the browser has taken

serverVars == <<online, losses, clean>>
wireVars   == <<up, dn>>
pcVars     == <<born, sig, ops, loc, rem, gathered, added>>
linkVars   == <<making, ignoring>>
vars == <<serverVars, wireVars, pcVars, linkVars>>

Page == {1, 2}
Other(p) == 3 - p
polite(p) == p < Other(p)

NoDesc == [type |-> "none"]
Offer(p, n) == [type |-> "offer", by |-> p, pc |-> n]
Answer(p, n, o) == [type |-> "answer", by |-> p, pc |-> n, to |-> o]

(* The operations the page asks of the browser.  The caller of the local   *)
(* one is onnegotiationneeded or handleSignal.                             *)
SetLocal(caller) == [op |-> "local", caller |-> caller]
SetRemote(d)     == [op |-> "remote", d |-> d]
AddCandidate(d)  == [op |-> "candidate", d |-> d]

Init ==
    /\ online = {} /\ losses = 0 /\ clean = TRUE
    /\ up = [p \in Page |-> <<>>] /\ dn = [p \in Page |-> <<>>]
    /\ born = [p \in Page |-> 0] /\ sig = [p \in Page |-> "none"]
    /\ ops = [p \in Page |-> <<>>]
    /\ loc = [p \in Page |-> NoDesc] /\ rem = [p \in Page |-> NoDesc]
    /\ making = [p \in Page |-> FALSE] /\ ignoring = [p \in Page |-> FALSE]
    /\ gathered = [p \in Page |-> 0] /\ added = [p \in Page |-> {}]

(* Nothing is under way, and both pages are connected to the server.       *)
Settled == online = Page /\ \A p \in Page :
    /\ up[p] = <<>> /\ dn[p] = <<>> /\ ops[p] = <<>>
    /\ IF loc[p] = NoDesc THEN sig[p] # "stable" ELSE gathered[p] = Candidates

----------------------------------------------------------------------------
(* The server, external to this module: it announces who comes and goes,   *)
(* and forwards signals to a device that is there.                         *)

Comes(p) ==
    /\ p \notin online
    /\ online' = online \cup {p}
    /\ dn' = [q \in Page |->
                IF q = p THEN <<[k |-> "welcome", peers |-> online]>>
                ELSE IF q \in online THEN Append(dn[q], [k |-> "peer-join"]) ELSE dn[q]]
    /\ UNCHANGED <<losses, clean, up, pcVars, linkVars>>

Forwards(p) ==
    /\ up[p] # <<>>
    /\ up' = [up EXCEPT ![p] = Tail(@)]
    /\ dn' = IF Other(p) \in online
             THEN [dn EXCEPT ![Other(p)] = Append(@, Head(up[p]))] ELSE dn
    /\ UNCHANGED <<serverVars, pcVars, linkVars>>

Gone(p) ==
    /\ p \in online /\ losses < MaxLosses /\ losses' = losses + 1
    /\ online' = online \ {p}
    /\ up' = [up EXCEPT ![p] = <<>>]
    /\ dn' = [q \in Page |-> IF q = p THEN <<>>
                             ELSE IF q \in online THEN Append(dn[q], [k |-> "peer-leave"])
                             ELSE dn[q]]

(* The socket is lost (ws.onclose) and later reopened; the page keeps its  *)
(* links.                                                                  *)
Drops(p) ==
    /\ Gone(p) /\ clean' = FALSE /\ UNCHANGED <<pcVars, linkVars>>

----------------------------------------------------------------------------
(* DirectLink.                                                             *)

(* start, of the pages in P: a new connection with its negotiated channel. *)

Started(p) == born' = [born EXCEPT ![p] = IF sig[p] = "none" THEN @ + 1 ELSE @]

Start(p) ==
    /\ Started(p)
    /\ sig' = [sig EXCEPT ![p] = IF @ = "none" THEN "stable" ELSE @]
    /\ UNCHANGED <<ops, loc, rem, gathered, added, linkVars>>

(* close, as dispose calls it; a page that is reloaded forgets all.        *)
Dispose(p) ==
    /\ sig' = [sig EXCEPT ![p] = "none"] /\ ops' = [ops EXCEPT ![p] = <<>>]
    /\ loc' = [loc EXCEPT ![p] = NoDesc] /\ rem' = [rem EXCEPT ![p] = NoDesc]
    /\ making' = [making EXCEPT ![p] = FALSE]
    /\ ignoring' = [ignoring EXCEPT ![p] = FALSE]
    /\ gathered' = [gathered EXCEPT ![p] = 0] /\ added' = [added EXCEPT ![p] = {}]
    /\ UNCHANGED born

Reloads(p) ==
    /\ Gone(p) /\ Dispose(p) /\ clean' = (clean /\ Settled)

(* #signal: what is sent while the socket is down is lost.                 *)
signal(p, m) == up' = IF p \in online THEN [up EXCEPT ![p] = Append(@, m)] ELSE up

(* The browser wants a negotiation while nothing was ever negotiated.      *)
onnegotiationneeded(p) ==
    /\ sig[p] = "stable" /\ ops[p] = <<>> /\ loc[p] = NoDesc
    /\ making' = [making EXCEPT ![p] = TRUE]
    /\ ops' = [ops EXCEPT ![p] = <<SetLocal("needed")>>]
    /\ UNCHANGED <<serverVars, wireVars, born, sig, loc, rem, gathered, added, ignoring>>

(* The finally block of onnegotiationneeded.                               *)
OfferStays(p) == UNCHANGED making                         \* mutant: no finally
OfferMade(p) == making' = [making EXCEPT ![p] = @ /\ Head(ops[p]).caller # "needed"]

(* setLocalDescription completes: an answer to a remote offer, otherwise   *)
(* an offer.  Its caller signals the description.                          *)
LocalSet(p) ==
    /\ ops[p] # <<>> /\ Head(ops[p]).op = "local"
    /\ ops' = [ops EXCEPT ![p] = Tail(@)]
    /\ LET answers == sig[p] = "have-remote-offer"
           d == IF answers THEN Answer(p, born[p], rem[p]) ELSE Offer(p, born[p])
       IN  /\ loc' = [loc EXCEPT ![p] = d]
           /\ sig' = [sig EXCEPT ![p] = IF answers THEN "stable" ELSE "have-local-offer"]
           /\ signal(p, [k |-> "description", d |-> d])
    /\ OfferMade(p)
    /\ gathered' = [gathered EXCEPT ![p] = 0]
    /\ UNCHANGED <<serverVars, dn, born, rem, added, ignoring>>

(* setRemoteDescription completes.  An offer undoes a local one, and its   *)
(* caller goes on to answer; an answer nobody waits for is an error.       *)
RemoteSet(p) ==
    /\ ops[p] # <<>> /\ Head(ops[p]).op = "remote"
    /\ LET d == Head(ops[p]).d
       IN  IF d.type = "offer"
           THEN /\ sig' = [sig EXCEPT ![p] = "have-remote-offer"]
                /\ rem' = [rem EXCEPT ![p] = d]
                /\ added' = [added EXCEPT ![p] = {}]
                /\ loc' = [loc EXCEPT ![p] = IF sig[p] = "have-local-offer" THEN NoDesc ELSE @]
                /\ ops' = [ops EXCEPT ![p] = Append(Tail(@), SetLocal("signal"))]
           ELSE /\ ops' = [ops EXCEPT ![p] = Tail(@)] /\ UNCHANGED loc
                /\ IF sig[p] = "have-local-offer"
                   THEN /\ sig' = [sig EXCEPT ![p] = "stable"]
                        /\ rem' = [rem EXCEPT ![p] = d]
                        /\ added' = [added EXCEPT ![p] = {}]
                   ELSE UNCHANGED <<sig, rem, added>>
    /\ UNCHANGED <<serverVars, wireVars, born, gathered, linkVars>>

(* addIceCandidate completes: the browser takes a candidate of the remote  *)
(* description it has and rejects any other, which changes nothing.        *)
CandidateAdded(p) ==
    /\ ops[p] # <<>> /\ Head(ops[p]).op = "candidate"
    /\ ops' = [ops EXCEPT ![p] = Tail(@)]
    /\ added' = [added EXCEPT ![p] = IF rem[p] = Head(ops[p]).d.of
                                     THEN @ \cup {Head(ops[p]).d.n} ELSE @]
    /\ UNCHANGED <<serverVars, wireVars, born, sig, loc, rem, gathered, linkVars>>

(* onicecandidate, for the description the browser gathers for.            *)
onicecandidate(p) ==
    /\ loc[p] # NoDesc /\ gathered[p] < Candidates
    /\ gathered' = [gathered EXCEPT ![p] = @ + 1]
    /\ signal(p, [k |-> "candidate", d |-> [of |-> loc[p], n |-> gathered'[p]]])
    /\ UNCHANGED <<serverVars, dn, born, sig, ops, loc, rem, added, linkVars>>

----------------------------------------------------------------------------
(* Messages from the server (app.js wireSignaling, peer.js handleSignal).  *)

Gets(p, kinds) == dn[p] # <<>> /\ Head(dn[p]).k \in kinds
Took(p) == dn' = [dn EXCEPT ![p] = Tail(@)] /\ UNCHANGED <<serverVars, up>>

RecvPeer(p) ==
    /\ Gets(p, {"welcome", "peer-join"})
    /\ IF Head(dn[p]).k = "welcome" /\ Other(p) \notin Head(dn[p]).peers
       THEN UNCHANGED <<pcVars, linkVars>> ELSE Start(p)
    /\ Took(p)

RecvLeave(p) == Gets(p, {"peer-leave"}) /\ Dispose(p) /\ Took(p)

(* handleSignal starts the link if need be.  An offer collides with one    *)
(* being made or already out; only the impolite page then ignores it.      *)
collision(p, d) == d.type = "offer" /\ (making[p] \/ sig[p] \notin {"none", "stable"})

BothGiveWay(p, d) == FALSE                                \* mutant
BothInsist(p, d)  == collision(p, d)                      \* mutant
LateCollision(p, d) ==    \* mutant: an offer still being made is not seen
    ~polite(p) /\ d.type = "offer" /\ sig[p] \notin {"none", "stable"}

ignoreOffer(p, d) == ~polite(p) /\ collision(p, d)

Queue(p, o) == ops' = [ops EXCEPT ![p] = Append(@, o)]

RecvDescription(p) ==
    /\ Gets(p, {"description"})
    /\ LET d == Head(dn[p]).d
       IN  /\ ignoring' = [ignoring EXCEPT ![p] = ignoreOffer(p, d)]
           /\ IF ignoreOffer(p, d) THEN UNCHANGED ops ELSE Queue(p, SetRemote(d))
    /\ Started(p) /\ sig' = [sig EXCEPT ![p] = IF @ = "none" THEN "stable" ELSE @]
    /\ Took(p) /\ UNCHANGED <<loc, rem, gathered, added, making>>

RecvCandidate(p) ==
    /\ Gets(p, {"candidate"})
    /\ Queue(p, AddCandidate(Head(dn[p]).d))
    /\ Started(p) /\ sig' = [sig EXCEPT ![p] = IF @ = "none" THEN "stable" ELSE @]
    /\ Took(p) /\ UNCHANGED <<loc, rem, gathered, added, linkVars>>

----------------------------------------------------------------------------
Handles(p)  == RecvPeer(p) \/ RecvLeave(p) \/ RecvDescription(p) \/ RecvCandidate(p)
Completes(p) == LocalSet(p) \/ RemoteSet(p) \/ CandidateAdded(p)
Fires(p)    == onnegotiationneeded(p) \/ onicecandidate(p)

Next == \E p \in Page :
    \/ Comes(p) \/ Drops(p) \/ Reloads(p) \/ Forwards(p)
    \/ Handles(p) \/ Completes(p) \/ Fires(p)

Spec == Init /\ [][Next]_vars

(* The event loops run what is due, the browser completes what it was      *)
(* asked, the server forwards, and a socket that is down is reopened.      *)
Fairness == \A p \in Page :
    /\ WF_vars(Comes(p)) /\ WF_vars(Forwards(p))
    /\ WF_vars(Handles(p)) /\ WF_vars(Completes(p))
    /\ WF_vars(onnegotiationneeded(p)) /\ WF_vars(onicecandidate(p))

FairSpec == Spec /\ Fairness

----------------------------------------------------------------------------
(* Every variable has its type; a page makes at most one offer at a time.  *)
States == {"none", "stable", "have-local-offer", "have-remote-offer"}

TypeOK ==
    /\ online \subseteq Page /\ losses \in 0..MaxLosses /\ clean \in BOOLEAN
    /\ born \in [Page -> Nat] /\ sig \in [Page -> States]
    /\ \A p \in Page : /\ loc[p] # NoDesc => loc[p].by = p
                       /\ rem[p] # NoDesc => rem[p].by = Other(p)
                       /\ making[p] <=> SetLocal("needed") \in {ops[p][i] : i \in 1..Len(ops[p])}
    /\ making \in [Page -> BOOLEAN] /\ ignoring \in [Page -> BOOLEAN]
    /\ gathered \in [Page -> 0..Candidates] /\ added \in [Page -> SUBSET (1..Candidates)]

Paired(p) ==
    /\ sig[p] = "stable"
    /\ loc[p] = rem[Other(p)] /\ loc[p] # NoDesc
    /\ added[Other(p)] = 1..gathered[p]

(* Once all is quiet, the two pages have one session: what one holds as    *)
(* its own description the other holds as the remote one, with every       *)
(* candidate, however the offers crossed, and again after a reload of a    *)
(* page whose session stood (peer.js:84-86, 104-120, 164-186).             *)
PairAgrees == Settled /\ clean => \A p \in Page : Paired(p)

(* Two pages end up together for good: crossing offers cannot leave both   *)
(* waiting (peer.js:84-86), nor can such a reload.                         *)
GetsTogether ==
    <>[](online = Page /\ \A p \in Page : Paired(p)) \/ <>~clean

(* The negotiation implements Agreement: each page completes one exchange, *)
(* never another, and both complete the same (peer.js:166-179).            *)
Completed(p) ==
    IF sig[p] = "stable" /\ loc[p] # NoDesc /\ rem[p] # NoDesc
    THEN IF loc[p].type = "offer" THEN loc[p] ELSE rem[p]
    ELSE NoDesc

Bids == {Offer(p, n) : p \in Page, n \in 1..(MaxLosses + 1)}

A == INSTANCE Agreement WITH
       Ends <- Page, Offers <- Bids, Undecided <- NoDesc,
       chosen <- [p \in Page |-> Completed(p)], broken <- (losses > 0)

AgreesOnce == A!Spec
=============================================================================
