-------------------------------- MODULE Link --------------------------------
(***************************************************************************)
(* One page of lanshare in the browser: its roster, its PeerLinks (app.js) *)
(* and their relay transports (relay.js), over a WebSocket that drops and  *)
(* is reopened (signaling.js).  The server and the other devices are its   *)
(* environment: they come and go, open and close relay sessions, and what  *)
(* the server tells this page is queued in order.                          *)
(*                                                                         *)
(* A link is <<p, k>>, the k-th PeerLink made for peer p: one that was     *)
(* disposed of may still have a #connect running.                          *)
(***************************************************************************)
EXTENDS Integers, Sequences, FiniteSets, Functions

CONSTANTS
    Peers,      \* the other devices
    MaxJoins,   \* bound: times a device comes
    MaxSess,    \* bound: relay sessions opened
    MaxDrops,   \* bound: times the page's WebSocket is lost
    Backlog,    \* bound: messages under way when something new is started
    Faults      \* what may go wrong

Nobody == "nobody"

ASSUME LinkAssumption ==
    /\ Nobody \notin Peers
    /\ MaxJoins \in Nat /\ MaxSess \in Nat /\ MaxDrops \in Nat
    /\ Backlog \in Nat
    /\ Faults \subseteq {"timeout", "error", "silence"}

VARIABLES
    online,     \* signaling.connected
    drops,      \* times the connection was lost
    toPage,     \* messages the server has queued for this connection
    present,    \* peers registered with the server
    joins,      \* times each peer has come
    session,    \* session[s]: the peer at the other end on the server, or Nobody
    lastSess,   \* the last session ID handed out
    badge,      \* badge[p]: what the tile of p says, "none" if there is no tile
    made,       \* made[p]: links made for p so far
    linked,     \* peers with an entry in links
    direct,     \* direct[l]: #direct of a link
    settled,    \* settled[l]: what #directReady resolved to, or "no"
    connect,    \* connect[l]: where #connect is, "idle" if it is not running
    relay,      \* relay[l]: session of #relay, or 0
    transport,  \* transport[l][s]: the RelayTransport the link built on s
    active,     \* active[s]: the link whose transport is in activeRelays, or NoLink
    state,      \* state[l]: #state of a link, which it shows on the tile
    gaveUp      \* history: an attempt ended before the server's answer came

serverVars == <<present, joins, session, lastSess>>
wireVars   == <<online, drops, toPage>>
pageVars   == <<badge, made, linked>>
linkVars   == <<direct, settled, connect, relay, transport, active, state, gaveUp>>
vars == <<serverVars, wireVars, pageVars, linkVars>>

NoLink == <<Nobody, 0>>
Sess   == 1..MaxSess
Links  == Peers \X (1..(MaxJoins + 1))
Peer(l) == l[1]
Current(p) == <<p, made[p]>>
shown == {p \in Peers : badge[p] # "none"}

Init ==
    /\ online = TRUE /\ drops = 0 /\ toPage = <<>>
    /\ present = {} /\ joins = [p \in Peers |-> 0]
    /\ session = [s \in Sess |-> Nobody] /\ lastSess = 0
    /\ badge = [p \in Peers |-> "none"] /\ made = [p \in Peers |-> 0] /\ linked = {}
    /\ direct = [l \in Links |-> "none"] /\ settled = [l \in Links |-> "no"]
    /\ connect = [l \in Links |-> "idle"] /\ relay = [l \in Links |-> 0]
    /\ transport = [l \in Links |-> [s \in Sess |-> "none"]]
    /\ active = [s \in Sess |-> NoLink]
    /\ state = [l \in Links |-> "idle"] /\ gaveUp = FALSE

(* The server tells this page, if it is connected.                         *)
Tells(ms) == toPage' = IF online THEN toPage \o ms ELSE toPage

----------------------------------------------------------------------------
(* External: the other devices, as the server shows them to this page.     *)

PeerComes(p) ==
    /\ p \notin present /\ joins[p] < MaxJoins
    /\ present' = present \cup {p} /\ joins' = [joins EXCEPT ![p] = @ + 1]
    /\ Tells(<<[t |-> "peer-join", p |-> p]>>)
    /\ UNCHANGED <<session, lastSess, online, drops, pageVars, linkVars>>

(* A leaving peer's sessions are closed, in the arbitrary order of a Go    *)
(* map, before its departure is announced.                                 *)
SessionsOf(p) == {s \in Sess : session[s] = p}
Closes(q)     == [i \in DOMAIN q |-> [t |-> "relay-close", s |-> q[i]]]

PeerGoes(p) ==
    /\ p \in present
    /\ present' = present \ {p}
    /\ session' = [s \in Sess |-> IF session[s] = p THEN Nobody ELSE session[s]]
    /\ \E q \in Bijection(1..Cardinality(SessionsOf(p)), SessionsOf(p)) :
         Tells(Append(Closes(q), [t |-> "peer-leave", p |-> p]))
    /\ UNCHANGED <<joins, lastSess, online, drops, pageVars, linkVars>>

(* A peer opens a relay session to this page, or closes one.               *)
PeerOpens(p) ==
    /\ p \in present /\ online /\ lastSess < MaxSess
    /\ lastSess' = lastSess + 1
    /\ session' = [session EXCEPT ![lastSess'] = p]
    /\ Tells(<<[t |-> "relay-incoming", p |-> p, s |-> lastSess']>>)
    /\ UNCHANGED <<present, joins, online, drops, pageVars, linkVars>>

PeerCloses(s) ==
    /\ session[s] # Nobody
    /\ session' = [session EXCEPT ![s] = Nobody]
    /\ Tells(<<[t |-> "relay-close", s |-> s]>>)
    /\ UNCHANGED <<present, joins, lastSess, online, drops, pageVars, linkVars>>

(* A peer sends its half of the WebRTC negotiation.                        *)
PeerSignals(p) ==
    /\ p \in present /\ p \notin linked /\ Len(toPage) <= Backlog
    /\ Tells(<<[t |-> "signal", p |-> p]>>)
    /\ UNCHANGED <<serverVars, online, drops, pageVars, linkVars>>

----------------------------------------------------------------------------
(* The WebSocket: ws.onclose, and #open after the backoff.  Transports are *)
(* left as they are; the server drops the sessions of a connection that    *)
(* leaves.                                                                 *)
Drops ==
    /\ online /\ drops < MaxDrops
    /\ online' = FALSE /\ drops' = drops + 1 /\ toPage' = <<>>
    /\ session' = [s \in Sess |-> Nobody]
    /\ UNCHANGED <<present, joins, lastSess, pageVars, linkVars>>

Reconnects ==
    /\ ~online
    /\ online' = TRUE /\ toPage' = <<[t |-> "welcome", peers |-> present]>>
    /\ UNCHANGED <<serverVars, drops, pageVars, linkVars>>

----------------------------------------------------------------------------
(* Links.                                                                  *)

(* linkFor, of several peers at once.                                      *)
LinkFor(S) ==
    /\ made'   = [p \in Peers |-> IF p \in S \ linked THEN made[p] + 1 ELSE made[p]]
    /\ linked' = linked \cup S

(* warmUp and #startDirect.                                                *)
StartDirect(S) ==
    direct' = [l \in Links |->
                 IF Peer(l) \in S /\ l[2] = made'[Peer(l)] /\ direct[l] = "none"
                 THEN "trying" ELSE direct[l]]

(* #setState, of the links of L: there may be no tile, or that of a later  *)
(* link.                                                                   *)
SetState(L, v) ==
    /\ state' = [l \in Links |-> IF l \in L THEN v ELSE state[l]]
    /\ badge' = [p \in Peers |-> IF p \in shown /\ \E l \in L : Peer(l) = p THEN v
                                 ELSE badge[p]]

RelayOpen(l) == relay[l] # 0 /\ transport[l][relay[l]] = "open" /\ online

(* new RelayTransport, for every link of L.                                *)
Build(L, s) ==
    /\ transport' = [l \in Links |-> IF l \in L THEN [transport[l] EXCEPT ![s] = "open"]
                                     ELSE transport[l]]
    /\ relay'  = [l \in Links |-> IF l \in L THEN s ELSE relay[l]]
    /\ active' = [active EXCEPT ![s] = CHOOSE l \in L : TRUE]

(* markClosed of the transport l built on s.                               *)
MarkClosed(l, s) ==
    /\ transport' = [transport EXCEPT ![l][s] = "closed"]
    /\ active' = [active EXCEPT ![s] = NoLink]

----------------------------------------------------------------------------
(* wireSignaling: what the page does with a message.                       *)

Gets(types) == online /\ toPage # <<>> /\ Head(toPage).t \in types
Msg == Head(toPage)
Taken == toPage' = Tail(toPage) /\ UNCHANGED <<online, drops>>

(* addPeer: a tile if there is none, a link and its direct attempt if they *)
(* were not there.  A welcome only ever adds.                              *)
RecvPeers ==
    /\ Gets({"welcome", "peer-join"})
    /\ LET S == IF Msg.t = "welcome" THEN Msg.peers ELSE {Msg.p}
           Warms(l) == Peer(l) \in S /\ l[2] = made'[Peer(l)] /\ direct[l] = "none"
       IN  /\ LinkFor(S) /\ StartDirect(S)
           /\ state' = [l \in Links |-> IF Warms(l) THEN "connecting" ELSE state[l]]
           /\ badge' = [p \in Peers |->
                IF \E l \in Links : Peer(l) = p /\ Warms(l) THEN "connecting"
                ELSE IF p \in S \ shown THEN "idle" ELSE badge[p]]
    /\ Taken /\ UNCHANGED <<serverVars, settled, connect, relay, transport, active, gaveUp>>

(* dispose: #direct and #relay are closed and forgotten.  A #connect that  *)
(* is running is not told.                                                 *)
LeaveKeepsTile ==         \* mutant: the link is disposed of, the tile stays
    /\ Gets({"peer-leave"})
    /\ linked' = linked \ {Msg.p}
    /\ Taken /\ UNCHANGED <<serverVars, badge, made, linkVars>>

LeaveKeepsDirect ==       \* mutant: the direct attempt goes on
    /\ Gets({"peer-leave"})
    /\ badge' = [badge EXCEPT ![Msg.p] = "none"] /\ linked' = linked \ {Msg.p}
    /\ Taken /\ UNCHANGED <<serverVars, made, linkVars>>

RecvLeave ==
    /\ Gets({"peer-leave"})
    /\ badge' = [badge EXCEPT ![Msg.p] = "none"] /\ linked' = linked \ {Msg.p} /\ UNCHANGED made
    /\ IF Msg.p \notin linked THEN UNCHANGED <<session, linkVars>>
       ELSE LET l == Current(Msg.p)
            IN  /\ direct' = [direct EXCEPT ![l] = "closed"]
                /\ relay'  = [relay EXCEPT ![l] = 0]
                /\ IF relay[l] # 0 /\ transport[l][relay[l]] = "open"
                   THEN MarkClosed(l, relay[l]) /\ session' = [session EXCEPT ![relay[l]] = Nobody]
                   ELSE UNCHANGED <<transport, active, session>>
                /\ UNCHANGED <<settled, connect, state, gaveUp>>
    /\ Taken /\ UNCHANGED <<present, joins, lastSess>>

(* handleSignal: a link is made and its direct attempt started.            *)
RecvSignal ==
    /\ Gets({"signal"})
    /\ LinkFor({Msg.p}) /\ StartDirect({Msg.p})
    /\ Taken /\ UNCHANGED <<serverVars, badge, settled, connect, relay, transport, active,
                              state, gaveUp>>

(* attachIncomingRelay: the new transport replaces #relay.                 *)
RecvIncoming ==
    /\ Gets({"relay-incoming"})
    /\ LinkFor({Msg.p})
    /\ LET l == <<Msg.p, made'[Msg.p]>>
       IN  Build({l}, Msg.s) /\ SetState({l} \ {k \in Links : state[k] = "direct"}, "relay")
    /\ Taken /\ UNCHANGED <<serverVars, direct, settled, connect, gaveUp>>

(* onReady of openRelaySession: every attempt that waits for this peer     *)
(* takes the session; with none waiting the message is ignored.  #connect  *)
(* goes on to say so on the tile, whatever it says by now.                 *)
Waiting(p) == {l \in Links : Peer(l) = p /\ connect[l] = "relay"}

RecvReady ==
    /\ Gets({"relay-ready"})
    /\ LET L == Waiting(Msg.p)
       IN  IF L = {} THEN UNCHANGED <<transport, relay, active, connect, state, badge>>
           ELSE /\ Build(L, Msg.s) /\ SetState(L, "relay")
                /\ connect' = [l \in Links |-> IF l \in L THEN "idle" ELSE connect[l]]
    /\ Taken /\ UNCHANGED <<serverVars, made, linked, direct, settled, gaveUp>>

(* onError of openRelaySession: whatever the error is about, every attempt *)
(* gives up.                                                               *)
RecvError ==
    /\ Gets({"error"})
    /\ connect' = [l \in Links |-> IF connect[l] = "relay" THEN "idle" ELSE connect[l]]
    /\ gaveUp' = (gaveUp \/ \E l \in Links : connect[l] = "relay")
    /\ Taken /\ UNCHANGED <<serverVars, pageVars, direct, settled, relay, transport, active,
                              state>>

(* handleRelayClose.                                                       *)
CloseOnlyCurrent ==       \* mutant: only the transport the link uses now
    /\ Gets({"relay-close"})
    /\ IF active[Msg.s] # NoLink /\ relay[active[Msg.s]] = Msg.s
       THEN MarkClosed(active[Msg.s], Msg.s) ELSE UNCHANGED <<transport, active>>
    /\ Taken /\ UNCHANGED <<serverVars, pageVars, direct, settled, connect, relay, state, gaveUp>>

RecvClose ==
    /\ Gets({"relay-close"})
    /\ IF active[Msg.s] # NoLink
       THEN MarkClosed(active[Msg.s], Msg.s) ELSE UNCHANGED <<transport, active>>
    /\ Taken /\ UNCHANGED <<serverVars, pageVars, direct, settled, connect, relay, state, gaveUp>>

----------------------------------------------------------------------------
(* The direct path (external: ICE decides) and its deadline.               *)

Settle(l, r) == settled' = [settled EXCEPT ![l] = IF @ = "no" THEN r ELSE @]

(* Without a transport, warmUp says on the tile that the relay is used; a  *)
(* link it did not start is idle.                                          *)
SettleNull(l) ==
    /\ Settle(l, "null")
    /\ SetState({l} \ {k \in Links : settled[k] # "no" \/ state[k] \in {"idle", "direct"}}, "relay")

DirectOpens(l) ==
    /\ direct[l] = "trying"
    /\ direct' = [direct EXCEPT ![l] = "open"] /\ Settle(l, "transport")
    /\ SetState({l}, "direct")
    /\ UNCHANGED <<serverVars, wireVars, made, linked, connect, relay, transport, active, gaveUp>>

DirectFails(l) ==
    /\ direct[l] \in {"trying", "open"}
    /\ direct' = [direct EXCEPT ![l] = "failed"] /\ SettleNull(l)
    /\ UNCHANGED <<serverVars, wireVars, made, linked, connect, relay, transport, active, gaveUp>>

(* The timer outlives the link.                                            *)
NoDeadline(l) ==          \* mutant: only an attempt that is still wanted
    /\ direct[l] = "trying" /\ settled[l] = "no" /\ SettleNull(l)
    /\ UNCHANGED <<serverVars, wireVars, made, linked, direct, connect, relay, transport, active,
                   gaveUp>>

DeadlineUnseen(l) ==      \* mutant: the tile is not told
    /\ direct[l] # "none" /\ settled[l] = "no" /\ Settle(l, "null")
    /\ UNCHANGED <<serverVars, wireVars, pageVars, direct, connect, relay, transport, active,
                   state, gaveUp>>

DirectDeadline(l) ==
    /\ direct[l] # "none" /\ settled[l] = "no" /\ SettleNull(l)
    /\ UNCHANGED <<serverVars, wireVars, made, linked, direct, connect, relay, transport, active,
                   gaveUp>>

(* #signal to a peer the server no longer knows is answered by an error.   *)
SignalRefused(l) ==
    /\ "error" \in Faults /\ online /\ Len(toPage) < Backlog
    /\ direct[l] = "trying" /\ Peer(l) \notin present
    /\ Tells(<<[t |-> "error"]>>)
    /\ UNCHANGED <<serverVars, online, drops, pageVars, linkVars>>

----------------------------------------------------------------------------
(* acquire, for a transfer the user starts.  A path that is open is handed *)
(* out at once, which changes nothing here.                                *)
Acquire(p) ==
    /\ p \in shown /\ p \in linked /\ Len(toPage) < Backlog
    /\ LET l == Current(p)
       IN  /\ direct[l] # "open" /\ ~RelayOpen(l) /\ connect[l] = "idle"
           /\ connect' = [connect EXCEPT ![l] = "direct"]
           /\ direct' = [direct EXCEPT ![l] = IF @ = "none" THEN "trying" ELSE @]
           /\ SetState(IF state[l] = "idle" THEN {l} ELSE {}, "connecting")
    /\ UNCHANGED <<serverVars, wireVars, made, linked, settled, relay, transport, active, gaveUp>>

(* #connect goes on once #directReady has settled.                         *)
ConnectResumes(l) ==
    /\ connect[l] = "direct" /\ settled[l] # "no"
    /\ IF \/ settled[l] = "transport" /\ direct[l] = "open"
          \/ RelayOpen(l)
          \/ ~online          \* openRelaySession: "not connected to the server"
       THEN /\ connect' = [connect EXCEPT ![l] = "idle"]
            /\ UNCHANGED <<session, lastSess, toPage>>
       ELSE /\ connect' = [connect EXCEPT ![l] = "relay"]
            /\ \/ Peer(l) \in present /\ lastSess < MaxSess
                  /\ lastSess' = lastSess + 1
                  /\ session' = [session EXCEPT ![lastSess'] = Peer(l)]
                  /\ Tells(<<[t |-> "relay-ready", p |-> Peer(l), s |-> lastSess']>>)
               \/ Peer(l) \notin present
                  /\ Tells(<<[t |-> "error"]>>) /\ UNCHANGED <<session, lastSess>>
               \/ "silence" \in Faults
                  /\ UNCHANGED <<session, lastSess, toPage>>
    /\ UNCHANGED <<present, joins, online, drops, pageVars, direct, settled, relay,
                   transport, active, state, gaveUp>>

RelayTimesOut(l) ==
    /\ "timeout" \in Faults /\ connect[l] = "relay" /\ gaveUp' = TRUE
    /\ connect' = [connect EXCEPT ![l] = "idle"]
    /\ UNCHANGED <<serverVars, wireVars, pageVars, direct, settled, relay, transport,
                   active, state>>

----------------------------------------------------------------------------
Handles == \/ RecvPeers \/ RecvLeave \/ RecvSignal \/ RecvIncoming
           \/ RecvReady \/ RecvError \/ RecvClose

Timers(l) == DirectDeadline(l) \/ RelayTimesOut(l)

Next ==
    \/ \E p \in Peers : \/ PeerComes(p) \/ PeerGoes(p) \/ PeerOpens(p) \/ PeerSignals(p)
                        \/ Acquire(p)
    \/ \E s \in Sess : PeerCloses(s)
    \/ \E l \in Links : \/ DirectOpens(l) \/ DirectFails(l) \/ SignalRefused(l)
                        \/ Timers(l) \/ ConnectResumes(l)
    \/ Handles \/ Drops \/ Reconnects

Spec == Init /\ [][Next]_vars

(* Timers fire and the event loop runs what is due; ICE need never settle, *)
(* nor the server answer.                                                  *)
Fairness == /\ WF_vars(Handles)
            /\ \A l \in Links : WF_vars(Timers(l)) /\ WF_vars(ConnectResumes(l))

FairSpec == Spec /\ Fairness

----------------------------------------------------------------------------
(* Nothing is under way between the server and the page.                   *)
Quiet == online /\ toPage = <<>> /\ \A l \in Links : connect[l] # "relay"

(* As long as the connection lasts, the page shows exactly the peers that  *)
(* are there, and has a link to each (app.js:83-97).                       *)
RosterAgrees == Quiet /\ drops = 0 => shown = present /\ shown = linked

(* As long as the connection lasts, no attempt was given up before its     *)
(* answer came and no device has come back, page and server agree which    *)
(* relay sessions exist, also when both peers opened one at once: each has *)
(* one transport that is told of its close, and none outlives its session  *)
(* (relay.js:29-72, app.js:212-217).                                       *)
Serves(l, s) == transport[l][s] = "open" /\ active[s] = l

Undisturbed == drops = 0 /\ ~gaveUp /\ \A p \in Peers : joins[p] <= 1

SessionsAgree == Quiet /\ Undisturbed => \A s \in Sess :
    /\ \A l \in Links : transport[l][s] = "open" => session[s] = Peer(l) /\ active[s] = l
    /\ session[s] # Nobody => \E l \in Links : Peer(l) = session[s] /\ Serves(l, s)

(* A transfer that waits for a transport gets one or an error, also when   *)
(* the link is disposed of, ICE never settles or the server stays silent   *)
(* (app.js:230-244, relay.js:43-72).                                       *)
AcquireEnds == \A l \in Links : connect[l] # "idle" ~> connect[l] = "idle"

(* A tile says Direct only while its own link has, or had, a channel: not  *)
(* on account of a link that was disposed of (app.js:156-205, 251-257).    *)
DirectIsOwn == \A p \in Peers : badge[p] = "direct" => direct[Current(p)] \in {"open", "failed"}

(* No tile says Connecting for good (app.js:161-202).                      *)
BadgeSettles == \A p \in Peers : badge[p] = "connecting" ~> badge[p] # "connecting"

----------------------------------------------------------------------------
(***************************************************************************)
(* Statements the code makes in comments or tests and does not keep.  The  *)
(* README says with which constants TLC refutes each, and how.             *)
(***************************************************************************)

(* The relay acquire would hand to a transfer has a live session           *)
(* (app.js:223).                                                           *)
OffersLive == Quiet => \A p \in linked :
    RelayOpen(Current(p)) => session[relay[Current(p)]] = p

(* The badge on a tile tells the truth: a direct path that is there is     *)
(* shown (app.js:5-6, 194-196).                                            *)
BadgeTells == \A p \in linked \cap shown : direct[Current(p)] = "open" => badge[p] = "direct"

(* A link that was disposed of builds no transport any more: the transfers *)
(* that waited for one have been aborted (app.js:251-257).                 *)
AbortedStaysAborted == [][\A l \in Links, s \in Sess :
    transport[l][s] = "none" /\ transport'[l][s] = "open" =>
        Peer(l) \in linked' /\ l = Current(Peer(l))']_vars
=============================================================================
