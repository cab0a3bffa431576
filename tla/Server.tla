------------------------------- MODULE Server -------------------------------
(***************************************************************************)
(* lanshare's server: the goroutines of all connections over one registry  *)
(* and one session table, and the browsers they serve.                     *)
(***************************************************************************)
EXTENDS Relay

CONSTANTS
    Signalers,  \* connections whose browser sends WebRTC signaling
    Openers     \* connections whose browser asks for relay sessions

ASSUME ServerAssumption == Signalers \subseteq Conn /\ Openers \subseteq Conn

vars == <<peerVars, browserVars, hubVars, relayVars>>

Init == PeerInit /\ BrowserInit /\ HubInit /\ RelayInit

(* The steps of the goroutines of one connection.                          *)
Writes(c)    == (WriteNext(c) \/ WriteFails(c)) /\ UNCHANGED <<hubVars, relayVars>>
Sends(c)     == RunTodo(c) /\ UNCHANGED <<hubVars, relayVars>>
Heartbeat(c) == HeartbeatFails(c) /\ UNCHANGED <<hubVars, relayVars>>
Leaves(c)    == \/ (Leave(c) \/ LeaveDisplaced(c)) /\ UNCHANGED relayVars
                \/ CloseSessions(c)
Continues(c) == \/ FinishHello(c) /\ UNCHANGED relayVars
                \/ OpenSession(c)

(* What browsers do to it.                                                 *)
Joins(c)    == Join(c) /\ UNCHANGED relayVars
Quits(c)    == (BrowserCloses(c) \/ BrowserVanishes(c)) /\ UNCHANGED <<hubVars, relayVars>>
Receives(c) == \/ RecvHello(c) /\ UNCHANGED relayVars
               \/ \E i \in Ids : \/ c \in Signalers /\ RecvSignal(c, i) /\ UNCHANGED relayVars
                                 \/ c \in Openers /\ RecvOpen(c, i)
               \/ \E s \in Sessions : RecvFrame(c, s) \/ RecvAck(c, s) \/ RecvClose(c, s)

Next == \E c \in Conn :
    \/ Joins(c) \/ Receives(c) \/ Quits(c)
    \/ Writes(c) \/ Sends(c) \/ Heartbeat(c) \/ Leaves(c) \/ Continues(c)

Spec == Init /\ [][Next]_vars

(* Goroutines that can run do run, and pings are sent every pingInterval;  *)
(* nothing is assumed of the browsers.                                     *)
Fairness == \A c \in Conn :
    /\ WF_vars(Writes(c)) /\ WF_vars(Sends(c)) /\ WF_vars(Heartbeat(c))
    /\ WF_vars(Leaves(c)) /\ WF_vars(Continues(c))

FairSpec == Spec /\ Fairness

----------------------------------------------------------------------------
(* Every component's state has its type, and no queue outgrows its         *)
(* capacity.                                                               *)
TypeOK == PeerTypeOK /\ BrowserTypeOK /\ HubTypeOK /\ RelayTypeOK

(* The registry names a connection only under its own room and ID and only *)
(* between its join and its leave (hub.go join, leave).                    *)
RegistrySound == \A r \in Rooms, i \in Ids :
    LET c == rooms[r][i]
    IN  c # None => RoomOf[c] = r /\ IdOf[c] = i /\ pc[c] \in Active

(* A connection that lost its registry entry to a newer one never stays:   *)
(* it is closed already, or its replacement still has closing it to do     *)
(* (hub.go:56-59).  Otherwise it would be connected and unreachable.       *)
DisplacedIsClosed == \A c \in Conn :
    pc[c] \in Active /\ ~Registered(c) =>
        \/ done[c]
        \/ \E e \in Conn : \E k \in 1..Len(todo[e]) : Close(c) \in todo[e][k]

(* A registry entry is only emptied by the leave of the connection it      *)
(* names: a displaced peer does not evict its replacement (hub.go:85-90).  *)
EvictsOnlySelf == [][\A r \in Rooms, i \in Ids :
    LET c == rooms[r][i]
    IN  c # None /\ rooms'[r][i] = None => pc'[c] = "leave"]_vars

(* Whatever is queued for a peer names peers of its own room only, and the *)
(* two ends of a relay session share a room (hub.go:120-126).              *)
InRoom(r, i) == \E c \in Conn : RoomOf[c] = r /\ IdOf[c] = i

IdsNamed(m) ==
    CASE m.type = "welcome" -> {i \in Ids : m.peers[i] # NoName}
      [] m.type = "peer-join" -> {m.peer.id}
      [] m.type = "signal" -> {m.from}
      [] m.type \in {"peer-leave", "relay-ready", "relay-incoming"} -> {m.id}
      [] OTHER -> {}

RoomIsolation ==
    /\ \A c \in Conn : \A k \in 1..Len(out[c]) :
         \A i \in IdsNamed(out[c][k]) : InRoom(RoomOf[c], i)
    /\ \A s \in Sessions : Taken(s) =>
         RoomOf[sessions[s].from] = RoomOf[sessions[s].to]

(* A live session is never handed to other peers: an ID is given out again *)
(* only after its session is deleted, also once the counter has wrapped    *)
(* (relay.go:54-66).                                                       *)
SessionNotReassigned == [][\A s \in Sessions :
    Taken(s) /\ sessions'[s] # NoSession =>
        /\ sessions'[s].from = sessions[s].from
        /\ sessions'[s].to = sessions[s].to]_vars

(* On its way to a browser, a relay frame never overtakes the announcement *)
(* of its session, follows its close, or leaves a gap (relay.go, signaling *)
(* .js routeBinary drops what has no handler).  Frames may still arrive    *)
(* for a session the browser itself has closed.                            *)
FramesInOrder == \A c \in Conn :
    out[c] # <<>> /\ Head(out[c]).type = "frame" /\ link[c] = "up" =>
        LET g == got[c][Head(out[c]).session]
        IN  g = SelfClosed \/ g = Head(out[c]).n - 1

----------------------------------------------------------------------------
(* Nothing is under way: all sends made, all queues written, nobody about  *)
(* to leave.                                                               *)
Settled == \A c \in Conn :
    /\ todo[c] = <<>> /\ out[c] = <<>>
    /\ pc[c] \in {"new", "gone"} \/ Reading(c)

Neighbours(c, o) == /\ c # o /\ RoomOf[c] = RoomOf[o]
                    /\ Reading(c) /\ Reading(o)

(* Once settled, two browsers that are connected to the same room see each *)
(* other, in whatever order they joined (hub.go:61-73).                    *)
RosterComplete == Settled => \A c, o \in Conn :
    Neighbours(c, o) => roster[c][IdOf[o]] # NoName

HoldsOpen(c, s) == Reading(c) /\ got[c][s] >= 0

(* Once settled, no browser holds a session open whose far end has gone    *)
(* (relay.go:133-151).                                                     *)
FarEndThere == Settled => \A c \in Conn, s \in Sessions :
    HoldsOpen(c, s) /\ other(s, c) # None => pc[other(s, c)] # "gone"

(* Once settled, a session that a browser accepted and holds open exists,  *)
(* and its far end is there: whoever ends a session, the end that accepted *)
(* it is told (relay.go:117-151).                                          *)
AcceptedMeansLive == Settled => \A c \in Conn \ Openers, s \in Sessions :
    HoldsOpen(c, s) => other(s, c) # None /\ pc[other(s, c)] # "gone"

(* A browser that closes or silently vanishes is eventually gone from the  *)
(* server, its departure announced (peer.go:114-137).                      *)
VanishedReaped == \A c \in Conn :
    link[c] # "up" ~> pc[c] = "gone" /\ todo[c] = <<>>

----------------------------------------------------------------------------
(***************************************************************************)
(* Statements the code makes in comments or tests and does not keep.  The  *)
(* README says with which constants TLC refutes each, and how.             *)
(***************************************************************************)

(* Once settled, nobody is shown a peer that has left.                     *)
NoGhosts == Settled => \A c \in Conn, i \in Ids :
    Reading(c) /\ roster[c][i] # NoName => find(RoomOf[c], i) # None

(* Once settled, everybody is shown the peers' current names.              *)
NamesConverge == Settled => \A c, o \in Conn :
    Neighbours(c, o) /\ roster[c][IdOf[o]] # NoName => roster[c][IdOf[o]] = name[o]

(* Once settled, a session a browser holds open exists on the server and   *)
(* the browser is an end of it (relay.go:117-131).                         *)
OpenMeansLive == Settled => \A c \in Conn, s \in Sessions :
    HoldsOpen(c, s) => other(s, c) # None

(* No session outlives the handler of one of its ends.                     *)
SessionsHaveEnds == \A s \in Sessions :
    Taken(s) => "gone" \notin {pc[sessions[s].from], pc[sessions[s].to]}

(* The server gives up on a responsive browser only when its queue stays   *)
(* full or a newer connection takes its place.                             *)
DropsOnlySilent == [][\A c \in Conn :
    ~done[c] /\ done'[c] /\ link[c] = "up" => Full(c) \/ ~Registered(c)]_vars
=============================================================================
