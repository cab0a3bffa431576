------------------------------ MODULE Browser ------------------------------
(***************************************************************************)
(* The wire format between lanshare's server and a browser, and what a     *)
(* browser keeps of the messages it is sent: the roster on screen (app.js) *)
(* and the relay sessions it has a handler for (signaling.js, relay.js).   *)
(* A member of Conn is one WebSocket connection, used once; a reconnect is *)
(* another member of Conn with the same identity.                          *)
(***************************************************************************)
EXTENDS Integers, Sequences

CONSTANTS
    Conn,       \* WebSocket connections
    Ids,        \* peer IDs, as chosen by the browsers
    Rooms,      \* subnet keys
    IdOf,       \* the ID each connection presents
    RoomOf,     \* the room the server derives from its address
    SessMax     \* largest relay session ID (2^32 - 1 in the code)

ASSUME ConnAssumption ==
    /\ IdOf \in [Conn -> Ids]
    /\ RoomOf \in [Conn -> Rooms]
    /\ SessMax \in Nat \ {0}

VARIABLES
    roster,     \* roster[c][i]: the name c's page shows for peer i, or NoName
    got         \* got[c][s]: frames c's page took in on session s, or why none

browserVars == <<roster, got>>

Sessions == 1..SessMax

(* A display name before, during and after the one rename modelled.  The   *)
(* server's write of a Go string is two words wide and unsynchronised, so  *)
(* a concurrent reader may see it torn.                                    *)
Names  == {"old", "torn", "new"}
NoName == "absent"

NoHandler  == -1    \* nothing registered for the session yet
SelfClosed == -2    \* this page closed the session
FarClosed  == -3    \* the server said the far end closed it

PeerInfo == [id : Ids, name : Names]

serverMessage ==
    [type : {"error"}]
    \cup [type : {"welcome"}, peers : [Ids -> Names \cup {NoName}]]
    \cup [type : {"peer-join"}, peer : PeerInfo]
    \cup [type : {"peer-leave"}, id : Ids]
    \cup [type : {"signal"}, from : Ids]
    \cup [type : {"relay-ready", "relay-incoming"}, session : Sessions, id : Ids]
    \cup [type : {"relay-close"}, session : Sessions]
    \cup [type : {"relay-ack", "frame"}, session : Sessions, n : Nat]

(* The roster is only ever upserted by a welcome: an entry it does not     *)
(* mention stays.                                                          *)
RosterReplaced(r, m) ==   \* mutant: the welcome replaces what came before it
    CASE m.type = "welcome"    -> m.peers
      [] m.type = "peer-join"  -> [r EXCEPT ![m.peer.id] = m.peer.name]
      [] m.type = "peer-leave" -> [r EXCEPT ![m.id] = NoName]
      [] OTHER -> r

RosterAfter(r, m) ==
    CASE m.type = "welcome" ->
           [i \in Ids |-> IF m.peers[i] # NoName THEN m.peers[i] ELSE r[i]]
      [] m.type = "peer-join"  -> [r EXCEPT ![m.peer.id] = m.peer.name]
      [] m.type = "peer-leave" -> [r EXCEPT ![m.id] = NoName]
      [] OTHER -> r

(* A frame of a session without a handler is dropped.                      *)
GotAfter(g, m) ==
    CASE m.type \in {"relay-ready", "relay-incoming"} ->
           [g EXCEPT ![m.session] = 0]
      [] m.type = "relay-close" /\ g[m.session] >= 0 ->
           [g EXCEPT ![m.session] = FarClosed]
      [] m.type = "frame" /\ g[m.session] >= 0 ->
           [g EXCEPT ![m.session] = @ + 1]
      [] OTHER -> g

Receive(c, m) ==
    /\ roster' = [roster EXCEPT ![c] = RosterAfter(@, m)]
    /\ got'    = [got    EXCEPT ![c] = GotAfter(@, m)]

BrowserInit ==
    /\ roster = [c \in Conn |-> [i \in Ids |-> NoName]]
    /\ got    = [c \in Conn |-> [s \in Sessions |-> NoHandler]]

BrowserTypeOK ==
    /\ roster \in [Conn -> [Ids -> Names \cup {NoName}]]
    /\ got    \in [Conn -> [Sessions -> Int]]
=============================================================================
