-------------------------------- MODULE Hub ---------------------------------
(***************************************************************************)
(* The peer registry (hub.go): rooms by subnet, at most one connection per *)
(* ID and room.  join, leave and broadcastPeerUpdate take their snapshot   *)
(* of the room under h.mu and send to it after the lock is released.       *)
(***************************************************************************)
EXTENDS Peer

CONSTANTS
    None,       \* no connection: a nil *Peer
    Renamers    \* connections whose user changes the name, once

ASSUME HubAssumption ==
    /\ None \notin Conn
    /\ Renamers \subseteq Conn

VARIABLES
    rooms,      \* rooms[r][i]: the connection registered as i in r, or None
    held        \* held[c]: the peers c's goroutine looked up and still uses

hubVars == <<rooms, held>>

(* Mutant: look through every room.                                        *)
findAnywhere(r, i) ==
    IF \E q \in Rooms : rooms[q][i] # None
    THEN rooms[CHOOSE q \in Rooms : rooms[q][i] # None][i] ELSE None

find(r, i)   == rooms[r][i]
roomPeers(r) == {rooms[r][i] : i \in Ids} \ {None}

(* The others of c's room, as join sees them under the lock.               *)
Others(c) == {o \in roomPeers(RoomOf[c]) : IdOf[o] # IdOf[c]}

Welcome(c) ==
    [type  |-> "welcome",
     peers |-> [i \in Ids |->
                  LET o == find(RoomOf[c], i)
                  IN  IF i = IdOf[c] \/ o = None THEN NoName ELSE Info(o).name]]

PeerJoin(c)  == [type |-> "peer-join", peer |-> Info(c)]
PeerLeave(c) == [type |-> "peer-leave", id |-> IdOf[c]]
Error        == [type |-> "error"]

Registered(c) == find(RoomOf[c], IdOf[c]) = c

----------------------------------------------------------------------------
(* join: replace whoever holds the ID, then - the lock released - tell and *)
(* close the replaced connection, welcome the new one, announce it.        *)
JoinLeavesOld(c, displaced) ==    \* mutant: the replaced connection is kept
    Stage({Send(c, Welcome(c))}) \o Stage({Send(o, PeerJoin(c)) : o \in Others(c)})

JoinStages(c, displaced) ==
    Stage({Send(d, Error) : d \in displaced})
    \o Stage({Close(d) : d \in displaced})
    \o Stage({Send(c, Welcome(c))})
    \o Stage({Send(o, PeerJoin(c)) : o \in Others(c)})

Join(c) ==
    /\ pc[c] = "new"
    /\ rooms' = [rooms EXCEPT ![RoomOf[c]][IdOf[c]] = c]
    /\ todo'  = [todo EXCEPT ![c] =
                   JoinStages(c, {find(RoomOf[c], IdOf[c])} \ {None})]
    /\ pc'    = [pc EXCEPT ![c] = "read"]
    /\ UNCHANGED <<out, done, link, name, held, browserVars>>

(* Read fails: the context is cancelled or the browser closed the socket.  *)
ReadFails(c) == pc[c] = "read" /\ todo[c] = <<>> /\ (done[c] \/ link[c] = "closed")

(* leave of a connection that still holds its registry entry.  Its relay   *)
(* sessions are closed next, under another lock (Relay!CloseSessions).     *)
LeaveUnchecked(c) ==      \* mutant: remove the entry, whoever holds it
    /\ ReadFails(c)
    /\ rooms' = [rooms EXCEPT ![RoomOf[c]][IdOf[c]] = None]
    /\ held'  = [held EXCEPT ![c] = roomPeers(RoomOf[c]) \ {c}]
    /\ pc'    = [pc EXCEPT ![c] = "leave"]
    /\ close(c)
    /\ UNCHANGED <<todo, link, name, browserVars>>

Leave(c) ==
    /\ ReadFails(c) /\ Registered(c)
    /\ rooms' = [rooms EXCEPT ![RoomOf[c]][IdOf[c]] = None]
    /\ held'  = [held EXCEPT ![c] = roomPeers(RoomOf[c]) \ {c}]
    /\ pc'    = [pc EXCEPT ![c] = "leave"]
    /\ close(c)
    /\ UNCHANGED <<todo, link, name, browserVars>>

(* leave of a displaced connection: nothing is its own to remove.          *)
LeaveEarly(c) ==          \* mutant: the entry is never compared
    /\ ReadFails(c)
    /\ pc' = [pc EXCEPT ![c] = "gone"]
    /\ close(c)
    /\ UNCHANGED <<todo, link, name, hubVars, browserVars>>

LeaveDisplaced(c) ==
    /\ ReadFails(c) /\ ~Registered(c)
    /\ pc' = [pc EXCEPT ![c] = "gone"]
    /\ close(c)
    /\ UNCHANGED <<todo, link, name, hubVars, browserVars>>

(* A hello renames the peer.  The write to Peer.Name holds no lock, so it  *)
(* is a step of its own during which readers may see anything; then        *)
(* broadcastPeerUpdate announces the new name to a snapshot of the room.   *)
RecvHello(c) ==
    /\ Reading(c) /\ c \in Renamers /\ name[c] = "old"
    /\ name' = [name EXCEPT ![c] = "torn"]
    /\ pc'   = [pc EXCEPT ![c] = "rename"]
    /\ UNCHANGED <<todo, out, done, link, hubVars, browserVars>>

FinishHello(c) ==
    /\ pc[c] = "rename"
    /\ name' = [name EXCEPT ![c] = "new"]
    /\ todo' = [todo EXCEPT ![c] =
                  Stage({Send(o, [type |-> "peer-join",
                                  peer |-> [id |-> IdOf[c], name |-> "new"]])
                           : o \in Others(c)})]
    /\ pc'   = [pc EXCEPT ![c] = "read"]
    /\ UNCHANGED <<out, done, link, hubVars, browserVars>>

(* handle, msgSignal: WebRTC signaling is forwarded within the room.       *)
RecvSignal(c, i) ==
    /\ Reading(c)
    /\ LET t == find(RoomOf[c], i)
       IN  todo' = [todo EXCEPT ![c] =
             Stage({IF t = None THEN Send(c, Error)
                    ELSE Send(t, [type |-> "signal", from |-> IdOf[c]])})]
    /\ UNCHANGED <<pc, out, done, link, name, hubVars, browserVars>>

----------------------------------------------------------------------------
HubInit ==
    /\ rooms = [r \in Rooms |-> [i \in Ids |-> None]]
    /\ held  = [c \in Conn |-> {}]

HubTypeOK ==
    /\ rooms \in [Rooms -> [Ids -> Conn \cup {None}]]
    /\ held  \in [Conn -> SUBSET Conn]
=============================================================================
