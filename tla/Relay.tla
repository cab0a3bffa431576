------------------------------- MODULE Relay --------------------------------
(***************************************************************************)
(* The relay session table (relay.go): sessions are looked up under sessMu *)
(* and used after it is released; peers are looked up under another lock.  *)
(***************************************************************************)
EXTENDS Hub

CONSTANTS
    MaxOpen,    \* bound: relay sessions opened in a behaviour
    MaxFrame,   \* bound: frames each end sends on a session
    Stale       \* <<c, s>>: c's browser kept session s from before a restart

ASSUME RelayAssumption ==
    /\ MaxOpen \in Nat /\ MaxFrame \in Nat
    /\ Stale \subseteq Conn \X Sessions

VARIABLES
    sessions,       \* sessions[s]: the relaySession with ID s, or NoSession
    nextSess,       \* the last ID handed out
    relaySessions   \* sessions opened so far

relayVars == <<sessions, nextSess, relaySessions>>

(* sent counts the frames routed from each of the two ends.                *)
relaySession == [from : Conn, to : Conn, sent : [Conn -> Nat]]
NoSession    == [from |-> None, to |-> None, sent |-> [c \in Conn |-> 0]]

other(s, c) ==
    IF sessions[s].from = c THEN sessions[s].to
    ELSE IF sessions[s].to = c THEN sessions[s].from ELSE None

Taken(s) == sessions[s] # NoSession

(* The k-th candidate of openRelay's search: a uint32 that skips zero.     *)
Candidate(k) == ((nextSess + k - 1) % SessMax) + 1

(* Mutant: hand out the next ID without looking whether it is taken.       *)
NextUnchecked == Candidate(1)

NextFree == Candidate(CHOOSE k \in Sessions :
                        /\ ~Taken(Candidate(k))
                        /\ \A j \in 1..(k - 1) : Taken(Candidate(j)))

----------------------------------------------------------------------------
(* openRelay: look up the target under h.mu ...                            *)
RecvOpen(c, i) ==
    /\ Reading(c) /\ relaySessions < MaxOpen
    /\ LET t == find(RoomOf[c], i)
       IN  IF t \in {None, c}
           THEN /\ todo' = [todo EXCEPT ![c] = Stage({Send(c, Error)})]
                /\ UNCHANGED <<pc, held>>
           ELSE /\ held' = [held EXCEPT ![c] = {t}]
                /\ pc'   = [pc EXCEPT ![c] = "open"]
                /\ UNCHANGED todo
    /\ UNCHANGED <<out, done, link, name, rooms, relayVars, browserVars>>

Ready(c, t, s) ==
    Stage({Send(c, [type |-> "relay-ready", session |-> s, id |-> IdOf[t]])})
Incoming(c, t, s) ==
    Stage({Send(t, [type |-> "relay-incoming", session |-> s, id |-> IdOf[c]])})

(* Mutant: tell the target first.                                          *)
OpenStagesSwapped(c, t, s) == Incoming(c, t, s) \o Ready(c, t, s)

OpenStages(c, t, s) == Ready(c, t, s) \o Incoming(c, t, s)

(* ... then allocate the session under sessMu, and tell both ends.  With   *)
(* every ID taken the search would not end.                                *)
OpenSession(c) ==
    /\ pc[c] = "open" /\ \E s \in Sessions : ~Taken(s)
    /\ relaySessions < MaxOpen
    /\ \E t \in held[c] :
         LET s == NextFree
         IN  /\ sessions' = [sessions EXCEPT ![s] =
                  [from |-> c, to |-> t, sent |-> [d \in Conn |-> 0]]]
             /\ nextSess' = s
             /\ todo' = [todo EXCEPT ![c] = OpenStages(c, t, s)]
    /\ relaySessions' = relaySessions + 1
    /\ pc'   = [pc EXCEPT ![c] = "read"]
    /\ held' = [held EXCEPT ![c] = {}]
    /\ UNCHANGED <<out, done, link, name, rooms, browserVars>>

(* routeRelayFrame.  A frame of an unknown session, or of one c is no end  *)
(* of, changes nothing.                                                    *)
RecvFrame(c, s) ==
    /\ Reading(c) /\ got[c][s] >= 0
    /\ other(s, c) # None /\ sessions[s].sent[c] < MaxFrame
    /\ sessions' = [sessions EXCEPT ![s].sent[c] = sessions[s].sent[c] + 1]
    /\ todo' = [todo EXCEPT ![c] =
         Stage({Send(other(s, c), [type |-> "frame", session |-> s,
                                   n |-> sessions[s].sent[c] + 1])})]
    /\ UNCHANGED <<pc, out, done, link, name, hubVars, nextSess, relaySessions, browserVars>>

(* routeRelayAck: the browser reports how much it took in.                 *)
RecvAck(c, s) ==
    /\ Reading(c) /\ got[c][s] > 0
    /\ other(s, c) # None
    /\ todo' = [todo EXCEPT ![c] =
         Stage({Send(other(s, c), [type |-> "relay-ack", session |-> s, n |-> got[c][s]])})]
    /\ UNCHANGED <<pc, out, done, link, name, hubVars, relayVars, browserVars>>

(* closeRelay: whoever asks, the session is deleted; only an end of it has *)
(* a far end to be told.  The browser forgets its handler as it asks.      *)
RecvClose(c, s) ==
    /\ Reading(c)
    /\ got[c][s] >= 0 \/ <<c, s>> \in Stale
    /\ sessions' = [sessions EXCEPT ![s] = NoSession]
    /\ todo' = [todo EXCEPT ![c] =
         Stage({Send(t, [type |-> "relay-close", session |-> s])
                  : t \in {other(s, c)} \ {None}})]
    /\ got' = [got EXCEPT ![c][s] = IF got[c][s] >= 0 THEN SelfClosed ELSE got[c][s]]
    /\ UNCHANGED <<pc, out, done, link, name, hubVars, nextSess, relaySessions, roster>>

(* Mutant: forget the sessions the departing peer opened itself.           *)
OrphanedTo(c) == {s \in Sessions : sessions[s].to = c}

(* closePeerSessions, the second half of leave, then the announcement.     *)
Orphaned(c) == {s \in Sessions : c \in {sessions[s].from, sessions[s].to}}

CloseSessions(c) ==
    /\ pc[c] = "leave"
    /\ sessions' = [s \in Sessions |-> IF s \in Orphaned(c) THEN NoSession ELSE sessions[s]]
    /\ todo' = [todo EXCEPT ![c] =
         Stage({Send(other(s, c), [type |-> "relay-close", session |-> s]) : s \in Orphaned(c)})
         \o Stage({Send(o, PeerLeave(c)) : o \in held[c]})]
    /\ pc'   = [pc EXCEPT ![c] = "gone"]
    /\ held' = [held EXCEPT ![c] = {}]
    /\ UNCHANGED <<out, done, link, name, rooms, nextSess, relaySessions, browserVars>>

----------------------------------------------------------------------------
RelayInit ==
    /\ sessions = [s \in Sessions |-> NoSession]
    /\ nextSess = 0
    /\ relaySessions = 0

RelayTypeOK ==
    /\ sessions \in [Sessions -> relaySession \cup {NoSession}]
    /\ nextSess \in 0..SessMax
    /\ relaySessions \in 0..MaxOpen
=============================================================================
