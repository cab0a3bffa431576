-------------------------------- MODULE Peer --------------------------------
(***************************************************************************)
(* One server-side connection (peer.go): its bounded outbound queue, the   *)
(* write loop and the heartbeat, which run as goroutines of their own, and *)
(* the goroutine of handleWS, which joins, reads and leaves.  What that    *)
(* goroutine still has to send after releasing a lock is kept in todo: a   *)
(* sequence of stages, each the set of sends made in one loop over a Go    *)
(* map, whose iteration order is arbitrary.                                *)
(***************************************************************************)
EXTENDS Browser

CONSTANTS
    QueueCap,   \* capacity of a peer's outbound queue (outboundQueue)
    Quitters    \* connections whose browser may close or vanish

ASSUME PeerAssumption ==
    /\ QueueCap \in Nat \ {0}
    /\ Quitters \subseteq Conn

VARIABLES
    pc,         \* pc[c]: where the goroutine of c's handleWS is
    todo,       \* todo[c]: the sends it still has to make before it reads on
    out,        \* out[c]: the outbound queue
    done,       \* done[c]: c's context is cancelled
    link,       \* link[c]: c's browser, as TCP shows it
    name        \* name[c]: the display name held by the server

peerVars == <<pc, todo, out, done, link, name>>

Active == {"read", "open", "rename"}    \* between join and leave
Phases == {"new", "leave", "gone"} \cup Active

Send(t, m) == [op |-> "send", to |-> t, msg |-> m]
Close(t)   == [op |-> "close", to |-> t]

Effect == [op : {"send"}, to : Conn, msg : serverMessage]
          \cup [op : {"close"}, to : Conn]

(* A loop over nothing leaves nothing to do.                               *)
Stage(S) == IF S = {} THEN <<>> ELSE <<S>>

Info(c) == [id |-> IdOf[c], name |-> name[c]]

(* The goroutine is back in conn.Read.                                     *)
Reading(c) == pc[c] = "read" /\ todo[c] = <<>> /\ ~done[c] /\ link[c] = "up"

Full(c) == Len(out[c]) >= QueueCap

(* Every send of the current stage waits on a full queue.                  *)
Blocked(c) ==
    /\ todo[c] # <<>>
    /\ \A e \in Head(todo[c]) : e.op = "send" /\ Full(e.to) /\ ~done[e.to]

(* Peer.close: cancel the context, once.  The queue is left to the garbage *)
(* collector: its only reader has stopped.                                 *)
close(c) ==
    /\ done' = [done EXCEPT ![c] = TRUE]
    /\ out'  = [out  EXCEPT ![c] = <<>>]

(* e is done: the loop it belongs to goes on, or ends with it.             *)
Without(stages, e) ==
    IF stages[1] = {e} THEN Tail(stages)
    ELSE [stages EXCEPT ![1] = stages[1] \ {e}]

Finish(c, e) == todo' = [todo EXCEPT ![c] = Without(todo[c], e)]

----------------------------------------------------------------------------
(* Peer.send: the queue takes the frame, or the target is already closed,  *)
(* or it does not drain within sendTimeout and is closed.                  *)
SendUnbounded(c) ==       \* mutant: no limit to the queue
    /\ todo[c] # <<>>
    /\ \E e \in Head(todo[c]) :
         /\ e.op = "send" /\ ~done[e.to]
         /\ out' = [out EXCEPT ![e.to] = Append(@, e.msg)]
         /\ Finish(c, e)
    /\ UNCHANGED <<pc, done, link, name, browserVars>>

SendQueued(c) ==
    /\ todo[c] # <<>>
    /\ \E e \in Head(todo[c]) :
         /\ e.op = "send" /\ ~done[e.to] /\ ~Full(e.to)
         /\ out' = [out EXCEPT ![e.to] = Append(@, e.msg)]
         /\ Finish(c, e)
    /\ UNCHANGED <<pc, done, link, name, browserVars>>

SendToClosed(c) ==
    /\ todo[c] # <<>>
    /\ \E e \in Head(todo[c]) :
         /\ e.op = "send" /\ done[e.to]
         /\ Finish(c, e)
    /\ UNCHANGED <<pc, out, done, link, name, browserVars>>

SendTimesOut(c) ==
    /\ todo[c] # <<>>
    /\ \E e \in Head(todo[c]) :
         /\ e.op = "send" /\ ~done[e.to] /\ Full(e.to)
         /\ close(e.to)
         /\ Finish(c, e)
    /\ UNCHANGED <<pc, link, name, browserVars>>

CloseDisplaced(c) ==
    /\ todo[c] # <<>>
    /\ \E e \in Head(todo[c]) :
         /\ e.op = "close"
         /\ close(e.to)
         /\ Finish(c, e)
    /\ UNCHANGED <<pc, link, name, browserVars>>

(* writeLoop.  TCP hides for a while that the browser is gone: a write may *)
(* then succeed and be lost, or fail.                                      *)
WriteNext(c) ==
    /\ ~done[c] /\ out[c] # <<>>
    /\ out' = [out EXCEPT ![c] = Tail(@)]
    /\ IF link[c] = "up" THEN Receive(c, Head(out[c])) ELSE UNCHANGED browserVars
    /\ UNCHANGED <<pc, todo, done, link, name>>

WriteFails(c) ==
    /\ ~done[c] /\ out[c] # <<>> /\ link[c] # "up"
    /\ close(c)
    /\ UNCHANGED <<pc, todo, link, name, browserVars>>

(* heartbeat.  conn.Ping only sees a pong that a concurrent conn.Read      *)
(* takes off the socket, so it also times out (pingTimeout) while the      *)
(* goroutine that reads is stuck in a send for longer.                     *)
HeartbeatNever(c) ==      \* mutant: only what TCP reports by itself
    /\ pc[c] # "new" /\ ~done[c] /\ link[c] = "closed"
    /\ close(c)
    /\ UNCHANGED <<pc, todo, link, name, browserVars>>

HeartbeatFails(c) ==
    /\ pc[c] # "new" /\ ~done[c]
    /\ link[c] # "up" \/ Blocked(c)
    /\ close(c)
    /\ UNCHANGED <<pc, todo, link, name, browserVars>>

(* External: the browser's end of the connection.                          *)
BrowserCloses(c) ==
    /\ c \in Quitters /\ pc[c] # "new" /\ link[c] = "up"
    /\ link' = [link EXCEPT ![c] = "closed"]
    /\ UNCHANGED <<pc, todo, out, done, name, browserVars>>

BrowserVanishes(c) ==
    /\ c \in Quitters /\ pc[c] # "new" /\ link[c] = "up"
    /\ link' = [link EXCEPT ![c] = "vanished"]
    /\ UNCHANGED <<pc, todo, out, done, name, browserVars>>

----------------------------------------------------------------------------
RunTodo(c) ==
    SendQueued(c) \/ SendToClosed(c) \/ SendTimesOut(c) \/ CloseDisplaced(c)

PeerInit ==
    /\ pc   = [c \in Conn |-> "new"]
    /\ todo = [c \in Conn |-> <<>>]
    /\ out  = [c \in Conn |-> <<>>]
    /\ done = [c \in Conn |-> FALSE]
    /\ link = [c \in Conn |-> "up"]
    /\ name = [c \in Conn |-> "old"]

PeerTypeOK ==
    /\ pc   \in [Conn -> Phases]
    /\ todo \in [Conn -> Seq((SUBSET Effect) \ {{}})]
    /\ out  \in [Conn -> Seq(serverMessage)]
    /\ \A c \in Conn : Len(out[c]) <= QueueCap
    /\ done \in [Conn -> BOOLEAN]
    /\ link \in [Conn -> {"up", "closed", "vanished"}]
    /\ name \in [Conn -> Names]
=============================================================================
