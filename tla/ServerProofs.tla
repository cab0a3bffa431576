---------------------------- MODULE ServerProofs ----------------------------
(***************************************************************************)
(* Proofs about Server, for any number of connections, IDs and rooms, any  *)
(* queue capacity and any schedule: the registry is sound and who lost an  *)
(* entry is closed, every component keeps its types, rooms are apart, a    *)
(* session keeps its ends, and a page that took in all it was sent shows   *)
(* everybody who is there.                                                 *)
(***************************************************************************)
EXTENDS Server, QueueLemmas

(* RegistrySound is inductive together with the types of what it mentions. *)
RegistryInv ==
    /\ rooms \in [Rooms -> [Ids -> Conn \cup {None}]]
    /\ pc \in [Conn -> Phases]
    /\ RegistrySound

(* The steps that touch the registry, or where a goroutine is relative to  *)
(* its join and leave.                                                     *)
Moves(c) ==
    \/ Join(c) \/ Leave(c) \/ LeaveDisplaced(c) \/ CloseSessions(c)
    \/ RecvHello(c) \/ FinishHello(c) \/ OpenSession(c)
    \/ \E i \in Ids : RecvOpen(c, i)

(* Every other step of Next leaves the registry and all pcs alone: what a  *)
(* goroutine sends, writes or pings never registers or evicts anybody.     *)
LEMMA OnlyMoves ==
    ASSUME [Next]_vars
    PROVE  (\E c \in Conn : Moves(c)) \/ UNCHANGED <<rooms, pc>>
<1>1. CASE UNCHANGED vars
  BY <1>1 DEF vars, peerVars, hubVars
<1>2. ASSUME NEW c \in Conn,
             \/ Joins(c) \/ Receives(c) \/ Quits(c)
             \/ Writes(c) \/ Sends(c) \/ Heartbeat(c) \/ Leaves(c) \/ Continues(c)
      PROVE  Moves(c) \/ UNCHANGED <<rooms, pc>>
  <2>1. CASE Joins(c) \/ Leaves(c) \/ Continues(c)
    BY <2>1 DEF Joins, Leaves, Continues, Moves
  <2>2. CASE Receives(c)
    <3>1. CASE RecvHello(c)
      BY <3>1 DEF Moves
    <3>2. ASSUME NEW i \in Ids, RecvSignal(c, i) \/ RecvOpen(c, i)
          PROVE  Moves(c) \/ UNCHANGED <<rooms, pc>>
      BY <3>2 DEF Moves, RecvSignal, hubVars
    <3>3. ASSUME NEW s \in Sessions, RecvFrame(c, s) \/ RecvAck(c, s) \/ RecvClose(c, s)
          PROVE  UNCHANGED <<rooms, pc>>
      BY <3>3 DEF RecvFrame, RecvAck, RecvClose, hubVars
    <3> QED
      BY <2>2, <3>1, <3>2, <3>3 DEF Receives
  <2>3. CASE Quits(c)
    BY <2>3 DEF Quits, BrowserCloses, BrowserVanishes, hubVars
  <2>4. CASE Writes(c) \/ Heartbeat(c)
    BY <2>4 DEF Writes, WriteNext, WriteFails, Heartbeat, HeartbeatFails, hubVars
  <2>5. CASE Sends(c)
    BY <2>5 DEF Sends, RunTodo, SendQueued, SendToClosed, SendTimesOut,
                CloseDisplaced, hubVars
  <2> QED
    BY <1>2, <2>1, <2>2, <2>3, <2>4, <2>5
<1> QED
  BY <1>1, <1>2 DEF Next

(* Nobody is registered at first.                                          *)
LEMMA RegistryInit == Init => RegistryInv
  BY DEF Init, HubInit, PeerInit, RegistryInv, RegistrySound, Phases

(* A step from a sound registry leads to a sound registry.                 *)
LEMMA RegistryStep ==
    ASSUME RegistryInv, [Next]_vars
    PROVE  RegistryInv'
<1> USE ConnAssumption, HubAssumption
<1>1. CASE UNCHANGED <<rooms, pc>>
  BY <1>1 DEF RegistryInv, RegistrySound
<1>2. ASSUME NEW c \in Conn, Moves(c)
      PROVE  RegistryInv'
  <2>1. CASE Join(c)
    <3>1. rooms' = [rooms EXCEPT ![RoomOf[c]][IdOf[c]] = c] /\ pc' = [pc EXCEPT ![c] = "read"]
      BY <2>1 DEF Join
    <3> QED
      BY <3>1 DEF RegistryInv, RegistrySound, Phases, Active
  <2>2. CASE Leave(c)
    <3>1. /\ rooms' = [rooms EXCEPT ![RoomOf[c]][IdOf[c]] = None]
          /\ pc' = [pc EXCEPT ![c] = "leave"]
      BY <2>2 DEF Leave
    <3>2. \A r \in Rooms, i \in Ids : rooms'[r][i] # c
      BY <3>1 DEF RegistryInv, RegistrySound
    <3> QED
      BY <3>1, <3>2 DEF RegistryInv, RegistrySound, Phases
  <2>3. CASE LeaveDisplaced(c)
    <3>1. rooms' = rooms /\ pc' = [pc EXCEPT ![c] = "gone"]
      BY <2>3 DEF LeaveDisplaced, hubVars
    <3>2. \A r \in Rooms, i \in Ids : rooms[r][i] # c
      BY <2>3 DEF LeaveDisplaced, Registered, find, RegistryInv, RegistrySound
    <3> QED
      BY <3>1, <3>2 DEF RegistryInv, RegistrySound, Phases
  <2>4. CASE CloseSessions(c)
    <3>1. rooms' = rooms /\ pc' = [pc EXCEPT ![c] = "gone"] /\ pc[c] = "leave"
      BY <2>4 DEF CloseSessions
    <3>2. \A r \in Rooms, i \in Ids : rooms[r][i] # c
      BY <3>1 DEF RegistryInv, RegistrySound, Active
    <3> QED
      BY <3>1, <3>2 DEF RegistryInv, RegistrySound, Phases
  <2>5. CASE RecvHello(c) \/ FinishHello(c) \/ OpenSession(c) \/ \E i \in Ids : RecvOpen(c, i)
    <3>1. rooms' = rooms
      BY <2>5 DEF RecvHello, FinishHello, OpenSession, RecvOpen, hubVars
    <3>2. pc' = pc \/ \E p \in Active : pc' = [pc EXCEPT ![c] = p]
      BY <2>5 DEF RecvHello, FinishHello, OpenSession, RecvOpen, Active
    <3>3. CASE pc' = pc
      BY <3>1, <3>3 DEF RegistryInv, RegistrySound
    <3>4. ASSUME NEW p \in Active, pc' = [pc EXCEPT ![c] = p]
          PROVE  RegistryInv'
      <4>1. pc' \in [Conn -> Phases]
        BY <3>4 DEF RegistryInv, Phases
      <4>2. \A d \in Conn : pc[d] \in Active => pc'[d] \in Active
        BY <3>4 DEF RegistryInv
      <4> QED
        BY <3>1, <4>1, <4>2 DEF RegistryInv, RegistrySound
    <3> QED
      BY <3>2, <3>3, <3>4
  <2> QED
    BY <1>2, <2>1, <2>2, <2>3, <2>4, <2>5 DEF Moves
<1> QED
  BY <1>1, <1>2, OnlyMoves

(* The registry names a connection only under its own room and ID, and     *)
(* only between its join and its leave (hub.go join and leave), whatever   *)
(* displaces what.                                                         *)
THEOREM RegistryIsSound == Spec => []RegistrySound
<1>1. Init => RegistryInv
  BY RegistryInit
<1>2. RegistryInv /\ [Next]_vars => RegistryInv'
  BY RegistryStep
<1>3. RegistryInv => RegistrySound
  BY DEF RegistryInv
<1> QED
  BY <1>1, <1>2, <1>3, PTL DEF Spec

(* A registry entry is emptied only by the leave of the connection it      *)
(* names: a displaced connection that leaves late never evicts the one     *)
(* that replaced it (hub.go:85-90).                                        *)
THEOREM NeverEvictsAnother == Spec => EvictsOnlySelf
<1> DEFINE Emptied == \A r \in Rooms, i \in Ids :
              LET c == rooms[r][i]
              IN  c # None /\ rooms'[r][i] = None => pc'[c] = "leave"
<1>1. RegistryInv /\ [Next]_vars => [Emptied]_vars
  <2> SUFFICES ASSUME RegistryInv, [Next]_vars,
                      NEW r \in Rooms, NEW i \in Ids,
                      rooms[r][i] # None, rooms'[r][i] = None
               PROVE  pc'[rooms[r][i]] = "leave"
    OBVIOUS
  <2>1. rooms' # rooms
    OBVIOUS
  <2>2. PICK c \in Conn : Moves(c)
    BY <2>1, OnlyMoves
  <2>3. ~Join(c)
    BY ConnAssumption, HubAssumption DEF Join, RegistryInv
  <2>4. Leave(c)
    BY <2>1, <2>2, <2>3 DEF Moves, LeaveDisplaced, CloseSessions, RecvHello, FinishHello,
                            OpenSession, RecvOpen, hubVars
  <2>5. rooms[RoomOf[c]][IdOf[c]] = c /\ pc' = [pc EXCEPT ![c] = "leave"]
    BY <2>4 DEF Leave, Registered, find
  <2>6. r = RoomOf[c] /\ i = IdOf[c]
    BY <2>4, ConnAssumption DEF Leave, RegistryInv
  <2> QED
    BY <2>5, <2>6 DEF RegistryInv
<1>2. Init => RegistryInv
  BY RegistryInit
<1>3. RegistryInv /\ [Next]_vars => RegistryInv'
  BY RegistryStep
<1> QED
  BY <1>1, <1>2, <1>3, PTL DEF Spec, EvictsOnlySelf

----------------------------------------------------------------------------
(***************************************************************************)
(* A connection which lost its registry entry to a newer one is always     *)
(* closed or about to be closed.                                           *)
(***************************************************************************)
IsSeq(s) == \E S : s \in Seq(S)

(* A goroutine has sends left to make only while it is in readLoop or past *)
(* leave: nothing it still owes is ever overwritten.                       *)
TodoInv ==
    /\ todo = [c \in Conn |-> todo[c]]
    /\ \A c \in Conn : IsSeq(todo[c])
    /\ \A c \in Conn : pc[c] \notin {"read", "gone"} => todo[c] = <<>>
    /\ done \in [Conn -> BOOLEAN]

(* c is closed, or some goroutine has closing it to do.                    *)
Owed(s, c) == \E k \in 1..Len(s) : Close(c) \in s[k]

Handled(c) == done[c] \/ \E e \in Conn : Owed(todo[e], c)

DisplacedInv == RegistryInv /\ TodoInv /\ DisplacedIsClosed

----------------------------------------------------------------------------
(* What a goroutine puts on its list is a sequence.                        *)
LEMMA StageIsSeq ==
    ASSUME NEW A PROVE IsSeq(Stage(A))
<1>1. <<>> \in Seq({A}) /\ <<A>> \in Seq({A})
  OBVIOUS
<1> QED
  BY <1>1 DEF Stage, IsSeq

(* So is a concatenation, whose elements are those of its parts.           *)
LEMMA ConcatIsSeq ==
    ASSUME NEW s, NEW t, IsSeq(s), IsSeq(t)
    PROVE  /\ IsSeq(s \o t)
           /\ Len(s) \in Nat /\ Len(t) \in Nat
           /\ Len(s \o t) = Len(s) + Len(t)
           /\ \A i \in 1..Len(s) : (s \o t)[i] = s[i]
           /\ \A i \in 1..Len(t) : (s \o t)[Len(s) + i] = t[i]
<1>1. PICK S : s \in Seq(S)
  BY DEF IsSeq
<1>2. PICK T : t \in Seq(T)
  BY DEF IsSeq
<1>3. s \in Seq(S \cup T) /\ t \in Seq(S \cup T)
  BY <1>1, <1>2, SeqMonotonic
<1>4. /\ s \o t \in Seq(S \cup T)
      /\ Len(s \o t) = Len(s) + Len(t)
      /\ \A i \in 1..Len(s) + Len(t) : (s \o t)[i] =
            IF i <= Len(s) THEN s[i] ELSE t[i - Len(s)]
  BY <1>3, ConcatProperties
<1>5. Len(s) \in Nat /\ Len(t) \in Nat
  BY <1>3, LenProperties
<1> QED
  BY <1>4, <1>5 DEF IsSeq

(* A concatenation of stages owes whatever one of its parts does.          *)
LEMMA OwedConcat ==
    ASSUME NEW s, NEW t, NEW c, IsSeq(s), IsSeq(t), Owed(s, c) \/ Owed(t, c)
    PROVE  Owed(s \o t, c)
<1>1. CASE Owed(s, c)
  BY <1>1, ConcatIsSeq DEF Owed
<1>2. CASE Owed(t, c)
  <2>1. PICK k \in 1..Len(t) : Close(c) \in t[k]
    BY <1>2 DEF Owed
  <2>2. Len(s) + k \in 1..Len(s \o t) /\ (s \o t)[Len(s) + k] = t[k]
    BY <2>1, ConcatIsSeq
  <2> QED
    BY <2>1, <2>2 DEF Owed
<1> QED
  BY <1>1, <1>2

(* The sends of a join owe the closing of the connection it displaced.     *)
LEMMA JoinOwes ==
    ASSUME NEW c, NEW D
    PROVE  /\ IsSeq(JoinStages(c, D))
           /\ \A d \in D : Owed(JoinStages(c, D), d)
<1> DEFINE e == Stage({Send(d, Error) : d \in D})
           x == Stage({Close(d) : d \in D})
           w == Stage({Send(c, Welcome(c))})
           j == Stage({Send(o, PeerJoin(c)) : o \in Others(c)})
<1>1. IsSeq(e) /\ IsSeq(x) /\ IsSeq(w) /\ IsSeq(j)
  BY StageIsSeq
<1>2. \A d \in D : Owed(x, d)
  <2> TAKE d \in D
  <2> DEFINE C == {Close(f) : f \in D}
  <2>1. Close(d) \in C
    OBVIOUS
  <2>2. x = <<C>>
    BY <2>1 DEF Stage
  <2> HIDE DEF C, x
  <2>3. 1 \in 1..Len(x) /\ x[1] = C
    BY <2>2
  <2> QED
    BY <2>1, <2>3 DEF Owed
<1>3. JoinStages(c, D) = ((e \o x) \o w) \o j
  BY DEF JoinStages
<1> HIDE DEF e, x, w, j
<1>4. IsSeq(e \o x) /\ \A d \in D : Owed(e \o x, d)
  BY <1>1, <1>2, ConcatIsSeq, OwedConcat
<1>5. IsSeq((e \o x) \o w) /\ \A d \in D : Owed((e \o x) \o w, d)
  BY <1>1, <1>4, ConcatIsSeq, OwedConcat
<1> QED
  BY <1>1, <1>3, <1>5, ConcatIsSeq, OwedConcat

(* Taking one send or close off the list leaves every other closing on it. *)
LEMMA FinishOwes ==
    ASSUME NEW s, NEW e, NEW c, IsSeq(s), s # <<>>, e \in Head(s), e # Close(c),
           Owed(s, c)
    PROVE  Owed(Without(s, e), c)
<1> DEFINE t == Without(s, e)
<1>1. PICK S : s \in Seq(S)
  BY DEF IsSeq
<1>2. PICK k \in 1..Len(s) : Close(c) \in s[k]
  BY DEF Owed
<1>3. CASE s[1] = {e}
  <2>1. /\ t = Tail(s) /\ Len(t) = Len(s) - 1 /\ Len(s) \in Nat
        /\ \A i \in 1..Len(t) : t[i] = s[i + 1]
    BY <1>1, <1>3, HeadTailProperties, LenProperties DEF Without
  <2>2. k # 1
    BY <1>2, <1>3
  <2>3. k - 1 \in 1..Len(t) /\ t[k - 1] = s[k]
    BY <2>1, <2>2
  <2> QED
    BY <1>2, <2>3 DEF Owed
<1>4. CASE s[1] # {e}
  <2> DEFINE U == S \cup {s[1] \ {e}}
  <2>1. s \in Seq(U) /\ s[1] \ {e} \in U /\ 1 \in 1..Len(s)
    BY <1>1, <1>2, SeqMonotonic, LenProperties
  <2>2. t = [s EXCEPT ![1] = s[1] \ {e}]
    BY <1>4 DEF Without
  <2> HIDE DEF U
  <2>3. Len(t) = Len(s) /\ \A i \in 1..Len(s) : t[i] = IF i = 1 THEN s[1] \ {e} ELSE s[i]
    BY <2>1, <2>2, ExceptSeq
  <2>4. Close(c) \in t[k]
    BY <1>2, <2>3
  <2> QED
    BY <1>2, <2>3, <2>4 DEF Owed
<1> QED
  BY <1>3, <1>4

(* What is left is still a sequence.                                       *)
LEMMA FinishIsSeq ==
    ASSUME NEW s, NEW e, IsSeq(s), s # <<>>
    PROVE  IsSeq(Without(s, e))
<1> DEFINE t == Without(s, e)
<1>1. PICK S : s \in Seq(S)
  BY DEF IsSeq
<1>2. CASE s[1] = {e}
  BY <1>1, <1>2, HeadTailProperties DEF IsSeq, Without
<1>3. CASE s[1] # {e}
  <2> DEFINE U == S \cup {s[1] \ {e}}
  <2>1. s \in Seq(U) /\ s[1] \ {e} \in U /\ 1 \in 1..Len(s)
    <3>1. Len(s) \in Nat \ {0}
      BY <1>1, EmptySeq
    <3> QED
      BY <1>1, <3>1, SeqMonotonic
  <2>2. t = [s EXCEPT ![1] = s[1] \ {e}]
    BY <1>3 DEF Without
  <2> HIDE DEF U
  <2> QED
    BY <2>1, <2>2, ExceptSeq DEF IsSeq
<1> QED
  BY <1>2, <1>3

----------------------------------------------------------------------------
(* The steps, by what they do to the lists and to who is closed: start a   *)
(* list that was empty, take something off one, or leave all as they are.  *)
Starts(c) ==
    /\ c \in Conn /\ todo[c] = <<>> /\ done' = done
    /\ \E w : IsSeq(w) /\ todo' = [todo EXCEPT ![c] = w]
    /\ pc'[c] \in {"read", "gone"}
    /\ \A d \in Conn \ {c} : pc'[d] = pc[d]

Runs(c) ==
    /\ c \in Conn /\ todo[c] # <<>> /\ pc' = pc
    /\ \E e \in Head(todo[c]) :
         /\ Finish(c, e)
         /\ \A x \in Conn : e = Close(x) => done'[x]
    /\ done' \in [Conn -> BOOLEAN] /\ \A d \in Conn : done[d] => done'[d]

Keeps ==
    /\ todo' = todo
    /\ \A d \in Conn : pc'[d] # pc[d] => todo[d] = <<>>
    /\ done' \in [Conn -> BOOLEAN] /\ \A d \in Conn : done[d] => done'[d]

(* close only ever adds to those that are closed.                          *)
LEMMA CloseAdds ==
    ASSUME TodoInv, NEW c, close(c)
    PROVE  /\ done' \in [Conn -> BOOLEAN] /\ (c \in Conn => done'[c])
           /\ \A d \in Conn : done[d] => done'[d]
  BY DEF TodoInv, close

(* Every step of the server is of one of the three kinds.                  *)
LEMMA StepKinds ==
    ASSUME TodoInv, RegistryInv, [Next]_vars
    PROVE  Keeps \/ \E c \in Conn : Starts(c) \/ Runs(c)
<1>1. CASE UNCHANGED vars
  BY <1>1 DEF vars, peerVars, Keeps, TodoInv
<1>2. ASSUME NEW c \in Conn,
             \/ Joins(c) \/ Receives(c) \/ Quits(c)
             \/ Writes(c) \/ Sends(c) \/ Heartbeat(c) \/ Leaves(c) \/ Continues(c)
      PROVE  Keeps \/ Starts(c) \/ Runs(c)
  <2>0. pc \in [Conn -> Phases]
    BY DEF RegistryInv
  <2>1. CASE Join(c)
    <3>1. IsSeq(JoinStages(c, {find(RoomOf[c], IdOf[c])} \ {None}))
      BY JoinOwes
    <3>2. todo[c] = <<>>
      BY <2>1 DEF Join, TodoInv
    <3> QED
      BY <2>0, <2>1, <3>1, <3>2 DEF Join, Starts
  <2>2. CASE RecvHello(c)
    BY <2>0, <2>2 DEF RecvHello, Reading, Keeps, TodoInv
  <2>3. CASE FinishHello(c)
    <3>1. todo[c] = <<>>
      BY <2>3 DEF FinishHello, TodoInv
    <3> DEFINE w == Stage({Send(o, [type |-> "peer-join",
                                    peer |-> [id |-> IdOf[c], name |-> "new"]]) : o \in Others(c)})
    <3>2. IsSeq(w)
      BY StageIsSeq
    <3>3. todo' = [todo EXCEPT ![c] = w] /\ pc' = [pc EXCEPT ![c] = "read"] /\ done' = done
      BY <2>3 DEF FinishHello
    <3> HIDE DEF w
    <3> QED
      BY <2>0, <3>1, <3>2, <3>3 DEF Starts
  <2>4. ASSUME NEW i \in Ids, RecvSignal(c, i)
        PROVE  Starts(c)
    <3>1. PICK A : todo' = [todo EXCEPT ![c] = Stage(A)]
      BY <2>4 DEF RecvSignal
    <3>2. todo[c] = <<>> /\ pc' = pc /\ done' = done /\ pc[c] = "read"
      BY <2>4 DEF RecvSignal, Reading
    <3> QED
      BY <2>0, <3>1, <3>2, StageIsSeq DEF Starts
  <2>5. ASSUME NEW i \in Ids, RecvOpen(c, i)
        PROVE  Keeps \/ Starts(c)
    <3>1. todo[c] = <<>> /\ done' = done /\ pc[c] = "read"
      BY <2>5 DEF RecvOpen, Reading
    <3>2. CASE find(RoomOf[c], i) \in {None, c}
      <4>1. todo' = [todo EXCEPT ![c] = Stage({Send(c, Error)})] /\ pc' = pc
        BY <2>5, <3>2 DEF RecvOpen
      <4> QED
        BY <2>0, <3>1, <4>1, StageIsSeq DEF Starts
    <3>3. CASE find(RoomOf[c], i) \notin {None, c}
      <4>1. todo' = todo /\ pc' = [pc EXCEPT ![c] = "open"]
        BY <2>5, <3>3 DEF RecvOpen
      <4> QED
        BY <2>0, <3>1, <4>1 DEF Keeps, TodoInv
    <3> QED
      BY <3>2, <3>3
  <2>6. ASSUME NEW s \in Sessions, RecvFrame(c, s) \/ RecvAck(c, s) \/ RecvClose(c, s)
        PROVE  Starts(c)
    <3>1. PICK A : todo' = [todo EXCEPT ![c] = Stage(A)]
      BY <2>6 DEF RecvFrame, RecvAck, RecvClose
    <3>2. todo[c] = <<>> /\ pc' = pc /\ done' = done /\ pc[c] = "read"
      BY <2>6 DEF RecvFrame, RecvAck, RecvClose, Reading
    <3> QED
      BY <2>0, <3>1, <3>2, StageIsSeq DEF Starts
  <2>7. CASE OpenSession(c)
    <3>1. PICK t, s : todo' = [todo EXCEPT ![c] = OpenStages(c, t, s)]
      BY <2>7 DEF OpenSession
    <3>2. IsSeq(Ready(c, t, s)) /\ IsSeq(Incoming(c, t, s))
      BY StageIsSeq DEF Ready, Incoming
    <3>3. IsSeq(OpenStages(c, t, s))
      BY <3>2, ConcatIsSeq DEF OpenStages
    <3>4. todo[c] = <<>>
      BY <2>7 DEF OpenSession, TodoInv
    <3>5. pc' = [pc EXCEPT ![c] = "read"] /\ done' = done
      BY <2>7 DEF OpenSession
    <3> QED
      BY <2>0, <3>1, <3>3, <3>4, <3>5 DEF Starts
  <2>8. CASE CloseSessions(c)
    <3>1. PICK A, B : todo' = [todo EXCEPT ![c] = Stage(A) \o Stage(B)]
      BY <2>8 DEF CloseSessions
    <3>2. IsSeq(Stage(A) \o Stage(B))
      BY StageIsSeq, ConcatIsSeq
    <3>3. todo[c] = <<>>
      BY <2>8 DEF CloseSessions, TodoInv
    <3>4. pc' = [pc EXCEPT ![c] = "gone"] /\ done' = done
      BY <2>8 DEF CloseSessions
    <3> QED
      BY <2>0, <3>1, <3>2, <3>3, <3>4 DEF Starts
  <2>9. CASE Leave(c) \/ LeaveDisplaced(c)
    <3>1. close(c) /\ todo' = todo /\ todo[c] = <<>>
      BY <2>9 DEF Leave, LeaveDisplaced, ReadFails
    <3>2. \A d \in Conn \ {c} : pc'[d] = pc[d]
      BY <2>0, <2>9 DEF Leave, LeaveDisplaced
    <3> QED
      BY <3>1, <3>2, CloseAdds DEF Keeps
  <2>10. CASE Quits(c)
    BY <2>10 DEF Quits, BrowserCloses, BrowserVanishes, Keeps, TodoInv
  <2>11. CASE WriteNext(c)
    BY <2>11 DEF WriteNext, Keeps, TodoInv
  <2>12. CASE WriteFails(c) \/ HeartbeatFails(c)
    <3>1. close(c) /\ todo' = todo /\ pc' = pc
      BY <2>12 DEF WriteFails, HeartbeatFails
    <3> QED
      BY <3>1, CloseAdds DEF Keeps
  <2>13. CASE RunTodo(c)
    <3>1. CASE SendQueued(c) \/ SendToClosed(c)
      BY <3>1 DEF SendQueued, SendToClosed, Runs, TodoInv, Close
    <3>2. CASE SendTimesOut(c) \/ CloseDisplaced(c)
      <4>1. PICK e \in Head(todo[c]) : close(e.to) /\ Finish(c, e)
        BY <3>2 DEF SendTimesOut, CloseDisplaced
      <4>2. todo[c] # <<>> /\ pc' = pc
        BY <3>2 DEF SendTimesOut, CloseDisplaced
      <4>3. \A x \in Conn : e = Close(x) => e.to = x
        BY DEF Close
      <4> QED
        BY <4>1, <4>2, <4>3, CloseAdds DEF Runs
    <3> QED
      BY <2>13, <3>1, <3>2 DEF RunTodo
  <2> QED
    BY <1>2, <2>1, <2>2, <2>3, <2>4, <2>5, <2>6, <2>7, <2>8, <2>9, <2>10, <2>11, <2>12, <2>13
    DEF Joins, Receives, Writes, Sends, Heartbeat, Leaves, Continues
<1> QED
  BY <1>1, <1>2 DEF Next

(* No step loses a closing that is owed, or reopens what is closed.        *)
LEMMA TodoStep ==
    ASSUME TodoInv, RegistryInv, [Next]_vars
    PROVE  TodoInv' /\ \A x \in Conn : Handled(x) => Handled(x)'
<1>1. CASE Keeps
  BY <1>1 DEF Keeps, TodoInv, Handled
<1>2. ASSUME NEW c \in Conn, Starts(c)
      PROVE  TodoInv' /\ \A x \in Conn : Handled(x) => Handled(x)'
  <2>1. PICK w : IsSeq(w) /\ todo' = [todo EXCEPT ![c] = w]
    BY <1>2 DEF Starts
  <2>2. todo'[c] = w /\ \A d \in Conn \ {c} : todo'[d] = todo[d]
    BY <2>1 DEF TodoInv
  <2>3. TodoInv'
    BY <1>2, <2>1, <2>2 DEF Starts, TodoInv
  <2>4. \A x \in Conn : ~Owed(todo[c], x)
    BY <1>2 DEF Starts, Owed
  <2> QED
    BY <1>2, <2>2, <2>3, <2>4 DEF Starts, Handled
<1>3. ASSUME NEW c \in Conn, Runs(c)
      PROVE  TodoInv' /\ \A x \in Conn : Handled(x) => Handled(x)'
  <2>1. PICK e \in Head(todo[c]) : Finish(c, e) /\ \A x \in Conn : e = Close(x) => done'[x]
    BY <1>3 DEF Runs
  <2> DEFINE t == Without(todo[c], e)
  <2>2. todo' = [todo EXCEPT ![c] = t]
    BY <2>1 DEF Finish
  <2>3. IsSeq(todo[c]) /\ todo[c] # <<>>
    BY <1>3 DEF Runs, TodoInv
  <2>4. IsSeq(t)
    BY <2>3, FinishIsSeq
  <2>5. \A x \in Conn : Owed(todo[c], x) /\ e # Close(x) => Owed(t, x)
    BY <2>1, <2>3, FinishOwes
  <2> HIDE DEF t
  <2>6. todo'[c] = t /\ \A d \in Conn \ {c} : todo'[d] = todo[d]
    BY <2>2 DEF TodoInv
  <2>7. TodoInv'
    BY <1>3, <2>2, <2>3, <2>4, <2>6 DEF Runs, TodoInv
  <2> QED
    BY <1>3, <2>1, <2>5, <2>6, <2>7 DEF Runs, Handled
<1> QED
  BY <1>1, <1>2, <1>3, StepKinds

(* Nobody is displaced at first.                                           *)
LEMMA DisplacedInit == Init => DisplacedInv
<1> SUFFICES ASSUME Init PROVE DisplacedInv
  OBVIOUS
<1>1. IsSeq(<<>>)
  BY DEF IsSeq
<1>2. TodoInv
  BY <1>1 DEF Init, PeerInit, TodoInv
<1>3. DisplacedIsClosed
  BY DEF Init, PeerInit, DisplacedIsClosed, Active
<1> QED
  BY <1>2, <1>3, RegistryInit DEF DisplacedInv

(* Whoever loses its entry by a step is handled by that step.              *)
LEMMA DisplacedStep ==
    ASSUME DisplacedInv, [Next]_vars
    PROVE  DisplacedInv'
<1> USE ConnAssumption, HubAssumption
<1>1. RegistryInv /\ TodoInv /\ DisplacedIsClosed
  BY DEF DisplacedInv
<1>2. RegistryInv' /\ TodoInv' /\ \A x \in Conn : Handled(x) => Handled(x)'
  BY <1>1, RegistryStep, TodoStep
<1>3. ASSUME NEW d \in Conn, pc'[d] \in Active, ~Registered(d)'
      PROVE  Handled(d)'
  <2>1. CASE pc[d] \in Active /\ ~Registered(d)
    BY <1>1, <1>2, <2>1 DEF DisplacedIsClosed, Handled, Owed
  <2>2. CASE pc[d] \notin Active \/ Registered(d)
    <3>1. ~UNCHANGED <<rooms, pc>>
      BY <1>3, <2>2 DEF Registered, find
    <3>2. PICK c \in Conn : Moves(c)
      BY <3>1, OnlyMoves
    <3>3. Join(c)
      <4>1. CASE Leave(c)
        <5>1. /\ rooms' = [rooms EXCEPT ![RoomOf[c]][IdOf[c]] = None]
              /\ pc' = [pc EXCEPT ![c] = "leave"] /\ rooms[RoomOf[c]][IdOf[c]] = c
          BY <4>1 DEF Leave, Registered, find
        <5>2. d # c /\ pc'[d] = pc[d]
          BY <1>1, <1>3, <5>1 DEF RegistryInv, Active
        <5>3. Registered(d)
          BY <1>3, <2>2, <5>2
        <5> QED
          BY <1>1, <1>3, <5>1, <5>2, <5>3 DEF Registered, find, RegistryInv
      <4>2. CASE ~Leave(c) /\ ~Join(c)
        <5>1. rooms' = rooms
          BY <3>2, <4>2 DEF Moves, LeaveDisplaced, CloseSessions, RecvHello, FinishHello,
                            OpenSession, RecvOpen, hubVars
        <5>2. pc[d] \notin Active
          BY <1>3, <2>2, <5>1 DEF Registered, find
        <5>3. \A e \in Conn : pc'[e] \in Active => pc[e] \in Active
          BY <1>1, <3>2, <4>2 DEF Moves, LeaveDisplaced, CloseSessions, RecvHello, FinishHello,
                            OpenSession, RecvOpen, RegistryInv, Active, Reading
        <5> QED
          BY <1>3, <5>2, <5>3
      <4> QED
        BY <4>1, <4>2
    <3>4. /\ rooms' = [rooms EXCEPT ![RoomOf[c]][IdOf[c]] = c]
          /\ pc' = [pc EXCEPT ![c] = "read"]
          /\ todo' = [todo EXCEPT ![c] =
                        JoinStages(c, {find(RoomOf[c], IdOf[c])} \ {None})]
      BY <3>3 DEF Join
    <3>5. d # c
      BY <1>1, <1>3, <3>4 DEF Registered, find, RegistryInv
    <3>6. Registered(d)
      BY <1>1, <1>3, <2>2, <3>4, <3>5 DEF RegistryInv
    <3>7. find(RoomOf[c], IdOf[c]) = d
      BY <1>1, <1>3, <3>4, <3>6 DEF Registered, find, RegistryInv
    <3>8. d \in {find(RoomOf[c], IdOf[c])} \ {None}
      BY <3>7
    <3>9. Owed(todo'[c], d)
      BY <1>1, <3>4, <3>8, JoinOwes DEF TodoInv
    <3> QED
      BY <3>9 DEF Handled
  <2> QED
    BY <2>1, <2>2
<1>4. DisplacedIsClosed'
  BY <1>3 DEF DisplacedIsClosed, Handled, Owed
<1> QED
  BY <1>2, <1>4 DEF DisplacedInv

(* A connection that lost its registry entry to a newer one is closed, or  *)
(* its replacement still has closing it to do (hub.go:56-59): no schedule  *)
(* leaves it connected and unreachable.                                    *)
THEOREM DisplacedAreClosed == Spec => []DisplacedIsClosed
<1>1. Init => DisplacedInv
  BY DisplacedInit
<1>2. DisplacedInv /\ [Next]_vars => DisplacedInv'
  BY DisplacedStep
<1>3. DisplacedInv => DisplacedIsClosed
  BY DEF DisplacedInv
<1> QED
  BY <1>1, <1>2, <1>3, PTL DEF Spec

----------------------------------------------------------------------------
(* What may be sent to whom: a message that names peers of the receiver's  *)
(* own room.                                                               *)
Fit(t, m) == \A i \in IdsNamed(m) : InRoom(RoomOf[t], i)
Fitting == {e \in Effect : e.op = "send" => Fit(e.to, e.msg)}
Stages == Seq((SUBSET Fitting) \ {{}})

(* The types and the rooms, component by component.                        *)
QueueInv ==
    /\ todo \in [Conn -> Stages]
    /\ out \in [Conn -> Seq(serverMessage)]
    /\ \A c \in Conn : Len(out[c]) <= QueueCap /\ out[c] \in Seq({m \in serverMessage : Fit(c, m)})
    /\ done \in [Conn -> BOOLEAN]

PageInv ==
    /\ link \in [Conn -> {"up", "closed", "vanished"}]
    /\ name \in [Conn -> Names]
    /\ BrowserTypeOK

TableInv ==
    /\ held \in [Conn -> SUBSET Conn]
    /\ \A c \in Conn : \A o \in held[c] : RoomOf[o] = RoomOf[c]
    /\ RelayTypeOK
    /\ \A s \in Sessions : Taken(s) => RoomOf[sessions[s].from] = RoomOf[sessions[s].to]

ServerInv == RegistryInv /\ QueueInv /\ PageInv /\ TableInv

----------------------------------------------------------------------------
(* The search for a session ID.                                            *)

(* A uint32 that has not wrapped is itself, and one that has lost as much. *)
LEMMA Modulo ==
    ASSUME NEW m \in Nat \ {0}, NEW x \in 0..(m - 1)
    PROVE  x % m = x /\ (x + m) % m = x
  OBVIOUS

(* The search tries every ID there is, whatever was handed out last.       *)
LEMMA EveryCandidate ==
    ASSUME nextSess \in 0..SessMax, NEW s \in Sessions
    PROVE  \E k \in Sessions : Candidate(k) = s
<1> USE ConnAssumption DEF Sessions
<1>0. s - 1 \in 0..(SessMax - 1) /\ SessMax \in Nat \ {0}
  OBVIOUS
<1>1. CASE nextSess < s
  <2>1. s - nextSess \in Sessions /\ nextSess + (s - nextSess) - 1 = s - 1
    BY <1>1
  <2>2. Candidate(s - nextSess) = s
    BY <1>0, <2>1, Modulo DEF Candidate
  <2> QED
    BY <2>1, <2>2
<1>2. CASE s <= nextSess
  <2> DEFINE k == s - nextSess + SessMax
  <2>1. k \in Sessions /\ nextSess + k - 1 = (s - 1) + SessMax
    BY <1>2
  <2>2. Candidate(k) = s
    BY <1>0, <2>1, Modulo DEF Candidate
  <2> QED
    BY <2>1, <2>2
<1> QED
  BY <1>1, <1>2

(* So while an ID is free, it finds one that is (relay.go:54-66).          *)
LEMMA NextFreeIsFree ==
    ASSUME nextSess \in 0..SessMax, \E s \in Sessions : ~Taken(s)
    PROVE  NextFree \in Sessions /\ ~Taken(NextFree)
<1> DEFINE T == {k \in Sessions : ~Taken(Candidate(k))}
<1>1. T # {} /\ T \subseteq Nat
  BY EveryCandidate DEF Sessions
<1>2. PICK k \in T : \A j \in T : k <= j
  BY <1>1, LeastNatural
<1>3. \A j \in 1..(k - 1) : Taken(Candidate(j))
  BY <1>2, ConnAssumption DEF Sessions
<1> DEFINE first == CHOOSE x \in Sessions : /\ ~Taken(Candidate(x))
                                            /\ \A j \in 1..(x - 1) : Taken(Candidate(j))
<1>4. first \in Sessions /\ ~Taken(Candidate(first))
  BY <1>2, <1>3
<1>5. NextFree = Candidate(first)
  BY DEF NextFree
<1> HIDE DEF first
<1>6. Candidate(first) \in Sessions
  BY <1>4, ConnAssumption DEF Candidate, Sessions
<1> QED
  BY <1>4, <1>5, <1>6

----------------------------------------------------------------------------
(* What is put on a list.                                                  *)

(* A stage of sends that fit is a list.                                    *)
LEMMA StageFits ==
    ASSUME NEW A, A \subseteq Fitting
    PROVE  Stage(A) \in Stages
<1> DEFINE U == (SUBSET Fitting) \ {{}}
<1>1. A # {} => A \in U
  OBVIOUS
<1> HIDE DEF U
<1>2. <<>> \in Seq(U) /\ (A # {} => <<A>> \in Seq(U))
  BY <1>1
<1> QED
  BY <1>2 DEF Stage, Stages, U

(* Two lists in a row are a list.                                          *)
LEMMA ConcatFits ==
    ASSUME NEW s \in Stages, NEW t \in Stages
    PROVE  s \o t \in Stages
  BY ConcatProperties DEF Stages

(* What is taken off a list was fit, and what remains is a list.           *)
LEMMA RestFits ==
    ASSUME NEW s \in Stages, s # <<>>, NEW e \in Head(s)
    PROVE  e \in Fitting /\ Without(s, e) \in Stages
<1> DEFINE U == (SUBSET Fitting) \ {{}}
<1>1. s \in Seq(U) /\ Head(s) = s[1] /\ 1 \in 1..Len(s) /\ s[1] \in U
  BY HeadTailProperties, EmptySeq, LenProperties, ElementOfSeq DEF Stages
<1>2. CASE s[1] = {e}
  BY <1>1, <1>2, HeadTailProperties DEF Without, Stages
<1>3. CASE s[1] # {e}
  <2>1. s[1] \ {e} \in U
    BY <1>1, <1>3
  <2> QED
    BY <1>1, <1>3, <2>1, ExceptSeq DEF Without, Stages
<1> QED
  BY <1>1, <1>2, <1>3

(* A send that fits, by its kind.                                          *)
LEMMA SendFits ==
    ASSUME NEW t \in Conn, NEW m \in serverMessage, Fit(t, m)
    PROVE  Send(t, m) \in Fitting
  BY DEF Send, Fitting, Effect

(* A close names nobody.                                                   *)
LEMMA CloseFits ==
    ASSUME NEW t \in Conn
    PROVE  Close(t) \in Fitting
  BY DEF Close, Fitting, Effect

(* What names nobody fits everybody.                                       *)
LEMMA NamesNobody ==
    ASSUME NEW s \in Sessions, NEW n \in Nat
    PROVE  \A m \in {Error, [type |-> "relay-close", session |-> s],
                     [type |-> "frame", session |-> s, n |-> n],
                     [type |-> "relay-ack", session |-> s, n |-> n]} :
             m \in serverMessage /\ \A t : Fit(t, m)
  BY DEF Error, serverMessage, Fit, IdsNamed

(* A welcome names those the registry knows in the room.                   *)
LEMMA WelcomeFits ==
    ASSUME RegistryInv, name \in [Conn -> Names], NEW c \in Conn
    PROVE  Welcome(c) \in serverMessage /\ Fit(c, Welcome(c))
<1> DEFINE w == Welcome(c).peers
<1>1. ASSUME NEW i \in Ids
      PROVE  /\ w[i] \in Names \cup {NoName}
             /\ w[i] # NoName => InRoom(RoomOf[c], i)
  <2> DEFINE o == find(RoomOf[c], i)
  <2>1. o \in Conn \cup {None} /\ (o # None => RoomOf[o] = RoomOf[c] /\ IdOf[o] = i)
    BY ConnAssumption DEF RegistryInv, RegistrySound, find
  <2>2. w[i] = IF i = IdOf[c] \/ o = None THEN NoName ELSE name[o]
    BY DEF Welcome, Info
  <2> HIDE DEF o, w
  <2> QED
    BY <2>1, <2>2, HubAssumption DEF InRoom
<1>2. Welcome(c) = [type |-> "welcome", peers |-> w]
  BY DEF Welcome
<1>3. w \in [Ids -> Names \cup {NoName}]
  <2>1. w = [i \in Ids |-> w[i]]
    BY DEF Welcome
  <2> HIDE DEF w
  <2> QED
    BY <1>1, <2>1
<1> HIDE DEF w
<1> QED
  BY <1>1, <1>2, <1>3 DEF serverMessage, Fit, IdsNamed

(* Those the registry knows in a room are connections of that room.        *)
LEMMA OthersAreHere ==
    ASSUME RegistryInv, NEW c \in Conn
    PROVE  /\ \A i \in Ids : find(RoomOf[c], i) # None =>
                find(RoomOf[c], i) \in Conn /\ RoomOf[find(RoomOf[c], i)] = RoomOf[c]
           /\ \A o \in roomPeers(RoomOf[c]) : o \in Conn /\ RoomOf[o] = RoomOf[c]
           /\ Others(c) \subseteq roomPeers(RoomOf[c])
<1>1. RoomOf[c] \in Rooms
  BY ConnAssumption
<1> QED
  BY <1>1 DEF RegistryInv, RegistrySound, find, roomPeers, Others

(* The far end of a session is a connection of the same room.              *)
LEMMA FarEndIsHere ==
    ASSUME TableInv, NEW c \in Conn, NEW s \in Sessions,
           other(s, c) # None \/ c \in {sessions[s].from, sessions[s].to}
    PROVE  /\ Taken(s) /\ sessions[s] \in relaySession
           /\ other(s, c) \in Conn /\ RoomOf[other(s, c)] = RoomOf[c]
<1>1. sessions[s] \in relaySession \cup {NoSession}
  BY DEF TableInv, RelayTypeOK
<1>2. Taken(s) /\ sessions[s] \in relaySession
  BY <1>1, HubAssumption DEF other, NoSession, Taken
<1>3. RoomOf[sessions[s].from] = RoomOf[sessions[s].to]
  BY <1>2 DEF TableInv
<1> QED
  BY <1>2, <1>3, HubAssumption DEF other, relaySession

(* A join puts what fits on its list.                                      *)
LEMMA JoinFits ==
    ASSUME RegistryInv, name \in [Conn -> Names], NEW c \in Conn, NEW D, D \subseteq Conn
    PROVE  JoinStages(c, D) \in Stages
<1> DEFINE e == {Send(d, Error) : d \in D}
           x == {Close(d) : d \in D}
           w == {Send(c, Welcome(c))}
           j == {Send(o, PeerJoin(c)) : o \in Others(c)}
<1>1. e \subseteq Fitting /\ x \subseteq Fitting
  <2>1. \A d \in D : Fit(d, Error) /\ Error \in serverMessage
    BY DEF Fit, Error, IdsNamed, serverMessage
  <2> QED
    BY <2>1, SendFits, CloseFits
<1>2. w \subseteq Fitting
  BY WelcomeFits, SendFits
<1>3. j \subseteq Fitting
  <2> SUFFICES ASSUME NEW o \in Others(c) PROVE Send(o, PeerJoin(c)) \in Fitting
    OBVIOUS
  <2>1. o \in Conn /\ RoomOf[c] = RoomOf[o]
    BY OthersAreHere
  <2>2. PeerJoin(c) \in serverMessage /\ Fit(o, PeerJoin(c))
    <3>1. IdOf[c] \in Ids /\ InRoom(RoomOf[o], IdOf[c]) /\ name[c] \in Names
      BY <2>1, ConnAssumption DEF InRoom
    <3> QED
      BY <3>1 DEF PeerJoin, Info, serverMessage, PeerInfo, Fit, IdsNamed
  <2> QED
    BY <2>1, <2>2, SendFits
<1>4. JoinStages(c, D) = ((Stage(e) \o Stage(x)) \o Stage(w)) \o Stage(j)
  BY DEF JoinStages
<1> HIDE DEF e, x, w, j
<1>5. Stage(e) \in Stages /\ Stage(x) \in Stages /\ Stage(w) \in Stages /\ Stage(j) \in Stages
  BY <1>1, <1>2, <1>3, StageFits
<1>6. Stage(e) \o Stage(x) \in Stages
  BY <1>5, ConcatFits
<1>7. (Stage(e) \o Stage(x)) \o Stage(w) \in Stages
  BY <1>5, <1>6, ConcatFits
<1> QED
  BY <1>4, <1>5, <1>7, ConcatFits

(* Everything a goroutine puts on its list fits.                           *)
Posts(c, w) == w \in Stages /\ todo' = [todo EXCEPT ![c] = w]

(* What a goroutine reads from its browser makes it post only such lists.  *)
LEMMA ReceivesPosts ==
    ASSUME ServerInv, NEW c \in Conn, Receives(c)
    PROVE  todo' = todo \/ \E w : Posts(c, w)
<1> USE DEF ServerInv
<1>1. CASE RecvHello(c)
  BY <1>1 DEF RecvHello
<1>2. ASSUME NEW i \in Ids, RecvSignal(c, i)
      PROVE  \E w : Posts(c, w)
  <2> DEFINE t == find(RoomOf[c], i)
             e == IF t = None THEN Send(c, Error) ELSE Send(t, [type |-> "signal", from |-> IdOf[c]])
  <2>1. todo' = [todo EXCEPT ![c] = Stage({e})]
    BY <1>2 DEF RecvSignal
  <2>2. CASE t = None
    <3>1. Error \in serverMessage /\ Fit(c, Error)
      BY DEF Fit, Error, IdsNamed, serverMessage
    <3>2. e \in Fitting
      BY <2>2, <3>1, SendFits
    <3> QED
      BY <2>1, <3>2, StageFits DEF Posts
  <2>3. CASE t # None
    <3>1. t \in Conn /\ RoomOf[c] = RoomOf[t]
      BY <2>3, OthersAreHere
    <3>2. [type |-> "signal", from |-> IdOf[c]] \in serverMessage
          /\ Fit(t, [type |-> "signal", from |-> IdOf[c]])
      <4>1. IdOf[c] \in Ids /\ InRoom(RoomOf[t], IdOf[c])
        BY <3>1, ConnAssumption DEF InRoom
      <4> QED
        BY <4>1 DEF serverMessage, Fit, IdsNamed
    <3>3. e \in Fitting
      BY <2>3, <3>1, <3>2, SendFits
    <3> QED
      BY <2>1, <3>3, StageFits DEF Posts
  <2> QED
    BY <2>2, <2>3
<1>3. ASSUME NEW i \in Ids, RecvOpen(c, i)
      PROVE  todo' = todo \/ \E w : Posts(c, w)
  <2>1. todo' = todo \/ todo' = [todo EXCEPT ![c] = Stage({Send(c, Error)})]
    BY <1>3 DEF RecvOpen
  <2>2. Error \in serverMessage /\ Fit(c, Error)
    BY DEF Fit, Error, IdsNamed, serverMessage
  <2>3. {Send(c, Error)} \subseteq Fitting
    BY <2>2, SendFits
  <2> QED
    BY <2>1, <2>3, StageFits DEF Posts
<1>4. ASSUME NEW s \in Sessions, RecvFrame(c, s)
      PROVE  \E w : Posts(c, w)
  <2> DEFINE n == sessions[s].sent[c] + 1
             e == Send(other(s, c), [type |-> "frame", session |-> s, n |-> n])
  <2>1. todo' = [todo EXCEPT ![c] = Stage({e})]
    BY <1>4 DEF RecvFrame
  <2>2. sessions[s] \in relaySession /\ other(s, c) \in Conn
    BY <1>4, FarEndIsHere DEF RecvFrame
  <2>3. n \in Nat
    BY <2>2 DEF relaySession
  <2>4. e \in Fitting
    <3> HIDE DEF n
    <3> QED
      BY <2>2, <2>3, NamesNobody, SendFits
  <2> HIDE DEF e
  <2> QED
    BY <2>1, <2>4, StageFits DEF Posts
<1>5. ASSUME NEW s \in Sessions, RecvAck(c, s)
      PROVE  \E w : Posts(c, w)
  <2> DEFINE n == got[c][s]
             e == Send(other(s, c), [type |-> "relay-ack", session |-> s, n |-> n])
  <2>1. todo' = [todo EXCEPT ![c] = Stage({e})]
    BY <1>5 DEF RecvAck
  <2>2. other(s, c) \in Conn
    BY <1>5, FarEndIsHere DEF RecvAck
  <2>3. n \in Nat
    BY <1>5 DEF RecvAck, PageInv, BrowserTypeOK
  <2>4. e \in Fitting
    <3> HIDE DEF n
    <3> QED
      BY <2>2, <2>3, NamesNobody, SendFits
  <2> HIDE DEF e
  <2> QED
    BY <2>1, <2>4, StageFits DEF Posts
<1>6. ASSUME NEW s \in Sessions, RecvClose(c, s)
      PROVE  \E w : Posts(c, w)
  <2> DEFINE m == [type |-> "relay-close", session |-> s]
             A == {Send(t, m) : t \in {other(s, c)} \ {None}}
  <2>1. todo' = [todo EXCEPT ![c] = Stage(A)]
    BY <1>6 DEF RecvClose
  <2>2. m \in serverMessage /\ \A t : Fit(t, m)
    BY NamesNobody
  <2> HIDE DEF m
  <2>3. \A t \in {other(s, c)} \ {None} : t \in Conn
    BY FarEndIsHere
  <2>4. A \subseteq Fitting
    BY <2>2, <2>3, SendFits
  <2> HIDE DEF A
  <2> QED
    BY <2>1, <2>4, StageFits DEF Posts
<1> QED
  BY <1>1, <1>2, <1>3, <1>4, <1>5, <1>6 DEF Receives

(* So do its join, its leave and the steps it takes between two locks.     *)
LEMMA MovesPosts ==
    ASSUME ServerInv, NEW c \in Conn, Joins(c) \/ Leaves(c) \/ Continues(c)
    PROVE  todo' = todo \/ \E w : Posts(c, w)
<1> USE DEF ServerInv
<1>1. CASE Join(c)
  <2> DEFINE D == {find(RoomOf[c], IdOf[c])} \ {None}
  <2>1. todo' = [todo EXCEPT ![c] = JoinStages(c, D)]
    BY <1>1 DEF Join
  <2>2. D \subseteq Conn
    BY OthersAreHere, ConnAssumption
  <2> HIDE DEF D
  <2> QED
    BY <2>1, <2>2, JoinFits DEF Posts, PageInv
<1>2. CASE FinishHello(c)
  <2> DEFINE m == [type |-> "peer-join", peer |-> [id |-> IdOf[c], name |-> "new"]]
             A == {Send(o, m) : o \in Others(c)}
  <2>1. todo' = [todo EXCEPT ![c] = Stage(A)]
    BY <1>2 DEF FinishHello
  <2>2. ASSUME NEW o \in Others(c) PROVE Send(o, m) \in Fitting
    <3>1. o \in Conn /\ RoomOf[c] = RoomOf[o]
      BY OthersAreHere
    <3>2. IdOf[c] \in Ids /\ InRoom(RoomOf[o], IdOf[c])
      BY <3>1, ConnAssumption DEF InRoom
    <3>3. m \in serverMessage /\ Fit(o, m)
      BY <3>2 DEF serverMessage, PeerInfo, Names, Fit, IdsNamed
    <3> HIDE DEF m
    <3> QED
      BY <3>1, <3>3, SendFits
  <2> HIDE DEF m
  <2>3. A \subseteq Fitting
    BY <2>2
  <2> HIDE DEF A
  <2> QED
    BY <2>1, <2>3, StageFits DEF Posts
<1>3. CASE OpenSession(c)
  <2>1. PICK t \in held[c] : todo' = [todo EXCEPT ![c] = OpenStages(c, t, NextFree)]
    BY <1>3 DEF OpenSession
  <2>2. NextFree \in Sessions
    BY <1>3, NextFreeIsFree DEF OpenSession, TableInv, RelayTypeOK
  <2> DEFINE s == NextFree
             m == [type |-> "relay-ready", session |-> s, id |-> IdOf[t]]
             n == [type |-> "relay-incoming", session |-> s, id |-> IdOf[c]]
  <2>3. t \in Conn /\ RoomOf[t] = RoomOf[c]
    BY DEF TableInv
  <2>4. /\ IdOf[c] \in Ids /\ InRoom(RoomOf[t], IdOf[c])
        /\ IdOf[t] \in Ids /\ InRoom(RoomOf[c], IdOf[t])
    BY <2>3, ConnAssumption DEF InRoom
  <2>5. OpenStages(c, t, s) = Stage({Send(c, m)}) \o Stage({Send(t, n)})
    BY DEF OpenStages, Ready, Incoming
  <2> HIDE DEF s
  <2>6. m \in serverMessage /\ Fit(c, m) /\ n \in serverMessage /\ Fit(t, n)
    BY <2>2, <2>4 DEF serverMessage, Fit, IdsNamed, s
  <2> HIDE DEF m, n
  <2>7. {Send(c, m)} \subseteq Fitting /\ {Send(t, n)} \subseteq Fitting
    BY <2>3, <2>6, SendFits
  <2>8. OpenStages(c, t, s) \in Stages
    BY <2>5, <2>7, StageFits, ConcatFits
  <2> QED
    BY <2>1, <2>8 DEF Posts, s
<1>4. CASE CloseSessions(c)
  <2> DEFINE A == {Send(other(s, c), [type |-> "relay-close", session |-> s]) : s \in Orphaned(c)}
             B == {Send(o, PeerLeave(c)) : o \in held[c]}
  <2>1. todo' = [todo EXCEPT ![c] = Stage(A) \o Stage(B)]
    BY <1>4 DEF CloseSessions
  <2>2. A \subseteq Fitting
    <3> SUFFICES ASSUME NEW s \in Orphaned(c)
        PROVE  Send(other(s, c), [type |-> "relay-close", session |-> s]) \in Fitting
      OBVIOUS
    <3>1. s \in Sessions /\ c \in {sessions[s].from, sessions[s].to}
      BY DEF Orphaned
    <3>2. other(s, c) \in Conn
      BY <3>1, FarEndIsHere
    <3> QED
      BY <3>1, <3>2, NamesNobody, SendFits
  <2>3. B \subseteq Fitting
    <3> SUFFICES ASSUME NEW o \in held[c] PROVE Send(o, PeerLeave(c)) \in Fitting
      OBVIOUS
    <3>1. o \in Conn /\ RoomOf[c] = RoomOf[o]
      BY DEF TableInv
    <3>2. IdOf[c] \in Ids /\ InRoom(RoomOf[o], IdOf[c])
      BY <3>1, ConnAssumption DEF InRoom
    <3>3. PeerLeave(c) \in serverMessage /\ Fit(o, PeerLeave(c))
      BY <3>2 DEF PeerLeave, serverMessage, Fit, IdsNamed
    <3> QED
      BY <3>1, <3>3, SendFits
  <2> HIDE DEF A, B
  <2>4. Stage(A) \o Stage(B) \in Stages
    BY <2>2, <2>3, StageFits, ConcatFits
  <2> QED
    BY <2>1, <2>4 DEF Posts
<1>5. CASE Leave(c) \/ LeaveDisplaced(c)
  BY <1>5 DEF Leave, LeaveDisplaced
<1> QED
  BY <1>1, <1>2, <1>3, <1>4, <1>5 DEF Joins, Leaves, Continues

----------------------------------------------------------------------------
(* Queues and lists hold what fits, and no queue outgrows its capacity.    *)

(* A queue may be replaced by one that fits.                               *)
LEMMA OneQueue ==
    ASSUME QueueInv, todo' \in [Conn -> Stages], done' \in [Conn -> BOOLEAN],
           NEW c \in Conn, NEW q \in Seq(serverMessage),
           q \in Seq({m \in serverMessage : Fit(c, m)}), Len(q) <= QueueCap,
           out' = [out EXCEPT ![c] = q]
    PROVE  QueueInv'
<1>1. out' \in [Conn -> Seq(serverMessage)] /\ out'[c] = q /\ \A d \in Conn \ {c} : out'[d] = out[d]
  BY DEF QueueInv
<1>2. ASSUME NEW d \in Conn
      PROVE  Len(out'[d]) <= QueueCap /\ out'[d] \in Seq({m \in serverMessage : Fit(d, m)})
  BY <1>1 DEF QueueInv
<1> QED
  BY <1>1, <1>2 DEF QueueInv

(* Closing a connection empties its queue.                                 *)
LEMMA CloseQueue ==
    ASSUME QueueInv, todo' \in [Conn -> Stages], NEW c \in Conn, close(c)
    PROVE  QueueInv'
<1>1. out' = [out EXCEPT ![c] = <<>>] /\ done' = [done EXCEPT ![c] = TRUE]
  BY DEF close
<1>2. <<>> \in Seq(serverMessage) /\ <<>> \in Seq({m \in serverMessage : Fit(c, m)}) /\ Len(<<>>) = 0
  OBVIOUS
<1>3. done' \in [Conn -> BOOLEAN] /\ Len(<<>>) <= QueueCap
  BY <1>1, <1>2, PeerAssumption DEF QueueInv
<1> QED
  BY <1>1, <1>2, <1>3, OneQueue

(* A send is queued where there is room, and only where it fits.           *)
LEMMA SendQueue ==
    ASSUME QueueInv, todo' \in [Conn -> Stages], NEW e \in Fitting, e.op = "send",
           ~Full(e.to), out' = [out EXCEPT ![e.to] = Append(@, e.msg)], done' = done
    PROVE  QueueInv'
<1> DEFINE t == e.to  q == out[t]  S == {m \in serverMessage : Fit(t, m)}
<1>1. t \in Conn /\ e.msg \in S
  BY DEF Fitting, Effect
<1>2. q \in Seq(serverMessage) /\ q \in Seq(S) /\ Len(q) < QueueCap /\ e.msg \in serverMessage
  <2>1. Len(q) \in Nat
    BY <1>1, LenProperties DEF QueueInv
  <2> QED
    BY <1>1, <2>1, PeerAssumption DEF QueueInv, Full
<1> HIDE DEF q, S
<1>3. /\ Append(q, e.msg) \in Seq(serverMessage) /\ Append(q, e.msg) \in Seq(S)
      /\ Len(Append(q, e.msg)) <= QueueCap
  BY <1>1, <1>2, AppendProperties, LenProperties, PeerAssumption
<1>4. out' = [out EXCEPT ![t] = Append(q, e.msg)]
  BY DEF q
<1>5. done' \in [Conn -> BOOLEAN]
  BY DEF QueueInv
<1> QED
  BY <1>1, <1>3, <1>4, <1>5, OneQueue DEF S

(* A write takes the first message off the queue.                          *)
LEMMA WriteQueue ==
    ASSUME QueueInv, todo' = todo, NEW c \in Conn, out[c] # <<>>,
           out' = [out EXCEPT ![c] = Tail(@)], done' = done
    PROVE  QueueInv'
<1> DEFINE q == out[c]  S == {m \in serverMessage : Fit(c, m)}
<1>1. q \in Seq(serverMessage) /\ q \in Seq(S) /\ Len(q) <= QueueCap /\ q # <<>>
  BY DEF QueueInv
<1> HIDE DEF q, S
<1>2. Tail(q) \in Seq(serverMessage) /\ Tail(q) \in Seq(S) /\ Len(Tail(q)) <= QueueCap
  BY <1>1, HeadTailProperties, LenProperties, PeerAssumption
<1>3. out' = [out EXCEPT ![c] = Tail(q)]
  BY DEF q
<1>4. done' \in [Conn -> BOOLEAN] /\ todo' \in [Conn -> Stages]
  BY DEF QueueInv
<1> QED
  BY <1>2, <1>3, <1>4, OneQueue DEF S

(* So every step keeps both.                                               *)
LEMMA QueueStep ==
    ASSUME ServerInv, [Next]_vars
    PROVE  QueueInv'
<1> USE DEF ServerInv
<1>0. todo \in [Conn -> Stages]
  BY DEF QueueInv
<1>a. ASSUME todo' \in [Conn -> Stages], out' = out, done' = done
      PROVE  QueueInv'
  BY <1>a DEF QueueInv
<1>b. ASSUME NEW c \in Conn, NEW w, Posts(c, w)
      PROVE  todo' \in [Conn -> Stages]
  BY <1>0, <1>b DEF Posts
<1>1. CASE UNCHANGED vars
  BY <1>0, <1>1, <1>a DEF vars, peerVars
<1>2. ASSUME NEW c \in Conn, Receives(c)
      PROVE  QueueInv'
  <2>1. out' = out /\ done' = done
    BY <1>2 DEF Receives, RecvHello, RecvSignal, RecvOpen, RecvFrame, RecvAck, RecvClose
  <2> QED
    BY <1>0, <1>2, <1>a, <1>b, <2>1, ReceivesPosts
<1>3. ASSUME NEW c \in Conn, Joins(c) \/ Leaves(c) \/ Continues(c)
      PROVE  QueueInv'
  <2>1. todo' \in [Conn -> Stages]
    BY <1>0, <1>3, <1>b, MovesPosts
  <2>2. (out' = out /\ done' = done) \/ close(c)
    BY <1>3 DEF Joins, Leaves, Continues, Join, Leave, LeaveDisplaced, CloseSessions,
                FinishHello, OpenSession
  <2> QED
    BY <1>a, <2>1, <2>2, CloseQueue
<1>4. ASSUME NEW c \in Conn, Quits(c)
      PROVE  QueueInv'
  BY <1>0, <1>4, <1>a DEF Quits, BrowserCloses, BrowserVanishes
<1>5. ASSUME NEW c \in Conn, Writes(c) \/ Heartbeat(c)
      PROVE  QueueInv'
  <2>1. CASE WriteNext(c)
    BY <2>1, WriteQueue DEF WriteNext
  <2>2. CASE WriteFails(c) \/ HeartbeatFails(c)
    BY <1>0, <2>2, CloseQueue DEF WriteFails, HeartbeatFails
  <2> QED
    BY <1>5, <2>1, <2>2 DEF Writes, Heartbeat
<1>6. ASSUME NEW c \in Conn, Sends(c)
      PROVE  QueueInv'
  <2>1. ASSUME todo[c] # <<>>, NEW e \in Head(todo[c]), Finish(c, e)
        PROVE  e \in Fitting /\ todo' \in [Conn -> Stages]
    <3>1. e \in Fitting /\ Without(todo[c], e) \in Stages
      BY <1>0, <2>1, RestFits
    <3> QED
      BY <1>0, <2>1, <3>1 DEF Finish
  <2>2. CASE SendQueued(c)
    <3>1. PICK e \in Head(todo[c]) :
            /\ e.op = "send" /\ ~Full(e.to) /\ out' = [out EXCEPT ![e.to] = Append(@, e.msg)]
            /\ Finish(c, e)
      BY <2>2 DEF SendQueued
    <3>2. todo[c] # <<>> /\ done' = done
      BY <2>2 DEF SendQueued
    <3> QED
      BY <2>1, <3>1, <3>2, SendQueue
  <2>3. CASE SendToClosed(c)
    <3>1. PICK e \in Head(todo[c]) : Finish(c, e)
      BY <2>3 DEF SendToClosed
    <3> QED
      BY <1>a, <2>1, <2>3, <3>1 DEF SendToClosed
  <2>4. CASE SendTimesOut(c) \/ CloseDisplaced(c)
    <3>1. PICK e \in Head(todo[c]) : close(e.to) /\ Finish(c, e)
      BY <2>4 DEF SendTimesOut, CloseDisplaced
    <3>2. todo[c] # <<>>
      BY <2>4 DEF SendTimesOut, CloseDisplaced
    <3>3. e.to \in Conn /\ todo' \in [Conn -> Stages]
      BY <2>1, <3>1, <3>2 DEF Fitting, Effect
    <3> QED
      BY <3>1, <3>3, CloseQueue
  <2> QED
    BY <1>6, <2>2, <2>3, <2>4 DEF Sends, RunTodo
<1> QED
  BY <1>1, <1>2, <1>3, <1>4, <1>5, <1>6 DEF Next

----------------------------------------------------------------------------
(* What the pages show and what they know of sessions has its type.        *)

(* A message the server sends leaves a page well-formed.                   *)
LEMMA PageTakes ==
    ASSUME NEW m \in serverMessage,
           NEW r \in [Ids -> Names \cup {NoName}], NEW g \in [Sessions -> Int]
    PROVE  /\ RosterAfter(r, m) \in [Ids -> Names \cup {NoName}]
           /\ GotAfter(g, m) \in [Sessions -> Int]
<1>1. RosterAfter(r, m) \in [Ids -> Names \cup {NoName}]
  <2>1. CASE m.type = "welcome"
    <3>1. m.peers \in [Ids -> Names \cup {NoName}]
      BY <2>1 DEF serverMessage
    <3> QED
      BY <2>1, <3>1 DEF RosterAfter
  <2>2. CASE m.type = "peer-join"
    <3>1. m.peer.name \in Names
      BY <2>2 DEF serverMessage, PeerInfo
    <3> QED
      BY <2>2, <3>1 DEF RosterAfter
  <2>3. CASE m.type = "peer-leave"
    BY <2>3 DEF RosterAfter
  <2>4. CASE m.type \notin {"welcome", "peer-join", "peer-leave"}
    BY <2>4 DEF RosterAfter
  <2> QED
    BY <2>1, <2>2, <2>3, <2>4
<1>2. GotAfter(g, m) \in [Sessions -> Int]
  <2>1. CASE m.type \in {"relay-ready", "relay-incoming"}
    <3>1. m.session \in Sessions
      BY <2>1 DEF serverMessage
    <3> QED
      BY <2>1, <3>1 DEF GotAfter
  <2>2. CASE m.type = "relay-close"
    <3>1. m.session \in Sessions
      BY <2>2 DEF serverMessage
    <3> QED
      BY <2>2, <3>1 DEF GotAfter, FarClosed
  <2>3. CASE m.type = "frame"
    <3>1. m.session \in Sessions
      BY <2>3 DEF serverMessage
    <3> QED
      BY <2>3, <3>1 DEF GotAfter
  <2>4. CASE m.type \notin {"relay-ready", "relay-incoming", "relay-close", "frame"}
    BY <2>4 DEF GotAfter
  <2> QED
    BY <2>1, <2>2, <2>3, <2>4
<1> QED
  BY <1>1, <1>2

(* A browser takes in what the server sends: pages keep their types.       *)
LEMMA PageStep ==
    ASSUME ServerInv, [Next]_vars
    PROVE  PageInv'
<1> USE DEF ServerInv
<1>1. CASE UNCHANGED <<link, name, roster, got>>
  BY <1>1 DEF PageInv, BrowserTypeOK
<1>2. ASSUME NEW c \in Conn, WriteNext(c)
      PROVE  PageInv'
  <2> DEFINE m == Head(out[c])
  <2>1. m \in serverMessage
    BY <1>2, HeadTailProperties DEF WriteNext, QueueInv
  <2>2. /\ roster[c] \in [Ids -> Names \cup {NoName}] /\ got[c] \in [Sessions -> Int]
        /\ roster \in [Conn -> [Ids -> Names \cup {NoName}]] /\ got \in [Conn -> [Sessions -> Int]]
        /\ link' = link /\ name' = name /\ PageInv
    BY <1>2 DEF WriteNext, PageInv, BrowserTypeOK
  <2>3. UNCHANGED browserVars \/ Receive(c, m)
    BY <1>2 DEF WriteNext
  <2> HIDE DEF m
  <2>4. /\ RosterAfter(roster[c], m) \in [Ids -> Names \cup {NoName}]
        /\ GotAfter(got[c], m) \in [Sessions -> Int]
    BY <2>1, <2>2, PageTakes
  <2>5. BrowserTypeOK'
    BY <2>2, <2>3, <2>4 DEF Receive, BrowserTypeOK, browserVars
  <2> QED
    BY <2>2, <2>5 DEF PageInv
<1>3. ASSUME NEW c \in Conn, Quits(c)
      PROVE  PageInv'
  BY <1>3 DEF Quits, BrowserCloses, BrowserVanishes, browserVars, PageInv, BrowserTypeOK
<1>4. ASSUME NEW c \in Conn, RecvHello(c) \/ FinishHello(c)
      PROVE  PageInv'
  BY <1>4 DEF RecvHello, FinishHello, browserVars, PageInv, BrowserTypeOK, Names
<1>5. ASSUME NEW c \in Conn, NEW s \in Sessions, RecvClose(c, s)
      PROVE  PageInv'
  <2> DEFINE n == IF got[c][s] >= 0 THEN SelfClosed ELSE got[c][s]
  <2>1. got \in [Conn -> [Sessions -> Int]] /\ n \in Int
    BY DEF PageInv, BrowserTypeOK, SelfClosed
  <2>2. /\ got' = [got EXCEPT ![c][s] = n]
        /\ UNCHANGED <<roster, link, name>>
    BY <1>5 DEF RecvClose
  <2> HIDE DEF n
  <2> QED
    BY <2>1, <2>2 DEF PageInv, BrowserTypeOK
<1>6. ASSUME NEW c \in Conn,
             \/ Joins(c) \/ Leaves(c) \/ OpenSession(c) \/ Sends(c) \/ Heartbeat(c) \/ WriteFails(c)
             \/ \E i \in Ids : RecvSignal(c, i) \/ RecvOpen(c, i)
             \/ \E s \in Sessions : RecvFrame(c, s) \/ RecvAck(c, s)
      PROVE  UNCHANGED <<link, name, roster, got>>
  <2>1. CASE Joins(c) \/ Leaves(c) \/ OpenSession(c)
    BY <2>1 DEF Joins, Join, Leaves, Leave, LeaveDisplaced, CloseSessions, OpenSession, browserVars
  <2>2. CASE Sends(c) \/ Heartbeat(c) \/ WriteFails(c)
    BY <2>2 DEF Sends, RunTodo, SendQueued, SendToClosed, SendTimesOut, CloseDisplaced,
                Heartbeat, HeartbeatFails, WriteFails, browserVars
  <2>3. CASE \E i \in Ids : RecvSignal(c, i) \/ RecvOpen(c, i)
    BY <2>3 DEF RecvSignal, RecvOpen, browserVars
  <2>4. CASE \E s \in Sessions : RecvFrame(c, s) \/ RecvAck(c, s)
    BY <2>4 DEF RecvFrame, RecvAck, browserVars
  <2> QED
    BY <1>6, <2>1, <2>2, <2>3, <2>4
<1>7. CASE UNCHANGED vars
  BY <1>1, <1>7 DEF vars, peerVars, browserVars
<1> QED
  BY <1>1, <1>2, <1>3, <1>4, <1>5, <1>6, <1>7 DEF Next, Receives, Writes, Continues

----------------------------------------------------------------------------
(* The session table, and what goroutines hold while they work on it.      *)

(* The steps that touch either.                                            *)
Tables(c) ==
    \/ (Leave(c) /\ UNCHANGED relayVars) \/ CloseSessions(c) \/ OpenSession(c)
    \/ \E i \in Ids : RecvOpen(c, i)
    \/ \E s \in Sessions : RecvFrame(c, s) \/ RecvClose(c, s)

(* No other step does.                                                     *)
LEMMA OnlyTables ==
    ASSUME [Next]_vars
    PROVE  (\E c \in Conn : Tables(c)) \/ UNCHANGED <<held, relayVars>>
<1>1. CASE UNCHANGED vars
  BY <1>1 DEF vars, hubVars
<1>2. ASSUME NEW c \in Conn,
             \/ Joins(c) \/ Receives(c) \/ Quits(c)
             \/ Writes(c) \/ Sends(c) \/ Heartbeat(c) \/ Leaves(c) \/ Continues(c)
      PROVE  Tables(c) \/ UNCHANGED <<held, relayVars>>
  <2>1. CASE Joins(c) \/ Leaves(c) \/ Continues(c)
    BY <2>1 DEF Joins, Join, Leaves, LeaveDisplaced, Continues, FinishHello, Tables, hubVars
  <2>2. CASE Receives(c)
    <3>1. CASE RecvHello(c) /\ UNCHANGED relayVars
      BY <3>1 DEF RecvHello, hubVars
    <3>2. ASSUME NEW i \in Ids, (RecvSignal(c, i) /\ UNCHANGED relayVars) \/ RecvOpen(c, i)
          PROVE  Tables(c) \/ UNCHANGED <<held, relayVars>>
      BY <3>2 DEF Tables, RecvSignal, hubVars
    <3>3. ASSUME NEW s \in Sessions, RecvFrame(c, s) \/ RecvAck(c, s) \/ RecvClose(c, s)
          PROVE  Tables(c) \/ UNCHANGED <<held, relayVars>>
      BY <3>3 DEF Tables, RecvAck, hubVars
    <3> QED
      BY <2>2, <3>1, <3>2, <3>3 DEF Receives
  <2>3. CASE Quits(c) \/ Writes(c) \/ Sends(c) \/ Heartbeat(c)
    BY <2>3 DEF Quits, Writes, Sends, Heartbeat, hubVars
  <2> QED
    BY <1>2, <2>1, <2>2, <2>3
<1> QED
  BY <1>1, <1>2 DEF Next

(* An open session changes hands only by being ended first.                *)
KeepsEnds(s) ==
    Taken(s) /\ sessions'[s] # NoSession =>
        sessions'[s].from = sessions[s].from /\ sessions'[s].to = sessions[s].to

(* Every step keeps the session table sound and an open session's ends.    *)
LEMMA TableStep ==
    ASSUME ServerInv, [Next]_vars
    PROVE  TableInv' /\ \A s \in Sessions : KeepsEnds(s)
<1> USE DEF ServerInv
<1>0. /\ held \in [Conn -> SUBSET Conn] /\ \A c \in Conn : \A o \in held[c] : RoomOf[o] = RoomOf[c]
      /\ sessions \in [Sessions -> relaySession \cup {NoSession}]
      /\ nextSess \in 0..SessMax /\ relaySessions \in 0..MaxOpen
      /\ \A s \in Sessions : sessions[s] # NoSession =>
           RoomOf[sessions[s].from] = RoomOf[sessions[s].to]
  BY DEF TableInv, RelayTypeOK, Taken
<1> DEFINE Hold == /\ held' \in [Conn -> SUBSET Conn]
                   /\ \A c \in Conn : \A o \in held'[c] : RoomOf[o] = RoomOf[c]
<1>s. held' = held => Hold
  BY <1>0
<1>a. ASSUME NEW c \in Conn, NEW H, H \subseteq Conn, \A o \in H : RoomOf[o] = RoomOf[c],
             held' = [held EXCEPT ![c] = H]
      PROVE  Hold
  BY <1>0, <1>a
<1>e. ASSUME NEW c \in Conn, held' = [held EXCEPT ![c] = {}]
      PROVE  Hold
  BY <1>0, <1>e
<1>b. ASSUME Hold,
             sessions' \in [Sessions -> relaySession \cup {NoSession}],
             nextSess' \in 0..SessMax, relaySessions' \in 0..MaxOpen,
             \A s \in Sessions : sessions'[s] # NoSession =>
               \/ /\ sessions[s] # NoSession
                  /\ sessions'[s].from = sessions[s].from /\ sessions'[s].to = sessions[s].to
               \/ /\ sessions[s] = NoSession
                  /\ RoomOf[sessions'[s].from] = RoomOf[sessions'[s].to]
      PROVE  TableInv' /\ \A s \in Sessions : KeepsEnds(s)
  BY <1>0, <1>b DEF TableInv, RelayTypeOK, Taken, KeepsEnds
<1>r. ASSUME Hold, UNCHANGED relayVars
      PROVE  TableInv' /\ \A s \in Sessions : KeepsEnds(s)
  <2>1. sessions' = sessions /\ nextSess' = nextSess /\ relaySessions' = relaySessions
    BY <1>r DEF relayVars
  <2> HIDE DEF Hold
  <2> QED
    BY <1>0, <1>b, <1>r, <2>1
<1> HIDE DEF Hold
<1>1. CASE UNCHANGED <<held, relayVars>>
  BY <1>1, <1>s, <1>r
<1>2. ASSUME NEW c \in Conn, Leave(c), UNCHANGED relayVars
      PROVE  TableInv' /\ \A s \in Sessions : KeepsEnds(s)
  <2>1. held' = [held EXCEPT ![c] = roomPeers(RoomOf[c]) \ {c}]
    BY <1>2 DEF Leave
  <2>2. \A o \in roomPeers(RoomOf[c]) \ {c} : o \in Conn /\ RoomOf[o] = RoomOf[c]
    BY OthersAreHere
  <2> DEFINE H == roomPeers(RoomOf[c]) \ {c}
  <2>3. H \subseteq Conn /\ \A o \in H : RoomOf[o] = RoomOf[c]
    BY <2>2
  <2> HIDE DEF H
  <2>4. Hold
    BY <1>a, <2>1, <2>3 DEF H
  <2> QED
    BY <1>2, <1>r, <2>4
<1>3. ASSUME NEW c \in Conn, CloseSessions(c)
      PROVE  TableInv' /\ \A s \in Sessions : KeepsEnds(s)
  <2>1. /\ sessions' = [s \in Sessions |-> IF s \in Orphaned(c) THEN NoSession ELSE sessions[s]]
        /\ held' = [held EXCEPT ![c] = {}] /\ nextSess' = nextSess /\ relaySessions' = relaySessions
    BY <1>3 DEF CloseSessions
  <2>2. \A s \in Sessions : sessions'[s] = NoSession \/ sessions'[s] = sessions[s]
    BY <2>1
  <2>3. sessions' \in [Sessions -> relaySession \cup {NoSession}]
    BY <1>0, <2>1
  <2>4. Hold
    BY <1>e, <2>1
  <2>5. nextSess' \in 0..SessMax /\ relaySessions' \in 0..MaxOpen
    BY <1>0, <2>1
  <2> QED
    BY <1>b, <2>2, <2>3, <2>4, <2>5
<1>4. ASSUME NEW c \in Conn, OpenSession(c)
      PROVE  TableInv' /\ \A s \in Sessions : KeepsEnds(s)
  <2>1. NextFree \in Sessions /\ ~Taken(NextFree)
    BY <1>0, <1>4, NextFreeIsFree DEF OpenSession
  <2> DEFINE n == NextFree  sent == [d \in Conn |-> 0]
  <2>2. PICK t \in held[c] :
          sessions' = [sessions EXCEPT ![n] = [from |-> c, to |-> t, sent |-> sent]] /\ nextSess' = n
    BY <1>4 DEF OpenSession
  <2>3. /\ held' = [held EXCEPT ![c] = {}] /\ relaySessions' = relaySessions + 1
        /\ relaySessions < MaxOpen
    BY <1>4 DEF OpenSession
  <2>4. t \in Conn /\ RoomOf[t] = RoomOf[c]
    BY <1>0
  <2>5. sent \in [Conn -> Nat]
    OBVIOUS
  <2>6. n \in Sessions /\ sessions[n] = NoSession
    BY <2>1 DEF Taken
  <2> HIDE DEF n, sent
  <2>7. [from |-> c, to |-> t, sent |-> sent] \in relaySession
    BY <2>4, <2>5 DEF relaySession
  <2>8. sessions' \in [Sessions -> relaySession \cup {NoSession}]
    BY <1>0, <2>2, <2>6, <2>7
  <2>9. n \in 0..SessMax /\ relaySessions' \in 0..MaxOpen
    BY <1>0, <2>3, <2>6, ConnAssumption, RelayAssumption DEF Sessions
  <2>10. ASSUME NEW s \in Sessions, sessions'[s] # NoSession
         PROVE  \/ /\ sessions[s] # NoSession
                   /\ sessions'[s].from = sessions[s].from /\ sessions'[s].to = sessions[s].to
                \/ /\ sessions[s] = NoSession
                   /\ RoomOf[sessions'[s].from] = RoomOf[sessions'[s].to]
    <3>1. CASE s = n
      BY <1>0, <2>2, <2>4, <2>6, <3>1
    <3>2. CASE s # n
      BY <1>0, <2>2, <2>10, <3>2
    <3> QED
      BY <3>1, <3>2
  <2>11. Hold
    BY <1>e, <2>3
  <2> QED
    BY <1>b, <2>2, <2>8, <2>9, <2>10, <2>11
<1>5. ASSUME NEW c \in Conn, NEW i \in Ids, RecvOpen(c, i)
      PROVE  TableInv' /\ \A s \in Sessions : KeepsEnds(s)
  <2> DEFINE t == find(RoomOf[c], i)
  <2>1. UNCHANGED relayVars /\ (held' = held \/ (t # None /\ held' = [held EXCEPT ![c] = {t}]))
    BY <1>5 DEF RecvOpen
  <2>2. t # None => t \in Conn /\ RoomOf[t] = RoomOf[c]
    BY OthersAreHere
  <2> HIDE DEF t
  <2>3. CASE held' = held
    BY <1>r, <1>s, <2>1, <2>3
  <2>4. CASE t # None /\ held' = [held EXCEPT ![c] = {t}]
    <3> DEFINE H == {t}
    <3>1. H \subseteq Conn /\ \A o \in H : RoomOf[o] = RoomOf[c]
      BY <2>2, <2>4
    <3>2. held' = [held EXCEPT ![c] = H]
      BY <2>4
    <3> HIDE DEF H
    <3> QED
      BY <1>a, <1>r, <2>1, <3>1, <3>2
  <2> QED
    BY <2>1, <2>3, <2>4
<1>6. ASSUME NEW c \in Conn, NEW s \in Sessions, RecvFrame(c, s)
      PROVE  TableInv' /\ \A x \in Sessions : KeepsEnds(x)
  <2> DEFINE n == sessions[s].sent[c] + 1  sent == [sessions[s].sent EXCEPT ![c] = n]
  <2>1. /\ sessions' = [sessions EXCEPT ![s].sent[c] = n]
        /\ nextSess' = nextSess /\ relaySessions' = relaySessions /\ held' = held
    BY <1>6 DEF RecvFrame, hubVars
  <2>2. sessions[s] \in relaySession /\ sessions[s] # NoSession
    BY <1>6, FarEndIsHere DEF RecvFrame, Taken
  <2>a. sessions[s].sent \in [Conn -> Nat] /\ n \in Nat
    BY <2>2 DEF relaySession
  <2>b. sent \in [Conn -> Nat]
    BY <2>a
  <2>c. sessions' = [sessions EXCEPT ![s] = [sessions[s] EXCEPT !.sent = sent]]
    BY <1>0, <2>1
  <2>d. [sessions[s] EXCEPT !.sent = sent]
          = [from |-> sessions[s].from, to |-> sessions[s].to, sent |-> sent]
    <3> HIDE DEF sent
    <3> QED
      BY <2>2 DEF relaySession
  <2>3. /\ sent \in [Conn -> Nat]
        /\ sessions' = [sessions EXCEPT ![s] = [from |-> sessions[s].from, to |-> sessions[s].to,
                                                sent |-> sent]]
    BY <2>b, <2>c, <2>d
  <2> HIDE DEF sent
  <2>4. [from |-> sessions[s].from, to |-> sessions[s].to, sent |-> sent] \in relaySession
    BY <2>2, <2>3 DEF relaySession
  <2>5. sessions' \in [Sessions -> relaySession \cup {NoSession}]
    BY <1>0, <2>3, <2>4
  <2>6. \A x \in Sessions : sessions'[x].from = sessions[x].from /\ sessions'[x].to = sessions[x].to
                            /\ (sessions[x] = NoSession => sessions'[x] = NoSession)
    BY <1>0, <2>2, <2>3
  <2>7. nextSess' \in 0..SessMax /\ relaySessions' \in 0..MaxOpen /\ Hold
    BY <1>0, <1>s, <2>1
  <2> QED
    BY <1>b, <2>5, <2>6, <2>7
<1>7. ASSUME NEW c \in Conn, NEW s \in Sessions, RecvClose(c, s)
      PROVE  TableInv' /\ \A x \in Sessions : KeepsEnds(x)
  <2>1. /\ sessions' = [sessions EXCEPT ![s] = NoSession]
        /\ nextSess' = nextSess /\ relaySessions' = relaySessions /\ held' = held
    BY <1>7 DEF RecvClose, hubVars
  <2>2. \A x \in Sessions : sessions'[x] = NoSession \/ sessions'[x] = sessions[x]
    BY <1>0, <2>1
  <2>3. nextSess' \in 0..SessMax /\ relaySessions' \in 0..MaxOpen /\ Hold
    BY <1>0, <1>s, <2>1
  <2>4. sessions' \in [Sessions -> relaySession \cup {NoSession}]
    BY <1>0, <2>1
  <2> QED
    BY <1>b, <2>2, <2>3, <2>4
<1> QED
  BY <1>1, <1>2, <1>3, <1>4, <1>5, <1>6, <1>7, OnlyTables DEF Tables

----------------------------------------------------------------------------
(* Nothing is queued, nobody is known and no session is open at first.     *)
LEMMA ServerInit == Init => ServerInv
<1> SUFFICES ASSUME Init PROVE ServerInv
  OBVIOUS
<1>1. RegistryInv
  BY RegistryInit
<1>2. QueueInv
  <2>1. <<>> \in Stages /\ <<>> \in Seq(serverMessage)
        /\ \A c \in Conn : <<>> \in Seq({m \in serverMessage : Fit(c, m)})
    BY EmptySeq DEF Stages
  <2>2. todo = [c \in Conn |-> <<>>] /\ out = [c \in Conn |-> <<>>] /\ done = [c \in Conn |-> FALSE]
    BY DEF Init, PeerInit
  <2>3. QueueCap \in Nat /\ Len(<<>>) = 0
    BY PeerAssumption
  <2> QED
    BY <2>1, <2>2, <2>3 DEF QueueInv
<1>3. PageInv
  BY DEF Init, PeerInit, BrowserInit, PageInv, BrowserTypeOK, Names, NoHandler
<1>4. TableInv
  BY ConnAssumption, RelayAssumption
     DEF Init, HubInit, RelayInit, TableInv, RelayTypeOK, Taken, Sessions
<1> QED
  BY <1>1, <1>2, <1>3, <1>4 DEF ServerInv

(* Every step keeps all four parts.                                        *)
LEMMA ServerStep ==
    ASSUME ServerInv, [Next]_vars
    PROVE  ServerInv'
<1>1. RegistryInv'
  BY RegistryStep DEF ServerInv
<1>2. QueueInv'
  BY QueueStep
<1>3. PageInv'
  BY PageStep
<1>4. TableInv'
  BY TableStep
<1> QED
  BY <1>1, <1>2, <1>3, <1>4 DEF ServerInv

(* Every component's state has its type, and no queue outgrows its         *)
(* capacity, whatever capacity, peers and sessions there are.              *)
THEOREM ServerTyped == Spec => []TypeOK
<1>1. ServerInv => TypeOK
  <2> SUFFICES ASSUME ServerInv PROVE TypeOK
    OBVIOUS
  <2>1. Stages \subseteq Seq((SUBSET Effect) \ {{}})
    <3>1. (SUBSET Fitting) \ {{}} \subseteq (SUBSET Effect) \ {{}}
      BY DEF Fitting
    <3> QED
      BY <3>1, SeqMonotonic DEF Stages
  <2>2. PeerTypeOK
    BY <2>1 DEF ServerInv, RegistryInv, QueueInv, PageInv, PeerTypeOK
  <2>3. BrowserTypeOK /\ HubTypeOK /\ RelayTypeOK
    BY DEF ServerInv, RegistryInv, PageInv, TableInv, HubTypeOK
  <2> QED
    BY <2>2, <2>3 DEF TypeOK
<1> QED
  BY <1>1, ServerInit, ServerStep, PTL DEF Spec

(* Whatever is queued for a peer names peers of its own room only, and the *)
(* two ends of a relay session share a room (hub.go:120-126): a lookup     *)
(* used after its lock is released, or a session ID given out again, never *)
(* brings two rooms together.                                              *)
THEOREM RoomsIsolated == Spec => []RoomIsolation
<1>1. ServerInv => RoomIsolation
  <2> SUFFICES ASSUME ServerInv PROVE RoomIsolation
    OBVIOUS
  <2>1. ASSUME NEW c \in Conn, NEW k \in 1..Len(out[c])
        PROVE  Fit(c, out[c][k])
    <3> DEFINE M == {m \in serverMessage : Fit(c, m)}
    <3>1. out[c] \in Seq(M)
      BY DEF ServerInv, QueueInv
    <3>2. out[c][k] \in M
      <4> HIDE DEF M
      <4> QED
        BY <3>1, <2>1, ElementOfSeq
    <3> QED
      BY <3>2
  <2>2. \A s \in Sessions : Taken(s) => RoomOf[sessions[s].from] = RoomOf[sessions[s].to]
    BY DEF ServerInv, TableInv
  <2> QED
    BY <2>1, <2>2 DEF RoomIsolation, Fit
<1> QED
  BY <1>1, ServerInit, ServerStep, PTL DEF Spec

(* A live session is never handed to other peers: the search for an ID     *)
(* passes over those in use, also once the counter has wrapped             *)
(* (relay.go:54-66).                                                       *)
THEOREM SessionsKeepTheirEnds == Spec => SessionNotReassigned
<1>1. ServerInv /\ [Next]_vars => [\A s \in Sessions :
        Taken(s) /\ sessions'[s] # NoSession =>
            /\ sessions'[s].from = sessions[s].from
            /\ sessions'[s].to = sessions[s].to]_vars
  BY TableStep DEF KeepsEnds
<1> QED
  BY <1>1, ServerInit, ServerStep, PTL DEF Spec, SessionNotReassigned

----------------------------------------------------------------------------
(***************************************************************************)
(* Who sees whom once nothing is under way, when no device has two         *)
(* connections in a room.  A later connection of a device is refuted by    *)
(* TLC: the departure of the first may be told after its arrival.          *)
(***************************************************************************)
Distinct == \A c, d \in Conn : RoomOf[c] = RoomOf[d] /\ IdOf[c] = IdOf[d] => c = d

(* The effects on a list.                                                  *)
On(s) == UNION {s[k] : k \in 1..Len(s)}

(* A departure is only told of a connection that is gone.                  *)
Departed(t, i) == \E x \in Conn : RoomOf[x] = RoomOf[t] /\ IdOf[x] = i /\ pc[x] = "gone"
Timely(t, m) == m.type = "peer-leave" => Departed(t, m.id)

(* The messages that make a page show peer i.                              *)
Shows(m, i) == \/ m.type = "welcome" /\ m.peers[i] # NoName
               \/ m.type = "peer-join" /\ m.peer.id = i

(* c's page shows i, or something that makes it is queued or owed.         *)
Owes(s, c, i) == \E e \in On(s) : e.op = "send" /\ e.to = c /\ Shows(e.msg, i)
Told(c, i) ==
    \/ roster[c][i] # NoName
    \/ \E m \in Queued(out[c]) : Shows(m, i)
    \/ \E d \in Conn : Owes(todo[d], c, i)

Connected(c) == pc[c] \in Active /\ ~done[c] /\ link[c] = "up"
Meet(c, o) == c # o /\ RoomOf[c] = RoomOf[o] /\ Connected(c) /\ pc[o] \in Active

ToldInv ==
    /\ \A c \in Conn : pc[c] \in Active => Registered(c)
    /\ \A c \in Conn : \A e \in On(todo[c]) : e.op = "send" => Timely(e.to, e.msg)
    /\ \A c \in Conn : \A m \in Queued(out[c]) : Timely(c, m)
    /\ \A c, o \in Conn : Meet(c, o) => Told(c, IdOf[o])

RosterInv == ServerInv /\ TodoInv /\ ToldInv

----------------------------------------------------------------------------
(* The effects on the lists that are built.                                *)

(* Those of one stage.                                                     *)
LEMMA OnStage ==
    ASSUME NEW A PROVE On(Stage(A)) = A
<1>1. CASE A = {}
  BY <1>1 DEF Stage, On
<1>2. CASE A # {}
  <2> DEFINE s == <<A>>
  <2>1. Len(s) = 1 /\ s[1] = A /\ Stage(A) = s
    BY <1>2 DEF Stage
  <2>2. 1..Len(s) = {1}
    BY <2>1
  <2> HIDE DEF s
  <2> QED
    BY <2>1, <2>2 DEF On
<1> QED
  BY <1>1, <1>2

(* Those of one list after another.                                        *)
LEMMA OnConcat ==
    ASSUME NEW s, NEW t, IsSeq(s), IsSeq(t)
    PROVE  On(s \o t) = On(s) \cup On(t)
<1>1. /\ Len(s) \in Nat /\ Len(t) \in Nat /\ Len(s \o t) = Len(s) + Len(t)
      /\ \A i \in 1..Len(s) : (s \o t)[i] = s[i]
      /\ \A i \in 1..Len(t) : (s \o t)[Len(s) + i] = t[i]
  BY ConcatIsSeq
<1> DEFINE u == s \o t
<1> HIDE DEF u
<1>2. ASSUME NEW e \in On(u) PROVE e \in On(s) \/ e \in On(t)
  <2>1. PICK k \in 1..Len(u) : e \in u[k]
    BY DEF On
  <2>2. CASE k <= Len(s)
    BY <1>1, <2>1, <2>2 DEF On, u
  <2>3. CASE k > Len(s)
    <3>1. k - Len(s) \in 1..Len(t) /\ u[k] = t[k - Len(s)]
      <4>1. k - Len(s) \in 1..Len(t) /\ Len(s) + (k - Len(s)) = k
        BY <1>1, <2>3 DEF u
      <4> QED
        BY <1>1, <4>1 DEF u
    <3> QED
      BY <2>1, <3>1 DEF On
  <2> QED
    BY <1>1, <2>2, <2>3 DEF u
<1>3. ASSUME NEW e \in On(s) PROVE e \in On(u)
  <2>1. PICK k \in 1..Len(s) : e \in s[k]
    BY DEF On
  <2>2. k \in 1..Len(u) /\ u[k] = s[k]
    BY <1>1 DEF u
  <2> QED
    BY <2>1, <2>2 DEF On
<1>4. ASSUME NEW e \in On(t) PROVE e \in On(u)
  <2>1. PICK k \in 1..Len(t) : e \in t[k]
    BY DEF On
  <2>2. Len(s) + k \in 1..Len(u) /\ u[Len(s) + k] = t[k]
    BY <1>1 DEF u
  <2> QED
    BY <2>1, <2>2 DEF On
<1> QED
  BY <1>2, <1>3, <1>4 DEF u

(* One that is done is taken off, and no other.                            *)
LEMMA OnWithout ==
    ASSUME NEW s, NEW e, IsSeq(s), s # <<>>, e \in Head(s)
    PROVE  /\ e \in On(s)
           /\ On(Without(s, e)) \subseteq On(s)
           /\ On(s) \subseteq On(Without(s, e)) \cup {e}
<1> DEFINE t == Without(s, e)
<1>1. PICK S : s \in Seq(S)
  BY DEF IsSeq
<1>2. Len(s) \in Nat \ {0} /\ Head(s) = s[1]
  BY <1>1, EmptySeq
<1>3. e \in On(s)
  BY <1>2 DEF On
<1>4. CASE s[1] = {e}
  <2>1. /\ t = Tail(s) /\ Len(t) = Len(s) - 1
        /\ \A i \in 1..Len(t) : t[i] = s[i + 1]
    BY <1>1, <1>4, HeadTailProperties DEF Without
  <2> HIDE DEF t
  <2>2. ASSUME NEW k \in 1..Len(t) PROVE t[k] \subseteq On(s)
    <3>1. k + 1 \in 1..Len(s) /\ t[k] = s[k + 1]
      BY <1>2, <2>1
    <3> QED
      BY <3>1 DEF On
  <2>3. ASSUME NEW k \in 1..Len(s) PROVE s[k] \subseteq On(t) \cup {e}
    <3>1. CASE k = 1
      BY <1>4, <3>1
    <3>2. CASE k # 1
      <4>1. k - 1 \in 1..Len(t) /\ t[k - 1] = s[k]
        BY <1>2, <2>1, <3>2
      <4> QED
        BY <4>1 DEF On
    <3> QED
      BY <3>1, <3>2
  <2> QED
    BY <1>3, <2>2, <2>3 DEF On, t
<1>5. CASE s[1] # {e}
  <2> DEFINE U == S \cup {s[1] \ {e}}
  <2>1. s \in Seq(U) /\ s[1] \ {e} \in U /\ 1 \in 1..Len(s)
    BY <1>1, <1>2, SeqMonotonic
  <2>2. t = [s EXCEPT ![1] = s[1] \ {e}]
    BY <1>5 DEF Without
  <2> HIDE DEF U
  <2>3. Len(t) = Len(s) /\ \A i \in 1..Len(s) : t[i] = IF i = 1 THEN s[1] \ {e} ELSE s[i]
    BY <2>1, <2>2, ExceptSeq
  <2> HIDE DEF t
  <2>4. ASSUME NEW k \in 1..Len(s)
        PROVE  t[k] \subseteq s[k] /\ s[k] \subseteq t[k] \cup {e}
    BY <2>3
  <2> QED
    BY <1>3, <2>3, <2>4 DEF On, t
<1> QED
  BY <1>4, <1>5

(* Those of a join.                                                        *)
LEMMA OnJoin ==
    ASSUME NEW c, NEW D
    PROVE  On(JoinStages(c, D)) =
             {Send(d, Error) : d \in D} \cup {Close(d) : d \in D} \cup {Send(c, Welcome(c))}
               \cup {Send(o, PeerJoin(c)) : o \in Others(c)}
<1> DEFINE e == {Send(d, Error) : d \in D}
           x == {Close(d) : d \in D}
           w == {Send(c, Welcome(c))}
           j == {Send(o, PeerJoin(c)) : o \in Others(c)}
<1>1. JoinStages(c, D) = ((Stage(e) \o Stage(x)) \o Stage(w)) \o Stage(j)
  BY DEF JoinStages
<1> SUFFICES On(JoinStages(c, D)) = ((e \cup x) \cup w) \cup j
  OBVIOUS
<1> HIDE DEF e, x, w, j
<1>2. IsSeq(Stage(e)) /\ IsSeq(Stage(x)) /\ IsSeq(Stage(w)) /\ IsSeq(Stage(j))
  BY StageIsSeq
<1>3. IsSeq(Stage(e) \o Stage(x)) /\ On(Stage(e) \o Stage(x)) = e \cup x
  BY <1>2, ConcatIsSeq, OnConcat, OnStage
<1>4. /\ IsSeq((Stage(e) \o Stage(x)) \o Stage(w))
      /\ On((Stage(e) \o Stage(x)) \o Stage(w)) = (e \cup x) \cup w
  BY <1>2, <1>3, ConcatIsSeq, OnConcat, OnStage
<1> QED
  BY <1>1, <1>2, <1>4, OnConcat, OnStage

----------------------------------------------------------------------------
(* Where goroutines are.                                                   *)

(* A goroutine that ended does not start again, one that reads has joined, *)
(* and a page that is gone does not come back on the same connection.      *)
LEMMA Courses ==
    ASSUME ServerInv, TodoInv, [Next]_vars, NEW c \in Conn
    PROVE  /\ pc[c] = "gone" => pc'[c] = "gone"
           /\ pc'[c] \in Active => pc[c] \in Active \/ Joins(c)
           /\ done[c] => done'[c]
           /\ link'[c] = "up" => link[c] = "up"
<1>0. pc \in [Conn -> Phases] /\ RegistryInv
  BY DEF ServerInv, RegistryInv
<1>1. CASE UNCHANGED vars
  BY <1>1 DEF vars, peerVars
<1>2. ASSUME NEW d \in Conn,
             \/ Joins(d) \/ Receives(d) \/ Quits(d)
             \/ Writes(d) \/ Sends(d) \/ Heartbeat(d) \/ Leaves(d) \/ Continues(d)
      PROVE  /\ pc[c] = "gone" => pc'[c] = "gone"
             /\ pc'[c] \in Active => pc[c] \in Active \/ Joins(c)
  <2>1. CASE Joins(d)
    BY <1>0, <2>1 DEF Joins, Join
  <2>2. CASE Leaves(d)
    BY <1>0, <2>2 DEF Leaves, Leave, LeaveDisplaced, CloseSessions, ReadFails, Active
  <2>3. CASE Continues(d)
    BY <1>0, <2>3 DEF Continues, FinishHello, OpenSession, Active
  <2>4. CASE Receives(d)
    <3>1. pc[d] = "read" /\ (pc' = pc \/ \E p \in Active : pc' = [pc EXCEPT ![d] = p])
      BY <2>4 DEF Receives, RecvHello, RecvSignal, RecvOpen, RecvFrame, RecvAck, RecvClose, Reading, Active
    <3> QED
      BY <1>0, <3>1 DEF Active
  <2>5. CASE Quits(d) \/ Writes(d) \/ Sends(d) \/ Heartbeat(d)
    BY <2>5 DEF Quits, BrowserCloses, BrowserVanishes, Writes, WriteNext, WriteFails, Sends, RunTodo,
                SendQueued, SendToClosed, SendTimesOut, CloseDisplaced, Heartbeat, HeartbeatFails
  <2> QED
    BY <1>2, <2>1, <2>2, <2>3, <2>4, <2>5
<1>3. done[c] => done'[c]
  BY <1>0, StepKinds DEF Keeps, Starts, Runs
<1>4. link'[c] = "up" => link[c] = "up"
  <2>1. CASE UNCHANGED vars
    BY <2>1 DEF vars, peerVars
  <2>2. ASSUME NEW d \in Conn, Quits(d) PROVE link'[c] = "up" => link[c] = "up"
    <3>1. link' = [link EXCEPT ![d] = "closed"] \/ link' = [link EXCEPT ![d] = "vanished"]
      BY <2>2 DEF Quits, BrowserCloses, BrowserVanishes
    <3> QED
      BY <3>1 DEF ServerInv, PageInv
  <2>3. ASSUME NEW d \in Conn,
               Joins(d) \/ Receives(d) \/ Writes(d) \/ Sends(d) \/ Heartbeat(d) \/ Leaves(d) \/ Continues(d)
        PROVE  link' = link
    <3>1. CASE Joins(d) \/ Leaves(d) \/ Continues(d)
      BY <3>1 DEF Joins, Join, Leaves, Leave, LeaveDisplaced, CloseSessions, Continues, FinishHello, OpenSession
    <3>2. CASE Receives(d)
      BY <3>2 DEF Receives, RecvHello, RecvSignal, RecvOpen, RecvFrame, RecvAck, RecvClose
    <3>3. CASE Writes(d) \/ Sends(d) \/ Heartbeat(d)
      BY <3>3 DEF Writes, WriteNext, WriteFails, Sends, RunTodo,
                SendQueued, SendToClosed, SendTimesOut, CloseDisplaced, Heartbeat, HeartbeatFails
    <3> QED
      BY <2>3, <3>1, <3>2, <3>3
  <2> QED
    BY <2>1, <2>2, <2>3 DEF Next
<1> QED
  BY <1>1, <1>2, <1>3, <1>4 DEF Next

(* Nobody else has its ID, so a connection is registered from its join to  *)
(* its leave.                                                              *)
LEMMA RegisteredStep ==
    ASSUME Distinct, RegistryInv, [Next]_vars,
           \A c \in Conn : pc[c] \in Active => Registered(c)
    PROVE  \A c \in Conn : pc'[c] \in Active => Registered(c)'
<1> USE ConnAssumption, HubAssumption DEF RegistryInv, Registered, find
<1>1. CASE UNCHANGED <<rooms, pc>>
  BY <1>1
<1>2. ASSUME NEW d \in Conn, Moves(d)
      PROVE  \A c \in Conn : pc'[c] \in Active => Registered(c)'
  <2>1. CASE Join(d)
    <3>1. /\ rooms' = [rooms EXCEPT ![RoomOf[d]][IdOf[d]] = d] /\ pc' = [pc EXCEPT ![d] = "read"]
      BY <2>1 DEF Join
    <3> SUFFICES ASSUME NEW c \in Conn, pc'[c] \in Active
        PROVE rooms'[RoomOf[c]][IdOf[c]] = c
      OBVIOUS
    <3>2. CASE c = d
      BY <3>1, <3>2
    <3>3. CASE c # d
      <4>1. RoomOf[c] # RoomOf[d] \/ IdOf[c] # IdOf[d]
        BY <3>3 DEF Distinct
      <4>2. rooms[RoomOf[c]][IdOf[c]] = c
        BY <3>1, <3>3
      <4> QED
        BY <3>1, <4>1, <4>2
    <3> QED
      BY <3>2, <3>3
  <2>2. CASE Leave(d)
    <3>1. /\ rooms' = [rooms EXCEPT ![RoomOf[d]][IdOf[d]] = None] /\ pc' = [pc EXCEPT ![d] = "leave"]
      BY <2>2 DEF Leave
    <3> SUFFICES ASSUME NEW c \in Conn, pc'[c] \in Active
        PROVE rooms'[RoomOf[c]][IdOf[c]] = c
      OBVIOUS
    <3>2. c # d
      BY <3>1 DEF Active
    <3>3. RoomOf[c] # RoomOf[d] \/ IdOf[c] # IdOf[d]
      BY <3>2 DEF Distinct
    <3>4. rooms[RoomOf[c]][IdOf[c]] = c
      BY <3>1, <3>2
    <3> QED
      BY <3>1, <3>3, <3>4
  <2>3. CASE ~Join(d) /\ ~Leave(d)
    <3>1. rooms' = rooms
      BY <1>2, <2>3 DEF Moves, LeaveDisplaced, CloseSessions, RecvHello, FinishHello,
                        OpenSession, RecvOpen, hubVars
    <3>2. \A c \in Conn : pc'[c] \in Active => pc[c] \in Active
      BY <1>2, <2>3 DEF Moves, LeaveDisplaced, CloseSessions, RecvHello, FinishHello,
                        OpenSession, RecvOpen, Active, Reading
    <3> QED
      BY <3>1, <3>2
  <2> QED
    BY <2>1, <2>2, <2>3
<1> QED
  BY <1>1, <1>2, OnlyMoves

----------------------------------------------------------------------------
(* What the steps do to what is under way.                                 *)
Late ==
    /\ \A c \in Conn : \A e \in On(todo[c]) : e.op = "send" => Timely(e.to, e.msg)
    /\ \A c \in Conn : \A m \in Queued(out[c]) : Timely(c, m)

Keep(c, i) == Told(c, i) => Told(c, i)'
StillTold == \A c, o \in Conn : Meet(c, o) /\ Connected(c)' => Keep(c, IdOf[o])

(* A departure stays one.                                                  *)
LEMMA TimelyStays ==
    ASSUME ServerInv, TodoInv, [Next]_vars, NEW t, NEW m, Timely(t, m)
    PROVE  Timely(t, m)'
<1>1. \A x \in Conn : pc[x] = "gone" => pc'[x] = "gone"
  BY Courses
<1> QED
  BY <1>1 DEF Timely, Departed

(* The sends a goroutine takes on, when it has none left to make.          *)
Posted(c) ==
    /\ todo[c] = <<>> /\ \A d \in Conn \ {c} : todo'[d] = todo[d]
    /\ out' = out /\ roster' = roster
    /\ \A e \in On(todo'[c]) : e.op = "send" => Timely(e.to, e.msg)'

LEMMA PostedTells ==
    ASSUME RosterInv, [Next]_vars, NEW c \in Conn, Posted(c)
    PROVE  Late' /\ StillTold
<1>1. ServerInv /\ TodoInv /\ Late
  BY DEF RosterInv, ToldInv, Late
<1>2. Late'
  <2>1. ASSUME NEW d \in Conn, NEW e \in On(todo'[d]), e.op = "send"
        PROVE  Timely(e.to, e.msg)'
    <3>1. CASE d = c
      BY <2>1, <3>1 DEF Posted
    <3>2. CASE d # c
      <4>1. Timely(e.to, e.msg)
        BY <1>1, <2>1, <3>2 DEF Posted, Late
      <4> QED
        BY <1>1, <4>1, TimelyStays
    <3> QED
      BY <3>1, <3>2
  <2>2. ASSUME NEW d \in Conn, NEW m \in Queued(out'[d])
        PROVE  Timely(d, m)'
    <3>1. Timely(d, m)
      BY <1>1, <2>2 DEF Posted, Late
    <3> QED
      BY <1>1, <3>1, TimelyStays
  <2> QED
    BY <2>1, <2>2 DEF Late
<1>3. On(todo[c]) = {}
  BY DEF Posted, On
<1>4. ASSUME NEW d \in Conn, NEW i, Told(d, i) PROVE Told(d, i)'
  BY <1>3, <1>4 DEF Told, Posted, Owes
<1> QED
  BY <1>2, <1>4 DEF StillTold, Keep

(* A connection is closed, and what was queued for it is dropped.          *)
LEMMA ClosedTells ==
    ASSUME RosterInv, [Next]_vars, NEW c \in Conn, close(c), todo' = todo, roster' = roster
    PROVE  Late' /\ StillTold
<1>1. ServerInv /\ TodoInv /\ Late
  BY DEF RosterInv, ToldInv, Late
<1>2. /\ done'[c] /\ out'[c] = <<>> /\ \A d \in Conn \ {c} : out'[d] = out[d]
  BY <1>1 DEF close, ServerInv, QueueInv
<1>3. Queued(out'[c]) = {}
  BY <1>2 DEF Queued
<1>4. Late'
  <2>1. ASSUME NEW d \in Conn, NEW e \in On(todo'[d]), e.op = "send"
        PROVE  Timely(e.to, e.msg)'
    <3>1. Timely(e.to, e.msg)
      BY <1>1, <2>1 DEF Late
    <3> QED
      BY <1>1, <3>1, TimelyStays
  <2>2. ASSUME NEW d \in Conn, NEW m \in Queued(out'[d])
        PROVE  Timely(d, m)'
    <3>1. Timely(d, m)
      BY <1>1, <1>2, <1>3, <2>2 DEF Late
    <3> QED
      BY <1>1, <3>1, TimelyStays
  <2> QED
    BY <2>1, <2>2 DEF Late
<1>5. ASSUME NEW d \in Conn, NEW i, ~done'[d], Told(d, i) PROVE Told(d, i)'
  <2>1. out'[d] = out[d]
    BY <1>2, <1>5
  <2> QED
    BY <1>5, <2>1 DEF Told
<1> QED
  BY <1>4, <1>5 DEF StillTold, Keep, Connected

(* Nothing is sent, queued or taken in.                                    *)
LEMMA QuietTells ==
    ASSUME RosterInv, [Next]_vars, todo' = todo, out' = out, roster' = roster
    PROVE  Late' /\ StillTold
<1>1. ServerInv /\ TodoInv /\ Late
  BY DEF RosterInv, ToldInv, Late
<1>2. Late'
  <2>1. ASSUME NEW d \in Conn, NEW e \in On(todo'[d]), e.op = "send"
        PROVE  Timely(e.to, e.msg)'
    <3>1. Timely(e.to, e.msg)
      BY <1>1, <2>1 DEF Late
    <3> QED
      BY <1>1, <3>1, TimelyStays
  <2>2. ASSUME NEW d \in Conn, NEW m \in Queued(out'[d])
        PROVE  Timely(d, m)'
    <3>1. Timely(d, m)
      BY <1>1, <2>2 DEF Late
    <3> QED
      BY <1>1, <3>1, TimelyStays
  <2> QED
    BY <2>1, <2>2 DEF Late
<1>3. ASSUME NEW d \in Conn, NEW i, Told(d, i) PROVE Told(d, i)'
  BY <1>3 DEF Told
<1> QED
  BY <1>2, <1>3 DEF StillTold, Keep

(* A message passes from the list to the queue, or its receiver is closed. *)
LEMMA SendsTell ==
    ASSUME RosterInv, [Next]_vars, NEW c \in Conn, Sends(c)
    PROVE  Late' /\ StillTold
<1>1. ServerInv /\ TodoInv /\ Late
  BY DEF RosterInv, ToldInv, Late
<1>2. todo[c] # <<>> /\ IsSeq(todo[c]) /\ todo \in [Conn -> Stages]
  BY <1>1 DEF Sends, RunTodo, SendQueued, SendToClosed, SendTimesOut, CloseDisplaced,
              TodoInv, ServerInv, QueueInv
<1> DEFINE Done(e) ==
      /\ Finish(c, e)
      /\ \/ /\ e.op = "send" /\ out' = [out EXCEPT ![e.to] = Append(@, e.msg)]
         \/ /\ out' = out /\ done[e.to] /\ e.op = "send"
         \/ close(e.to)
<1>3. PICK e \in Head(todo[c]) : Done(e)
  BY DEF Sends, RunTodo, SendQueued, SendToClosed, SendTimesOut, CloseDisplaced
<1>4. roster' = roster
  BY DEF Sends, RunTodo, SendQueued, SendToClosed, SendTimesOut, CloseDisplaced, browserVars
<1>5. e \in Fitting /\ e \in On(todo[c])
  BY <1>2, <1>3, RestFits, OnWithout
<1>6. /\ \A d \in Conn : On(todo'[d]) \subseteq On(todo[d])
      /\ \A d \in Conn : \A f \in On(todo[d]) : f = e \/ f \in On(todo'[d])
  <2>1. todo' = [todo EXCEPT ![c] = Without(todo[c], e)]
    BY <1>3 DEF Finish
  <2>2. todo'[c] = Without(todo[c], e) /\ \A d \in Conn \ {c} : todo'[d] = todo[d]
    BY <1>2, <2>1
  <2> QED
    BY <1>2, <1>3, <2>2, OnWithout
<1>7. e.to \in Conn /\ (e.op = "send" => e.msg \in serverMessage)
  BY <1>5 DEF Fitting, Effect
<1>8. out \in [Conn -> Seq(serverMessage)]
  BY <1>1 DEF ServerInv, QueueInv
<1>9. ASSUME NEW d \in Conn, NEW f \in On(todo'[d]), f.op = "send"
      PROVE  Timely(f.to, f.msg)'
  <2>1. Timely(f.to, f.msg)
    BY <1>1, <1>6, <1>9 DEF Late
  <2> QED
    BY <1>1, <2>1, TimelyStays
<1> HIDE DEF Done
<1>10. CASE e.op = "send" /\ out' = [out EXCEPT ![e.to] = Append(@, e.msg)]
  <2>1. /\ \A d \in Conn \ {e.to} : out'[d] = out[d]
        /\ Queued(out'[e.to]) = Queued(out[e.to]) \cup {e.msg}
    <3>1. out'[e.to] = Append(out[e.to], e.msg) /\ \A d \in Conn \ {e.to} : out'[d] = out[d]
      BY <1>7, <1>8, <1>10
    <3> QED
      BY <1>7, <1>8, <1>10, <3>1, QueuedAppend
  <2>2. ASSUME NEW d \in Conn, NEW m \in Queued(out'[d])
        PROVE  Timely(d, m)'
    <3>1. m \in Queued(out[d]) \/ (d = e.to /\ m = e.msg)
      BY <2>1, <2>2
    <3>2. Timely(d, m)
      BY <1>1, <1>5, <1>10, <3>1 DEF Late
    <3> QED
      BY <1>1, <3>2, TimelyStays
  <2>3. ASSUME NEW d \in Conn, NEW i, Told(d, i) PROVE Told(d, i)'
    <3>1. CASE roster[d][i] # NoName
      BY <1>4, <3>1 DEF Told
    <3>2. ASSUME NEW m \in Queued(out[d]), Shows(m, i) PROVE Told(d, i)'
      <4>1. m \in Queued(out'[d])
        BY <2>1, <3>2
      <4> QED
        BY <3>2, <4>1 DEF Told, Shows
    <3>3. ASSUME NEW x \in Conn, NEW f \in On(todo[x]), f.op = "send", f.to = d, Shows(f.msg, i)
          PROVE  Told(d, i)'
      <4>1. CASE f = e
        <5>1. f.msg \in Queued(out'[d])
          BY <2>1, <3>3, <4>1
        <5> QED
          BY <3>3, <5>1 DEF Told, Shows
      <4>2. CASE f # e
        <5>1. f \in On(todo'[x])
          BY <1>6, <4>2
        <5> QED
          BY <3>3, <5>1 DEF Told, Owes, Shows
      <4> QED
        BY <4>1, <4>2
    <3> QED
      BY <2>3, <3>1, <3>2, <3>3 DEF Told, Owes
  <2> QED
    BY <1>9, <2>2, <2>3 DEF Late, StillTold, Keep
<1>11. CASE (out' = out /\ done[e.to] /\ e.op = "send") \/ close(e.to)
  <2>1. done'[e.to] /\ \A d \in Conn \ {e.to} : out'[d] = out[d]
    <3>1. CASE out' = out /\ done[e.to]
      BY <1>1, <1>7, <3>1, Courses
    <3>2. CASE close(e.to)
      BY <1>1, <1>7, <3>2, CloseAdds DEF close, TodoInv, ServerInv, QueueInv
    <3> QED
      BY <1>11, <3>1, <3>2
  <2>2. out'[e.to] = <<>> \/ out'[e.to] = out[e.to]
    BY <1>7, <1>8, <1>11 DEF close
  <2>3. ASSUME NEW d \in Conn, NEW m \in Queued(out'[d])
        PROVE  Timely(d, m)'
    <3>1. Queued(<<>>) = {}
      BY DEF Queued
    <3>2. m \in Queued(out[d])
      BY <2>1, <2>2, <2>3, <3>1
    <3>3. Timely(d, m)
      BY <1>1, <3>2 DEF Late
    <3> QED
      BY <1>1, <3>3, TimelyStays
  <2>4. ASSUME NEW d \in Conn, ~done'[d], NEW i, Told(d, i) PROVE Told(d, i)'
    <3>1. d # e.to /\ out'[d] = out[d]
      BY <2>1, <2>4
    <3>2. ASSUME NEW x \in Conn, NEW f \in On(todo[x]), f.op = "send", f.to = d, Shows(f.msg, i)
          PROVE  Told(d, i)'
      <4>1. f # e
        BY <3>1, <3>2
      <4>2. f \in On(todo'[x])
        BY <1>6, <4>1
      <4> QED
        BY <3>2, <4>2 DEF Told, Owes, Shows
    <3>3. CASE roster[d][i] # NoName \/ \E m \in Queued(out[d]) : Shows(m, i)
      BY <1>4, <3>1, <3>3 DEF Told, Shows
    <3> QED
      BY <2>4, <3>2, <3>3 DEF Told, Owes
  <2> QED
    BY <1>9, <2>3, <2>4 DEF Late, StillTold, Keep, Connected
<1> QED
  BY <1>3, <1>10, <1>11 DEF Done

(* A page takes in the first message of its queue: if it tells of a        *)
(* departure, it is not of anybody who is there.                           *)
LEMMA WriteTells ==
    ASSUME Distinct, RosterInv, [Next]_vars, NEW c \in Conn, WriteNext(c)
    PROVE  Late' /\ StillTold
<1>1. ServerInv /\ TodoInv /\ Late
  BY DEF RosterInv, ToldInv, Late
<1> DEFINE m == Head(out[c])
<1>2. out[c] \in Seq(serverMessage) /\ out[c] # <<>> /\ todo' = todo
  BY <1>1 DEF WriteNext, ServerInv, QueueInv
<1>3. /\ out'[c] = Tail(out[c]) /\ \A d \in Conn \ {c} : out'[d] = out[d] /\ roster'[d] = roster[d]
      /\ link[c] = "up" => roster'[c] = RosterAfter(roster[c], m)
  BY <1>1 DEF WriteNext, Receive, ServerInv, QueueInv, PageInv, BrowserTypeOK, browserVars
<1>4. /\ m \in serverMessage /\ m \in Queued(out[c])
      /\ Queued(out'[c]) \subseteq Queued(out[c])
      /\ \A n \in Queued(out[c]) : n = m \/ n \in Queued(out'[c])
  BY <1>2, <1>3, QueuedTail, HeadTailProperties
<1> HIDE DEF m
<1>5. Late'
  <2>1. ASSUME NEW d \in Conn, NEW e \in On(todo'[d]), e.op = "send"
        PROVE  Timely(e.to, e.msg)'
    <3>1. Timely(e.to, e.msg)
      BY <1>1, <1>2, <2>1 DEF Late
    <3> QED
      BY <1>1, <3>1, TimelyStays
  <2>2. ASSUME NEW d \in Conn, NEW n \in Queued(out'[d])
        PROVE  Timely(d, n)'
    <3>1. n \in Queued(out[d])
      BY <1>3, <1>4, <2>2
    <3>2. Timely(d, n)
      BY <1>1, <3>1 DEF Late
    <3> QED
      BY <1>1, <3>2, TimelyStays
  <2> QED
    BY <2>1, <2>2 DEF Late
<1>6. ASSUME NEW d \in Conn, NEW i \in Ids, link[d] = "up", Told(d, i),
             ~(d = c /\ m.type = "peer-leave" /\ m.id = i)
      PROVE  Told(d, i)'
  <2>1. CASE d # c
    <3>1. out'[d] = out[d] /\ roster'[d] = roster[d]
      BY <1>3, <2>1
    <3> QED
      BY <1>2, <1>6, <3>1 DEF Told
  <2>2. CASE d = c
    <3>1. roster'[c] = RosterAfter(roster[c], m) /\ roster[c] \in [Ids -> Names \cup {NoName}]
      BY <1>1, <1>3, <1>6, <2>2 DEF ServerInv, PageInv, BrowserTypeOK
    <3>2. Shows(m, i) \/ roster[c][i] # NoName => roster'[c][i] # NoName
      <4>1. CASE m.type = "welcome"
        <5>1. roster'[c][i] = IF m.peers[i] # NoName THEN m.peers[i] ELSE roster[c][i]
          BY <3>1, <4>1 DEF RosterAfter
        <5> QED
          BY <4>1, <5>1 DEF Shows
      <4>2. CASE m.type = "peer-join"
        <5>1. m.peer.name \in Names /\ m.peer.id \in Ids
          BY <1>4, <4>2 DEF serverMessage, PeerInfo
        <5>2. m.peer.name # NoName
          BY <5>1 DEF Names, NoName
        <5>3. roster'[c] = [roster[c] EXCEPT ![m.peer.id] = m.peer.name]
          BY <3>1, <4>2 DEF RosterAfter
        <5> QED
          BY <3>1, <4>2, <5>1, <5>2, <5>3 DEF Shows
      <4>3. CASE m.type = "peer-leave"
        <5>1. roster'[c] = [roster[c] EXCEPT ![m.id] = NoName]
          BY <3>1, <4>3 DEF RosterAfter
        <5> QED
          BY <1>6, <2>2, <3>1, <4>3, <5>1 DEF Shows
      <4>4. CASE m.type \notin {"welcome", "peer-join", "peer-leave"}
        BY <3>1, <4>4 DEF RosterAfter, Shows
      <4> QED
        BY <4>1, <4>2, <4>3, <4>4
    <3>3. CASE roster[c][i] # NoName \/ Shows(m, i)
      BY <2>2, <3>2, <3>3 DEF Told
    <3>4. ASSUME NEW n \in Queued(out[c]), n # m, Shows(n, i) PROVE Told(c, i)'
      <4>1. n \in Queued(out'[c])
        BY <1>4, <3>4
      <4> QED
        BY <3>4, <4>1 DEF Told, Shows
    <3>5. ASSUME NEW x \in Conn, Owes(todo[x], c, i) PROVE Told(c, i)'
      BY <1>2, <3>5 DEF Told
    <3> QED
      BY <1>6, <2>2, <3>3, <3>4, <3>5 DEF Told
  <2> QED
    BY <2>1, <2>2
<1>7. ASSUME NEW o \in Conn, Meet(c, o), m.type = "peer-leave", m.id = IdOf[o]
      PROVE  FALSE
  <2>1. PICK x \in Conn : RoomOf[x] = RoomOf[c] /\ IdOf[x] = IdOf[o] /\ pc[x] = "gone"
    BY <1>1, <1>4, <1>7 DEF Late, Timely, Departed
  <2>2. x = o
    BY <1>7, <2>1 DEF Meet, Distinct
  <2> QED
    BY <1>7, <2>1, <2>2 DEF Meet, Active
<1>8. ASSUME NEW d \in Conn, NEW o \in Conn, Meet(d, o), Told(d, IdOf[o])
      PROVE  Told(d, IdOf[o])'
  <2>1. ~(d = c /\ m.type = "peer-leave" /\ m.id = IdOf[o])
    BY <1>7, <1>8
  <2>2. IdOf[o] \in Ids /\ link[d] = "up"
    BY <1>8, ConnAssumption DEF Meet, Connected
  <2>3. PICK i \in Ids : i = IdOf[o]
    BY <2>2
  <2>4. Told(d, i)'
    BY <1>6, <1>8, <2>1, <2>2, <2>3
  <2> QED
    BY <2>3, <2>4
<1> QED
  BY <1>5, <1>8 DEF StillTold, Keep

----------------------------------------------------------------------------
(* What is put on a list.                                                  *)

(* Everything but the end of a leave posts no departure.                   *)
LEMMA PostsNoLeave ==
    ASSUME RosterInv, [Next]_vars, NEW c \in Conn, todo[c] = <<>>,
           out' = out, roster' = roster,
           NEW w, todo' = [todo EXCEPT ![c] = w],
           \A e \in On(w) : e.op = "send" => e.msg.type # "peer-leave"
    PROVE  Late' /\ StillTold
<1>1. todo'[c] = w /\ \A d \in Conn \ {c} : todo'[d] = todo[d]
  BY DEF RosterInv, TodoInv
<1>2. ASSUME NEW e \in On(todo'[c]), e.op = "send" PROVE Timely(e.to, e.msg)'
  BY <1>1, <1>2 DEF Timely
<1> QED
  BY <1>1, <1>2, PostedTells DEF Posted

LEMMA ReceivesTells ==
    ASSUME RosterInv, [Next]_vars, NEW c \in Conn, Receives(c)
    PROVE  Late' /\ StillTold
<1>0. todo[c] = <<>> /\ out' = out /\ roster' = roster
  BY DEF Receives, RecvHello, RecvSignal, RecvOpen, RecvFrame, RecvAck, RecvClose, Reading, browserVars
<1>1. CASE RecvHello(c)
  BY <1>0, <1>1, QuietTells DEF RecvHello
<1>2. ASSUME NEW i \in Ids, RecvSignal(c, i)
      PROVE  Late' /\ StillTold
  <2> DEFINE t == find(RoomOf[c], i)
             e == IF t = None THEN Send(c, Error) ELSE Send(t, [type |-> "signal", from |-> IdOf[c]])
  <2>1. todo' = [todo EXCEPT ![c] = Stage({e})] /\ On(Stage({e})) = {e}
    BY <1>2, OnStage DEF RecvSignal
  <2>2. e.op = "send" => e.msg.type # "peer-leave"
    BY DEF Send, Error
  <2> HIDE DEF e
  <2> QED
    BY <1>0, <2>1, <2>2, PostsNoLeave
<1>3. ASSUME NEW i \in Ids, RecvOpen(c, i)
      PROVE  Late' /\ StillTold
  <2> DEFINE e == Send(c, Error)
  <2>1. todo' = todo \/ todo' = [todo EXCEPT ![c] = Stage({e})]
    BY <1>3 DEF RecvOpen
  <2>2. On(Stage({e})) = {e} /\ e.msg.type # "peer-leave"
    BY OnStage DEF Send, Error
  <2> HIDE DEF e
  <2> QED
    BY <1>0, <2>1, <2>2, PostsNoLeave, QuietTells
<1>4. ASSUME NEW s \in Sessions, RecvFrame(c, s)
      PROVE  Late' /\ StillTold
  <2> DEFINE e == Send(other(s, c), [type |-> "frame", session |-> s, n |-> sessions[s].sent[c] + 1])
  <2>1. todo' = [todo EXCEPT ![c] = Stage({e})] /\ On(Stage({e})) = {e}
    BY <1>4, OnStage DEF RecvFrame
  <2>2. e.msg.type # "peer-leave"
    BY DEF Send
  <2> HIDE DEF e
  <2> QED
    BY <1>0, <2>1, <2>2, PostsNoLeave
<1>5. ASSUME NEW s \in Sessions, RecvAck(c, s)
      PROVE  Late' /\ StillTold
  <2> DEFINE e == Send(other(s, c), [type |-> "relay-ack", session |-> s, n |-> got[c][s]])
  <2>1. todo' = [todo EXCEPT ![c] = Stage({e})] /\ On(Stage({e})) = {e}
    BY <1>5, OnStage DEF RecvAck
  <2>2. e.msg.type # "peer-leave"
    BY DEF Send
  <2> HIDE DEF e
  <2> QED
    BY <1>0, <2>1, <2>2, PostsNoLeave
<1>6. ASSUME NEW s \in Sessions, RecvClose(c, s)
      PROVE  Late' /\ StillTold
  <2> DEFINE A == {Send(t, [type |-> "relay-close", session |-> s]) : t \in {other(s, c)} \ {None}}
  <2>1. todo' = [todo EXCEPT ![c] = Stage(A)] /\ On(Stage(A)) = A
    BY <1>6, OnStage DEF RecvClose
  <2>2. \A e \in A : e.msg.type # "peer-leave"
    BY DEF Send
  <2> HIDE DEF A
  <2> QED
    BY <1>0, <2>1, <2>2, PostsNoLeave
<1> QED
  BY <1>1, <1>2, <1>3, <1>4, <1>5, <1>6 DEF Receives

(* The end of a leave posts departures, and the goroutine is gone.         *)
LEMMA MovesTell ==
    ASSUME RosterInv, [Next]_vars, NEW c \in Conn, Joins(c) \/ Leaves(c) \/ Continues(c)
    PROVE  Late' /\ StillTold
<1>0. ServerInv /\ TodoInv
  BY DEF RosterInv
<1>1. CASE Join(c)
  <2> DEFINE D == {find(RoomOf[c], IdOf[c])} \ {None}
             w == JoinStages(c, D)
  <2>1. /\ todo' = [todo EXCEPT ![c] = w] /\ todo[c] = <<>> /\ out' = out /\ roster' = roster
    BY <1>0, <1>1 DEF Join, TodoInv, browserVars
  <2>2. ASSUME NEW e \in On(w), e.op = "send" PROVE e.msg.type # "peer-leave"
    BY <2>2, OnJoin DEF Send, Close, Error, Welcome, PeerJoin
  <2> HIDE DEF w
  <2> QED
    BY <2>1, <2>2, PostsNoLeave
<1>2. CASE FinishHello(c)
  <2> DEFINE m == [type |-> "peer-join", peer |-> [id |-> IdOf[c], name |-> "new"]]
             A == {Send(o, m) : o \in Others(c)}
  <2>1. /\ todo' = [todo EXCEPT ![c] = Stage(A)] /\ todo[c] = <<>> /\ out' = out /\ roster' = roster
        /\ On(Stage(A)) = A
    BY <1>0, <1>2, OnStage DEF FinishHello, TodoInv, browserVars
  <2>2. \A e \in A : e.msg.type # "peer-leave"
    BY DEF Send
  <2> HIDE DEF A
  <2> QED
    BY <2>1, <2>2, PostsNoLeave
<1>3. CASE OpenSession(c)
  <2>1. PICK t \in held[c] : todo' = [todo EXCEPT ![c] = OpenStages(c, t, NextFree)]
    BY <1>3 DEF OpenSession
  <2> DEFINE s == NextFree
             m == [type |-> "relay-ready", session |-> s, id |-> IdOf[t]]
             n == [type |-> "relay-incoming", session |-> s, id |-> IdOf[c]]
             A == {Send(c, m)}  B == {Send(t, n)}
  <2>2. OpenStages(c, t, s) = Stage(A) \o Stage(B)
    BY DEF OpenStages, Ready, Incoming
  <2>3. todo[c] = <<>> /\ out' = out /\ roster' = roster
    BY <1>0, <1>3 DEF OpenSession, TodoInv, browserVars
  <2>4. \A e \in A \cup B : e.msg.type # "peer-leave"
    BY DEF Send
  <2> HIDE DEF A, B
  <2>5. On(Stage(A) \o Stage(B)) = A \cup B
    BY StageIsSeq, OnConcat, OnStage
  <2> QED
    BY <2>1, <2>2, <2>3, <2>4, <2>5, PostsNoLeave
<1>4. CASE CloseSessions(c)
  <2> DEFINE A == {Send(other(s, c), [type |-> "relay-close", session |-> s]) : s \in Orphaned(c)}
             B == {Send(o, PeerLeave(c)) : o \in held[c]}
  <2>1. /\ todo' = [todo EXCEPT ![c] = Stage(A) \o Stage(B)] /\ todo[c] = <<>>
        /\ out' = out /\ roster' = roster /\ pc'[c] = "gone"
    BY <1>0, <1>4 DEF CloseSessions, TodoInv, browserVars, ServerInv, RegistryInv
  <2>2. On(Stage(A) \o Stage(B)) = A \cup B
    <3> HIDE DEF A, B
    <3> QED
      BY StageIsSeq, OnConcat, OnStage
  <2>3. ASSUME NEW e \in A PROVE Timely(e.to, e.msg)'
    <3>1. e.msg.type # "peer-leave"
      BY DEF Send
    <3> QED
      BY <3>1 DEF Timely
  <2>4. ASSUME NEW o \in held[c] PROVE Departed(o, IdOf[c])'
    <3>1. RoomOf[o] = RoomOf[c]
      BY <1>0 DEF ServerInv, TableInv
    <3> QED
      BY <2>1, <3>1 DEF Departed
  <2>5. ASSUME NEW e \in B PROVE Timely(e.to, e.msg)'
    <3>1. PICK o \in held[c] : e = Send(o, PeerLeave(c))
      OBVIOUS
    <3>2. e.to = o /\ e.msg.id = IdOf[c]
      BY <3>1 DEF Send, PeerLeave
    <3> QED
      BY <2>4, <3>2 DEF Timely, Departed
  <2> HIDE DEF A, B
  <2>6. todo'[c] = Stage(A) \o Stage(B) /\ \A d \in Conn \ {c} : todo'[d] = todo[d]
    BY <1>0, <2>1 DEF TodoInv
  <2>7. \A e \in On(todo'[c]) : e.op = "send" => Timely(e.to, e.msg)'
    BY <2>2, <2>3, <2>5, <2>6
  <2> QED
    BY <2>1, <2>6, <2>7, PostedTells DEF Posted
<1>5. CASE Leave(c) \/ LeaveDisplaced(c)
  <2>1. close(c) /\ todo' = todo /\ roster' = roster
    BY <1>5 DEF Leave, LeaveDisplaced, browserVars
  <2> QED
    BY <2>1, ClosedTells
<1> QED
  BY <1>1, <1>2, <1>3, <1>4, <1>5 DEF Joins, Leaves, Continues

(* Every step.                                                             *)
LEMMA StepTells ==
    ASSUME Distinct, RosterInv, [Next]_vars
    PROVE  Late' /\ StillTold
<1>1. CASE UNCHANGED vars
  BY <1>1, QuietTells DEF vars, peerVars, browserVars
<1>2. ASSUME NEW c \in Conn, Quits(c) PROVE Late' /\ StillTold
  BY <1>2, QuietTells DEF Quits, BrowserCloses, BrowserVanishes, browserVars
<1>3. ASSUME NEW c \in Conn, Writes(c) \/ Heartbeat(c) PROVE Late' /\ StillTold
  <2>1. CASE WriteNext(c)
    BY <2>1, WriteTells
  <2>2. CASE WriteFails(c) \/ HeartbeatFails(c)
    BY <2>2, ClosedTells DEF WriteFails, HeartbeatFails, browserVars
  <2> QED
    BY <1>3, <2>1, <2>2 DEF Writes, Heartbeat
<1> QED
  BY <1>1, <1>2, <1>3, SendsTell, ReceivesTells, MovesTell DEF Next

(* Who joins is told of those who are there, and they of it.               *)
LEMMA JoinTells ==
    ASSUME Distinct, RosterInv, [Next]_vars, NEW c \in Conn, NEW o \in Conn,
           c # o, RoomOf[c] = RoomOf[o], Joins(c), pc[o] \in Active
    PROVE  Told(c, IdOf[o])' /\ Told(o, IdOf[c])'
<1>0. ServerInv /\ TodoInv /\ ToldInv
  BY DEF RosterInv
<1>1. rooms[RoomOf[c]][IdOf[o]] = o /\ IdOf[o] # IdOf[c] /\ IdOf[o] \in Ids
  BY <1>0, ConnAssumption DEF ToldInv, Registered, find, Distinct
<1>2. PICK D : todo' = [todo EXCEPT ![c] = JoinStages(c, D)]
  BY DEF Joins, Join
<1>3. todo'[c] = JoinStages(c, D)
  BY <1>0, <1>2 DEF TodoInv
<1>4. Send(c, Welcome(c)) \in On(todo'[c]) /\ \A x \in Others(c) : Send(x, PeerJoin(c)) \in On(todo'[c])
  BY <1>3, OnJoin
<1>5. Shows(Welcome(c), IdOf[o])
  <2>1. Welcome(c).peers[IdOf[o]] = name[o]
    BY <1>1, HubAssumption DEF Welcome, find, Info
  <2>2. name[o] \in Names
    BY <1>0 DEF ServerInv, PageInv
  <2>3. Welcome(c).type = "welcome" /\ name[o] # NoName
    BY <2>2 DEF Welcome, Names, NoName
  <2> QED
    BY <2>1, <2>3 DEF Shows
<1>6. o \in Others(c)
  BY <1>1, HubAssumption DEF Others, roomPeers
<1>7. Shows(PeerJoin(c), IdOf[c])
  BY DEF Shows, PeerJoin, Info
<1>8. ASSUME NEW x \in Conn, NEW i, NEW m, Send(x, m) \in On(todo'[c]), Shows(m, i)
      PROVE  Told(x, i)'
  <2>1. Send(x, m).op = "send" /\ Send(x, m).to = x /\ Send(x, m).msg = m
    BY DEF Send
  <2>2. Owes(todo'[c], x, i)
    BY <1>8, <2>1 DEF Owes
  <2> QED
    BY <2>2 DEF Told
<1>9. PICK w, j : w = Welcome(c) /\ j = PeerJoin(c)
  OBVIOUS
<1>10. PICK i, k : i = IdOf[o] /\ k = IdOf[c]
  OBVIOUS
<1>11. Told(c, i)' /\ Told(o, k)'
  BY <1>4, <1>5, <1>6, <1>7, <1>8, <1>9, <1>10
<1> QED
  BY <1>10, <1>11

(* Nobody is told of anybody at first, nor has to be.                      *)
LEMMA RosterInit == Init => RosterInv
<1> SUFFICES ASSUME Init PROVE RosterInv
  OBVIOUS
<1>1. ServerInv /\ TodoInv
  BY ServerInit, DisplacedInit DEF DisplacedInv
<1>2. \A c \in Conn : todo[c] = <<>> /\ out[c] = <<>> /\ pc[c] = "new"
  BY DEF Init, PeerInit
<1>3. On(<<>>) = {} /\ Queued(<<>>) = {}
  BY DEF On, Queued
<1>4. ToldInv
  BY <1>2, <1>3 DEF ToldInv, Meet, Connected, Active
<1> QED
  BY <1>1, <1>4 DEF RosterInv

(* Two that meet have met already, or one of them joins.                   *)
LEMMA RosterStep ==
    ASSUME Distinct, RosterInv, [Next]_vars
    PROVE  RosterInv'
<1>0. ServerInv /\ TodoInv /\ ToldInv /\ RegistryInv
  BY DEF RosterInv, ServerInv
<1>1. ServerInv' /\ TodoInv'
  BY <1>0, ServerStep, TodoStep
<1>2. Late' /\ StillTold
  BY StepTells
<1>3. \A c \in Conn : pc'[c] \in Active => Registered(c)'
  BY <1>0, RegisteredStep DEF ToldInv
<1>4. ASSUME NEW c \in Conn, NEW o \in Conn, Meet(c, o)'
      PROVE  Told(c, IdOf[o])'
  <2>1. c # o /\ RoomOf[c] = RoomOf[o] /\ Connected(c)' /\ pc'[c] \in Active /\ pc'[o] \in Active
    BY <1>4 DEF Meet, Connected
  <2>2. /\ pc[c] \in Active \/ Joins(c)
        /\ pc[o] \in Active \/ Joins(o)
        /\ ~done[c] /\ link[c] = "up"
    BY <1>0, <2>1, Courses DEF Connected
  <2>3. CASE pc[c] \in Active /\ pc[o] \in Active
    <3>1. Meet(c, o)
      BY <2>1, <2>2, <2>3 DEF Meet, Connected
    <3>2. Told(c, IdOf[o])
      BY <1>0, <3>1 DEF ToldInv
    <3> QED
      BY <1>2, <2>1, <3>1, <3>2 DEF StillTold, Keep
  <2>4. CASE Joins(c) /\ pc[o] \in Active
    BY <2>1, <2>4, JoinTells
  <2>5. CASE Joins(o) /\ pc[c] \in Active
    BY <2>1, <2>5, JoinTells
  <2>6. CASE Joins(c) /\ Joins(o)
    <3>1. pc' = [pc EXCEPT ![c] = "read"] /\ pc' = [pc EXCEPT ![o] = "read"] /\ pc[o] = "new"
      BY <2>6 DEF Joins, Join
    <3>2. pc'[o] = "read" /\ pc'[o] = "new"
      BY <1>0, <2>1, <3>1 DEF RegistryInv
    <3> QED
      BY <3>2
  <2> QED
    BY <2>2, <2>3, <2>4, <2>5, <2>6
<1>5. ToldInv'
  BY <1>2, <1>3, <1>4 DEF ToldInv, Late
<1> QED
  BY <1>1, <1>5 DEF RosterInv

(* Once settled, two browsers that are connected to the same room see each *)
(* other, in whatever order they joined, renamed, left and were told       *)
(* (hub.go:61-73), as long as no device connects twice.                    *)
THEOREM RosterIsComplete ==
    ASSUME Distinct
    PROVE  Spec => []RosterComplete
<1>1. RosterInv => RosterComplete
  <2> SUFFICES ASSUME RosterInv, Settled, NEW c \in Conn, NEW o \in Conn, Neighbours(c, o)
      PROVE  roster[c][IdOf[o]] # NoName
    BY DEF RosterComplete
  <2>1. Meet(c, o)
    BY DEF Neighbours, Reading, Meet, Connected, Active
  <2>2. Told(c, IdOf[o])
    BY <2>1 DEF RosterInv, ToldInv
  <2>3. On(<<>>) = {} /\ Queued(<<>>) = {}
    BY DEF On, Queued
  <2>4. \A d \in Conn : todo[d] = <<>> /\ out[d] = <<>>
    BY DEF Settled
  <2> QED
    BY <2>2, <2>3, <2>4 DEF Told, Owes
<1>2. RosterInv /\ [Next]_vars => RosterInv'
  BY RosterStep
<1> QED
  BY <1>1, <1>2, RosterInit, PTL DEF Spec
=============================================================================
