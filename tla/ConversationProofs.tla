------------------------- MODULE ConversationProofs -------------------------
(***************************************************************************)
(* Proofs about the transfer engine, for any jobs, any number of files and *)
(* chunks, any window and any fault.                                       *)
(***************************************************************************)
EXTENDS Conversation, QueueLemmas

Opened  == [job : Jobs, file : Nat, via : Paths, data : Seq(Message)]

(* The types, and what they rest on: a running job exists and holds a      *)
(* path, and what waits at the receiver was announced by somebody.         *)
SenderTypes ==
    /\ phase \in {"idle", "decide", "next", "pump", "ack"}
    /\ job \in 0..NJobs /\ file \in Nat /\ offset \in 0..Chunks
    /\ via \in Paths \cup {"none"} /\ failed \subseteq Jobs
    /\ done \subseteq Jobs \X Nat
    /\ phase # "idle" => job \in Jobs /\ via \in Paths
    /\ texts \in 0..MaxTexts

NetTypes ==
    /\ path \in [Paths -> {"none", "open", "closed", "mute"}]
    /\ down \in [Paths -> Seq(Message)] /\ up \in [Paths -> Seq(Message)]
    /\ lost \in Nat

ReceiverTypes ==
    /\ shown \in Seq(1..MaxTexts)
    /\ batch \in 0..NJobs /\ handle \in BOOLEAN
    /\ handle => batch \in Picked
    /\ asking \subseteq [job : Jobs, via : Paths]
    /\ creating \subseteq Opened
    /\ inbound \in Opened \cup {Nothing}

TypeInv == SenderTypes /\ NetTypes /\ ReceiverTypes

----------------------------------------------------------------------------
(* What the two ends send is a message.                                    *)
LEMMA MessagesTyped ==
    /\ \A j \in Jobs, f \in Nat, k \in Nat : Chunk(j, f, k) \in Message
    /\ \A kind \in {"batch", "dstart", "fstart", "fend", "dend",
                    "accept", "decline", "received"}, j \in Jobs, f \in Nat :
           Msg(kind, j, f) \in Message
    /\ \A n \in 1..MaxTexts : Text(n) \in Message
  BY DEF Chunk, Msg, Text, Message

(* A send leaves typed queues.                                             *)
LEMMA SendDownTyped ==
    ASSUME NEW t \in Paths, NEW m \in Message, SendDown(t, m),
           down \in [Paths -> Seq(Message)], up \in [Paths -> Seq(Message)]
    PROVE  down' \in [Paths -> Seq(Message)] /\ up' \in [Paths -> Seq(Message)]
  BY AppendProperties DEF SendDown

(* A reply on a path is a message too.                                     *)
LEMMA ReplyTyped ==
    ASSUME NEW t \in Paths, NEW m \in Message, Reply(t, m), up \in [Paths -> Seq(Message)]
    PROVE  up' \in [Paths -> Seq(Message)]
  BY AppendProperties DEF Reply

(* Taking a message off a queue yields one and leaves typed queues.        *)
LEMMA TakeTyped ==
    ASSUME NEW t \in Paths, NEW kinds, Incoming(t, kinds), Take(t),
           down \in [Paths -> Seq(Message)]
    PROVE  /\ down' \in [Paths -> Seq(Message)] /\ path' = path /\ lost' = lost
           /\ Head(down[t]) \in Message /\ Head(down[t]).k \in kinds
  BY HeadTailProperties DEF Incoming, Take

(* Taking an answer off the queue to the sender leaves messages.           *)
LEMMA PopUpTyped ==
    ASSUME NEW t \in Paths, NEW kinds, Answer(t, kinds), PopUp(t),
           up \in [Paths -> Seq(Message)]
    PROVE  /\ up' \in [Paths -> Seq(Message)] /\ path' = path /\ lost' = lost /\ down' = down
           /\ Head(up[t]) \in Message /\ Head(up[t]).k \in kinds
  BY HeadTailProperties DEF Answer, PopUp

(* At first everything has its type.                                       *)
LEMMA TypesInit == Init => TypeInv
<1> SUFFICES ASSUME Init PROVE TypeInv
  OBVIOUS
<1> USE ConversationAssumption DEF Init
<1>1. SenderTypes
  BY DEF SenderTypes
<1>2. NetTypes
  BY EmptySeq DEF NetTypes
<1>3. handle \in BOOLEAN /\ (handle => batch \in Picked)
  OBVIOUS
<1>4. ReceiverTypes
  BY <1>3, EmptySeq DEF ReceiverTypes
<1> QED
  BY <1>1, <1>2, <1>4 DEF TypeInv

(* The sender's steps leave the receiver alone and keep the types.         *)
LEMMA SenderTyped ==
    ASSUME TypeInv,
           \/ Begin \/ SendText \/ SenderStep \/ Timeouts
           \/ \E t \in Paths : FromReceiver(t)
           \/ SenderAborts
    PROVE  TypeInv' /\ UNCHANGED receiverVars
<1> USE ConversationAssumption DEF SenderTypes, NetTypes, Jobs
<1>0. SenderTypes /\ NetTypes /\ ReceiverTypes
  BY DEF TypeInv
<1>a. UNCHANGED receiverVars
  BY DEF Begin, SendText, SenderStep, StartItem, PumpChunk, EndItem, SendFails,
         Timeouts, DecisionTimesOut, AckTimesOut, FromReceiver, ResolveDecision, ResolveAck,
         SenderAborts
<1>b. ReceiverTypes'
  BY <1>0, <1>a DEF ReceiverTypes, receiverVars
<1>c. ASSUME UNCHANGED netVars PROVE NetTypes'
  BY <1>0, <1>c DEF netVars
<1>d. ASSUME UNCHANGED senderVars PROVE SenderTypes'
  BY <1>0, <1>d DEF senderVars, jobVars
<1>e. ASSUME JobFails, phase # "idle" PROVE SenderTypes'
  BY <1>0, <1>e DEF JobFails
<1>f. ASSUME ItemDone, phase # "idle" PROVE SenderTypes'
  BY <1>0, <1>f DEF ItemDone
<1>g. ASSUME NEW t \in Paths, NEW m \in Message, SendDown(t, m), path' = path, lost' \in Nat
      PROVE  NetTypes'
  BY <1>0, <1>g, SendDownTyped
<1> SUFFICES SenderTypes' /\ NetTypes'
  BY <1>a, <1>b DEF TypeInv
<1>1. CASE Begin
  <2>1. job' \in Jobs /\ via' = Acquired /\ Acquired \in Paths /\ phase' = "decide"
    BY <1>0, <1>1 DEF Begin
  <2>2. Msg(IF IsDoc(job') THEN "dstart" ELSE "batch", job', 1) \in Message
    BY <2>1, MessagesTyped
  <2>3. NetTypes'
    BY <1>0, <1>1, <1>g, <2>1, <2>2 DEF Begin
  <2> QED
    BY <1>0, <1>1, <2>1, <2>3 DEF Begin
<1>2. CASE SendText
  <2>1. Acquired \in Paths /\ texts + 1 \in 1..MaxTexts /\ SendDown(Acquired, Text(texts + 1))
    BY <1>0, <1>2 DEF SendText
  <2>2. NetTypes'
    BY <1>0, <1>2, <1>g, <2>1, MessagesTyped DEF SendText
  <2> QED
    BY <1>0, <1>2, <2>1, <2>2 DEF SendText, jobVars
<1>3. CASE StartItem
  <2>1. Msg("fstart", job, file) \in Message
    BY <1>0, <1>3, MessagesTyped DEF StartItem
  <2>2. NetTypes'
    <3>1. CASE IsDoc(job)
      BY <1>0, <1>3, <3>1 DEF StartItem
    <3>2. CASE ~IsDoc(job)
      BY <1>0, <1>3, <1>g, <2>1, <3>2 DEF StartItem
    <3> QED
      BY <3>1, <3>2
  <2> QED
    BY <1>0, <1>3, <2>2 DEF StartItem
<1>4. CASE PumpChunk
  <2>1. Chunk(job, file, offset + 1) \in Message
    BY <1>0, <1>4, MessagesTyped DEF PumpChunk
  <2>2. NetTypes'
    BY <1>0, <1>4, <1>g, <2>1 DEF PumpChunk
  <2> QED
    BY <1>0, <1>4, <2>2 DEF PumpChunk
<1>5. CASE EndItem
  <2>1. Msg(IF IsDoc(job) THEN "dend" ELSE "fend", job, file) \in Message
    BY <1>0, <1>5, MessagesTyped DEF EndItem
  <2>2. NetTypes'
    BY <1>0, <1>5, <1>g, <2>1 DEF EndItem
  <2> QED
    BY <1>0, <1>5, <2>2 DEF EndItem
<1>6. CASE SendFails \/ DecisionTimesOut \/ AckTimesOut
  BY <1>6, <1>c, <1>e DEF SendFails, DecisionTimesOut, AckTimesOut
<1>7. ASSUME NEW t \in Paths, ResolveDecision(t)
      PROVE  SenderTypes' /\ NetTypes'
  <2>1. /\ up' \in [Paths -> Seq(Message)] /\ path' = path /\ lost' = lost /\ down' = down
    BY <1>0, <1>7, PopUpTyped DEF ResolveDecision
  <2>2. SenderTypes'
    <3>1. CASE UNCHANGED senderVars \/ (JobFails /\ phase = "decide")
      BY <1>d, <1>e, <3>1
    <3>2. CASE /\ phase = "decide" /\ phase' = "next" /\ file' = 1
               /\ UNCHANGED <<job, offset, via, done, failed, texts>>
      BY <1>0, <3>2
    <3> QED
      BY <1>7, <3>1, <3>2 DEF ResolveDecision
  <2> QED
    BY <1>0, <2>1, <2>2
<1>8. ASSUME NEW t \in Paths, ResolveAck(t)
      PROVE  SenderTypes' /\ NetTypes'
  <2>1. /\ up' \in [Paths -> Seq(Message)] /\ path' = path /\ lost' = lost /\ down' = down
    BY <1>0, <1>8, PopUpTyped DEF ResolveAck
  <2> QED
    BY <1>0, <1>8, <1>d, <1>f, <2>1 DEF ResolveAck
<1>9. CASE SenderAborts
  <2>1. NetTypes'
    BY <1>0, <1>9, EmptySeq DEF SenderAborts, AllClosed
  <2>2. SenderTypes'
    BY <1>9, <1>d, <1>e, <1>f DEF SenderAborts
  <2> QED
    BY <2>1, <2>2
<1> QED
  BY <1>1, <1>2, <1>3, <1>4, <1>5, <1>6, <1>7, <1>8, <1>9
  DEF SenderStep, Timeouts, FromReceiver

(* So do the receiver's, and the paths'.                                   *)
LEMMA ReceiverTyped ==
    ASSUME TypeInv,
           \/ \E t \in Paths : FromSender(t) \/ Breaks(t)
           \/ \E q \in asking : Accept(q) \/ Decline(q)
           \/ \E r \in creating : WritableReady(r)
           \/ DirectOpens \/ GoesMute \/ ReceiverAborts
    PROVE  TypeInv' /\ UNCHANGED senderVars
<1> USE ConversationAssumption DEF Jobs
<1>0. SenderTypes /\ NetTypes /\ ReceiverTypes
  BY DEF TypeInv
<1>a. UNCHANGED senderVars
  BY DEF FromSender, Ask, OnDocStart, OnFileStart, OnChunk, OnEnd, SinkFails, OnText, Take,
         Breaks, Accept, Decline, WritableReady, DirectOpens, GoesMute, ReceiverAborts
<1>b. SenderTypes'
  BY <1>0, <1>a DEF SenderTypes, senderVars, jobVars
<1> SUFFICES NetTypes' /\ ReceiverTypes'
  BY <1>a, <1>b DEF TypeInv
<1>c. ASSUME UNCHANGED receiverVars PROVE ReceiverTypes'
  BY <1>0, <1>c DEF ReceiverTypes, receiverVars
<1>d. ASSUME UNCHANGED <<handle, batch>> PROVE handle' \in BOOLEAN /\ (handle' => batch' \in Picked)
  BY <1>0, <1>d DEF ReceiverTypes
<1>e. ASSUME NEW t \in Paths, NEW kinds, Incoming(t, kinds), Take(t), up' \in [Paths -> Seq(Message)]
      PROVE  NetTypes' /\ Head(down[t]) \in Message /\ Head(down[t]).k \in kinds
  BY <1>0, <1>e, TakeTyped DEF NetTypes
<1>1. ASSUME NEW t \in Paths, Ask(t)
      PROVE  NetTypes' /\ ReceiverTypes'
  <2>1. NetTypes' /\ Head(down[t]) \in Message /\ Head(down[t]).k \in {"batch", "dstart"}
    BY <1>0, <1>1, <1>e DEF Ask, NetTypes
  <2>2. Head(down[t]).job \in Jobs
    BY <2>1 DEF Message
  <2> QED
    BY <1>0, <1>1, <1>d, <2>1, <2>2 DEF Ask, ReceiverTypes
<1>2. ASSUME NEW t \in Paths, OnDocStart(t)
      PROVE  NetTypes' /\ ReceiverTypes'
  <2>1. Head(down[t]) \in Message /\ Head(down[t]).k = "dstart"
    BY <1>0, <1>2, TakeTyped DEF OnDocStart, NetTypes
  <2>2. Head(down[t]).job \in Jobs
    BY <2>1 DEF Message
  <2>3. up' \in [Paths -> Seq(Message)]
    BY <1>0, <1>2, <2>2, ReplyTyped, MessagesTyped DEF OnDocStart, NetTypes
  <2>4. NetTypes'
    BY <1>2, <1>e, <2>3 DEF OnDocStart
  <2>5. Receiving(Head(down[t]).job, 1, t) \in Opened
    BY <2>2, EmptySeq DEF Receiving, Opened
  <2> QED
    BY <1>0, <1>2, <1>d, <2>4, <2>5 DEF OnDocStart, ReceiverTypes
<1>3. ASSUME NEW t \in Paths, OnFileStart(t)
      PROVE  NetTypes' /\ ReceiverTypes'
  <2>1. NetTypes' /\ Head(down[t]) \in Message /\ Head(down[t]).k = "fstart"
    BY <1>0, <1>3, <1>e DEF OnFileStart, NetTypes
  <2>2. Receiving(Head(down[t]).job, Head(down[t]).file, t) \in Opened
    BY <2>1, EmptySeq DEF Receiving, Opened, Message
  <2> QED
    BY <1>0, <1>3, <1>d, <2>1, <2>2 DEF OnFileStart, ReceiverTypes
<1>4. ASSUME NEW t \in Paths, OnChunk(t)
      PROVE  NetTypes' /\ ReceiverTypes'
  <2>1. NetTypes' /\ Head(down[t]) \in Message
    BY <1>0, <1>4, <1>e DEF OnChunk, NetTypes
  <2>2. inbound \in Opened => Write(inbound, Head(down[t])) \in Opened
    BY <2>1, AppendProperties DEF Write, Opened
  <2> QED
    BY <1>0, <1>4, <1>d, <2>1, <2>2 DEF OnChunk, ReceiverTypes
<1>5. ASSUME NEW t \in Paths, OnEnd(t)
      PROVE  NetTypes' /\ ReceiverTypes'
  <2>1. Head(down[t]) \in Message /\ Head(down[t]).k \in {"fend", "dend"}
    BY <1>0, <1>5, TakeTyped DEF OnEnd, NetTypes
  <2>2. Msg("received", Head(down[t]).job, Head(down[t]).file) \in Message
    BY <2>1, MessagesTyped DEF Message
  <2>3. up' \in [Paths -> Seq(Message)]
    BY <1>0, <1>5, <2>2, ReplyTyped DEF OnEnd, NetTypes
  <2>4. NetTypes'
    BY <1>5, <1>e, <2>3 DEF OnEnd
  <2> QED
    BY <1>0, <1>5, <1>d, <2>4 DEF OnEnd, ReceiverTypes
<1>6. ASSUME NEW t \in Paths, SinkFails(t)
      PROVE  NetTypes' /\ ReceiverTypes'
  <2>1. NetTypes'
    BY <1>0, <1>6, <1>e DEF SinkFails, NetTypes
  <2> QED
    BY <1>0, <1>6, <1>d, <2>1 DEF SinkFails, ReceiverTypes
<1>7. ASSUME NEW t \in Paths, OnText(t)
      PROVE  NetTypes' /\ ReceiverTypes'
  <2>1. NetTypes' /\ Head(down[t]) \in Message /\ Head(down[t]).k = "text"
    BY <1>0, <1>7, <1>e DEF OnText, NetTypes
  <2>2. Append(shown, Head(down[t]).file) \in Seq(1..MaxTexts)
    BY <1>0, <2>1, AppendProperties DEF Message, ReceiverTypes
  <2> QED
    BY <1>0, <1>7, <1>d, <2>1, <2>2 DEF OnText, ReceiverTypes
<1>8. ASSUME NEW t \in Paths, Breaks(t)
      PROVE  NetTypes' /\ ReceiverTypes'
  <2>1. PICK n \in 0..Len(down[t]) : down' = [down EXCEPT ![t] = SubSeq(down[t], 1, n)]
    BY <1>8 DEF Breaks
  <2>2. SubSeq(down[t], 1, n) \in Seq(Message)
    <3>1. \A i \in 1..n : down[t][i] \in Message
      BY <1>0, <2>1, ElementOfSeq, LenProperties DEF NetTypes
    <3> QED
      BY <1>0, <2>1, <3>1, SubSeqProperties, LenProperties DEF NetTypes
  <2>3. NetTypes'
    BY <1>0, <1>8, <2>1, <2>2, EmptySeq DEF Breaks, NetTypes
  <2> QED
    BY <1>8, <1>c, <2>3 DEF Breaks
<1>9. ASSUME NEW q \in asking, Accept(q)
      PROVE  NetTypes' /\ ReceiverTypes'
  <2>1. q.job \in Jobs /\ q.via \in Paths
    BY <1>0 DEF ReceiverTypes
  <2>2. NetTypes'
    BY <1>0, <1>9, <2>1, MessagesTyped, ReplyTyped DEF Accept, NetTypes
  <2>3. Receiving(q.job, 1, q.via) \in Opened
    BY <2>1, EmptySeq DEF Receiving, Opened
  <2>4. handle' \in BOOLEAN /\ (handle' => batch' \in Picked) /\ batch' \in 0..NJobs
    <3>1. CASE IsDoc(q.job)
      BY <1>0, <1>9, <1>d, <3>1 DEF Accept, ReceiverTypes
    <3>2. CASE ~IsDoc(q.job)
      <4>1. batch' = q.job /\ handle' = (q.job \in Picked)
        BY <1>9, <3>2, Zenon DEF Accept
      <4>2. handle' \in BOOLEAN
        BY <4>1, SMT
      <4>3. handle' => batch' \in Picked
        BY <4>1, Zenon
      <4> QED
        BY <2>1, <4>1, <4>2, <4>3
    <3> QED
      BY <3>1, <3>2
  <2> QED
    BY <1>0, <1>9, <2>2, <2>3, <2>4 DEF Accept, ReceiverTypes
<1>10. ASSUME NEW q \in asking, Decline(q)
       PROVE  NetTypes' /\ ReceiverTypes'
  <2>1. q.job \in Jobs /\ q.via \in Paths
    BY <1>0 DEF ReceiverTypes
  <2>2. NetTypes'
    BY <1>0, <1>10, <2>1, MessagesTyped, ReplyTyped DEF Decline, NetTypes
  <2> QED
    BY <1>0, <1>10, <1>d, <2>2 DEF Decline, ReceiverTypes
<1>11. ASSUME NEW r \in creating, WritableReady(r)
       PROVE  NetTypes' /\ ReceiverTypes'
  <2>1. NetTypes'
    BY <1>0, <1>11 DEF WritableReady, NetTypes, netVars
  <2>2. handle' \in BOOLEAN /\ (handle' => batch' \in Picked)
    <3>1. batch' = batch /\ handle' = (handle /\ batch # r.job)
      BY <1>11, Zenon DEF WritableReady
    <3>2. handle => batch \in Picked
      BY <1>0 DEF ReceiverTypes
    <3> QED
      BY <3>1, <3>2, Zenon
  <2> QED
    BY <1>0, <1>11, <2>1, <2>2 DEF WritableReady, ReceiverTypes
<1>12. CASE DirectOpens \/ GoesMute
  <2>1. ASSUME DirectOpens PROVE NetTypes'
    BY <1>0, <2>1 DEF DirectOpens, NetTypes
  <2>2. ASSUME GoesMute PROVE NetTypes'
    BY <1>0, <2>2, EmptySeq DEF GoesMute, NetTypes
  <2>3. NetTypes'
    BY <1>12, <2>1, <2>2
  <2> QED
    BY <1>12, <1>c, <2>3 DEF DirectOpens, GoesMute
<1>13. CASE ReceiverAborts
  <2>1. NetTypes'
    BY <1>0, <1>13, EmptySeq DEF ReceiverAborts, NetTypes
  <2> QED
    BY <1>0, <1>13, <1>d, <2>1 DEF ReceiverAborts, ReceiverTypes
<1> QED
  BY <1>1, <1>2, <1>3, <1>4, <1>5, <1>6, <1>7, <1>8, <1>9, <1>10, <1>11, <1>12, <1>13
  DEF FromSender

(* Every step keeps the types.                                             *)
LEMMA TypesStep ==
    ASSUME TypeInv, [Next]_vars
    PROVE  TypeInv'
<1>1. CASE UNCHANGED vars
  BY <1>1 DEF vars, senderVars, jobVars, netVars, receiverVars, TypeInv, SenderTypes,
              NetTypes, ReceiverTypes
<1>2. CASE Next
  BY <1>2, SenderTyped, ReceiverTyped DEF Next
<1> QED
  BY <1>1, <1>2

(* Every variable keeps its type, whatever fails and whenever the direct   *)
(* path opens; a file handle the user picked is only kept for the batch it *)
(* was picked for (transfer.js #onBatch, #onFileStart).                    *)
THEOREM TypeCorrect == Spec => []TypeOK
<1>1. TypeInv => TypeOK
  BY DEF TypeInv, SenderTypes, NetTypes, ReceiverTypes, TypeOK
<1> QED
  BY <1>1, TypesInit, TypesStep, PTL DEF Spec

----------------------------------------------------------------------------
(***************************************************************************)
(* One path.  What a queue holds of the jobs is in the order it was sent:  *)
(* by job, item and position in the item.                                  *)
(***************************************************************************)
Opens == {"batch", "dstart"}
Closes == {"fend", "dend"}
Pos(m) == IF m.k \in Opens THEN -1 ELSE IF m.k = "fstart" THEN 0
          ELSE IF m.k = "chunk" THEN m.at ELSE Chunks + 1

Before(j, f, p, k, g, q) == j < k \/ (j = k /\ (f < g \/ (f = g /\ p < q)))

Parts(s) == {i \in 1..Len(s) : s[i].k # "text"}

Follows(m, j, f, p) == Before(j, f, p, m.job, m.file, Pos(m))

Ordered(s) == \A i, k \in Parts(s) : i < k => Follows(s[k], s[i].job, s[i].file, Pos(s[i]))

(* After n chunks of the item, what s holds of it goes on without a gap.   *)
IsChunk(m, j, f) == m.k = "chunk" /\ m.job = j /\ m.file = f
IsEnd(m, j, f)   == m.k \in Closes /\ m.job = j /\ m.file = f
Earlier(s, m, i) == \E k \in 1..Len(s) : k < i /\ s[k] = m

GoesOn(s, j, f, n) == \A i \in 1..Len(s) :
    /\ IsChunk(s[i], j, f) => s[i].at = n + 1 \/ Earlier(s, Chunk(j, f, s[i].at - 1), i)
    /\ IsEnd(s[i], j, f) => n = Chunks \/ Earlier(s, Chunk(j, f, Chunks), i)

(* The first messages of a queue keep what holds of all of it.             *)
Prefix(u, s) == u \in Seq(Message) /\ Len(u) <= Len(s) /\ \A i \in 1..Len(u) : u[i] = s[i]

(* A cut queue stays ordered and without gaps.                             *)
LEMMA PrefixKeeps ==
    ASSUME NEW s \in Seq(Message), NEW u, Prefix(u, s)
    PROVE  /\ Ordered(s) => Ordered(u)
           /\ \A i \in Parts(u) : i \in Parts(s) /\ u[i] = s[i]
           /\ \A j, f, n : GoesOn(s, j, f, n) => GoesOn(u, j, f, n)
<1> USE LenProperties DEF Prefix
<1>1. \A i \in Parts(u) : i \in Parts(s) /\ u[i] = s[i]
  BY DEF Parts
<1>2. Ordered(s) => Ordered(u)
  BY <1>1 DEF Ordered
<1>3. ASSUME NEW j, NEW f, NEW n, GoesOn(s, j, f, n)
      PROVE  GoesOn(u, j, f, n)
  BY <1>3 DEF GoesOn, Earlier
<1> QED
  BY <1>1, <1>2, <1>3

(* Nothing is lost either when a message is taken off it ...               *)
LEMMA TailKeeps ==
    ASSUME NEW s \in Seq(Message), s # <<>>
    PROVE  /\ Ordered(s) => Ordered(Tail(s))
           /\ \A i \in Parts(Tail(s)) : i + 1 \in Parts(s) /\ Tail(s)[i] = s[i + 1]
           /\ Ordered(s) /\ Head(s).k # "text" =>
                \A i \in Parts(Tail(s)) :
                    Follows(Tail(s)[i], Head(s).job, Head(s).file, Pos(Head(s)))
           /\ \A j, f, n : GoesOn(s, j, f, n) /\ ~IsChunk(Head(s), j, f) =>
                GoesOn(Tail(s), j, f, n)
<1> DEFINE u == Tail(s)
<1>1. /\ u \in Seq(Message) /\ Len(u) = Len(s) - 1 /\ Len(s) \in Nat /\ Len(u) \in Nat
      /\ \A i \in 1..Len(u) : u[i] = s[i + 1]
      /\ Head(s) = s[1] /\ 1 \in 1..Len(s)
  BY HeadTailProperties, LenProperties, EmptySeq
<1> HIDE DEF u
<1>2. \A i \in Parts(u) : i + 1 \in Parts(s) /\ u[i] = s[i + 1]
  BY <1>1 DEF Parts
<1>3. Ordered(s) => Ordered(u)
  BY <1>1, <1>2 DEF Ordered, Parts
<1>4. ASSUME Ordered(s), Head(s).k # "text", NEW i \in Parts(u)
      PROVE  Follows(u[i], Head(s).job, Head(s).file, Pos(Head(s)))
  <2>1. 1 \in Parts(s) /\ i + 1 \in Parts(s) /\ 1 < i + 1
    BY <1>1, <1>2, <1>4 DEF Parts
  <2> QED
    BY <1>1, <1>2, <1>4, <2>1 DEF Ordered
<1>5. ASSUME NEW j, NEW f, NEW n, GoesOn(s, j, f, n), ~IsChunk(Head(s), j, f)
      PROVE  GoesOn(u, j, f, n)
  <2>1. \A x : s[1] # Chunk(j, f, x)
    BY <1>1, <1>5 DEF IsChunk, Chunk
  <2>2. ASSUME NEW i \in 1..Len(u), NEW x, Earlier(s, Chunk(j, f, x), i + 1)
        PROVE  Earlier(u, Chunk(j, f, x), i)
    <3>1. PICK k \in 1..Len(s) : k < i + 1 /\ s[k] = Chunk(j, f, x)
      BY <2>2 DEF Earlier
    <3>2. k - 1 \in 1..Len(u) /\ k - 1 < i /\ u[k - 1] = s[k]
      BY <1>1, <2>1, <3>1
    <3> QED
      BY <3>1, <3>2 DEF Earlier
  <2>3. \A i \in 1..Len(u) : i + 1 \in 1..Len(s) /\ u[i] = s[i + 1]
    BY <1>1
  <2> QED
    BY <1>5, <2>2, <2>3 DEF GoesOn
<1> QED
  BY <1>2, <1>3, <1>4, <1>5 DEF u

(* ... and when it is the next chunk of the item.                          *)
LEMMA NextChunk ==
    ASSUME NEW s \in Seq(Message), s # <<>>, Ordered(s),
           NEW j, NEW f, NEW n \in Nat, GoesOn(s, j, f, n), IsChunk(Head(s), j, f),
           Head(s).at <= Chunks
    PROVE  /\ Head(s) = Chunk(j, f, n + 1)
           /\ GoesOn(Tail(s), j, f, n + 1)
<1> DEFINE u == Tail(s)
<1>1. /\ u \in Seq(Message) /\ Len(u) = Len(s) - 1 /\ Len(s) \in Nat /\ Len(u) \in Nat
      /\ \A i \in 1..Len(u) : u[i] = s[i + 1]
      /\ Head(s) = s[1] /\ 1 \in 1..Len(s)
  BY HeadTailProperties, LenProperties, EmptySeq
<1> HIDE DEF u
<1>2. Head(s) = Chunk(j, f, n + 1)
  <2>1. ~Earlier(s, Chunk(j, f, s[1].at - 1), 1)
    BY <1>1 DEF Earlier
  <2>2. s[1].at = n + 1
    BY <1>1, <2>1 DEF GoesOn
  <2>3. s[1] \in Message
    BY <1>1, ElementOfSeq
  <2> QED
    BY <1>1, <2>2, <2>3 DEF IsChunk, Chunk, Message
<1>3. ASSUME NEW i \in 1..Len(u), NEW x \in Int, Earlier(s, Chunk(j, f, x), i + 1), x # n + 1
      PROVE  Earlier(u, Chunk(j, f, x), i)
  <2>1. PICK k \in 1..Len(s) : k < i + 1 /\ s[k] = Chunk(j, f, x)
    BY <1>3 DEF Earlier
  <2>2. k # 1
    BY <1>1, <1>2, <1>3, <2>1 DEF Chunk
  <2>3. k - 1 \in 1..Len(u) /\ k - 1 < i /\ u[k - 1] = s[k]
    BY <1>1, <2>1, <2>2
  <2> QED
    BY <2>1, <2>3 DEF Earlier
<1>4. ASSUME NEW i \in 1..Len(u), IsChunk(u[i], j, f)
      PROVE  u[i].at = n + 2 \/ Earlier(u, Chunk(j, f, u[i].at - 1), i)
  <2>1. i + 1 \in 1..Len(s) /\ u[i] = s[i + 1] /\ u[i].at \in Nat
    <3>1. u[i] \in Message
      BY <1>1, ElementOfSeq
    <3> QED
      BY <1>1, <1>4, <3>1 DEF IsChunk, Message
  <2>2. u[i].at # n + 1
    <3>1. 1 \in Parts(s) /\ i + 1 \in Parts(s) /\ 1 < i + 1
      BY <1>1, <1>4, <2>1 DEF Parts, IsChunk
    <3>2. Follows(s[i + 1], s[1].job, s[1].file, Pos(s[1]))
      BY <3>1 DEF Ordered
    <3>3. Pos(s[1]) = n + 1 /\ s[1].job = j /\ s[1].file = f
      BY <1>1, <1>2 DEF Pos, Chunk, Opens
    <3>4. Pos(s[i + 1]) = u[i].at /\ s[i + 1].job = j /\ s[i + 1].file = f
      BY <1>4, <2>1 DEF Pos, Opens, IsChunk
    <3>5. j \in Nat /\ f \in Nat
      <4>1. s[1] \in Message
        BY <1>1, ElementOfSeq
      <4> QED
        BY <1>1, <4>1, ConversationAssumption DEF IsChunk, Message, Jobs
    <3> QED
      BY <2>1, <3>2, <3>3, <3>4, <3>5 DEF Follows, Before
  <2>3. Earlier(s, Chunk(j, f, u[i].at - 1), i + 1)
    BY <1>4, <2>1, <2>2 DEF GoesOn
  <2> QED
    BY <1>3, <2>1, <2>3
<1>5. ASSUME NEW i \in 1..Len(u), IsEnd(u[i], j, f)
      PROVE  n + 1 = Chunks \/ Earlier(u, Chunk(j, f, Chunks), i)
  <2>1. i + 1 \in 1..Len(s) /\ u[i] = s[i + 1]
    BY <1>1
  <2>2. n # Chunks
    BY <1>2, ConversationAssumption DEF Chunk
  <2>3. Earlier(s, Chunk(j, f, Chunks), i + 1)
    BY <1>5, <2>1, <2>2 DEF GoesOn
  <2> QED
    BY <1>3, <2>3, ConversationAssumption
<1>6. GoesOn(u, j, f, n + 1)
  BY <1>4, <1>5 DEF GoesOn
<1> QED
  BY <1>2, <1>6 DEF u
----------------------------------------------------------------------------
(* What a step of the sender or of the path does to the job and its wire.  *)

Whole(t) == path[t] \in {"none", "open"}

(* Nothing sent before is ahead of where the sender is, or gets to.        *)
Reached(ph, jb, fl, of, j, f, p) ==
    \/ j < jb
    \/ j = jb /\ \/ ph = "idle"
                 \/ ph = "decide" /\ f = 1 /\ p = -1
                 \/ ph = "next" /\ (f < fl \/ (f = fl /\ p = -1))
                 \/ ph = "pump" /\ (f < fl \/ (f = fl /\ p <= of))
                 \/ ph = "ack" /\ f <= fl

AtMost(j, f, p)     == Reached(phase, job, file, offset, j, f, p)
NextAtMost(j, f, p) == Reached(phase', job', file', offset', j, f, p)

Pushes(t, m) == path[t] = "open" /\ down'[t] = Append(down[t], m)
Drops(t)     == ~Whole(t)' /\ down'[t] = down[t]
Keeps(t)     == down'[t] = down[t]

Rests(t) ==
    /\ UNCHANGED <<phase, job, file, offset, texts>>
    /\ Keeps(t) \/ (~Whole(t)' /\ Prefix(down'[t], down[t]))
Chats(t) ==
    /\ UNCHANGED <<phase, job, file, offset>> /\ texts' = texts + 1
    /\ Drops(t) \/ Pushes(t, Text(texts + 1))
Stops(t) == phase' = "idle" /\ UNCHANGED <<job, file, offset, texts>> /\ Keeps(t)
Announces(t) ==
    /\ phase = "idle" /\ phase' = "decide" /\ job' = job + 1 /\ UNCHANGED <<file, offset, texts>>
    /\ Drops(t) \/ \E k \in Opens : Pushes(t, Msg(k, job + 1, 1))
GetsAccept(t) ==
    /\ phase = "decide" /\ phase' = "next" /\ file' = 1 /\ UNCHANGED <<job, offset, texts>>
    /\ \E i \in 1..Len(up[t]) : up[t][i].k = "accept" /\ up[t][i].job = job
    /\ Keeps(t)
Starts(t) ==
    /\ phase = "next" /\ phase' = "pump" /\ offset' = 0 /\ UNCHANGED <<job, file, texts>>
    /\ Keeps(t) \/ Pushes(t, Msg("fstart", job, file))
Pumps(t) ==
    /\ phase = "pump" /\ offset < Chunks /\ offset' = offset + 1
    /\ UNCHANGED <<phase, job, file, texts>>
    /\ Drops(t) \/ Pushes(t, Chunk(job, file, offset + 1))
Ends(t) ==
    /\ phase = "pump" /\ offset = Chunks /\ phase' = "ack"
    /\ UNCHANGED <<job, file, offset, texts>>
    /\ Drops(t) \/ \E k \in Closes : Pushes(t, Msg(k, job, file))
Advances(t) ==
    /\ phase = "ack" /\ phase' = "next" /\ file' = file + 1 /\ UNCHANGED <<job, offset, texts>>
    /\ Keeps(t)

Sends(t) ==
    /\ \/ Rests(t) \/ Chats(t) \/ Stops(t) \/ Announces(t) \/ GetsAccept(t) \/ Starts(t)
       \/ Pumps(t) \/ Ends(t) \/ Advances(t)
    /\ Whole(t)' => Whole(t)
    /\ \A i \in 1..Len(up'[t]) : \E k \in 1..Len(up[t]) : up'[t][i] = up[t][k]
    /\ UNCHANGED receiverVars

(* A send on the only path.                                                *)
LEMMA OnePush ==
    ASSUME NEW t, Paths = {t}, TypeInv, NEW p \in Paths, NEW m, SendDown(p, m), Usable(p),
           path' = path
    PROVE  /\ Pushes(t, m) \/ Drops(t)
           /\ up' = up
  BY DEF SendDown, Usable, Pushes, Drops, Whole, TypeInv, NetTypes

(* These are all the steps of the sender and of the path.                  *)
LEMMA SendKinds ==
    ASSUME NEW t, Paths = {t}, TypeInv,
           \/ Begin \/ SendText \/ SenderStep \/ Timeouts
           \/ \E p \in Paths : FromReceiver(p) \/ Breaks(p)
           \/ DirectOpens \/ GoesMute \/ SenderAborts
    PROVE  Sends(t)
<1>0. SenderTypes /\ NetTypes /\ ReceiverTypes
  BY DEF TypeInv
<1>a. up[t] \in Seq(Message) /\ down[t] \in Seq(Message) /\ Len(up[t]) \in Nat
  BY <1>0 DEF NetTypes
<1>b. ASSUME up' = up \/ up'[t] = <<>>
      PROVE  \A i \in 1..Len(up'[t]) : \E k \in 1..Len(up[t]) : up'[t][i] = up[t][k]
  BY <1>a, <1>b, EmptySeq
<1>c. ASSUME path' = path PROVE Whole(t)' => Whole(t)
  BY <1>c DEF Whole
<1>d. ASSUME UNCHANGED <<netVars, receiverVars>>, Stops(t) PROVE Sends(t)
  BY <1>b, <1>c, <1>d DEF Sends, netVars
<1>1. CASE Begin
  <2>1. PICK k \in Opens : SendDown(Acquired, Msg(k, job + 1, 1))
    BY <1>1 DEF Begin, Opens
  <2>2. (Pushes(t, Msg(k, job + 1, 1)) \/ Drops(t)) /\ up' = up
    BY <1>1, <2>1, OnePush DEF Begin
  <2> QED
    BY <1>1, <1>b, <1>c, <2>2 DEF Begin, Announces, Sends
<1>2. CASE SendText
  <2>1. (Pushes(t, Text(texts + 1)) \/ Drops(t)) /\ up' = up
    BY <1>2, OnePush DEF SendText
  <2> QED
    BY <1>2, <1>b, <1>c, <2>1 DEF SendText, jobVars, Chats, Sends
<1>3. CASE StartItem
  <2>1. up' = up /\ (Keeps(t) \/ Pushes(t, Msg("fstart", job, file)))
    <3>1. CASE IsDoc(job)
      BY <1>3, <3>1 DEF StartItem, Keeps
    <3>2. CASE ~IsDoc(job)
      BY <1>0, <1>3, <3>2, OnePush DEF StartItem, SenderTypes, Keeps, Drops
    <3> QED
      BY <3>1, <3>2
  <2> QED
    BY <1>3, <1>b, <1>c, <2>1 DEF StartItem, Starts, Sends
<1>4. CASE PumpChunk
  <2>1. (Pushes(t, Chunk(job, file, offset + 1)) \/ Drops(t)) /\ up' = up
    BY <1>0, <1>4, OnePush DEF PumpChunk, SenderTypes
  <2> QED
    BY <1>4, <1>b, <1>c, <2>1 DEF PumpChunk, Pumps, Sends
<1>5. CASE EndItem
  <2>1. PICK k \in Closes : SendDown(via, Msg(k, job, file))
    BY <1>5 DEF EndItem, Closes
  <2>2. (Pushes(t, Msg(k, job, file)) \/ Drops(t)) /\ up' = up
    BY <1>0, <1>5, <2>1, OnePush DEF EndItem, SenderTypes
  <2> QED
    BY <1>5, <1>b, <1>c, <2>2 DEF EndItem, Ends, Sends
<1>6. CASE SendFails \/ DecisionTimesOut \/ AckTimesOut
  <2>1. UNCHANGED <<netVars, receiverVars>> /\ JobFails
    BY <1>6 DEF SendFails, DecisionTimesOut, AckTimesOut
  <2>2. Stops(t)
    BY <2>1 DEF JobFails, Stops, Keeps, netVars
  <2> QED
    BY <1>d, <2>1, <2>2
<1>e. ASSUME NEW p \in Paths, NEW kinds, Answer(p, kinds), PopUp(p)
      PROVE  /\ \A i \in 1..Len(up'[t]) : \E k \in 1..Len(up[t]) : up'[t][i] = up[t][k]
             /\ Head(up[t]) = up[t][1] /\ 1 \in 1..Len(up[t])
             /\ path' = path /\ Keeps(t) /\ p = t
  <2>1. p = t /\ up[t] # <<>>
    BY <1>e DEF Answer
  <2>2. up'[t] = Tail(up[t]) /\ path' = path /\ Keeps(t)
    BY <1>0, <1>e, <2>1 DEF PopUp, NetTypes, Keeps
  <2>3. /\ Len(Tail(up[t])) = Len(up[t]) - 1 /\ Head(up[t]) = up[t][1] /\ 1 \in 1..Len(up[t])
        /\ \A i \in 1..Len(Tail(up[t])) : Tail(up[t])[i] = up[t][i + 1]
    BY <1>a, <2>1, HeadTailProperties, EmptySeq
  <2>4. \A i \in 1..Len(up'[t]) : i + 1 \in 1..Len(up[t]) /\ up'[t][i] = up[t][i + 1]
    BY <1>a, <2>2, <2>3
  <2> QED
    BY <2>1, <2>2, <2>3, <2>4
<1>7. ASSUME NEW p \in Paths, ResolveDecision(p)
      PROVE  Sends(t)
  <2>1. Answer(p, {"accept", "decline"}) /\ PopUp(p) /\ UNCHANGED receiverVars
    BY <1>7 DEF ResolveDecision
  <2>2. /\ \A i \in 1..Len(up'[t]) : \E k \in 1..Len(up[t]) : up'[t][i] = up[t][k]
        /\ Head(up[t]) = up[t][1] /\ 1 \in 1..Len(up[t])
        /\ path' = path /\ Keeps(t) /\ p = t
    BY <1>e, <2>1
  <2>3. CASE UNCHANGED senderVars
    BY <2>3, <2>1, <2>2, <1>c DEF senderVars, jobVars, Rests, Sends
  <2>4. CASE JobFails
    BY <2>4, <2>1, <2>2, <1>c DEF JobFails, Stops, Sends
  <2>5. CASE /\ phase = "decide" /\ Head(up[t]).job = job /\ Head(up[t]).k # "decline"
             /\ phase' = "next" /\ file' = 1 /\ UNCHANGED <<job, offset, via, done, failed, texts>>
    <3>1. Head(up[t]).k = "accept"
      BY <2>1, <2>2, <2>5 DEF Answer
    <3>2. GetsAccept(t)
      BY <2>2, <2>5, <3>1 DEF GetsAccept
    <3> QED
      BY <2>1, <2>2, <3>2, <1>c DEF Sends
  <2> QED
    BY <1>7, <2>2, <2>3, <2>4, <2>5 DEF ResolveDecision
<1>f. ASSUME ItemDone, phase = "ack", Keeps(t) PROVE Stops(t) \/ Advances(t)
  BY <1>f DEF ItemDone, Stops, Advances
<1>8. ASSUME NEW p \in Paths, ResolveAck(p)
      PROVE  Sends(t)
  <2>1. Answer(p, {"received"}) /\ PopUp(p) /\ UNCHANGED receiverVars
    BY <1>8 DEF ResolveAck
  <2>2. /\ \A i \in 1..Len(up'[t]) : \E k \in 1..Len(up[t]) : up'[t][i] = up[t][k]
        /\ path' = path /\ Keeps(t) /\ p = t
    BY <1>e, <2>1
  <2>3. CASE UNCHANGED senderVars
    BY <2>3, <2>1, <2>2, <1>c DEF senderVars, jobVars, Rests, Sends
  <2>4. CASE ItemDone /\ phase = "ack"
    BY <2>4, <2>1, <2>2, <1>c, <1>f DEF Sends
  <2> QED
    BY <1>8, <2>3, <2>4 DEF ResolveAck
<1>9. ASSUME NEW p \in Paths, Breaks(p)
      PROVE  Sends(t)
  <2>1. PICK n \in 0..Len(down[t]) : down'[t] = SubSeq(down[t], 1, n)
    BY <1>0, <1>9 DEF Breaks, NetTypes
  <2>2. Prefix(down'[t], down[t])
    <3>1. \A i \in 1..n : down[t][i] \in Message
      BY <1>a, <2>1, ElementOfSeq, LenProperties
    <3> QED
      BY <1>a, <2>1, <3>1, SubSeqProperties, LenProperties DEF Prefix
  <2>3. ~Whole(t)' /\ up'[t] = <<>>
    BY <1>0, <1>9 DEF Breaks, NetTypes, Whole
  <2> QED
    BY <1>9, <1>b, <2>2, <2>3 DEF Breaks, Rests, Sends, senderVars, jobVars
<1>10. CASE DirectOpens
  <2>1. (Whole(t)' => Whole(t)) /\ Keeps(t) /\ up' = up
    BY <1>0, <1>10 DEF DirectOpens, Whole, NetTypes, Keeps
  <2> QED
    BY <1>10, <1>b, <2>1 DEF DirectOpens, Rests, Sends, senderVars, jobVars
<1>11. CASE GoesMute
  <2>1. down'[t] = <<>> /\ up'[t] = <<>> /\ ~Whole(t)'
    BY <1>0, <1>11 DEF GoesMute, Whole, NetTypes
  <2>2. Prefix(down'[t], down[t])
    BY <1>a, <2>1, EmptySeq, LenProperties DEF Prefix
  <2> QED
    BY <1>11, <1>b, <2>1, <2>2 DEF GoesMute, Rests, Sends, senderVars, jobVars
<1>12. CASE SenderAborts
  <2>1. up'[t] = <<>> /\ ~Whole(t)' /\ Keeps(t) /\ UNCHANGED receiverVars
    BY <1>12 DEF SenderAborts, AllClosed, Whole, Keeps
  <2>2. Rests(t) \/ Stops(t) \/ Advances(t)
    <3>1. CASE JobFails
      BY <2>1, <3>1 DEF JobFails, Stops
    <3>2. CASE phase = "ack" /\ ItemDone
      BY <1>f, <2>1, <3>2
    <3>3. CASE UNCHANGED senderVars
      BY <2>1, <3>3 DEF Rests, senderVars, jobVars
    <3> QED
      BY <1>12, <3>1, <3>2, <3>3 DEF SenderAborts
  <2> QED
    BY <1>b, <2>1, <2>2 DEF Sends
<1> QED
  BY <1>1, <1>2, <1>3, <1>4, <1>5, <1>6, <1>7, <1>8, <1>9, <1>10, <1>11, <1>12
  DEF SenderStep, Timeouts, FromReceiver

(* The sender only goes forward ...                                        *)
LEMMA AtMostKept ==
    ASSUME NEW t, TypeInv, Sends(t), NEW j \in Int, NEW f \in Int, NEW p \in Int,
           AtMost(j, f, p)
    PROVE  NextAtMost(j, f, p)
<1>0. job \in Nat /\ file \in Nat /\ offset \in Nat
  BY ConversationAssumption DEF TypeInv, SenderTypes
<1> QED
  BY <1>0 DEF Sends, Rests, Chats, Stops, Announces, GetsAccept, Starts, Pumps, Ends, Advances,
              AtMost, NextAtMost, Reached

(* ... and what it sends of a job comes after all it has sent before.      *)
JobPush(t, m) ==
    \/ Announces(t) /\ m \in {Msg(k, job + 1, 1) : k \in Opens}
    \/ Starts(t) /\ m = Msg("fstart", job, file)
    \/ Pumps(t) /\ m = Chunk(job, file, offset + 1)
    \/ Ends(t) /\ m \in {Msg(k, job, file) : k \in Closes}

(* What a job sends next comes after all that was sent before.             *)
LEMMA PushesFollow ==
    ASSUME NEW t, TypeInv, NEW m, JobPush(t, m)
    PROVE  /\ m.job \in Nat /\ m.file \in Nat /\ Pos(m) \in Int /\ m.k # "text"
           /\ NextAtMost(m.job, m.file, Pos(m))
           /\ m.k = "chunk" => m.at \in 1..Chunks
           /\ \A j, f, p \in Int : AtMost(j, f, p) => Follows(m, j, f, p)
<1> USE ConversationAssumption DEF Msg, Chunk, Pos, Opens, Closes, AtMost, NextAtMost, Reached,
              Follows, Before
<1>0. job \in Nat /\ file \in Nat /\ offset \in 0..Chunks
  BY DEF TypeInv, SenderTypes
<1>1. CASE Announces(t) /\ m \in {Msg(k, job + 1, 1) : k \in Opens}
  BY <1>0, <1>1 DEF Announces
<1>2. CASE Starts(t) /\ m = Msg("fstart", job, file)
  BY <1>0, <1>2 DEF Starts
<1>3. CASE Pumps(t) /\ m = Chunk(job, file, offset + 1)
  BY <1>0, <1>3 DEF Pumps
<1>4. CASE Ends(t) /\ m \in {Msg(k, job, file) : k \in Closes}
  BY <1>0, <1>4 DEF Ends
<1> QED
  BY <1>1, <1>2, <1>3, <1>4 DEF JobPush

(* A message at the end of a queue.                                        *)
Longer(u, s, m) ==
    /\ Len(u) = Len(s) + 1 /\ u[Len(u)] = m /\ Len(s) \in Nat
    /\ \A i \in 1..Len(s) : u[i] = s[i]

(* Appending makes a queue longer by one.                                  *)
LEMMA AppendIsLonger ==
    ASSUME NEW s \in Seq(Message), NEW m \in Message
    PROVE  Longer(Append(s, m), s, m)
  BY AppendProperties, LenProperties DEF Longer

(* What becomes of the wire when something is sent, or the path goes.      *)
LEMMA WireKinds ==
    ASSUME NEW t \in Paths, TypeInv, TypeInv', Sends(t)
    PROVE  \/ Keeps(t)
           \/ ~Whole(t)' /\ Prefix(down'[t], down[t])
           \/ Whole(t) /\ Chats(t)
              /\ \E m \in Message : m.k = "text" /\ Longer(down'[t], down[t], m)
           \/ Whole(t) /\ \E m \in Message : JobPush(t, m) /\ Longer(down'[t], down[t], m)
<1>0. SenderTypes
  BY DEF TypeInv
<1>1. path[t] = "open" => Whole(t)
  BY DEF Whole
<1>p. ASSUME NEW m \in Message, Pushes(t, m) PROVE Longer(down'[t], down[t], m)
  <2>1. down[t] \in Seq(Message)
    BY DEF TypeInv, NetTypes
  <2> QED
    BY <1>p, <2>1, AppendIsLonger DEF Pushes
<1> USE ConversationAssumption DEF Keeps, Drops
<1>2. CASE Rests(t)
  BY <1>2 DEF Rests
<1>8. CASE Chats(t)
  <2>1. Text(texts + 1) \in Message /\ Text(texts + 1).k = "text"
    <3>1. texts + 1 \in 1..MaxTexts
      BY <1>0, <1>8 DEF Chats, TypeInv, SenderTypes
    <3> QED
      BY <3>1, MessagesTyped DEF Text, Msg
  <2> QED
    BY <1>1, <1>8, <1>p, <2>1 DEF Chats, Pushes
<1>3. CASE Stops(t) \/ GetsAccept(t) \/ Advances(t)
  BY <1>3 DEF Stops, GetsAccept, Advances
<1>4. CASE Announces(t)
  <2>1. SUFFICES ASSUME NEW k \in Opens, Pushes(t, Msg(k, job + 1, 1))
        PROVE  \E m \in Message : JobPush(t, m) /\ Longer(down'[t], down[t], m)
    BY <1>1, <1>4 DEF Announces, Pushes
  <2>2. job + 1 \in Jobs
    BY <1>0, <1>4 DEF Announces, TypeInv, SenderTypes, Jobs
  <2> QED
    BY <1>4, <1>p, <2>1, <2>2, MessagesTyped DEF JobPush, Opens
<1>5. CASE Starts(t)
  <2>1. Msg("fstart", job, file) \in Message
    BY <1>0, <1>5, MessagesTyped DEF Starts, SenderTypes
  <2> QED
    BY <1>1, <1>5, <1>p, <2>1 DEF Starts, JobPush, Pushes
<1>6. CASE Pumps(t)
  <2>1. Chunk(job, file, offset + 1) \in Message
    BY <1>0, <1>6, MessagesTyped DEF Pumps, SenderTypes
  <2> QED
    BY <1>1, <1>6, <1>p, <2>1 DEF Pumps, JobPush, Pushes
<1>7. CASE Ends(t)
  <2>1. \A k \in Closes : Msg(k, job, file) \in Message
    BY <1>0, <1>7, MessagesTyped DEF Ends, SenderTypes, Closes
  <2> QED
    BY <1>1, <1>7, <1>p, <2>1 DEF Ends, JobPush, Pushes
<1> QED
  BY <1>2, <1>3, <1>4, <1>5, <1>6, <1>7, <1>8 DEF Sends

----------------------------------------------------------------------------
(* What is on the wire of the jobs is in order, and was sent.              *)
Wire(t) ==
    /\ Ordered(down[t])
    /\ \A i \in Parts(down[t]) :
         /\ AtMost(down[t][i].job, down[t][i].file, Pos(down[t][i]))
         /\ down[t][i].k = "chunk" => down[t][i].at \in 1..Chunks

(* It is one part more, unless it is a text.                               *)
LEMMA LongerParts ==
    ASSUME NEW s, NEW m, NEW u, Longer(u, s, m)
    PROVE  /\ u[Len(u)] = m /\ \A i \in 1..Len(u) : i \in 1..Len(s) \/ i = Len(u)
           /\ m.k = "text" => Parts(u) = Parts(s)
           /\ m.k # "text" => Parts(u) = Parts(s) \cup {Len(u)}
           /\ \A i \in Parts(s) : u[i] = s[i] /\ i < Len(u)
<1>1. \A i \in 1..Len(u) : i \in 1..Len(s) \/ i = Len(u)
  BY DEF Longer
<1> QED
  BY <1>1 DEF Parts, Longer

(* The parts of a queue are messages of jobs.                              *)
LEMMA PartsTyped ==
    ASSUME NEW s \in Seq(Message), NEW i \in Parts(s)
    PROVE  /\ i \in 1..Len(s) /\ s[i] \in Message /\ s[i].job \in Nat /\ s[i].file \in Nat
           /\ Pos(s[i]) \in Int
           /\ s[i].k \notin Opens => Pos(s[i]) >= 0
<1>1. i \in 1..Len(s) /\ s[i] \in Message /\ s[i].k # "text"
  BY ElementOfSeq DEF Parts
<1> QED
  BY <1>1, ConversationAssumption DEF Message, Pos, Jobs, Opens

(* The wire stays ordered whatever the sender or the path does ...         *)
LEMMA WireSent ==
    ASSUME NEW t \in Paths, TypeInv, TypeInv', Sends(t), Wire(t)
    PROVE  Wire(t)'
<1> DEFINE s == down[t]  u == down'[t]
<1>0. s \in Seq(Message) /\ u \in Seq(Message)
  BY DEF TypeInv, NetTypes
<1>1. \A i \in Parts(s) : NextAtMost(s[i].job, s[i].file, Pos(s[i]))
  <2> SUFFICES ASSUME NEW i \in Parts(s) PROVE NextAtMost(s[i].job, s[i].file, Pos(s[i]))
    OBVIOUS
  <2>1. AtMost(s[i].job, s[i].file, Pos(s[i]))
    BY DEF Wire
  <2>2. s[i].job \in Int /\ s[i].file \in Int /\ Pos(s[i]) \in Int
    BY <1>0, PartsTyped
  <2> QED
    BY <2>1, <2>2, AtMostKept
<1> DEFINE Sent(i) == /\ NextAtMost(u[i].job, u[i].file, Pos(u[i]))
                      /\ u[i].k = "chunk" => u[i].at \in 1..Chunks
<1> SUFFICES Ordered(u) /\ \A i \in Parts(u) : Sent(i)
  BY DEF Wire, Parts, Ordered, Follows, Before, Pos, AtMost, NextAtMost
<1>w. Ordered(s) /\ \A i \in Parts(s) : AtMost(s[i].job, s[i].file, Pos(s[i]))
                                     /\ (s[i].k = "chunk" => s[i].at \in 1..Chunks)
  BY DEF Wire
<1> HIDE DEF s, u
<1>2. CASE u = s
  BY <1>1, <1>2, <1>w
<1>3. CASE Prefix(u, s)
  <2>1. Ordered(u) /\ \A i \in Parts(u) : i \in Parts(s) /\ u[i] = s[i]
    BY <1>0, <1>3, <1>w, PrefixKeeps
  <2> QED
    BY <1>1, <1>w, <2>1
<1>4. ASSUME NEW m \in Message, m.k = "text", Longer(u, s, m)
      PROVE  Ordered(u) /\ \A i \in Parts(u) : Sent(i)
  <2>1. Parts(u) = Parts(s) /\ \A i \in Parts(s) : u[i] = s[i]
    BY <1>4, LongerParts
  <2> QED
    BY <1>1, <1>w, <2>1 DEF Ordered
<1>5. ASSUME NEW m \in Message, JobPush(t, m), Longer(u, s, m)
      PROVE  Ordered(u) /\ \A i \in Parts(u) : Sent(i)
  <2>1. /\ m.k # "text" /\ NextAtMost(m.job, m.file, Pos(m))
        /\ m.k = "chunk" => m.at \in 1..Chunks
        /\ \A j, f, p \in Int : AtMost(j, f, p) => Follows(m, j, f, p)
    BY <1>5, PushesFollow
  <2>2. /\ Parts(u) = Parts(s) \cup {Len(u)} /\ u[Len(u)] = m
        /\ \A i \in Parts(s) : u[i] = s[i] /\ i < Len(u)
    BY <1>5, <2>1, LongerParts DEF Longer
  <2>3. \A i \in Parts(s) : Follows(m, s[i].job, s[i].file, Pos(s[i]))
    BY <1>0, <1>w, <2>1, PartsTyped
  <2>4. Ordered(u)
    <3>1. Parts(u) \subseteq Nat
      BY DEF Parts
    <3> QED
      BY <1>w, <2>2, <2>3, <3>1 DEF Ordered
  <2>5. \A i \in Parts(u) : Sent(i)
    BY <1>1, <1>w, <2>1, <2>2
  <2> QED
    BY <2>4, <2>5
<1> QED
  BY <1>2, <1>3, <1>4, <1>5, WireKinds DEF Keeps, s, u

(* Taking a message off the wire, or losing what is on it.                 *)
Takes(t) ==
    /\ down[t] # <<>> /\ down'[t] = Tail(down[t]) /\ path'[t] = path[t]
    /\ UNCHANGED senderVars

(* ... and when the receiver takes from it.                                *)
LEMMA WireTaken ==
    ASSUME NEW t \in Paths, TypeInv, UNCHANGED senderVars, Wire(t),
           down'[t] = down[t] \/ down'[t] = <<>> \/ Takes(t)
    PROVE  Wire(t)'
<1> DEFINE s == down[t]  u == down'[t]
<1>0. s \in Seq(Message)
  BY DEF TypeInv, NetTypes
<1>1. /\ Ordered(s)
      /\ \A i \in Parts(s) : /\ NextAtMost(s[i].job, s[i].file, Pos(s[i]))
                             /\ s[i].k = "chunk" => s[i].at \in 1..Chunks
  BY DEF Wire, AtMost, NextAtMost, senderVars, jobVars
<1> SUFFICES /\ Ordered(u)
             /\ \A i \in Parts(u) : /\ NextAtMost(u[i].job, u[i].file, Pos(u[i]))
                                    /\ u[i].k = "chunk" => u[i].at \in 1..Chunks
  BY DEF Wire, Parts, Ordered, Follows, Before, Pos, AtMost, NextAtMost
<1> HIDE DEF s, u
<1>2. CASE u = s
  BY <1>1, <1>2
<1>3. CASE u = <<>>
  <2>1. Parts(u) = {}
    BY <1>3, EmptySeq DEF Parts
  <2> QED
    BY <2>1 DEF Ordered
<1>4. CASE s # <<>> /\ u = Tail(s)
  <2>1. Ordered(u) /\ \A i \in Parts(u) : i + 1 \in Parts(s) /\ u[i] = s[i + 1]
    BY <1>0, <1>1, <1>4, TailKeeps
  <2> QED
    BY <1>1, <2>1
<1> QED
  BY <1>2, <1>3, <1>4 DEF s, u, Takes

----------------------------------------------------------------------------
(* After n chunks of an item, what follows of it is the rest: on the wire, *)
(* and at the sender while the path has lost nothing.                      *)
SendsNow(j, f) ==
    j = job /\ ((phase \in {"next", "pump"} /\ f = file) \/ (phase = "decide" /\ f = 1))

OnWire(s, m) == \E i \in 1..Len(s) : s[i] = m

Item(t, j, f, n) ==
    /\ GoesOn(down[t], j, f, n)
    /\ SendsNow(j, f) /\ Whole(t) =>
         IF phase = "pump" THEN offset = n \/ OnWire(down[t], Chunk(j, f, offset)) ELSE n = 0

(* All of an item is there, or is still being sent.                        *)
Live(t, j, f) ==
    (\E i \in 1..Len(down[t]) : IsEnd(down[t][i], j, f)) \/ (SendsNow(j, f) /\ Whole(t))

(* A queue goes on at its end with the next chunk, or the end of the item. *)
LEMMA GoesOnLonger ==
    ASSUME NEW s, NEW u, NEW m, NEW j, NEW f, NEW n, Longer(u, s, m), GoesOn(s, j, f, n),
           IsChunk(m, j, f) => m.at = n + 1 \/ OnWire(s, Chunk(j, f, m.at - 1)),
           IsEnd(m, j, f) => n = Chunks \/ OnWire(s, Chunk(j, f, Chunks))
    PROVE  GoesOn(u, j, f, n)
<1>1. ASSUME NEW i \in 1..Len(s), NEW c, Earlier(s, c, i)
      PROVE  Earlier(u, c, i)
  BY <1>1 DEF Earlier, Longer
<1>2. ASSUME NEW c, OnWire(s, c)
      PROVE  Earlier(u, c, Len(u))
  BY <1>2 DEF Earlier, OnWire, Longer
<1> SUFFICES ASSUME NEW i \in 1..Len(u)
    PROVE  /\ IsChunk(u[i], j, f) => u[i].at = n + 1 \/ Earlier(u, Chunk(j, f, u[i].at - 1), i)
           /\ IsEnd(u[i], j, f) => n = Chunks \/ Earlier(u, Chunk(j, f, Chunks), i)
  BY DEF GoesOn
<1>3. CASE i \in 1..Len(s)
  BY <1>1, <1>3 DEF GoesOn, Longer
<1>4. CASE i = Len(u)
  BY <1>2, <1>4 DEF Longer
<1> QED
  BY <1>3, <1>4, LongerParts

(* Sends keep it so, and bring nothing back to life.                       *)
LEMMA ItemSent ==
    ASSUME NEW t \in Paths, TypeInv, TypeInv', Sends(t),
           NEW j \in Nat, NEW f \in Nat, NEW n \in Nat, AtMost(j, f, -1)
    PROVE  /\ Item(t, j, f, n) => Item(t, j, f, n)'
           /\ Live(t, j, f)' => Live(t, j, f)
<1> DEFINE s == down[t]  u == down'[t]
<1>0. s \in Seq(Message) /\ u \in Seq(Message) /\ SenderTypes
  BY DEF TypeInv, NetTypes
<1>1. SendsNow(j, f)' => SendsNow(j, f)
  BY <1>0, ConversationAssumption
  DEF Sends, Rests, Chats, Stops, Announces, GetsAccept, Starts, Pumps, Ends, Advances,
      SendsNow, AtMost, Reached, SenderTypes
<1>2. Whole(t)' => Whole(t)
  BY DEF Sends
<1>3. ASSUME NEW m, JobPush(t, m), Whole(t)
      PROVE  /\ IsChunk(m, j, f) => /\ SendsNow(j, f) /\ phase = "pump" /\ m.at = offset + 1
                                    /\ m = Chunk(j, f, offset + 1)
             /\ IsEnd(m, j, f) => SendsNow(j, f) /\ phase = "pump" /\ offset = Chunks
  <2>1. CASE Announces(t) /\ m \in {Msg(k, job + 1, 1) : k \in Opens}
    BY <2>1 DEF IsChunk, IsEnd, Msg, Opens, Closes
  <2>2. CASE Starts(t) /\ m = Msg("fstart", job, file)
    BY <2>2 DEF IsChunk, IsEnd, Msg, Closes
  <2>3. CASE Pumps(t) /\ m = Chunk(job, file, offset + 1)
    <3>1. m.k = "chunk" /\ m.job = job /\ m.file = file /\ m.at = offset + 1
      BY <2>3 DEF Chunk
    <3>2. phase = "pump"
      BY <2>3 DEF Pumps
    <3>3. IsChunk(m, j, f) => j = job /\ f = file
      BY <3>1 DEF IsChunk
    <3>4. ~IsEnd(m, j, f)
      BY <3>1 DEF IsEnd, Closes
    <3> QED
      BY <2>3, <3>1, <3>2, <3>3, <3>4 DEF SendsNow
  <2>4. CASE Ends(t) /\ m \in {Msg(k, job, file) : k \in Closes}
    <3>1. m.k \in Closes /\ m.job = job /\ m.file = file
      BY <2>4 DEF Msg
    <3>2. phase = "pump" /\ offset = Chunks
      BY <2>4 DEF Ends
    <3>3. ~IsChunk(m, j, f)
      BY <3>1 DEF IsChunk, Closes
    <3> QED
      BY <3>1, <3>2, <3>3 DEF IsEnd, SendsNow
  <2> QED
    BY <1>3, <2>1, <2>2, <2>3, <2>4 DEF JobPush
<1>4. Live(t, j, f)' => Live(t, j, f)
  <2> SUFFICES ASSUME NEW i \in 1..Len(u), IsEnd(u[i], j, f)
      PROVE  Live(t, j, f)
    BY <1>1, <1>2 DEF Live
  <2>1. CASE u = s
    BY <2>1 DEF Live
  <2>2. CASE Prefix(u, s)
    BY <1>0, <2>2, LenProperties DEF Live, Prefix
  <2>3. ASSUME NEW m, Longer(u, s, m), ~IsEnd(m, j, f)
        PROVE  Live(t, j, f)
    <3>1. i \in 1..Len(s) /\ s[i] = u[i]
      BY <2>3, LongerParts DEF Longer
    <3> QED
      BY <3>1 DEF Live
  <2>4. ASSUME NEW m, JobPush(t, m), Whole(t), IsEnd(m, j, f)
        PROVE  Live(t, j, f)
    BY <1>3, <2>4 DEF Live
  <2> QED
    BY <2>1, <2>2, <2>3, <2>4, WireKinds DEF Keeps, IsEnd, Closes
<1>5. ASSUME Item(t, j, f, n)
      PROVE  GoesOn(u, j, f, n)
  <2>1. CASE u = s
    BY <1>5, <2>1 DEF Item
  <2>2. CASE Prefix(u, s)
    BY <1>0, <1>5, <2>2, PrefixKeeps DEF Item
  <2>3. ASSUME NEW m \in Message, m.k = "text", Longer(u, s, m)
        PROVE  GoesOn(u, j, f, n)
    BY <1>5, <2>3, GoesOnLonger DEF Item, IsChunk, IsEnd, Closes
  <2>4. ASSUME NEW m \in Message, JobPush(t, m), Whole(t), Longer(u, s, m)
        PROVE  GoesOn(u, j, f, n)
    <3>1. IsChunk(m, j, f) => m.at = n + 1 \/ OnWire(s, Chunk(j, f, m.at - 1))
      <4> SUFFICES ASSUME IsChunk(m, j, f)
          PROVE  m.at = n + 1 \/ OnWire(s, Chunk(j, f, m.at - 1))
        OBVIOUS
      <4>1. SendsNow(j, f) /\ phase = "pump" /\ m.at = offset + 1 /\ m.at - 1 = offset
        BY <1>0, <1>3, <2>4, ConversationAssumption DEF SenderTypes
      <4>2. offset = n \/ OnWire(s, Chunk(j, f, offset))
        BY <1>5, <2>4, <4>1 DEF Item
      <4> QED
        BY <4>1, <4>2
    <3>2. IsEnd(m, j, f) => n = Chunks \/ OnWire(s, Chunk(j, f, Chunks))
      BY <1>3, <1>5, <2>4 DEF Item
    <3>3. GoesOn(s, j, f, n)
      BY <1>5 DEF Item
    <3> QED
      BY <2>4, <3>1, <3>2, <3>3, GoesOnLonger
  <2> QED
    BY <2>1, <2>2, <2>3, <2>4, WireKinds DEF Keeps
<1>6. ASSUME Item(t, j, f, n), SendsNow(j, f)', Whole(t)'
      PROVE  IF phase' = "pump" THEN offset' = n \/ OnWire(u, Chunk(j, f, offset')) ELSE n = 0
  <2>1. IF phase = "pump" THEN offset = n \/ OnWire(s, Chunk(j, f, offset)) ELSE n = 0
    BY <1>1, <1>2, <1>6 DEF Item
  <2>2. CASE Rests(t) \/ Chats(t)
    <3>1. u = s \/ \E m \in Message : Longer(u, s, m)
      BY <1>6, WireKinds DEF Keeps
    <3>2. \A c : OnWire(s, c) => OnWire(u, c)
      BY <3>1 DEF Longer, OnWire
    <3> QED
      BY <2>1, <2>2, <3>2 DEF Rests, Chats
  <2>3. CASE Starts(t)
    BY <1>1, <1>6, <2>1, <2>3 DEF Starts, SendsNow
  <2>4. CASE Pumps(t)
    <3>1. Pushes(t, Chunk(job, file, offset + 1)) /\ j = job /\ f = file
      BY <1>6, <2>4 DEF Pumps, Drops, SendsNow
    <3>2. Chunk(job, file, offset + 1) \in Message
      BY <1>0, <2>4, MessagesTyped DEF Pumps, SenderTypes
    <3>3. Longer(u, s, Chunk(job, file, offset + 1))
      BY <1>0, <3>1, <3>2, AppendIsLonger DEF Pushes
    <3> QED
      BY <2>4, <3>1, <3>3 DEF Pumps, Longer, OnWire
  <2>5. CASE GetsAccept(t)
    BY <2>1, <2>5 DEF GetsAccept
  <2>6. CASE Stops(t) \/ Announces(t) \/ Ends(t) \/ Advances(t)
    BY <1>0, <1>1, <1>6, <2>6 DEF Stops, Announces, Ends, Advances, SendsNow, SenderTypes
  <2> QED
    BY <2>2, <2>3, <2>4, <2>5, <2>6 DEF Sends
<1> QED
  BY <1>4, <1>5, <1>6 DEF Item

(* Taking a message that is no chunk of the item keeps it so, ...          *)
LEMMA ItemTaken ==
    ASSUME NEW t \in Paths, TypeInv, Takes(t),
           NEW j \in Nat, NEW f \in Nat, NEW n \in Nat, ~IsChunk(Head(down[t]), j, f)
    PROVE  /\ Item(t, j, f, n) => Item(t, j, f, n)'
           /\ Live(t, j, f)' => Live(t, j, f)
<1> DEFINE s == down[t]  u == down'[t]
<1>0. s \in Seq(Message) /\ s # <<>> /\ u = Tail(s) /\ offset \in Nat
  BY ConversationAssumption DEF TypeInv, NetTypes, SenderTypes, Takes
<1>1. /\ Len(u) = Len(s) - 1 /\ Len(s) \in Nat /\ Len(u) \in Nat /\ Head(s) = s[1]
      /\ \A i \in 1..Len(u) : u[i] = s[i + 1]
  BY <1>0, HeadTailProperties, LenProperties
<1>2. (SendsNow(j, f)' <=> SendsNow(j, f)) /\ (Whole(t)' <=> Whole(t))
      /\ phase' = phase /\ offset' = offset
  BY DEF Takes, senderVars, jobVars, SendsNow, Whole
<1>3. Live(t, j, f)' => Live(t, j, f)
  <2>1. ASSUME NEW i \in 1..Len(u), IsEnd(u[i], j, f)
        PROVE  i + 1 \in 1..Len(s) /\ IsEnd(s[i + 1], j, f)
    BY <1>1, <2>1
  <2> QED
    BY <1>2, <2>1 DEF Live
<1>4. ASSUME Item(t, j, f, n)
      PROVE  GoesOn(u, j, f, n)
  BY <1>0, <1>4, TailKeeps DEF Item
<1>5. ASSUME NEW x, OnWire(s, Chunk(j, f, x))
      PROVE  OnWire(u, Chunk(j, f, x))
  <2>1. PICK i \in 1..Len(s) : s[i] = Chunk(j, f, x)
    BY <1>5 DEF OnWire
  <2>2. IsChunk(s[i], j, f)
    BY <2>1 DEF IsChunk, Chunk
  <2>3. i - 1 \in 1..Len(u) /\ u[i - 1] = s[i]
    BY <1>1, <2>2
  <2> QED
    BY <2>1, <2>3 DEF OnWire
<1> HIDE DEF s, u
<1>6. ASSUME Item(t, j, f, n), SendsNow(j, f), Whole(t)
      PROVE  IF phase = "pump" THEN offset = n \/ OnWire(u, Chunk(j, f, offset)) ELSE n = 0
  BY <1>5, <1>6 DEF Item, s
<1> QED
  BY <1>2, <1>3, <1>4, <1>6 DEF Item, u

(* ... taking its next chunk moves it on, ...                              *)
LEMMA ItemMoves ==
    ASSUME NEW t \in Paths, TypeInv, Wire(t), Takes(t),
           NEW j \in Nat, NEW f \in Nat, NEW n \in Nat, IsChunk(Head(down[t]), j, f),
           Item(t, j, f, n)
    PROVE  /\ Head(down[t]) = Chunk(j, f, n + 1)
           /\ Item(t, j, f, n + 1)'
           /\ Live(t, j, f)' => Live(t, j, f)
<1> DEFINE s == down[t]  u == down'[t]
<1>0. s \in Seq(Message) /\ s # <<>> /\ u = Tail(s) /\ offset \in Nat /\ job \in Nat /\ file \in Nat
  BY ConversationAssumption DEF TypeInv, NetTypes, SenderTypes, Takes
<1>1. /\ Len(u) = Len(s) - 1 /\ Len(s) \in Nat /\ Len(u) \in Nat /\ Head(s) = s[1]
      /\ \A i \in 1..Len(u) : u[i] = s[i + 1] /\ 1 \in 1..Len(s)
  BY <1>0, HeadTailProperties, LenProperties, EmptySeq
<1>2. (SendsNow(j, f)' <=> SendsNow(j, f)) /\ (Whole(t)' <=> Whole(t))
      /\ phase' = phase /\ offset' = offset
  BY DEF Takes, senderVars, jobVars, SendsNow, Whole
<1>3. Live(t, j, f)' => Live(t, j, f)
  <2>1. ASSUME NEW i \in 1..Len(u), IsEnd(u[i], j, f)
        PROVE  i + 1 \in 1..Len(s) /\ IsEnd(s[i + 1], j, f)
    BY <1>1, <2>1
  <2> QED
    BY <1>2, <2>1 DEF Live
<1>4. 1 \in Parts(s) /\ s[1].k = "chunk" /\ s[1].job = j /\ s[1].file = f
  BY <1>1, LenProperties, EmptySeq DEF Parts, IsChunk
<1>5. AtMost(j, f, s[1].at) /\ s[1].at \in 1..Chunks
  BY <1>4 DEF Wire, Pos, Opens
<1>6. s[1] = Chunk(j, f, n + 1) /\ GoesOn(u, j, f, n + 1)
  BY <1>0, <1>1, <1>5, NextChunk DEF Wire, Item
<1>7. s[1].at = n + 1
  BY <1>6 DEF Chunk
<1>8. ASSUME NEW x, x # n + 1, OnWire(s, Chunk(j, f, x))
      PROVE  OnWire(u, Chunk(j, f, x))
  <2>1. PICK i \in 1..Len(s) : s[i] = Chunk(j, f, x)
    BY <1>8 DEF OnWire
  <2>2. i # 1
    BY <1>7, <1>8, <2>1 DEF Chunk
  <2>3. i - 1 \in 1..Len(u) /\ u[i - 1] = s[i]
    BY <1>1, <2>2
  <2> QED
    BY <2>1, <2>3 DEF OnWire
<1>9. ASSUME SendsNow(j, f), Whole(t)
      PROVE  phase = "pump" /\ (offset = n + 1 \/ OnWire(u, Chunk(j, f, offset)))
  <2>1. phase = "pump" /\ n + 1 <= offset
    BY <1>0, <1>5, <1>7, <1>9, ConversationAssumption DEF SendsNow, AtMost, Reached
  <2>2. offset = n \/ OnWire(s, Chunk(j, f, offset))
    BY <1>9, <2>1 DEF Item
  <2> QED
    BY <1>0, <1>8, <2>1, <2>2
<1> QED
  BY <1>1, <1>2, <1>3, <1>6, <1>9 DEF Item

(* ... and when a chunk of a later item is taken, it has come to nothing.  *)
LEMMA ItemOver ==
    ASSUME NEW t \in Paths, TypeInv, Wire(t), Takes(t), Head(down[t]).k = "chunk",
           NEW j \in Nat, NEW f \in Nat, Follows(Head(down[t]), j, f, -1),
           ~IsChunk(Head(down[t]), j, f)
    PROVE  /\ ~Live(t, j, f)'
           /\ \A n : Item(t, j, f, n)'
<1> DEFINE s == down[t]  u == down'[t]
<1>0. s \in Seq(Message) /\ s # <<>> /\ u = Tail(s) /\ offset \in Nat /\ job \in Nat /\ file \in Nat
  BY ConversationAssumption DEF TypeInv, NetTypes, SenderTypes, Takes
<1>1. Head(s) = s[1] /\ 1 \in 1..Len(s) /\ u \in Seq(Message)
  BY <1>0, HeadTailProperties, LenProperties, EmptySeq
<1>2. (SendsNow(j, f)' <=> SendsNow(j, f))
  BY DEF Takes, senderVars, jobVars, SendsNow
<1>3. 1 \in Parts(s)
  BY <1>1 DEF Parts
<1>4. /\ s[1].job \in Nat /\ s[1].file \in Nat /\ Pos(s[1]) = s[1].at /\ s[1].at \in 1..Chunks
      /\ AtMost(s[1].job, s[1].file, s[1].at)
  BY <1>0, <1>1, <1>3, PartsTyped DEF Wire, Pos, Opens
<1>5. j < s[1].job \/ (j = s[1].job /\ f < s[1].file)
  BY <1>1, <1>4, ConversationAssumption DEF Follows, Before, IsChunk
<1>6. ~SendsNow(j, f)
  BY <1>0, <1>4, <1>5, ConversationAssumption DEF SendsNow, AtMost, Reached
<1>7. ASSUME NEW i \in 1..Len(u), u[i].k # "text"
      PROVE  j < u[i].job \/ (j = u[i].job /\ f < u[i].file)
  <2>1. i \in Parts(u)
    BY <1>7 DEF Parts
  <2>2. Follows(u[i], s[1].job, s[1].file, s[1].at)
    BY <1>0, <1>1, <1>4, <2>1, TailKeeps DEF Wire
  <2>3. u[i].job \in Nat /\ u[i].file \in Nat
    BY <1>1, <2>1, PartsTyped
  <2>4. s[1].job < u[i].job \/ (s[1].job = u[i].job /\ s[1].file <= u[i].file)
    BY <1>4, <2>2, <2>3 DEF Follows, Before
  <2> HIDE DEF s, u
  <2> QED
    BY <1>4, <1>5, <2>3, <2>4
<1>8. \A i \in 1..Len(u) : ~IsChunk(u[i], j, f) /\ ~IsEnd(u[i], j, f)
  <2> SUFFICES ASSUME NEW i \in 1..Len(u), u[i].k # "text"
      PROVE  ~(u[i].job = j /\ u[i].file = f)
    BY DEF IsChunk, IsEnd, Closes
  <2> QED
    BY <1>7
<1>9. ~Live(t, j, f)'
  BY <1>2, <1>6, <1>8 DEF Live
<1>10. \A n : Item(t, j, f, n)'
  BY <1>2, <1>6, <1>8 DEF Item, GoesOn
<1> QED
  BY <1>9, <1>10

----------------------------------------------------------------------------
(* A job announced or asked about is not begun: nothing else of it was     *)
(* sent, and nobody has accepted it.                                       *)
Pending(t, j) ==
    /\ j <= job /\ (j = job => phase \in {"idle", "decide"})
    /\ \A i \in 1..Len(up[t]) : up[t][i].k = "accept" => up[t][i].job # j

Questions(t) ==
    /\ \A j \in Jobs : (\E q \in asking : q.job = j) =>
         Pending(t, j) /\ \A i \in Parts(down[t]) : j < down[t][i].job
    /\ \A j \in Jobs : \A i \in Parts(down[t]) : down[t][i].k \in Opens /\ down[t][i].job = j =>
         Pending(t, j) /\ \A k \in Parts(down[t]) : down[t][k].job = j => k = i
    /\ \A i \in 1..Len(up[t]) : up[t][i].k = "accept" => up[t][i].job <= job

(* The sender begins no job that is pending, and sends no more of it.      *)
LEMMA PendingSent ==
    ASSUME NEW t, TypeInv, Sends(t), NEW j \in Nat, Pending(t, j)
    PROVE  /\ Pending(t, j)'
           /\ \A m : JobPush(t, m) => j < m.job
<1>0. job \in Nat
  BY ConversationAssumption DEF TypeInv, SenderTypes
<1>1. \A i \in 1..Len(up'[t]) : up'[t][i].k = "accept" => up'[t][i].job # j
  BY DEF Sends, Pending
<1>2. j <= job' /\ (j = job' => phase' \in {"idle", "decide"})
  BY <1>0 DEF Sends, Rests, Chats, Stops, Announces, GetsAccept, Starts, Pumps, Ends, Advances,
              Pending
<1>3. ASSUME NEW m, JobPush(t, m)
      PROVE  j < m.job
  <2>1. CASE Announces(t) /\ m \in {Msg(k, job + 1, 1) : k \in Opens}
    BY <1>0, <2>1 DEF Msg, Pending
  <2>2. CASE phase \in {"next", "pump"} /\ m.job = job
    BY <1>0, <2>2 DEF Pending
  <2> QED
    BY <1>3, <2>1, <2>2 DEF JobPush, Starts, Pumps, Ends, Msg, Chunk
<1> QED
  BY <1>1, <1>2, <1>3 DEF Pending

(* Steps of the sender keep what holds of the questions open.              *)
LEMMA QuestionsSent ==
    ASSUME NEW t \in Paths, TypeInv, TypeInv', Sends(t), Wire(t), Questions(t)
    PROVE  Questions(t)'
<1> DEFINE s == down[t]  u == down'[t]
<1> USE DEF Jobs
<1>0. s \in Seq(Message) /\ u \in Seq(Message) /\ up[t] \in Seq(Message) /\ job \in Nat
      /\ asking' = asking
  BY ConversationAssumption DEF TypeInv, NetTypes, SenderTypes, Sends, receiverVars
<1>1. ASSUME NEW j \in Jobs, Pending(t, j), NEW i \in Parts(u),
             \A k \in Parts(s) : j < s[k].job
      PROVE  j < u[i].job
  <2>1. CASE u = s
    BY <1>1, <2>1
  <2>2. CASE Prefix(u, s)
    BY <1>0, <1>1, <2>2, PrefixKeeps
  <2>3. ASSUME NEW m \in Message, m.k = "text", Longer(u, s, m) PROVE j < u[i].job
    BY <1>1, <2>3, LongerParts
  <2>4. ASSUME NEW m \in Message, JobPush(t, m), Longer(u, s, m) PROVE j < u[i].job
    <3>1. j < m.job /\ m.k # "text"
      BY <1>1, <2>4, PendingSent, PushesFollow
    <3> QED
      BY <1>1, <2>4, <3>1, LongerParts
  <2> QED
    BY <2>1, <2>2, <2>3, <2>4, WireKinds DEF Keeps
<1>2. ASSUME NEW j \in Jobs, NEW i \in Parts(u), u[i].k \in Opens, u[i].job = j
      PROVE  Pending(t, j)' /\ \A k \in Parts(u) : u[k].job = j => k = i
  <2>1. ASSUME \A k \in Parts(u) : k \in Parts(s) /\ u[k] = s[k]
        PROVE  Pending(t, j)' /\ \A k \in Parts(u) : u[k].job = j => k = i
    <3>1. i \in Parts(s) /\ s[i].k \in Opens /\ s[i].job = j
      BY <1>2, <2>1
    <3>2. Pending(t, j) /\ \A k \in Parts(s) : s[k].job = j => k = i
      BY <3>1 DEF Questions
    <3> QED
      BY <2>1, <3>2, PendingSent
  <2>2. CASE Prefix(u, s)
    BY <1>0, <2>1, <2>2, PrefixKeeps
  <2>3. ASSUME NEW m \in Message, m.k = "text", Longer(u, s, m)
        PROVE  \A k \in Parts(u) : k \in Parts(s) /\ u[k] = s[k]
    BY <2>3, LongerParts
  <2>4. ASSUME NEW m \in Message, JobPush(t, m), Longer(u, s, m)
        PROVE  Pending(t, j)' /\ \A k \in Parts(u) : u[k].job = j => k = i
    <3>0. m.k # "text"
      BY <2>4, PushesFollow
    <3>1. CASE i \in Parts(s)
      <4>1. s[i] = u[i] /\ s[i].k \in Opens /\ s[i].job = j
        BY <1>2, <2>4, <3>1, LongerParts
      <4>2. Pending(t, j) /\ \A k \in Parts(s) : s[k].job = j => k = i
        BY <3>1, <4>1 DEF Questions
      <4>3. Pending(t, j)' /\ j < m.job
        BY <2>4, <4>2, PendingSent
      <4> QED
        BY <2>4, <3>0, <4>2, <4>3, LongerParts
    <3>2. CASE i \notin Parts(s)
      <4>1. i = Len(u) /\ u[i] = m
        BY <2>4, <3>0, <3>2, LongerParts
      <4>2. Announces(t) /\ j = job + 1
        BY <1>2, <2>4, <4>1 DEF JobPush, Msg, Chunk, Opens, Closes
      <4>3. \A k \in Parts(s) : s[k].job # j
        <5> SUFFICES ASSUME NEW k \in Parts(s) PROVE s[k].job # j
          OBVIOUS
        <5>1. AtMost(s[k].job, s[k].file, Pos(s[k])) /\ s[k].job \in Nat
          BY <1>0, PartsTyped DEF Wire
        <5> QED
          BY <1>0, <4>2, <5>1 DEF AtMost, Reached
      <4>4. Pending(t, j)'
        <5>1. j <= job' /\ phase' = "decide"
          BY <1>0, <4>2 DEF Announces
        <5>2. \A k \in 1..Len(up'[t]) : up'[t][k].k = "accept" => up'[t][k].job # j
          BY <1>0, <4>2 DEF Questions, Sends
        <5> QED
          BY <5>1, <5>2 DEF Pending
      <4> QED
        BY <2>4, <3>0, <4>1, <4>3, <4>4, LongerParts
    <3> QED
      BY <3>1, <3>2
  <2> QED
    BY <2>1, <2>2, <2>3, <2>4, WireKinds DEF Keeps
<1>3. \A j \in Jobs : (\E q \in asking' : q.job = j) =>
        Pending(t, j)' /\ \A i \in Parts(u) : j < u[i].job
  BY <1>0, <1>1, PendingSent DEF Questions
<1>4. \A i \in 1..Len(up'[t]) : up'[t][i].k = "accept" => up'[t][i].job <= job'
  <2>1. job <= job'
    BY <1>0 DEF Sends, Rests, Chats, Stops, Announces, GetsAccept, Starts, Pumps, Ends, Advances
  <2>2. \A i \in 1..Len(up'[t]) : up'[t][i].k = "accept" => up'[t][i].job <= job
    BY DEF Sends, Questions
  <2>3. job' \in Nat
    BY ConversationAssumption DEF TypeInv, SenderTypes
  <2>4. up'[t] \in Seq(Message)
    BY DEF TypeInv, NetTypes
  <2>5. \A i \in 1..Len(up'[t]) : up'[t][i].k = "accept" => up'[t][i].job \in Nat
    BY <2>4, ElementOfSeq, ConversationAssumption DEF Message
  <2> QED
    BY <1>0, <2>1, <2>2, <2>3, <2>5
<1> QED
  BY <1>2, <1>3, <1>4 DEF Questions

(* What the receiver does: it may accept one job, a, and ask about the job *)
(* whose announcement it takes; what it accepts it no longer asks about.   *)
Answers(t, a) == \A i \in 1..Len(up'[t]) : up'[t][i].k = "accept" =>
    up'[t][i].job = a \/ \E k \in 1..Len(up[t]) : up'[t][i] = up[t][k]

(* A reply adds at most itself to what is on the way back.                 *)
LEMMA ReplyAnswers ==
    ASSUME NEW t \in Paths, TypeInv, NEW m \in Message, Reply(t, m), NEW a,
           m.k = "accept" => m.job = a
    PROVE  Answers(t, a)
<1>0. up[t] \in Seq(Message) /\ up \in [Paths -> Seq(Message)]
  BY DEF TypeInv, NetTypes
<1>1. up'[t] = up[t] \/ Longer(up'[t], up[t], m)
  BY <1>0, AppendIsLonger DEF Reply
<1>2. CASE up'[t] = up[t]
  BY <1>2 DEF Answers
<1>3. CASE Longer(up'[t], up[t], m)
  <2> SUFFICES ASSUME NEW i \in 1..Len(up'[t]), up'[t][i].k = "accept"
      PROVE  \/ up'[t][i].job = a
             \/ \E k \in 1..Len(up[t]) : up'[t][i] = up[t][k]
    BY DEF Answers
  <2>1. i = Len(up'[t]) \/ i \in 1..Len(up[t])
    BY <1>3, LongerParts
  <2>2. CASE i = Len(up'[t])
    BY <1>3, <2>2 DEF Longer
  <2>3. CASE i \in 1..Len(up[t])
    BY <1>3, <2>3 DEF Longer
  <2> QED
    BY <2>1, <2>2, <2>3
<1> QED
  BY <1>1, <1>2, <1>3

(* A message taken, answered or not, keeps it as well.                     *)
LEMMA QuestionsTaken ==
    ASSUME NEW t \in Paths, TypeInv, UNCHANGED senderVars, Wire(t), Questions(t),
           down'[t] = down[t] \/ down'[t] = <<>> \/ Takes(t),
           NEW a \in 0..NJobs, a <= job, Answers(t, a),
           \A j \in Jobs : (\E q \in asking' : q.job = j) =>
               j # a /\ \/ \E q \in asking : q.job = j
                        \/ Takes(t) /\ Head(down[t]).k \in Opens /\ Head(down[t]).job = j,
           \A i \in Parts(down'[t]) : down'[t][i].k \in Opens => down'[t][i].job # a
    PROVE  Questions(t)'
<1> DEFINE s == down[t]  u == down'[t]
<1> USE DEF Jobs
<1>0. s \in Seq(Message) /\ job \in Nat /\ job' = job /\ phase' = phase
  BY ConversationAssumption DEF TypeInv, NetTypes, SenderTypes, senderVars, jobVars
<1>1. ASSUME NEW j \in Jobs, Pending(t, j), j # a
      PROVE  Pending(t, j)'
  BY <1>0, <1>1 DEF Pending, Answers
<1>2. CASE u = <<>>
  <2>1. Parts(u) = {}
    BY <1>2, EmptySeq DEF Parts
  <2> HIDE DEF u
  <2>2. ASSUME NEW j \in Jobs, NEW q \in asking', q.job = j
        PROVE  Pending(t, j)
    <3>1. CASE \E r \in asking : r.job = j
      BY <3>1 DEF Questions
    <3>2. CASE Takes(t) /\ Head(s).k \in Opens /\ Head(s).job = j
      <4>1. 1 \in Parts(s) /\ Head(s) = s[1]
        BY <1>0, <3>2, HeadTailProperties, EmptySeq, LenProperties DEF Takes, Parts, Opens
      <4> QED
        BY <3>2, <4>1 DEF Questions
    <3> QED
      BY <2>2, <3>1, <3>2
  <2> QED
    BY <1>0, <1>1, <2>1, <2>2 DEF Questions, Answers, u
<1>3. CASE u = s \/ Takes(t)
  <2>1. ASSUME NEW i \in Parts(u)
        PROVE  \E k \in Parts(s) : u[i] = s[k] /\ k = IF u = s THEN i ELSE i + 1
    <3>1. CASE u = s
      BY <2>1, <3>1
    <3>2. CASE u # s
      <4>1. s # <<>> /\ u = Tail(s)
        BY <1>3, <3>2 DEF Takes
      <4> HIDE DEF s, u
      <4>2. i + 1 \in Parts(s) /\ u[i] = s[i + 1]
        BY <1>0, <2>1, <4>1, TailKeeps
      <4> QED
        BY <3>2, <4>2
    <3> QED
      BY <3>1, <3>2
  <2>2. ASSUME NEW j \in Jobs, NEW q \in asking', q.job = j
        PROVE  Pending(t, j)' /\ \A i \in Parts(u) : j < u[i].job
    <3>1. CASE \E r \in asking : r.job = j
      BY <1>1, <2>1, <2>2, <3>1 DEF Questions
    <3>2. CASE Takes(t) /\ Head(s).k \in Opens /\ Head(s).job = j
      <4>1. 1 \in Parts(s) /\ Head(s) = s[1] /\ s # <<>> /\ u = Tail(s)
        BY <1>0, <3>2, HeadTailProperties, EmptySeq, LenProperties DEF Takes, Parts, Opens
      <4>2. Pending(t, j) /\ \A k \in Parts(s) : s[k].job = j => k = 1
        BY <3>2, <4>1 DEF Questions
      <4>3. ASSUME NEW i \in Parts(u)
            PROVE  j < u[i].job
        <5>0. Ordered(s) /\ Head(s).k # "text"
          BY <3>2 DEF Wire, Opens
        <5> HIDE DEF u, s
        <5>1. i + 1 \in Parts(s) /\ u[i] = s[i + 1] /\ Follows(u[i], s[1].job, s[1].file, Pos(s[1]))
          BY <1>0, <4>1, <5>0, TailKeeps
        <5>2. u[i].job # j
          <6>1. i \in Int /\ i >= 1
            BY DEF Parts
          <6> QED
            BY <4>2, <5>1, <6>1
        <5> QED
          BY <3>2, <4>1, <5>1, <5>2 DEF Follows, Before
      <4> QED
        BY <1>1, <2>2, <4>2, <4>3
    <3> QED
      BY <2>2, <3>1, <3>2
  <2>3. ASSUME NEW j \in Jobs, NEW i \in Parts(u), u[i].k \in Opens, u[i].job = j
        PROVE  Pending(t, j)' /\ \A k \in Parts(u) : u[k].job = j => k = i
    <3>1. PICK l \in Parts(s) : u[i] = s[l] /\ l = IF u = s THEN i ELSE i + 1
      BY <2>1
    <3>2. Pending(t, j) /\ \A k \in Parts(s) : s[k].job = j => k = l
      BY <2>3, <3>1 DEF Questions
    <3>3. \A k \in Parts(u) : k \in Nat
      BY DEF Parts
    <3>4. ASSUME NEW k \in Parts(u), u[k].job = j
          PROVE  k = i
      <4>1. PICK h \in Parts(s) : u[k] = s[h] /\ h = IF u = s THEN k ELSE k + 1
        BY <2>1
      <4>2. h = l
        BY <3>2, <3>4, <4>1
      <4> HIDE DEF u, s
      <4> QED
        BY <3>1, <3>3, <4>1, <4>2
    <3> QED
      BY <1>1, <2>3, <3>2, <3>4
  <2> QED
    BY <1>0, <2>2, <2>3 DEF Questions, Answers
<1> QED
  BY <1>2, <1>3

----------------------------------------------------------------------------
(* The open item: nothing of it or of an earlier one can still come but    *)
(* the rest of it, and if all of it can, it has received what was sent.    *)
Receives(t, j, f, d) ==
    /\ AtMost(j, f, -1)
    /\ \A i \in Parts(down[t]) : Follows(down[t][i], j, f, -1)
    /\ Item(t, j, f, Len(d))
    /\ Live(t, j, f) => d = [k \in 1..Len(d) |-> Chunk(j, f, k)]

(* Items streamed to a picked file are left out: createWritable lets their *)
(* first chunks pass.                                                      *)
Reception(t) == \A j \in Jobs \ Picked, f \in Nat, d \in Seq(Message) :
    inbound.job = j /\ inbound.file = f /\ inbound.data = d => Receives(t, j, f, d)

(* Nothing was received of an item that is being announced.                *)
Announced(t) == \A j \in Jobs, f \in Nat : \A i \in 1..Len(down[t]) :
    down[t][i] = Msg("fstart", j, f) => Item(t, j, f, 0)

(* What is received of an item goes on while more is sent, ...             *)
LEMMA ReceivesSent ==
    ASSUME NEW t \in Paths, TypeInv, TypeInv', Sends(t),
           NEW j \in Nat, NEW f \in Nat, NEW d \in Seq(Message), Receives(t, j, f, d)
    PROVE  Receives(t, j, f, d)'
<1> DEFINE s == down[t]  u == down'[t]
<1>0. s \in Seq(Message) /\ u \in Seq(Message) /\ Len(d) \in Nat
  BY LenProperties DEF TypeInv, NetTypes
<1>1. AtMost(j, f, -1) /\ NextAtMost(j, f, -1)
  BY AtMostKept DEF Receives
<1>2. Item(t, j, f, Len(d))' /\ (Live(t, j, f)' => Live(t, j, f))
  BY <1>0, <1>1, ItemSent DEF Receives
<1>3. \A i \in Parts(u) : Follows(u[i], j, f, -1)
  <2>0. \A i \in Parts(s) : Follows(s[i], j, f, -1)
    BY DEF Receives
  <2>1. CASE u = s
    BY <2>0, <2>1
  <2>2. CASE Prefix(u, s)
    BY <1>0, <2>0, <2>2, PrefixKeeps
  <2>3. ASSUME NEW m \in Message, m.k = "text", Longer(u, s, m)
        PROVE  \A i \in Parts(u) : Follows(u[i], j, f, -1)
    BY <2>0, <2>3, LongerParts
  <2>4. ASSUME NEW m \in Message, JobPush(t, m), Longer(u, s, m)
        PROVE  \A i \in Parts(u) : Follows(u[i], j, f, -1)
    <3>1. Follows(m, j, f, -1) /\ m.k # "text"
      BY <1>1, <2>4, PushesFollow
    <3> QED
      BY <2>0, <2>4, <3>1, LongerParts
  <2> QED
    BY <2>1, <2>2, <2>3, <2>4, WireKinds DEF Keeps
<1>4. AtMost(j, f, -1)'
  BY <1>1 DEF AtMost, NextAtMost
<1> QED
  BY <1>2, <1>3, <1>4 DEF Receives, Parts, Follows, Before, Pos

(* ... while nothing happens to the wire, ...                              *)
LEMMA ReceivesQuiet ==
    ASSUME NEW t, NEW j, NEW f, NEW d, Receives(t, j, f, d),
           UNCHANGED senderVars, down'[t] = down[t], path'[t] = path[t]
    PROVE  Receives(t, j, f, d)'
  BY DEF senderVars, jobVars, Receives, AtMost, Parts, Follows, Pos, Item, Live, SendsNow, Whole

(* What is behind the head of the queue follows what all of it follows.    *)
LEMMA TailFollows ==
    ASSUME NEW t \in Paths, TypeInv, Takes(t), NEW j, NEW f, NEW p,
           \A i \in Parts(down[t]) : Follows(down[t][i], j, f, p)
    PROVE  \A i \in Parts(down'[t]) : Follows(down'[t][i], j, f, p)
<1>1. down[t] \in Seq(Message)
  BY DEF TypeInv, NetTypes
<1> QED
  BY <1>1, TailKeeps DEF Takes

(* ... while what is taken is not of the item, ...                         *)
LEMMA ReceivesTaken ==
    ASSUME NEW t \in Paths, TypeInv, Takes(t),
           NEW j \in Nat, NEW f \in Nat, NEW d \in Seq(Message), Receives(t, j, f, d),
           ~IsChunk(Head(down[t]), j, f)
    PROVE  Receives(t, j, f, d)'
<1>0. Len(d) \in Nat
  BY LenProperties
<1>1. Item(t, j, f, Len(d))' /\ (Live(t, j, f)' => Live(t, j, f))
  BY <1>0, ItemTaken DEF Receives
<1>2. \A i \in Parts(down'[t]) : Follows(down'[t][i], j, f, -1)
  BY TailFollows DEF Receives
<1>3. AtMost(j, f, -1)'
  BY DEF Receives, AtMost, Takes, senderVars, jobVars
<1> QED
  BY <1>1, <1>2, <1>3 DEF Receives, Parts, Follows, Pos

(* ... and when its next chunk is taken and written.                       *)
LEMMA ReceivesChunk ==
    ASSUME NEW t \in Paths, TypeInv, Wire(t), Takes(t), Head(down[t]).k = "chunk",
           NEW j \in Nat, NEW f \in Nat, NEW d \in Seq(Message), Receives(t, j, f, d),
           NEW e, e = Append(d, Head(down[t]))
    PROVE  Receives(t, j, f, e)'
<1>0. down[t] \in Seq(Message) /\ down[t] # <<>> /\ Len(d) \in Nat
  BY LenProperties DEF TypeInv, NetTypes, Takes
<1>a. Head(down[t]) = down[t][1] /\ 1 \in 1..Len(down[t]) /\ Head(down[t]) \in Message
  BY <1>0, HeadTailProperties, EmptySeq, LenProperties
<1>b. Longer(e, d, Head(down[t]))
  BY <1>a, AppendIsLonger
<1>1. \A i \in Parts(down'[t]) : Follows(down'[t][i], j, f, -1)
  BY TailFollows DEF Receives
<1>2. AtMost(j, f, -1)'
  BY DEF Receives, AtMost, Takes, senderVars, jobVars
<1>3. Item(t, j, f, Len(e))' /\ (Live(t, j, f)' => e = [k \in 1..Len(e) |-> Chunk(j, f, k)])
  <2>1. CASE IsChunk(Head(down[t]), j, f)
    <3>1. /\ Head(down[t]) = Chunk(j, f, Len(d) + 1)
          /\ Item(t, j, f, Len(d) + 1)'
          /\ Live(t, j, f)' => Live(t, j, f)
      BY <1>0, <2>1, ItemMoves DEF Receives
    <3>2. Len(e) = Len(d) + 1
      BY <1>b DEF Longer
    <3>3. ASSUME Live(t, j, f)'
          PROVE  e = [k \in 1..Len(e) |-> Chunk(j, f, k)]
      <4>1. d = [k \in 1..Len(d) |-> Chunk(j, f, k)]
        BY <3>1, <3>3 DEF Receives
      <4>2. \A k \in 1..Len(d) : d[k] = Chunk(j, f, k)
        BY <4>1
      <4>3. \A k \in 1..Len(e) : e[k] = Chunk(j, f, k)
        BY <1>b, <3>1, <3>2, <4>2, LongerParts
      <4>4. e \in Seq(Message)
        BY <1>a, AppendProperties
      <4>5. e = [k \in 1..Len(e) |-> e[k]]
        BY <4>4, LenProperties
      <4> QED
        BY <4>3, <4>5
    <3> QED
      BY <3>1, <3>2, <3>3
  <2>2. CASE ~IsChunk(Head(down[t]), j, f)
    <3>1. Follows(Head(down[t]), j, f, -1)
      BY <1>a DEF Receives, Parts
    <3> QED
      BY <2>2, <3>1, ItemOver
  <2> QED
    BY <2>1, <2>2
<1> QED
  BY <1>1, <1>2, <1>3 DEF Receives, Parts, Follows, Pos

(* An item that is opened has received nothing of what follows of it.      *)
LEMMA ReceivesFirst ==
    ASSUME NEW t \in Paths, NEW j, NEW f, AtMost(j, f, -1)', Item(t, j, f, 0)',
           \A i \in Parts(down'[t]) : Follows(down'[t][i], j, f, -1)
    PROVE  Receives(t, j, f, <<>>)'
<1>1. Len(<<>>) = 0 /\ \A x : <<>> = [k \in 1..0 |-> Chunk(j, f, k)]
  BY EmptySeq
<1> QED
  BY <1>1 DEF Receives, Parts, Follows, Pos

(* A document of which nothing was sent but the announcement.              *)
LEMMA DocFirst ==
    ASSUME NEW t \in Paths, TypeInv, TypeInv', UNCHANGED senderVars, NEW j \in Nat, Pending(t, j),
           \A i \in Parts(down'[t]) : j < down'[t][i].job
    PROVE  Receives(t, j, 1, <<>>)'
<1>0. job \in Nat /\ UNCHANGED <<phase, job, file, offset>> /\ down'[t] \in Seq(Message)
  BY ConversationAssumption DEF TypeInv, SenderTypes, NetTypes, senderVars, jobVars
<1>1. AtMost(j, 1, -1)'
  BY <1>0 DEF Pending, AtMost, Reached
<1>2. \A i \in Parts(down'[t]) : Follows(down'[t][i], j, 1, -1)
  BY DEF Follows, Before
<1>3. \A i \in 1..Len(down'[t]) : ~IsChunk(down'[t][i], j, 1) /\ ~IsEnd(down'[t][i], j, 1)
  <2> SUFFICES ASSUME NEW i \in Parts(down'[t]) PROVE down'[t][i].job # j
    BY DEF Parts, IsChunk, IsEnd, Closes
  <2> QED
    OBVIOUS
<1>4. SendsNow(j, 1)' => phase' # "pump"
  BY <1>0 DEF SendsNow, Pending
<1>5. Item(t, j, 1, 0)'
  BY <1>3, <1>4 DEF Item, GoesOn
<1> QED
  BY <1>1, <1>2, <1>5, ReceivesFirst

(* Announcements stay, and are made of what nothing was sent of.           *)
LEMMA AnnouncedSent ==
    ASSUME NEW t \in Paths, TypeInv, TypeInv', Sends(t), Wire(t), Announced(t)
    PROVE  Announced(t)'
<1> DEFINE s == down[t]  u == down'[t]
<1>0. s \in Seq(Message) /\ u \in Seq(Message) /\ job \in Nat /\ file \in Nat
  BY ConversationAssumption DEF TypeInv, NetTypes, SenderTypes
<1> SUFFICES ASSUME NEW j \in Jobs, NEW f \in Nat, NEW i \in 1..Len(u), u[i] = Msg("fstart", j, f)
    PROVE  Item(t, j, f, 0)'
  BY DEF Announced
<1>a. j \in Nat
  BY DEF Jobs
<1>b. Msg("fstart", j, f).k = "fstart" /\ Msg("fstart", j, f).job = j /\ Msg("fstart", j, f).file = f
  BY DEF Msg
<1>1. ASSUME NEW k \in 1..Len(s), s[k] = Msg("fstart", j, f)
      PROVE  Item(t, j, f, 0)'
  <2>1. Item(t, j, f, 0)
    BY <1>1 DEF Announced
  <2>2. AtMost(j, f, 0)
    <3>1. k \in Parts(s)
      BY <1>1, <1>b DEF Parts
    <3>2. Pos(s[k]) = 0
      BY <1>1, <1>b DEF Pos, Opens
    <3> QED
      BY <1>1, <1>b, <3>1, <3>2 DEF Wire
  <2>3. AtMost(j, f, -1)
    BY <2>2, ConversationAssumption DEF AtMost, Reached, TypeInv, SenderTypes
  <2> QED
    BY <1>a, <2>1, <2>3, ItemSent
<1>2. CASE u = s
  BY <1>1, <1>2
<1>3. CASE Prefix(u, s)
  <2>1. i \in 1..Len(s) /\ s[i] = u[i]
    BY <1>0, <1>3, LenProperties DEF Prefix
  <2> QED
    BY <1>1, <2>1
<1>4. ASSUME NEW m, Longer(u, s, m), m # Msg("fstart", j, f)
      PROVE  Item(t, j, f, 0)'
  <2>1. i \in 1..Len(s) /\ s[i] = u[i]
    BY <1>4, LongerParts DEF Longer
  <2> QED
    BY <1>1, <2>1
<1>5. ASSUME JobPush(t, Msg("fstart", j, f)), Longer(u, s, Msg("fstart", j, f))
      PROVE  Item(t, j, f, 0)'
  <2>1. Starts(t) /\ j = job /\ f = file
    <3>1. ~(Msg("fstart", j, f) \in {Msg(k, job + 1, 1) : k \in Opens})
      BY DEF Msg, Opens
    <3>2. ~(Msg("fstart", j, f) \in {Msg(k, job, file) : k \in Closes})
      BY DEF Msg, Closes
    <3>3. ~(Msg("fstart", j, f) = Chunk(job, file, offset + 1))
      BY DEF Msg, Chunk
    <3>4. Starts(t) /\ Msg("fstart", j, f) = Msg("fstart", job, file)
      BY <1>5, <3>1, <3>2, <3>3 DEF JobPush
    <3> QED
      BY <3>4 DEF Msg
  <2>2. ASSUME NEW k \in Parts(s), s[k].job = j, s[k].file = f
        PROVE  s[k].k \in Opens
    <3>1. AtMost(j, f, Pos(s[k]))
      BY <2>2 DEF Wire
    <3>2. Pos(s[k]) = -1
      BY <1>0, <2>1, <3>1 DEF Starts, AtMost, Reached
    <3> QED
      BY <1>0, <3>2, PartsTyped
  <2>3. \A k \in 1..Len(u) : ~IsChunk(u[k], j, f) /\ ~IsEnd(u[k], j, f)
    <3> SUFFICES ASSUME NEW k \in 1..Len(u) PROVE ~IsChunk(u[k], j, f) /\ ~IsEnd(u[k], j, f)
      OBVIOUS
    <3>1. CASE k = Len(u)
      <4>1. u[k].k = "fstart"
        BY <1>5, <1>b, <3>1, LongerParts
      <4> QED
        BY <4>1 DEF IsChunk, IsEnd, Closes
    <3>2. CASE k \in Parts(s)
      <4>1. u[k] = s[k]
        BY <1>5, <3>2, LongerParts
      <4> QED
        BY <2>2, <3>2, <4>1 DEF IsChunk, IsEnd, Closes, Opens
    <3>3. CASE k \in 1..Len(s) /\ s[k].k = "text"
      BY <1>5, <3>3 DEF Longer, IsChunk, IsEnd, Closes
    <3> QED
      BY <1>5, <3>1, <3>2, <3>3, LongerParts DEF Parts
  <2>4. phase' = "pump" /\ offset' = 0
    BY <2>1 DEF Starts
  <2> QED
    BY <2>3, <2>4 DEF Item, GoesOn
<1> QED
  BY <1>2, <1>3, <1>4, <1>5, <1>b, WireKinds DEF Keeps

(* What was announced stays announced when a message is taken.             *)
LEMMA AnnouncedTaken ==
    ASSUME NEW t \in Paths, TypeInv, UNCHANGED senderVars, Wire(t), Announced(t),
           (down'[t] = down[t] /\ path'[t] = path[t]) \/ down'[t] = <<>> \/ Takes(t)
    PROVE  Announced(t)'
<1> DEFINE s == down[t]  u == down'[t]
<1>0. s \in Seq(Message)
  BY DEF TypeInv, NetTypes
<1> SUFFICES ASSUME NEW j \in Jobs, NEW f \in Nat, NEW i \in 1..Len(u), u[i] = Msg("fstart", j, f)
    PROVE  Item(t, j, f, 0)'
  BY DEF Announced
<1>b. Msg("fstart", j, f).k = "fstart" /\ Msg("fstart", j, f).job = j /\ Msg("fstart", j, f).file = f
  BY DEF Msg
<1>1. CASE u = s /\ path'[t] = path[t]
  <2>1. Item(t, j, f, 0)
    BY <1>1 DEF Announced
  <2> QED
    BY <1>1, <2>1 DEF Item, SendsNow, Whole, senderVars, jobVars
<1>2. CASE u = <<>>
  BY <1>2, EmptySeq
<1>3. CASE Takes(t)
  <2>1. /\ s # <<>> /\ u = Tail(s) /\ Head(s) = s[1] /\ 1 \in 1..Len(s)
        /\ Len(u) = Len(s) - 1 /\ \A k \in 1..Len(u) : u[k] = s[k + 1]
    BY <1>0, <1>3, HeadTailProperties, EmptySeq, LenProperties DEF Takes
  <2>2. i + 1 \in 1..Len(s) /\ s[i + 1] = Msg("fstart", j, f)
    BY <1>0, <2>1, LenProperties
  <2>3. Item(t, j, f, 0)
    BY <2>2 DEF Announced
  <2>4. ~IsChunk(Head(s), j, f)
    <3> SUFFICES ASSUME IsChunk(s[1], j, f) PROVE FALSE
      BY <2>1
    <3>1. 1 \in Parts(s) /\ i + 1 \in Parts(s) /\ 1 < i + 1
      BY <1>b, <2>1, <2>2 DEF Parts, IsChunk
    <3>2. Follows(s[i + 1], j, f, Pos(s[1])) /\ Pos(s[1]) \in 1..Chunks
      BY <3>1 DEF Wire, Ordered, IsChunk, Pos, Opens
    <3>3. Pos(s[i + 1]) = 0 /\ s[i + 1].job = j /\ s[i + 1].file = f
      BY <1>b, <2>2 DEF Pos, Opens
    <3> QED
      BY <3>2, <3>3, ConversationAssumption DEF Follows, Before, Jobs
  <2>5. j \in Nat /\ 0 \in Nat
    BY ConversationAssumption DEF Jobs
  <2> HIDE DEF s, u
  <2>6. ~IsChunk(Head(down[t]), j, f)
    BY <2>4 DEF s
  <2> QED
    BY <1>3, <2>3, <2>5, <2>6, ItemTaken
<1> QED
  BY <1>1, <1>2, <1>3

(* When the open item is left as it is, it still receives.                 *)
LEMMA ReceptionSent ==
    ASSUME NEW t \in Paths, TypeInv, TypeInv', Sends(t), Reception(t)
    PROVE  Reception(t)'
<1> SUFFICES ASSUME NEW j \in Jobs \ Picked, NEW f \in Nat, NEW d \in Seq(Message),
                    inbound'.job = j, inbound'.file = f, inbound'.data = d
    PROVE  Receives(t, j, f, d)'
  BY DEF Reception
<1>1. Receives(t, j, f, d)
  BY DEF Reception, Sends, receiverVars
<1> QED
  BY <1>1, ReceivesSent DEF Jobs

(* An open item that is not written to is received as before.              *)
LEMMA ReceptionKept ==
    ASSUME NEW t \in Paths, TypeInv, Reception(t), inbound' = inbound,
           \/ UNCHANGED senderVars /\ down'[t] = down[t] /\ path'[t] = path[t]
           \/ Takes(t) /\ Head(down[t]).k # "chunk"
    PROVE  Reception(t)'
<1> SUFFICES ASSUME NEW j \in Jobs \ Picked, NEW f \in Nat, NEW d \in Seq(Message),
                    inbound'.job = j, inbound'.file = f, inbound'.data = d
    PROVE  Receives(t, j, f, d)'
  BY DEF Reception
<1>1. Receives(t, j, f, d)
  BY DEF Reception
<1>2. CASE UNCHANGED senderVars /\ down'[t] = down[t] /\ path'[t] = path[t]
  BY <1>1, <1>2, ReceivesQuiet
<1>3. CASE Takes(t) /\ Head(down[t]).k # "chunk"
  BY <1>1, <1>3, ReceivesTaken DEF Jobs, IsChunk
<1> QED
  BY <1>2, <1>3

----------------------------------------------------------------------------
(* The invariant over one path, and that every step keeps it.              *)
Kept ==
    /\ \A r \in creating : r.job \in Picked
    /\ \A r \in saved : r.job \notin Picked => r.data = Content(r.job, r.file)

OnePath(t) == TypeInv /\ Wire(t) /\ Questions(t) /\ Announced(t) /\ Reception(t) /\ Kept

(* It holds initially, ...                                                 *)
LEMMA OnePathInit ==
    ASSUME NEW t, Paths = {t}, Init
    PROVE  OnePath(t)
<1>1. TypeInv
  BY TypesInit
<1>2. down[t] = <<>> /\ up[t] = <<>>
  BY DEF Init
<1>3. Parts(down[t]) = {} /\ 1..Len(down[t]) = {} /\ 1..Len(up[t]) = {}
  BY <1>2, EmptySeq DEF Parts
<1>4. Wire(t) /\ Questions(t) /\ Announced(t) /\ Kept
  BY <1>3 DEF Init, Wire, Ordered, Questions, Announced, Kept
<1>5. inbound.job = 0
  BY DEF Init, Nothing
<1>6. Reception(t)
  BY <1>5 DEF Reception, Jobs
<1> QED
  BY <1>1, <1>4, <1>6 DEF OnePath

(* ... and after any step of the sender or of the path, ...                *)
LEMMA OnePathSent ==
    ASSUME NEW t \in Paths, OnePath(t), TypeInv', Sends(t)
    PROVE  OnePath(t)'
<1>1. Kept'
  BY DEF OnePath, Kept, Sends, receiverVars
<1> QED
  BY <1>1, WireSent, QuestionsSent, AnnouncedSent, ReceptionSent DEF OnePath

(* The receiver's steps on what arrives.                                   *)
LEMMA TakesKinds ==
    ASSUME NEW t, Paths = {t}, TypeInv, NEW p \in Paths, NEW kinds, Incoming(p, kinds), Take(p),
           UNCHANGED senderVars
    PROVE  /\ p = t /\ Takes(t) /\ Head(down[t]).k \in kinds /\ Head(down[t]) \in Message
           /\ Head(down[t]) = down[t][1] /\ 1 \in 1..Len(down[t])
<1>1. down \in [Paths -> Seq(Message)] /\ p = t
  BY DEF TypeInv, NetTypes
<1>2. Takes(t)
  BY <1>1 DEF Takes, Take, Incoming
<1> QED
  BY <1>1, <1>2, HeadTailProperties, EmptySeq, LenProperties DEF Incoming

(* Those that accept nothing and open nothing.                             *)
LEMMA OnePathIgnores ==
    ASSUME NEW t \in Paths, OnePath(t), TypeInv', Takes(t), Answers(t, 0),
           asking' = asking, creating' = creating,
           saved' = saved \/ Kept',
           \/ inbound' = inbound /\ Head(down[t]).k # "chunk"
           \/ Reception(t)'
    PROVE  OnePath(t)'
<1> USE DEF OnePath
<1>1. Wire(t)' /\ Announced(t)'
  BY WireTaken, AnnouncedTaken DEF Takes
<1>2. Questions(t)'
  <2>1. job \in Nat /\ \A j \in Jobs : j # 0
    BY ConversationAssumption DEF TypeInv, SenderTypes, Jobs
  <2>2. \A i \in Parts(down'[t]) : down'[t][i].job # 0
    <3> SUFFICES ASSUME NEW i \in Parts(down'[t]) PROVE down'[t][i].job # 0
      OBVIOUS
    <3>1. down'[t] \in Seq(Message)
      BY DEF TypeInv, NetTypes
    <3>2. down'[t][i] \in Message /\ down'[t][i].k # "text"
      BY <3>1, ElementOfSeq DEF Parts
    <3> QED
      BY <3>2 DEF Message, Jobs
  <2>3. 0 \in 0..NJobs /\ 0 <= job /\ UNCHANGED senderVars
    BY <2>1, ConversationAssumption DEF Takes
  <2> QED
    BY <2>1, <2>2, <2>3, QuestionsTaken
<1>3. Reception(t)'
  BY ReceptionKept
<1>4. Kept'
  BY DEF Kept
<1> QED
  BY <1>1, <1>2, <1>3, <1>4

(* A job whose announcement is taken, or that was asked about: nothing     *)
(* more of it is on the wire.                                              *)
LEMMA HeadPending ==
    ASSUME NEW t \in Paths, TypeInv, Wire(t), Questions(t), Takes(t),
           Head(down[t]).k \in Opens, NEW j \in Jobs, Head(down[t]).job = j
    PROVE  /\ Pending(t, j)
           /\ \A i \in Parts(down'[t]) : j < down'[t][i].job
<1> DEFINE s == down[t]  u == down'[t]
<1>1. /\ s \in Seq(Message) /\ s # <<>> /\ u = Tail(s)
      /\ Ordered(s) /\ Head(s).k # "text"
  BY DEF TypeInv, NetTypes, Takes, Wire, Opens
<1>2. 1 \in Parts(s) /\ Head(s) = s[1]
  BY <1>1, HeadTailProperties, EmptySeq, LenProperties DEF Parts
<1>3. Pending(t, j) /\ \A k \in Parts(s) : s[k].job = j => k = 1
  BY <1>2 DEF Questions
<1>4. Head(s).job = j
  OBVIOUS
<1> HIDE DEF s, u
<1>5. ASSUME NEW i \in Parts(u)
      PROVE  j < u[i].job
  <2>1. i + 1 \in Parts(s) /\ u[i] = s[i + 1] /\ Follows(u[i], Head(s).job, Head(s).file, Pos(Head(s)))
    BY <1>1, TailKeeps
  <2>2. i \in Int /\ i >= 1
    BY DEF Parts
  <2>3. u[i].job # j
    BY <1>3, <2>1, <2>2
  <2> QED
    BY <1>4, <2>1, <2>3 DEF Follows, Before
<1> QED
  BY <1>3, <1>5 DEF u

(* ... after a question is put to the user, ...                            *)
LEMMA OnePathAsks ==
    ASSUME NEW t, Paths = {t}, OnePath(t), TypeInv', Ask(t)
    PROVE  OnePath(t)'
<1> USE DEF OnePath
<1>1. /\ Takes(t) /\ Head(down[t]).k \in {"batch", "dstart"} /\ Head(down[t]) \in Message
      /\ up' = up /\ inbound' = inbound
  BY TakesKinds DEF Ask
<1>2. Head(down[t]).job \in Jobs
  BY <1>1 DEF Message
<1>3. Wire(t)' /\ Announced(t)' /\ Reception(t)'
  BY <1>1, WireTaken, AnnouncedTaken, ReceptionKept DEF Takes
<1>4. Questions(t)'
  <2>1. job \in Nat /\ \A j \in Jobs : j # 0
    BY ConversationAssumption DEF TypeInv, SenderTypes, Jobs
  <2>2. \A i \in Parts(down'[t]) : down'[t][i].job # 0
    <3>1. \A i \in Parts(down'[t]) : Head(down[t]).job < down'[t][i].job
      BY <1>1, <1>2, HeadPending DEF Opens
    <3> QED
      BY <1>2, <3>1 DEF Jobs
  <2>3. 0 \in 0..NJobs /\ 0 <= job /\ UNCHANGED senderVars /\ Answers(t, 0)
    BY <1>1, <2>1, ConversationAssumption DEF Takes, Answers
  <2>4. \A j \in Jobs : (\E q \in asking' : q.job = j) =>
            \/ \E q \in asking : q.job = j
            \/ Takes(t) /\ Head(down[t]).k \in Opens /\ Head(down[t]).job = j
    BY <1>1 DEF Ask, Opens
  <2> QED
    BY <1>1, <2>1, <2>2, <2>3, <2>4, QuestionsTaken
<1>5. Kept'
  BY DEF Kept, Ask
<1> QED
  BY <1>3, <1>4, <1>5

(* ... and answered, ...                                                   *)
LEMMA OnePathAnswers ==
    ASSUME NEW t, Paths = {t}, OnePath(t), TypeInv', NEW q \in asking, Accept(q) \/ Decline(q)
    PROVE  OnePath(t)'
<1> USE DEF OnePath
<1>0. q \in [job : Jobs, via : Paths] /\ asking \subseteq [job : Jobs, via : Paths]
  BY DEF TypeInv, ReceiverTypes
<1>1. /\ q.job \in Jobs /\ q.via = t /\ q.job \in 0..NJobs /\ q.job \in Nat
      /\ \A r \in asking \ {q} : r.job # q.job
  BY <1>0 DEF Jobs
<1>2. /\ UNCHANGED senderVars /\ down' = down /\ path' = path
      /\ UNCHANGED <<creating, saved>> /\ asking' = asking \ {q}
  BY DEF Accept, Decline
<1>3. Pending(t, q.job) /\ \A i \in Parts(down[t]) : q.job < down[t][i].job
  BY <1>1 DEF Questions
<1>4. Wire(t)' /\ Announced(t)' /\ Kept'
  BY <1>2, WireTaken, AnnouncedTaken DEF Kept
<1>5. Questions(t)'
  <2>1. Answers(t, q.job)
    BY <1>0, <1>1, ReplyAnswers, MessagesTyped DEF Accept, Decline, Msg
  <2>2. \A i \in Parts(down'[t]) : down'[t][i].job # q.job
    BY <1>1, <1>2, <1>3
  <2>3. q.job <= job
    BY <1>3 DEF Pending
  <2>4. down'[t] = down[t]
    BY <1>2
  <2>5. \A j \in Jobs : (\E r \in asking' : r.job = j) => j # q.job /\ \E r \in asking : r.job = j
    BY <1>1, <1>2
  <2> QED
    BY <1>1, <1>2, <2>1, <2>2, <2>3, <2>4, <2>5, QuestionsTaken
<1>6. Reception(t)'
  <2>1. CASE inbound' = inbound
    BY <1>2, <2>1, ReceptionKept
  <2>2. CASE inbound' = Receiving(q.job, 1, q.via)
    <3>1. Receives(t, q.job, 1, <<>>)'
      BY <1>1, <1>2, <1>3, DocFirst
    <3> SUFFICES ASSUME NEW j \in Jobs \ Picked, NEW f \in Nat, NEW d \in Seq(Message),
                        inbound'.job = j, inbound'.file = f, inbound'.data = d
        PROVE  Receives(t, j, f, d)'
      BY DEF Reception
    <3>2. j = q.job /\ f = 1 /\ d = <<>>
      BY <2>2 DEF Receiving
    <3> QED
      BY <1>2, <3>1, <3>2 DEF Receives, AtMost, Item, Live, SendsNow, Whole
  <2> QED
    BY <2>1, <2>2 DEF Accept, Decline
<1> QED
  BY <1>4, <1>5, <1>6

(* ... after a document is accepted without asking, ...                    *)
LEMMA OnePathDocStarts ==
    ASSUME NEW t, Paths = {t}, OnePath(t), TypeInv', OnDocStart(t)
    PROVE  OnePath(t)'
<1> USE DEF OnePath
<1>0. /\ Takes(t) /\ Head(down[t]).k = "dstart" /\ Head(down[t]) \in Message
      /\ UNCHANGED <<creating, saved, asking>>
      /\ inbound' = Receiving(Head(down[t]).job, 1, t)
      /\ Reply(t, Msg("accept", Head(down[t]).job, 1))
  <2>1. Incoming(t, {"dstart"}) /\ Take(t) /\ UNCHANGED senderVars
    BY DEF OnDocStart
  <2> QED
    BY <2>1, TakesKinds DEF OnDocStart
<1> PICK j \in Jobs : j = Head(down[t]).job
  BY <1>0 DEF Message
<1>1. /\ Takes(t) /\ Head(down[t]).k = "dstart" /\ Head(down[t]).job = j
      /\ UNCHANGED <<creating, saved, asking>>
      /\ inbound' = Receiving(j, 1, t) /\ Reply(t, Msg("accept", j, 1))
  BY <1>0
<1>2. j \in Nat /\ j \in 0..NJobs
  BY DEF Jobs
<1>3. Pending(t, j) /\ \A i \in Parts(down'[t]) : j < down'[t][i].job
  BY <1>1, <1>2, HeadPending DEF Opens
<1>4. Wire(t)' /\ Announced(t)' /\ Kept'
  BY <1>1, WireTaken, AnnouncedTaken DEF Takes, Kept
<1>5. Questions(t)'
  <2>1. Answers(t, j)
    BY <1>1, <1>2, ReplyAnswers, MessagesTyped DEF Msg
  <2>2. \A i \in Parts(down'[t]) : down'[t][i].job # j
    BY <1>2, <1>3
  <2>3. j <= job /\ UNCHANGED senderVars
    BY <1>1, <1>3 DEF Pending, Takes
  <2>4. \A k \in Jobs : (\E q \in asking' : q.job = k) => k # j /\ \E q \in asking : q.job = k
    <3> SUFFICES ASSUME NEW q \in asking, q.job = j, q.job \in Jobs PROVE FALSE
      BY <1>1
    <3>1. 1 \in Parts(down[t]) /\ Head(down[t]) = down[t][1]
      <4>1. down[t] \in Seq(Message) /\ down[t] # <<>>
        BY <1>1 DEF TypeInv, NetTypes, Takes
      <4> QED
        BY <1>1, <4>1, HeadTailProperties, EmptySeq, LenProperties DEF Parts
    <3>2. q.job < down[t][1].job
      BY <3>1 DEF Questions
    <3> QED
      BY <1>1, <1>2, <3>1, <3>2
  <2> QED
    BY <1>1, <1>2, <2>1, <2>2, <2>3, <2>4, QuestionsTaken
<1>6. Reception(t)'
  <2>1. Receives(t, j, 1, <<>>)'
    BY <1>1, <1>2, <1>3, DocFirst DEF Takes
  <2> SUFFICES ASSUME NEW k \in Jobs \ Picked, NEW f \in Nat, NEW d \in Seq(Message),
                      inbound'.job = k, inbound'.file = f, inbound'.data = d
      PROVE  Receives(t, k, f, d)'
    BY DEF Reception
  <2>2. k = j /\ f = 1 /\ d = <<>>
    BY <1>1 DEF Receiving
  <2> QED
    BY <2>1, <2>2
<1> QED
  BY <1>4, <1>5, <1>6

(* ... after a file is opened, ...                                         *)
LEMMA OnePathFileStarts ==
    ASSUME NEW t, Paths = {t}, OnePath(t), TypeInv', OnFileStart(t)
    PROVE  OnePath(t)'
<1> USE DEF OnePath
<1> DEFINE m == Head(down[t])
<1>1. /\ Takes(t) /\ m.k = "fstart" /\ m \in Message
      /\ UNCHANGED <<saved, asking>> /\ up' = up /\ m = down[t][1] /\ 1 \in 1..Len(down[t])
  <2>1. Incoming(t, {"fstart"}) /\ Take(t) /\ UNCHANGED senderVars
    BY DEF OnFileStart
  <2> QED
    BY <2>1, TakesKinds DEF OnFileStart
<1>2. m.job \in Jobs /\ m.file \in Nat /\ m = Msg("fstart", m.job, m.file)
  BY <1>1 DEF Message, Msg
<1>a. Answers(t, 0)
  BY <1>1 DEF Answers
<1>3. CASE UNCHANGED <<creating, inbound>>
  BY <1>1, <1>3, <1>a, OnePathIgnores
<1>4. CASE /\ m.job = batch /\ handle /\ inbound' = inbound
           /\ creating' = creating \cup {Receiving(m.job, m.file, t)}
  <2>1. m.job \in Picked
    BY <1>4 DEF TypeInv, ReceiverTypes
  <2>2. Kept'
    BY <1>1, <1>4, <2>1 DEF Kept, Receiving
  <2>3. Wire(t)' /\ Announced(t)' /\ Reception(t)'
    BY <1>1, <1>4, WireTaken, AnnouncedTaken, ReceptionKept DEF Takes
  <2>4. Questions(t)'
    <3>1. job \in Nat /\ \A j \in Jobs : j # 0
      BY ConversationAssumption DEF TypeInv, SenderTypes, Jobs
    <3>2. \A i \in Parts(down'[t]) : down'[t][i].k \in Opens => down'[t][i].job # 0
      <4> SUFFICES ASSUME NEW i \in Parts(down'[t]) PROVE down'[t][i].job # 0
        OBVIOUS
      <4>1. down'[t] \in Seq(Message)
        BY DEF TypeInv, NetTypes
      <4>2. down'[t][i] \in Message /\ down'[t][i].k # "text"
        BY <4>1, ElementOfSeq DEF Parts
      <4> QED
        BY <4>2 DEF Message, Jobs
    <3>3. 0 \in 0..NJobs /\ 0 <= job /\ UNCHANGED senderVars
      BY <1>1, <3>1, ConversationAssumption DEF Takes
    <3> QED
      BY <1>1, <1>a, <3>1, <3>2, <3>3, QuestionsTaken
  <2> QED
    BY <2>2, <2>3, <2>4
<1>5. CASE inbound' = Receiving(m.job, m.file, t) /\ creating' = creating
  <2>1. Item(t, m.job, m.file, 0)
    BY <1>1, <1>2 DEF Announced
  <2>2. 1 \in Parts(down[t]) /\ Pos(m) = 0
    BY <1>1 DEF Parts, Pos, Opens
  <2>3. AtMost(m.job, m.file, 0)
    BY <1>1, <2>2 DEF Wire
  <2>4. \A i \in Parts(down'[t]) : Follows(down'[t][i], m.job, m.file, 0)
    <3>1. Ordered(down[t]) /\ m.k # "text" /\ down[t] \in Seq(Message) /\ down[t] # <<>>
          /\ down'[t] = Tail(down[t])
      BY <1>1 DEF Wire, TypeInv, NetTypes, Takes
    <3> QED
      BY <2>2, <3>1, TailKeeps
  <2>5. ~IsChunk(m, m.job, m.file)
    BY <1>1 DEF IsChunk
  <2> SUFFICES Reception(t)'
    BY <1>1, <1>5, <1>a, OnePathIgnores
  <2> SUFFICES ASSUME NEW j \in Jobs \ Picked, NEW f \in Nat, NEW d \in Seq(Message),
                      inbound'.job = j, inbound'.file = f, inbound'.data = d
      PROVE  Receives(t, j, f, d)'
    BY DEF Reception
  <2>6. m.job = j /\ m.file = f /\ d = <<>>
    BY <1>5 DEF Receiving
  <2>7. Item(t, j, f, 0)
    BY <2>1, <2>6
  <2>8. Item(t, j, f, 0)'
    BY <1>1, <2>5, <2>6, <2>7, ItemTaken DEF Jobs
  <2>9. AtMost(j, f, -1)'
    <3>1. AtMost(j, f, 0)
      BY <2>3, <2>6
    <3> QED
      BY <1>1, <3>1, ConversationAssumption
      DEF AtMost, Reached, Takes, senderVars, jobVars, TypeInv, SenderTypes
  <2>10. \A i \in Parts(down'[t]) : Follows(down'[t][i], j, f, -1)
    <3>1. \A i \in Parts(down'[t]) : Follows(down'[t][i], j, f, 0)
      BY <2>4, <2>6
    <3>2. down'[t] \in Seq(Message)
      BY DEF TypeInv, NetTypes
    <3>3. \A i \in Parts(down'[t]) : Pos(down'[t][i]) \in Int
      BY <3>2, PartsTyped
    <3> QED
      BY <3>1, <3>3 DEF Follows, Before
  <2>11. Receives(t, j, f, <<>>)'
    BY <2>8, <2>9, <2>10, ReceivesFirst
  <2> QED
    BY <2>6, <2>11
<1> QED
  BY <1>1, <1>3, <1>4, <1>5 DEF OnFileStart

(* ... after a chunk is written or dropped, ...                            *)
LEMMA OnePathChunk ==
    ASSUME NEW t, Paths = {t}, OnePath(t), TypeInv', OnChunk(t)
    PROVE  OnePath(t)'
<1> USE DEF OnePath
<1>1. /\ Takes(t) /\ Head(down[t]).k = "chunk" /\ Head(down[t]) \in Message
      /\ UNCHANGED <<creating, saved, asking>> /\ up' = up
  <2>1. Incoming(t, {"chunk"}) /\ Take(t) /\ UNCHANGED senderVars
    BY DEF OnChunk
  <2> QED
    BY <2>1, TakesKinds DEF OnChunk
<1>2. Reception(t)'
  <2> SUFFICES ASSUME NEW j \in Jobs \ Picked, NEW f \in Nat, NEW e \in Seq(Message),
                      inbound'.job = j, inbound'.file = f, inbound'.data = e
      PROVE  Receives(t, j, f, e)'
    BY DEF Reception
  <2>1. j \in Nat /\ j # 0
    BY DEF Jobs
  <2>2. inbound # Nothing /\ inbound' = Write(inbound, Head(down[t]))
    BY <2>1 DEF OnChunk, Nothing
  <2>3. inbound \in Opened
    BY <2>2 DEF TypeInv, ReceiverTypes
  <2> PICK d \in Seq(Message) : d = inbound.data
    BY <2>3 DEF Opened
  <2>4. inbound.job = j /\ inbound.file = f /\ e = Append(d, Head(down[t]))
    BY <2>2, <2>3 DEF Write, Opened
  <2>5. Receives(t, j, f, d)
    BY <2>4 DEF Reception
  <2> QED
    BY <1>1, <2>1, <2>4, <2>5, ReceivesChunk
<1>3. Answers(t, 0)
  BY <1>1 DEF Answers
<1> QED
  BY <1>1, <1>2, <1>3, OnePathIgnores

(* When the end of the open item is taken, all of it has come.             *)
LEMMA WholeAtEnd ==
    ASSUME NEW t \in Paths, OnePath(t), down[t] # <<>>, Head(down[t]).k \in Closes,
           inbound.job = Head(down[t]).job, inbound.file = Head(down[t]).file,
           inbound.job \notin Picked
    PROVE  inbound.data = Content(inbound.job, inbound.file)
<1> USE DEF OnePath
<1>0. down[t] \in Seq(Message)
  BY DEF TypeInv, NetTypes
<1>1. Head(down[t]) = down[t][1] /\ 1 \in 1..Len(down[t]) /\ Head(down[t]) \in Message
  BY <1>0, HeadTailProperties, EmptySeq, LenProperties
<1>2. inbound.job \in Jobs /\ inbound.job # 0
  BY <1>1 DEF Message, Closes, Jobs
<1>3. inbound \in Opened
  BY <1>2 DEF TypeInv, ReceiverTypes, Nothing
<1>4. Receives(t, inbound.job, inbound.file, inbound.data)
  BY <1>2, <1>3 DEF Reception, Opened
<1>5. IsEnd(down[t][1], inbound.job, inbound.file)
  BY <1>1 DEF IsEnd
<1>6. Live(t, inbound.job, inbound.file)
  BY <1>1, <1>5 DEF Live
<1>7. Len(inbound.data) = Chunks
  <2>1. GoesOn(down[t], inbound.job, inbound.file, Len(inbound.data))
    BY <1>4 DEF Receives, Item
  <2>2. \A c : ~Earlier(down[t], c, 1)
    BY DEF Earlier
  <2> QED
    BY <1>1, <1>5, <2>1, <2>2 DEF GoesOn
<1> QED
  BY <1>4, <1>6, <1>7 DEF Receives, Content

(* ... after an item is closed, saved or not, ...                          *)
LEMMA OnePathEnds ==
    ASSUME NEW t, Paths = {t}, OnePath(t), TypeInv', OnEnd(t) \/ SinkFails(t)
    PROVE  OnePath(t)'
<1> USE DEF OnePath
<1>1. /\ Takes(t) /\ Head(down[t]).k \in Closes /\ Head(down[t]) \in Message
      /\ UNCHANGED <<creating, asking>> /\ down[t] # <<>>
  <2>1. /\ Incoming(t, {"fend", "dend"}) \/ Incoming(t, {"fend"})
        /\ Take(t) /\ UNCHANGED senderVars
    BY DEF OnEnd, SinkFails
  <2> QED
    BY <2>1, TakesKinds DEF OnEnd, SinkFails, Closes, Incoming
<1>2. Answers(t, 0)
  <2>1. CASE up' = up
    BY <2>1 DEF Answers
  <2>2. CASE Reply(t, Msg("received", Head(down[t]).job, Head(down[t]).file))
    <3>1. Head(down[t]).job \in Jobs /\ Head(down[t]).file \in Nat
      BY <1>1 DEF Message, Closes
    <3> QED
      BY <2>2, <3>1, ReplyAnswers, MessagesTyped DEF Msg
  <2> QED
    BY <2>1, <2>2 DEF OnEnd, SinkFails
<1>3. CASE inbound' = inbound /\ saved' = saved
  BY <1>1, <1>2, <1>3, OnePathIgnores DEF Closes
<1>a. inbound' = Nothing => Reception(t)'
  BY DEF Reception, Nothing, Jobs
<1>4. CASE inbound' = Nothing /\ saved' = saved
  BY <1>1, <1>2, <1>4, <1>a, OnePathIgnores
<1>5. CASE /\ inbound.job = Head(down[t]).job /\ inbound.file = Head(down[t]).file
           /\ inbound' = Nothing /\ saved' = saved \cup {Finished(inbound)}
  <2>1. inbound.job \notin Picked => inbound.data = Content(inbound.job, inbound.file)
    BY <1>1, <1>5, WholeAtEnd
  <2>2. Kept'
    BY <1>1, <1>5, <2>1 DEF Kept, Finished
  <2> QED
    BY <1>1, <1>2, <1>5, <1>a, <2>2, OnePathIgnores
<1> QED
  BY <1>3, <1>4, <1>5 DEF OnEnd, SinkFails

(* ... and after a text is shown.                                          *)
LEMMA OnePathText ==
    ASSUME NEW t, Paths = {t}, OnePath(t), TypeInv', OnText(t)
    PROVE  OnePath(t)'
<1>1. /\ Takes(t) /\ Head(down[t]).k = "text"
      /\ UNCHANGED <<creating, saved, asking, inbound>> /\ up' = up
  <2>1. Incoming(t, {"text"}) /\ Take(t) /\ UNCHANGED senderVars
    BY DEF OnText
  <2> QED
    BY <2>1, TakesKinds DEF OnText, OnePath
<1>2. Answers(t, 0)
  BY <1>1 DEF Answers
<1> QED
  BY <1>1, <1>2, OnePathIgnores

(* createWritable is done: the item is one streamed to a picked file.      *)
LEMMA OnePathWritable ==
    ASSUME NEW t \in Paths, OnePath(t), TypeInv', NEW r \in creating, WritableReady(r)
    PROVE  OnePath(t)'
<1> USE DEF OnePath
<1>1. /\ UNCHANGED senderVars /\ down' = down /\ up' = up /\ path' = path
      /\ UNCHANGED <<asking, saved>> /\ inbound' = r /\ creating' \subseteq creating
  BY DEF WritableReady, netVars
<1>2. r.job \in Picked
  BY DEF Kept
<1>3. Wire(t)' /\ Announced(t)' /\ Kept' /\ Reception(t)'
  BY <1>1, <1>2, WireTaken, AnnouncedTaken DEF Kept, Reception
<1>4. Questions(t)'
  BY <1>1 DEF Questions, Pending, Parts, senderVars, jobVars
<1> QED
  BY <1>3, <1>4

(* The receiver is told that the sender is gone.                           *)
LEMMA OnePathAborts ==
    ASSUME NEW t \in Paths, OnePath(t), TypeInv', ReceiverAborts
    PROVE  OnePath(t)'
<1> USE DEF OnePath
<1>1. /\ UNCHANGED senderVars /\ down'[t] = <<>> /\ up'[t] = <<>>
      /\ UNCHANGED <<asking, saved, creating>> /\ inbound' = Nothing
  BY DEF ReceiverAborts
<1>2. Wire(t)' /\ Announced(t)' /\ Kept'
  BY <1>1, WireTaken, AnnouncedTaken DEF Kept
<1>3. Reception(t)'
  BY <1>1 DEF Reception, Nothing, Jobs
<1>4. Questions(t)'
  <2>1. Parts(down'[t]) = {} /\ 1..Len(up'[t]) = {}
    BY <1>1, EmptySeq DEF Parts
  <2> QED
    BY <1>1, <2>1 DEF Questions, Pending, senderVars, jobVars
<1> QED
  BY <1>2, <1>3, <1>4

(* So every step keeps the invariant.                                      *)
LEMMA OnePathStep ==
    ASSUME NEW t, Paths = {t}, OnePath(t), [Next]_vars
    PROVE  OnePath(t)'
<1>0. TypeInv /\ TypeInv' /\ t \in Paths
  BY TypesStep DEF OnePath
<1>1. CASE UNCHANGED vars
  <2>1. UNCHANGED senderVars /\ UNCHANGED netVars /\ UNCHANGED receiverVars
    BY <1>1 DEF vars
  <2>2. Wire(t)' /\ Announced(t)' /\ Reception(t)'
    BY <1>0, <2>1, WireTaken, AnnouncedTaken, ReceptionKept DEF OnePath, netVars, receiverVars
  <2>3. Questions(t)' /\ Kept'
    BY <2>1 DEF OnePath, Questions, Pending, Parts, Kept, senderVars, jobVars, netVars, receiverVars
  <2> QED
    BY <1>0, <2>2, <2>3 DEF OnePath
<1>2. CASE \/ Begin \/ SendText \/ SenderStep \/ Timeouts
           \/ \E p \in Paths : FromReceiver(p) \/ Breaks(p)
           \/ DirectOpens \/ GoesMute \/ SenderAborts
  BY <1>0, <1>2, SendKinds, OnePathSent
<1>3. ASSUME NEW p \in Paths, FromSender(p) PROVE OnePath(t)'
  <2>1. p = t
    OBVIOUS
  <2> QED
    BY <1>0, <1>3, <2>1, OnePathAsks, OnePathDocStarts, OnePathFileStarts, OnePathChunk,
       OnePathEnds, OnePathText DEF FromSender
<1>4. CASE \E q \in asking : Accept(q) \/ Decline(q)
  BY <1>0, <1>4, OnePathAnswers
<1>5. CASE \E r \in creating : WritableReady(r)
  BY <1>0, <1>5, OnePathWritable
<1>6. CASE ReceiverAborts
  BY <1>0, <1>6, OnePathAborts
<1> QED
  BY <1>1, <1>2, <1>3, <1>4, <1>5, <1>6 DEF Next

(* Over one path, what the user is handed as an item is that item, whole   *)
(* and in order, whatever breaks, times out or is retried after; items     *)
(* streamed to a picked file are excepted (transfer.js:5-9, 175-177).      *)
THEOREM ItemsIntact ==
    ASSUME NEW t, Paths = {t}
    PROVE  Spec => [](\A r \in saved : r.job \notin Picked => r.data = Content(r.job, r.file))
<1>1. Init => OnePath(t)
  BY OnePathInit
<1>2. OnePath(t) /\ [Next]_vars => OnePath(t)'
  BY OnePathStep
<1>3. OnePath(t) => \A r \in saved : r.job \notin Picked => r.data = Content(r.job, r.file)
  BY DEF OnePath, Kept
<1> QED
  BY <1>1, <1>2, <1>3, PTL DEF Spec

(* So all that is saved is intact when no file is picked.                  *)
THEOREM AllIntact ==
    ASSUME NEW t, Paths = {t}, Picked = {}
    PROVE  Spec => []Integrity
<1>1. (\A r \in saved : r.job \notin Picked => r.data = Content(r.job, r.file)) => Integrity
  BY DEF Integrity
<1> QED
  BY <1>1, ItemsIntact, PTL

----------------------------------------------------------------------------
(* What is confirmed has been saved, unless the peer has left: then the    *)
(* confirmations waited for are taken as given.                            *)
IsSaved(j, f) == [job |-> j, file |-> f, data |-> Content(j, f)] \in saved
Left(t) == "leave" \in Faults /\ path[t] = "closed"

Confirmed(t) == \A j \in Jobs \ Picked, f \in Nat :
    /\ Msg("received", j, f) \in {up[t][i] : i \in 1..Len(up[t])} => IsSaved(j, f)
    /\ <<j, f>> \in done => IsSaved(j, f) \/ Left(t)

(* Every step keeps it, given the invariant over one path.                 *)
LEMMA ConfirmedStep ==
    ASSUME NEW t, Paths = {t}, OnePath(t), [Next]_vars, Confirmed(t)
    PROVE  Confirmed(t)'
<1>0. TypeInv /\ TypeInv' /\ t \in Paths
  BY TypesStep DEF OnePath
<1>a. SenderTypes /\ NetTypes /\ up[t] \in Seq(Message)
  BY <1>0 DEF TypeInv, NetTypes
<1> SUFFICES ASSUME NEW j \in Jobs \ Picked, NEW f \in Nat
    PROVE  /\ \A i \in 1..Len(up'[t]) : up'[t][i] = Msg("received", j, f) => IsSaved(j, f)'
           /\ <<j, f>> \in done' => IsSaved(j, f)' \/ Left(t)'
  BY DEF Confirmed
<1>b. /\ \A i \in 1..Len(up[t]) : up[t][i] = Msg("received", j, f) => IsSaved(j, f)
      /\ <<j, f>> \in done => IsSaved(j, f) \/ Left(t)
  BY DEF Confirmed
<1>c. Left(t) => Left(t)'
  <2>1. path[t] = "closed" => path'[t] = "closed"
    BY <1>a DEF Next, vars, senderVars, netVars, receiverVars, NetTypes,
            Begin, SendText, SenderStep, StartItem, PumpChunk, EndItem, SendFails,
            Timeouts, DecisionTimesOut, AckTimesOut, FromReceiver, ResolveDecision, ResolveAck,
            PopUp, FromSender, Ask, OnDocStart, OnFileStart, OnChunk, OnEnd, SinkFails, OnText,
            Take, Breaks, Accept, Decline, WritableReady, DirectOpens, GoesMute, ReceiverAborts,
            SenderAborts, AllClosed
  <2> QED
    BY <2>1 DEF Left
<1>1. CASE \/ Begin \/ SendText \/ SenderStep \/ Timeouts
           \/ \E p \in Paths : FromReceiver(p) \/ Breaks(p)
           \/ DirectOpens \/ GoesMute \/ SenderAborts
  <2>1. Sends(t)
    BY <1>0, <1>1, SendKinds
  <2>2. IsSaved(j, f)' <=> IsSaved(j, f)
    BY <2>1 DEF Sends, receiverVars, IsSaved
  <2>3. \A i \in 1..Len(up'[t]) : up'[t][i] = Msg("received", j, f) => IsSaved(j, f)'
    BY <1>b, <2>1, <2>2 DEF Sends
  <2>4. ASSUME <<j, f>> \in done', <<j, f>> \notin done
        PROVE  IsSaved(j, f) \/ Left(t)'
    <3>1. ItemDone
      BY <1>1, <2>4 DEF Begin, SendText, SenderStep, StartItem, PumpChunk, EndItem, SendFails,
            Timeouts, DecisionTimesOut, AckTimesOut, FromReceiver, ResolveDecision, ResolveAck,
            Breaks, DirectOpens, GoesMute, SenderAborts, JobFails, senderVars, jobVars
    <3>2. j = job /\ f = file
      BY <2>4, <3>1 DEF ItemDone
    <3>3. CASE SenderAborts
      BY <3>3 DEF SenderAborts, AllClosed, Left
    <3>4. ASSUME NEW p \in Paths, ResolveAck(p)
          PROVE  IsSaved(j, f)
      <4>1. Answer(t, {"received"}) /\ Head(up[t]).job = job /\ Head(up[t]).file = file
        BY <2>4, <3>4 DEF ResolveAck, senderVars, jobVars
      <4>2. Head(up[t]) = up[t][1] /\ 1 \in 1..Len(up[t]) /\ Head(up[t]) \in Message
        BY <1>a, <4>1, HeadTailProperties, EmptySeq, LenProperties DEF Answer
      <4>3. up[t][1] = Msg("received", j, f)
        BY <3>2, <4>1, <4>2 DEF Answer, Message, Msg
      <4> QED
        BY <1>b, <4>2, <4>3
    <3>5. CASE ~SenderAborts /\ \A p \in Paths : ~ResolveAck(p)
      BY <1>1, <2>4, <3>5 DEF Begin, SendText, SenderStep, StartItem, PumpChunk, EndItem,
            SendFails, Timeouts, DecisionTimesOut, AckTimesOut, FromReceiver, ResolveDecision,
            Breaks, DirectOpens, GoesMute, JobFails, senderVars, jobVars
    <3> QED
      BY <3>3, <3>4, <3>5
  <2> QED
    BY <1>b, <1>c, <2>2, <2>3, <2>4
<1>2. CASE \/ UNCHANGED vars
           \/ \E p \in Paths : FromSender(p)
           \/ \E q \in asking : Accept(q) \/ Decline(q)
           \/ \E r \in creating : WritableReady(r)
           \/ ReceiverAborts
  <2>1. done' = done
    BY <1>2 DEF vars, senderVars, jobVars, FromSender, Ask, OnDocStart, OnFileStart, OnChunk,
            OnEnd, SinkFails, OnText, Accept, Decline, WritableReady, ReceiverAborts
  <2>2. IsSaved(j, f) => IsSaved(j, f)'
    <3>1. saved \subseteq saved'
      BY <1>2 DEF vars, receiverVars, FromSender, Ask, OnDocStart, OnFileStart, OnChunk,
            OnEnd, SinkFails, OnText, Accept, Decline, WritableReady, ReceiverAborts
    <3> QED
      BY <3>1 DEF IsSaved
  <2>3. ASSUME NEW i \in 1..Len(up'[t]), up'[t][i] = Msg("received", j, f)
        PROVE  IsSaved(j, f)'
    <3>1. CASE up' = up \/ up'[t] = <<>>
      BY <1>b, <2>2, <2>3, <3>1, EmptySeq
    <3>2. ASSUME NEW m \in Message, Reply(t, m), m # Msg("received", j, f)
          PROVE  IsSaved(j, f)'
      <4>1. up'[t] = up[t] \/ Longer(up'[t], up[t], m)
        BY <1>a, <3>2, AppendIsLonger DEF Reply, NetTypes
      <4>2. CASE up'[t] = up[t]
        BY <1>b, <2>2, <2>3, <4>2
      <4>3. CASE Longer(up'[t], up[t], m)
        <5>1. i \in 1..Len(up[t]) /\ up[t][i] = up'[t][i]
          <6>1. (i \in 1..Len(up[t]) \/ i = Len(up'[t])) /\ up'[t][Len(up'[t])] = m
            BY <4>3, LongerParts
          <6> QED
            BY <2>3, <3>2, <4>3, <6>1 DEF Longer
        <5> QED
          BY <1>b, <2>2, <2>3, <5>1
      <4> QED
        BY <4>1, <4>2, <4>3
    <3>3. ASSUME NEW q \in asking, Accept(q) \/ Decline(q) PROVE IsSaved(j, f)'
      <4>1. q.job \in Jobs /\ q.via = t
        BY <1>0 DEF TypeInv, ReceiverTypes
      <4>2. Reply(t, Msg("accept", q.job, 1)) \/ Reply(t, Msg("decline", q.job, 1))
        BY <3>3, <4>1 DEF Accept, Decline
      <4> QED
        BY <3>2, <4>1, <4>2, MessagesTyped DEF Msg
    <3>4. ASSUME OnDocStart(t) PROVE IsSaved(j, f)'
      <4>1. Incoming(t, {"dstart"}) /\ Take(t) /\ UNCHANGED senderVars
        BY <3>4 DEF OnDocStart
      <4>2. Head(down[t]).job \in Jobs
        BY <1>0, <4>1, TakesKinds DEF Message
      <4> QED
        BY <3>2, <3>4, <4>2, MessagesTyped DEF OnDocStart, Msg
    <3>5. ASSUME OnEnd(t) PROVE IsSaved(j, f)'
      <4>1. Incoming(t, {"fend", "dend"}) /\ Take(t) /\ UNCHANGED senderVars
        BY <3>5 DEF OnEnd
      <4>2. Head(down[t]).job \in Jobs /\ Head(down[t]).file \in Nat
            /\ down[t] # <<>> /\ Head(down[t]).k \in Closes
        BY <1>0, <4>1, TakesKinds DEF Message, Incoming, Closes
      <4>3. CASE UNCHANGED up
        BY <3>1, <4>3
      <4>4. CASE /\ inbound.job = Head(down[t]).job /\ inbound.file = Head(down[t]).file
                 /\ saved' = saved \cup {Finished(inbound)}
                 /\ Reply(t, Msg("received", Head(down[t]).job, Head(down[t]).file))
        <5>1. CASE j = Head(down[t]).job /\ f = Head(down[t]).file
          <6>1. inbound.data = Content(j, f)
            BY <1>0, <4>2, <4>4, <5>1, WholeAtEnd
          <6> QED
            BY <4>4, <5>1, <6>1 DEF IsSaved, Finished
        <5>2. CASE ~(j = Head(down[t]).job /\ f = Head(down[t]).file)
          BY <3>2, <4>2, <4>4, <5>2, MessagesTyped DEF Msg
        <5> QED
          BY <5>1, <5>2
      <4> QED
        BY <3>5, <4>3, <4>4 DEF OnEnd
    <3>6. CASE \E p \in Paths : FromSender(p)
      BY <3>1, <3>4, <3>5, <3>6 DEF FromSender, Ask, OnFileStart, OnChunk, SinkFails, OnText
    <3>7. CASE UNCHANGED vars \/ (\E r \in creating : WritableReady(r)) \/ ReceiverAborts
      BY <3>1, <3>7 DEF vars, netVars, WritableReady, ReceiverAborts
    <3> QED
      BY <1>2, <3>3, <3>6, <3>7
  <2> QED
    BY <1>b, <1>c, <2>1, <2>2, <2>3
<1> QED
  BY <1>1, <1>2 DEF Next

(* Over one path, an item shown to the sender as transferred has been      *)
(* saved, whole, unless the peer was reported gone (transfer.js:284-292,   *)
(* 344-351).                                                               *)
THEOREM ConfirmedIsSaved ==
    ASSUME NEW t, Paths = {t}
    PROVE  Spec => [](\A j \in Jobs \ Picked, f \in Nat :
                        <<j, f>> \in done => IsSaved(j, f) \/ Left(t))
<1>1. Init => OnePath(t) /\ Confirmed(t)
  <2>1. Init => Confirmed(t)
    BY EmptySeq DEF Init, Confirmed
  <2> QED
    BY <2>1, OnePathInit
<1>2. OnePath(t) /\ Confirmed(t) /\ [Next]_vars => (OnePath(t) /\ Confirmed(t))'
  BY OnePathStep, ConfirmedStep
<1>3. Confirmed(t) => \A j \in Jobs \ Picked, f \in Nat :
                        <<j, f>> \in done => IsSaved(j, f) \/ Left(t)
  BY DEF Confirmed
<1> QED
  BY <1>1, <1>2, <1>3, PTL DEF Spec

(* So what is shown as sent is saved while nobody leaves.                  *)
THEOREM SentIsSaved ==
    ASSUME NEW t, Paths = {t}, Picked = {}, "leave" \notin Faults
    PROVE  Spec => []SentMeansSaved
<1>1. TypeOK /\ (\A j \in Jobs \ Picked, f \in Nat :
          <<j, f>> \in done => IsSaved(j, f) \/ Left(t)) => SentMeansSaved
  BY DEF TypeOK, SentMeansSaved, IsSaved, Left
<1> QED
  BY <1>1, TypeCorrect, ConfirmedIsSaved, PTL

----------------------------------------------------------------------------
(* Texts: those on the wire are in order and without gaps after the n      *)
(* shown, up to the last one sent unless the path has lost some.           *)
ChatOn(s, n, sent) ==
    /\ n <= sent
    /\ \A i, k \in 1..Len(s) : i < k /\ s[i].k = "text" /\ s[k].k = "text" => s[i].file < s[k].file
    /\ \A i \in 1..Len(s) : s[i].k = "text" =>
         /\ n < s[i].file /\ s[i].file <= sent
         /\ s[i].file = n + 1 \/ Earlier(s, Text(s[i].file - 1), i)

CaughtUp(s, n, sent) == sent = n \/ OnWire(s, Text(sent))

Chat(t) ==
    /\ ChatOn(down[t], Len(shown), texts)
    /\ Whole(t) => CaughtUp(down[t], Len(shown), texts)
    /\ TextsInOrder

(* A cut, a send and a delivery keep it so.                                *)
LEMMA ChatPrefix ==
    ASSUME NEW s \in Seq(Message), NEW u, Prefix(u, s), NEW n, NEW sent,
           ChatOn(s, n, sent)
    PROVE  ChatOn(u, n, sent)
<1>1. Len(s) \in Nat /\ Len(u) \in Nat /\ Len(u) <= Len(s) /\ \A i \in 1..Len(u) : u[i] = s[i]
  BY LenProperties DEF Prefix
<1>2. \A i \in 1..Len(u) : i \in 1..Len(s)
  BY <1>1
<1>3. ASSUME NEW i \in 1..Len(u), NEW m, Earlier(s, m, i) PROVE Earlier(u, m, i)
  BY <1>1, <1>3 DEF Earlier
<1> QED
  BY <1>1, <1>2, <1>3 DEF ChatOn

(* A text on the wire carries its number.                                  *)
LEMMA TextsTyped ==
    ASSUME NEW s \in Seq(Message), NEW i \in 1..Len(s), s[i].k = "text"
    PROVE  s[i].file \in Nat /\ s[i] = Text(s[i].file)
<1>1. s[i] \in Message
  BY ElementOfSeq
<1>2. s[i] \in [k : {"text"}, job : {0}, file : 1..MaxTexts]
  BY <1>1 DEF Message
<1> QED
  BY <1>2 DEF Text, Msg

(* Pushing the next text, or anything that is none, keeps the order.       *)
LEMMA ChatPush ==
    ASSUME NEW s \in Seq(Message), NEW u, NEW m, Longer(u, s, m), NEW n \in Nat, NEW sent \in Nat,
           ChatOn(s, n, sent),
           NEW sent2, \/ m.k # "text" /\ sent2 = sent
                      \/ CaughtUp(s, n, sent) /\ sent2 = sent + 1 /\ m = Text(sent2)
    PROVE  /\ ChatOn(u, n, sent2)
           /\ CaughtUp(s, n, sent) => CaughtUp(u, n, sent2)
<1>0. /\ Len(s) \in Nat /\ Len(u) = Len(s) + 1 /\ u[Len(u)] = m
      /\ \A i \in 1..Len(s) : u[i] = s[i] /\ i \in 1..Len(u) /\ i < Len(u)
      /\ Len(u) \in 1..Len(u)
  BY DEF Longer
<1>1. \A i \in 1..Len(u) : i \in 1..Len(s) \/ i = Len(u)
  BY <1>0
<1>2. ASSUME NEW i \in 1..Len(s), NEW c, Earlier(s, c, i) PROVE Earlier(u, c, i)
  BY <1>0, <1>2 DEF Earlier
<1>3. ASSUME NEW c, OnWire(s, c) PROVE OnWire(u, c) /\ Earlier(u, c, Len(u))
  BY <1>0, <1>3 DEF Earlier, OnWire
<1>4. CASE m.k # "text" /\ sent2 = sent
  BY <1>0, <1>1, <1>2, <1>3, <1>4 DEF ChatOn, CaughtUp
<1>5. CASE CaughtUp(s, n, sent) /\ sent2 = sent + 1 /\ m = Text(sent2)
  <2>1. m.k = "text" /\ m.file = sent + 1
    BY <1>5 DEF Text, Msg
  <2>2. OnWire(u, Text(sent2))
    BY <1>0, <1>5 DEF OnWire
  <2>3. m.file = n + 1 \/ Earlier(u, Text(m.file - 1), Len(u))
    <3>1. sent = n \/ OnWire(s, Text(sent))
      BY <1>5 DEF CaughtUp
    <3>2. m.file - 1 = sent
      BY <2>1
    <3> QED
      BY <1>3, <2>1, <3>1, <3>2
  <2>4. \A i \in 1..Len(s) : s[i].k = "text" =>
          s[i].file \in Nat /\ s[i].file <= sent /\ n < s[i].file
    BY TextsTyped DEF ChatOn
  <2>5. n <= sent2 /\ n < m.file /\ m.file <= sent2
    BY <1>5, <2>1 DEF ChatOn
  <2>6. ASSUME NEW i \in 1..Len(u), u[i].k = "text"
        PROVE  /\ n < u[i].file /\ u[i].file <= sent2
               /\ (u[i].file = n + 1 \/ Earlier(u, Text(u[i].file - 1), i))
    <3>1. CASE i = Len(u)
      BY <1>0, <2>3, <2>5, <3>1
    <3>2. CASE i \in 1..Len(s)
      <4>1. /\ u[i] = s[i] /\ n < s[i].file /\ s[i].file <= sent
            /\ s[i].file = n + 1 \/ Earlier(s, Text(s[i].file - 1), i)
        BY <1>0, <2>6, <3>2 DEF ChatOn
      <4>2. s[i].file \in Nat /\ s[i].file <= sent2
        BY <1>0, <1>5, <2>4, <2>6, <3>2
      <4>3. u[i].file = n + 1 \/ Earlier(u, Text(u[i].file - 1), i)
        BY <1>2, <3>2, <4>1
      <4> QED
        BY <4>1, <4>2, <4>3
    <3> QED
      BY <1>1, <3>1, <3>2
  <2>7. ASSUME NEW i \in 1..Len(u), NEW k \in 1..Len(u), i < k, u[i].k = "text", u[k].k = "text"
        PROVE  u[i].file < u[k].file
    <3>1. i \in 1..Len(s) /\ u[i] = s[i]
      BY <1>0, <1>1, <2>7
    <3>2. CASE k = Len(u)
      BY <1>0, <2>1, <2>4, <2>7, <3>1, <3>2
    <3>3. CASE k \in 1..Len(s)
      BY <1>0, <2>7, <3>1, <3>3 DEF ChatOn
    <3> QED
      BY <1>1, <3>2, <3>3
  <2> QED
    BY <2>2, <2>5, <2>6, <2>7 DEF ChatOn, CaughtUp
<1> QED
  BY <1>4, <1>5

(* A delivered text is the next one, and what follows goes on from it.     *)
LEMMA ChatPop ==
    ASSUME NEW s \in Seq(Message), s # <<>>, NEW n \in Nat, NEW sent \in Nat,
           ChatOn(s, n, sent)
    PROVE  /\ Head(s).k # "text" =>
                /\ ChatOn(Tail(s), n, sent)
                /\ CaughtUp(s, n, sent) => CaughtUp(Tail(s), n, sent)
           /\ Head(s).k = "text" =>
                /\ Head(s).file = n + 1
                /\ ChatOn(Tail(s), n + 1, sent)
                /\ CaughtUp(s, n, sent) => CaughtUp(Tail(s), n + 1, sent)
<1> DEFINE u == Tail(s)
<1>0. /\ u \in Seq(Message) /\ Len(u) = Len(s) - 1 /\ Len(s) \in Nat /\ Len(u) \in Nat
      /\ \A i \in 1..Len(u) : u[i] = s[i + 1]
      /\ Head(s) = s[1] /\ 1 \in 1..Len(s) /\ s[1] \in Message
  BY HeadTailProperties, LenProperties, EmptySeq, ElementOfSeq
<1>t. \A i \in 1..Len(s) : s[i].k = "text" => s[i].file \in Nat /\ s[i] = Text(s[i].file)
  BY TextsTyped
<1> HIDE DEF u
<1>1. \A i \in 1..Len(u) : i + 1 \in 1..Len(s) /\ u[i] = s[i + 1] /\ 1 < i + 1
  BY <1>0
<1>2. ASSUME NEW i \in 1..Len(u), NEW c, Earlier(s, c, i + 1) PROVE Earlier(u, c, i) \/ c = s[1]
  <2>1. PICK k \in 1..Len(s) : k < i + 1 /\ s[k] = c
    BY <1>2 DEF Earlier
  <2>2. CASE k # 1
    <3>1. k - 1 \in 1..Len(u) /\ u[k - 1] = s[k] /\ k - 1 < i
      BY <1>0, <2>1, <2>2
    <3> QED
      BY <2>1, <3>1 DEF Earlier
  <2> QED
    BY <2>1, <2>2
<1>3. ASSUME NEW c, OnWire(s, c) PROVE OnWire(u, c) \/ c = s[1]
  <2>1. PICK k \in 1..Len(s) : s[k] = c
    BY <1>3 DEF OnWire
  <2>2. CASE k # 1
    <3>1. k - 1 \in 1..Len(u) /\ u[k - 1] = s[k]
      BY <1>0, <2>1, <2>2
    <3> QED
      BY <2>1, <3>1 DEF OnWire
  <2> QED
    BY <2>1, <2>2
<1>4. \A i, k \in 1..Len(u) : i < k /\ u[i].k = "text" /\ u[k].k = "text" => u[i].file < u[k].file
  <2> SUFFICES ASSUME NEW i \in 1..Len(u), NEW k \in 1..Len(u), i < k,
                      u[i].k = "text", u[k].k = "text"
      PROVE  u[i].file < u[k].file
    OBVIOUS
  <2>1. i + 1 < k + 1
    OBVIOUS
  <2> QED
    BY <1>1, <2>1 DEF ChatOn
<1>5. ASSUME NEW i \in 1..Len(u), u[i].k = "text"
      PROVE  /\ u[i].file \in Nat /\ n < u[i].file /\ u[i].file <= sent
             /\ \/ u[i].file = n + 1 \/ Earlier(u, Text(u[i].file - 1), i)
                \/ Text(u[i].file - 1) = s[1]
             /\ s[1].k = "text" => s[1].file < u[i].file
  <2>1. i + 1 \in 1..Len(s) /\ u[i] = s[i + 1] /\ 1 < i + 1
    BY <1>1
  <2>2. /\ n < s[i + 1].file /\ s[i + 1].file <= sent
        /\ s[i + 1].file = n + 1 \/ Earlier(s, Text(s[i + 1].file - 1), i + 1)
        /\ s[1].k = "text" => s[1].file < s[i + 1].file
    BY <1>0, <1>5, <2>1 DEF ChatOn
  <2> QED
    BY <1>t, <1>2, <1>5, <2>1, <2>2
<1>6. \A x : Text(x).k = "text" /\ Text(x).file = x
  BY DEF Text, Msg
<1>7. CASE Head(s).k # "text"
  <2>1. CaughtUp(s, n, sent) => CaughtUp(u, n, sent)
    BY <1>0, <1>3, <1>6, <1>7 DEF CaughtUp
  <2>2. \A i \in 1..Len(u) : u[i].k = "text" =>
         /\ n < u[i].file /\ u[i].file <= sent
         /\ u[i].file = n + 1 \/ Earlier(u, Text(u[i].file - 1), i)
    BY <1>0, <1>5, <1>6, <1>7
  <2>3. ChatOn(u, n, sent)
    BY <1>4, <2>2 DEF ChatOn
  <2> QED
    BY <1>7, <2>1, <2>3 DEF u
<1>8. CASE Head(s).k = "text"
  <2>1. s[1].file = n + 1 /\ n + 1 <= sent
    <3>1. ~Earlier(s, Text(s[1].file - 1), 1)
      BY DEF Earlier
    <3>2. s[1].file = n + 1 /\ s[1].file <= sent
      BY <1>0, <1>8, <3>1 DEF ChatOn
    <3> QED
      BY <3>2
  <2>2. CaughtUp(s, n, sent) => CaughtUp(u, n + 1, sent)
    <3> SUFFICES ASSUME CaughtUp(s, n, sent), sent # n + 1 PROVE OnWire(u, Text(sent))
      BY DEF CaughtUp
    <3>1. OnWire(s, Text(sent))
      BY <2>1 DEF CaughtUp
    <3>2. Text(sent) # s[1]
      BY <1>6, <2>1
    <3> QED
      BY <1>3, <3>1, <3>2
  <2>3. ASSUME NEW i \in 1..Len(u), u[i].k = "text"
        PROVE  /\ n + 1 < u[i].file /\ u[i].file <= sent
               /\ u[i].file = n + 2 \/ Earlier(u, Text(u[i].file - 1), i)
    <3>1. /\ u[i].file \in Nat /\ n + 1 < u[i].file /\ u[i].file <= sent
          /\ Earlier(u, Text(u[i].file - 1), i) \/ Text(u[i].file - 1) = s[1]
      BY <1>0, <1>5, <1>8, <2>1, <2>3
    <3>2. CASE Text(u[i].file - 1) = s[1]
      <4>1. u[i].file - 1 = n + 1
        BY <1>6, <2>1, <3>2
      <4> QED
        BY <3>1, <4>1
    <3> QED
      BY <3>1, <3>2
  <2>4. ChatOn(u, n + 1, sent)
    BY <1>4, <2>1, <2>3 DEF ChatOn
  <2> QED
    BY <1>0, <1>8, <2>1, <2>2, <2>4 DEF u
<1> QED
  BY <1>7, <1>8

(* Every step of the sender or of the path keeps the chat.                 *)
LEMMA ChatSent ==
    ASSUME NEW t \in Paths, TypeInv, TypeInv', Sends(t), Chat(t)
    PROVE  Chat(t)'
<1> DEFINE s == down[t]  u == down'[t]  n == Len(shown)
<1>0. /\ s \in Seq(Message) /\ u \in Seq(Message) /\ n \in Nat /\ texts \in Nat
      /\ shown' = shown /\ (Whole(t)' => Whole(t))
      /\ texts' \in Nat /\ texts' <= MaxTexts
  BY LenProperties, ConversationAssumption
  DEF TypeInv, NetTypes, SenderTypes, ReceiverTypes, Sends, receiverVars
<1>1. ChatOn(s, n, texts) /\ (Whole(t) => CaughtUp(s, n, texts)) /\ TextsInOrder
  BY DEF Chat
<1>2. (ChatOn(u, n, texts') /\ (Whole(t)' => CaughtUp(u, n, texts'))) => Chat(t)'
  <2>1. TextsInOrder'
    BY <1>0, <1>1 DEF TextsInOrder
  <2> QED
    BY <1>0, <2>1 DEF Chat
<1> HIDE DEF s, u, n
<1>3. CASE Chats(t)
  <2>1. texts' = texts + 1
    BY <1>3 DEF Chats
  <2>2. CASE Drops(t)
    <3>1. u = s /\ ~Whole(t)'
      BY <2>2 DEF Drops, s, u
    <3>2. \A i \in 1..Len(s) : s[i].k = "text" => s[i].file \in Nat
      BY <1>0, TextsTyped
    <3>3. ChatOn(s, n, texts')
      BY <1>0, <1>1, <2>1, <3>2 DEF ChatOn
    <3> QED
      BY <1>2, <3>1, <3>3
  <2>3. CASE Pushes(t, Text(texts + 1))
    <3>1. Text(texts + 1) \in Message
      <4>1. texts + 1 \in 1..MaxTexts
        BY <1>0, <2>1
      <4> QED
        BY <4>1, MessagesTyped DEF Text, Msg
    <3>2. Longer(u, s, Text(texts + 1)) /\ Whole(t)
      BY <1>0, <2>3, <3>1, AppendIsLonger DEF Pushes, Whole, s, u
    <3>3. ChatOn(u, n, texts') /\ CaughtUp(u, n, texts')
      BY <1>0, <1>1, <2>1, <3>2, ChatPush
    <3> QED
      BY <1>2, <3>3
  <2> QED
    BY <1>3, <2>2, <2>3 DEF Chats
<1>4. CASE ~Chats(t)
  <2>1. texts' = texts
    BY <1>4 DEF Sends, Rests, Stops, Announces, GetsAccept, Starts, Pumps, Ends, Advances
  <2>2. CASE u = s
    BY <1>0, <1>1, <1>2, <2>1, <2>2
  <2>3. CASE ~Whole(t)' /\ Prefix(u, s)
    BY <1>0, <1>1, <1>2, <2>1, <2>3, ChatPrefix
  <2>4. ASSUME NEW m \in Message, JobPush(t, m), Longer(u, s, m) PROVE Chat(t)'
    <3>1. m.k # "text"
      BY <2>4, PushesFollow
    <3>2. ChatOn(u, n, texts) /\ (CaughtUp(s, n, texts) => CaughtUp(u, n, texts))
      BY <1>0, <1>1, <2>4, <3>1, ChatPush
    <3> QED
      BY <1>0, <1>1, <1>2, <2>1, <3>2
  <2> QED
    BY <1>4, <2>2, <2>3, <2>4, WireKinds DEF Keeps, s, u
<1> QED
  BY <1>3, <1>4

(* Every step of the whole keeps it.                                       *)
LEMMA ChatStep ==
    ASSUME NEW t, Paths = {t}, TypeInv, [Next]_vars, Chat(t)
    PROVE  Chat(t)'
<1> DEFINE s == down[t]  u == down'[t]  n == Len(shown)
<1>0. /\ TypeInv' /\ t \in Paths /\ s \in Seq(Message)
      /\ n \in Nat /\ texts \in Nat /\ shown \in Seq(1..MaxTexts)
  BY TypesStep, LenProperties, ConversationAssumption
  DEF TypeInv, NetTypes, SenderTypes, ReceiverTypes
<1>1. ChatOn(s, n, texts) /\ (Whole(t) => CaughtUp(s, n, texts)) /\ TextsInOrder
  BY DEF Chat
<1>2. CASE \/ Begin \/ SendText \/ SenderStep \/ Timeouts
           \/ \E p \in Paths : FromReceiver(p) \/ Breaks(p)
           \/ DirectOpens \/ GoesMute \/ SenderAborts
  BY <1>0, <1>2, SendKinds, ChatSent
<1>3. CASE /\ UNCHANGED senderVars /\ down' = down /\ path' = path /\ shown' = shown
  BY <1>3 DEF Chat, TextsInOrder, senderVars, Whole
<1>4. ASSUME Takes(t), shown' = shown, Head(s).k # "text"
      PROVE  Chat(t)'
  <2>1. s # <<>> /\ u = Tail(s) /\ texts' = texts /\ (Whole(t)' <=> Whole(t))
    BY <1>4 DEF Takes, senderVars, Whole
  <2>2. ChatOn(Tail(s), n, texts) /\ (CaughtUp(s, n, texts) => CaughtUp(Tail(s), n, texts))
    BY <1>0, <1>1, <1>4, <2>1, ChatPop
  <2> QED
    BY <1>1, <1>4, <2>1, <2>2 DEF Chat, TextsInOrder
<1>5. ASSUME Takes(t), Head(s).k = "text", shown' = Append(shown, Head(s).file)
      PROVE  Chat(t)'
  <2>1. s # <<>> /\ u = Tail(s) /\ texts' = texts /\ (Whole(t)' <=> Whole(t))
    BY <1>5 DEF Takes, senderVars, Whole
  <2>2. /\ Head(s).file = n + 1 /\ ChatOn(Tail(s), n + 1, texts)
        /\ CaughtUp(s, n, texts) => CaughtUp(Tail(s), n + 1, texts)
    BY <1>0, <1>1, <1>5, <2>1, ChatPop
  <2>3. Head(s).file \in 1..MaxTexts
    <3>1. Head(s) \in Message
      BY <1>0, <2>1, HeadTailProperties
    <3>2. Head(s) \in [k : {"text"}, job : {0}, file : 1..MaxTexts]
      BY <1>5, <3>1 DEF Message
    <3> QED
      BY <3>2
  <2>4. Len(shown') = n + 1 /\ shown'[n + 1] = n + 1 /\ \A i \in 1..n : shown'[i] = shown[i]
    BY <1>0, <1>5, <2>2, <2>3, AppendProperties
  <2>5. TextsInOrder'
    BY <1>0, <1>1, <2>4 DEF TextsInOrder
  <2> QED
    BY <1>1, <2>1, <2>2, <2>4, <2>5 DEF Chat
<1>6. ASSUME NEW p \in Paths, FromSender(p) PROVE Chat(t)'
  <2>1. CASE OnText(p)
    <3>1. Incoming(p, {"text"}) /\ Take(p) /\ UNCHANGED senderVars
          /\ shown' = Append(shown, Head(down[p]).file)
      BY <2>1 DEF OnText
    <3>2. p = t /\ Takes(t) /\ Head(down[t]).k \in {"text"}
      BY <3>1, TakesKinds
    <3> QED
      BY <1>5, <3>1, <3>2
  <2>2. ASSUME NEW kinds, Incoming(p, kinds), Take(p), UNCHANGED senderVars, shown' = shown,
               "text" \notin kinds
        PROVE  Chat(t)'
    <3>1. p = t /\ Takes(t) /\ Head(down[t]).k \in kinds
      BY <2>2, TakesKinds
    <3> QED
      BY <1>4, <2>2, <3>1
  <2>3. CASE Ask(p)
    BY <2>2, <2>3 DEF Ask
  <2>4. CASE OnDocStart(p) \/ OnFileStart(p)
    BY <2>2, <2>4 DEF OnDocStart, OnFileStart
  <2>5. CASE OnChunk(p) \/ OnEnd(p) \/ SinkFails(p)
    BY <2>2, <2>5 DEF OnChunk, OnEnd, SinkFails
  <2> QED
    BY <1>6, <2>1, <2>3, <2>4, <2>5 DEF FromSender
<1>7. CASE ReceiverAborts
  <2>1. /\ u = <<>> /\ path'[t] = "closed" /\ shown' = shown /\ texts' = texts
    BY <1>7 DEF ReceiverAborts, senderVars
  <2>2. ~Whole(t)' /\ 1..Len(u) = {}
    BY <2>1, EmptySeq DEF Whole
  <2>3. ChatOn(u, n, texts)
    BY <1>1, <2>2 DEF ChatOn
  <2> QED
    BY <1>1, <2>1, <2>2, <2>3 DEF Chat, TextsInOrder
<1>8. CASE (\E q \in asking : Accept(q) \/ Decline(q)) \/ (\E r \in creating : WritableReady(r))
           \/ UNCHANGED vars
  BY <1>3, <1>8 DEF Accept, Decline, WritableReady, vars, netVars, receiverVars
<1> QED
  BY <1>2, <1>6, <1>7, <1>8 DEF Next

(* Over one path, text messages are shown once and in order, without gaps, *)
(* whatever job runs beside them and whatever goes wrong                   *)
(* (transfer.js:210-213, 421).                                             *)
THEOREM TextsOrdered ==
    ASSUME NEW t, Paths = {t}
    PROVE  Spec => []TextsInOrder
<1>1. Init => TypeInv /\ Chat(t)
  <2>1. Init => Chat(t)
    BY EmptySeq DEF Init, Chat, ChatOn, CaughtUp, TextsInOrder
  <2> QED
    BY <2>1, TypesInit
<1>2. TypeInv /\ Chat(t) /\ [Next]_vars => (TypeInv /\ Chat(t))'
  BY TypesStep, ChatStep
<1>3. Chat(t) => TextsInOrder
  BY DEF Chat
<1> QED
  BY <1>1, <1>2, <1>3, PTL DEF Spec

----------------------------------------------------------------------------
(***************************************************************************)
(* Any paths, as long as no job failed.  A job begins when all of the one  *)
(* before it was confirmed, so there is only one item on the wires, on the *)
(* path its job holds, whatever other path opens meanwhile.                *)
(***************************************************************************)
Msgs(s) == {m \in Queued(s) : m.k # "text"}

(* No item is open but one that streams to a picked file; nothing is under *)
(* way; every path is closed.                                              *)
Free  == inbound = Nothing \/ inbound.job \in Picked
Bare  == \A t \in Paths : Msgs(down[t]) = {}
Clear == Bare /\ Free
Gone  == \A t \in Paths : path[t] = "closed"

(* A document that was accepted and nothing more.                          *)
Fresh == inbound.job = job /\ IsDoc(job) /\ inbound.file = 1 /\ inbound.data = <<>>

(* A message of what the sender is at.                                     *)
Mine(m) ==
    /\ phase \in {"decide", "pump", "ack"} /\ m.job = job
    /\ phase = "decide" => m.k \in Opens /\ m.file = 1
    /\ phase # "decide" => m.k \notin Opens /\ m.file = file

Placed(t, m) ==
    /\ t = via /\ AtMost(m.job, m.file, Pos(m))
    /\ m.k = "chunk" => m.at \in 1..Chunks
    /\ phase = "decide" \/ ~Gone => Mine(m)
    /\ m.k \in Opens => phase = "decide"
    /\ m.k = "fstart" => Free /\ GoesOn(down[t], m.job, m.file, 0)

Lines == \A t \in Paths :
    /\ Ordered(down[t])
    /\ \A m \in Msgs(down[t]) :
         Placed(t, m) /\ \A o \in Msgs(down[t]) : o.job = m.job /\ o.file = m.file

(* What r has are the first chunks of its item, and s has only the others. *)
Filled(r) == r.data = [k \in 1..Len(r.data) |-> Chunk(r.job, r.file, k)]
Rest(s, r) ==
    /\ GoesOn(s, r.job, r.file, Len(r.data))
    /\ \A m \in Msgs(s) : m.job = r.job /\ m.file = r.file

Holds == ~Free => Filled(inbound) /\ \A t \in Paths : Rest(down[t], inbound)

(* The question and its answer; the item that is open is the one that the  *)
(* sender is at, and has all it sent.                                      *)
Question ==
    /\ phase # "decide" => asking = {}
    /\ phase = "decide" =>
         /\ ~Bare => asking = {} /\ Free
         /\ \A q \in asking : asking = {q} /\ q.job = job /\ Free
         /\ ~Free => Fresh

Level(n) == offset = n \/ Chunk(job, file, offset) \in Msgs(down[via])
Current ==
    /\ ~Gone /\ ~Free =>
         /\ phase # "idle"
         /\ phase = "next" => Fresh /\ file = 1
         /\ phase \in {"pump", "ack"} => inbound.job = job /\ inbound.file = file
    /\ ~Gone /\ phase = "pump" /\ Whole(via) =>
         /\ ~Free => Level(Len(inbound.data))
         /\ \A m \in Msgs(down[via]) : m.k = "fstart" => Level(0)

(* What was answered is true.                                              *)
Truly(m) ==
    /\ m.k = "accept" => m.job <= job /\ (phase = "decide" /\ m.job = job => asking = {} /\ Bare)
    /\ m.k = "received" => /\ AtMost(m.job, m.file, Chunks + 1)
                           /\ phase = "ack" /\ m.job = job /\ m.file = file => Clear
Replies == \A t \in Paths : \A m \in Queued(up[t]) : Truly(m)

OneJob == Lines /\ Holds /\ Question /\ Current /\ Replies /\ Kept

(* It holds at first.                                                      *)
LEMMA OneJobInit == Init => OneJob
<1> SUFFICES ASSUME Init PROVE OneJob
  OBVIOUS
<1>1. Queued(<<>>) = {} /\ Msgs(<<>>) = {} /\ Parts(<<>>) = {} /\ Ordered(<<>>)
  BY EmptySeq DEF Queued, Msgs, Parts, Ordered
<1>2. Bare /\ Free /\ asking = {} /\ phase = "idle"
  BY <1>1 DEF Init, Bare, Free
<1>3. Lines
  BY <1>1 DEF Init, Lines
<1>4. Replies
  BY <1>1 DEF Init, Replies
<1> QED
  BY <1>2, <1>3, <1>4 DEF Init, OneJob, Holds, Question, Current, Kept

----------------------------------------------------------------------------
(* Messages of jobs.                                                       *)
LEMMA MsgsTyped ==
    ASSUME NEW s \in Seq(Message), NEW m \in Msgs(s)
    PROVE  /\ m \in Message /\ m.job \in Jobs /\ m.job \in Int /\ m.file \in Nat
           /\ Pos(m) \in Int
           /\ \E i \in Parts(s) : s[i] = m
<1>1. PICK i \in 1..Len(s) : s[i] = m /\ m.k # "text"
  BY DEF Msgs, Queued
<1>2. i \in Parts(s)
  BY <1>1 DEF Parts
<1>3. m \in Message
  BY <1>1, ElementOfSeq
<1> QED
  BY <1>1, <1>2, <1>3, PartsTyped DEF Message, Jobs

(* The part at an index is one.                                            *)
LEMMA PartIsMsg ==
    ASSUME NEW s, NEW i \in Parts(s)
    PROVE  s[i] \in Msgs(s)
  BY DEF Parts, Msgs, Queued

(* A queue that lost messages of jobs, none of them out of its middle.     *)
Thins(u, s) ==
    /\ Ordered(s) => Ordered(u)
    /\ Msgs(u) \subseteq Msgs(s)
    /\ \A j, f, n : GoesOn(s, j, f, n) => GoesOn(u, j, f, n)
Lasts(u, s) == \A m \in Msgs(s) : m.k = "chunk" => m \in Msgs(u)

(* So it does when what is taken is no chunk, ...                          *)
LEMMA ThinTail ==
    ASSUME NEW s \in Seq(Message), s # <<>>, Head(s).k # "chunk"
    PROVE  Thins(Tail(s), s) /\ Lasts(Tail(s), s)
<1>1. Ordered(s) => Ordered(Tail(s))
  BY TailKeeps
<1>2. \A j, f, n : GoesOn(s, j, f, n) => GoesOn(Tail(s), j, f, n)
  BY TailKeeps DEF IsChunk
<1>3. Msgs(Tail(s)) \subseteq Msgs(s) /\ Msgs(s) \subseteq Msgs(Tail(s)) \cup {Head(s)}
  BY QueuedTail DEF Msgs
<1> QED
  BY <1>1, <1>2, <1>3 DEF Thins, Lasts

(* ... when the path breaks and the last of it is lost, ...                *)
LEMMA ThinPrefix ==
    ASSUME NEW s \in Seq(Message), NEW u, Prefix(u, s)
    PROVE  Thins(u, s)
<1>1. Msgs(u) \subseteq Msgs(s)
  <2> SUFFICES ASSUME NEW i \in 1..Len(u) PROVE i \in 1..Len(s) /\ u[i] = s[i]
    BY DEF Msgs, Queued
  <2>1. Len(u) \in Nat /\ Len(s) \in Nat /\ Len(u) <= Len(s)
    BY LenProperties DEF Prefix
  <2> QED
    BY <2>1 DEF Prefix
<1> QED
  BY <1>1, PrefixKeeps DEF Thins

(* ... when a text comes to its end, ...                                   *)
LEMMA ThinText ==
    ASSUME NEW s \in Seq(Message), NEW m \in Message, m.k = "text"
    PROVE  Thins(Append(s, m), s) /\ Lasts(Append(s, m), s)
<1> DEFINE u == Append(s, m)
<1>1. Longer(u, s, m)
  BY AppendIsLonger
<1>2. Queued(u) = Queued(s) \cup {m}
  BY QueuedAppend
<1> HIDE DEF u
<1>3. Msgs(u) = Msgs(s)
  BY <1>2 DEF Msgs
<1>4. Parts(u) = Parts(s) /\ \A i \in Parts(s) : u[i] = s[i]
  BY <1>1, LongerParts
<1>5. Ordered(s) => Ordered(u)
  BY <1>4 DEF Ordered
<1>6. ASSUME NEW j, NEW f, NEW n, GoesOn(s, j, f, n) PROVE GoesOn(u, j, f, n)
  BY <1>1, <1>6, GoesOnLonger DEF IsChunk, IsEnd, Closes
<1> QED
  BY <1>3, <1>5, <1>6 DEF Thins, Lasts, u

(* ... and when nothing happens to it.                                     *)
LEMMA ThinSame == ASSUME NEW s PROVE Thins(s, s) /\ Lasts(s, s)
  BY DEF Thins, Lasts

(* A queue with one more message of a job, after all that it has.          *)
LEMMA MsgsLonger ==
    ASSUME NEW s \in Seq(Message), NEW m \in Message, m.k # "text",
           Ordered(s), \A o \in Msgs(s) : Follows(m, o.job, o.file, Pos(o))
    PROVE  /\ Msgs(Append(s, m)) = Msgs(s) \cup {m}
           /\ Ordered(Append(s, m))
           /\ Longer(Append(s, m), s, m)
<1> DEFINE u == Append(s, m)
<1>1. Longer(u, s, m)
  BY AppendIsLonger
<1>2. Queued(u) = Queued(s) \cup {m}
  BY QueuedAppend
<1> HIDE DEF u
<1>3. Msgs(u) = Msgs(s) \cup {m}
  BY <1>2 DEF Msgs
<1>4. /\ Parts(u) = Parts(s) \cup {Len(u)} /\ u[Len(u)] = m
      /\ \A i \in Parts(s) : u[i] = s[i] /\ i < Len(u)
  BY <1>1, LongerParts DEF Longer
<1>5. \A i \in Parts(s) : Follows(m, s[i].job, s[i].file, Pos(s[i]))
  BY PartIsMsg
<1>6. Ordered(u)
  <2>1. Parts(u) \subseteq Nat
    BY DEF Parts
  <2> QED
    BY <1>4, <1>5, <2>1 DEF Ordered
<1> QED
  BY <1>1, <1>3, <1>6 DEF u

(* What comes after the first message of a job.                            *)
LEMMA TailAfter ==
    ASSUME NEW s \in Seq(Message), s # <<>>, Ordered(s), Head(s).k # "text"
    PROVE  /\ Head(s) \in Msgs(s) /\ Msgs(Tail(s)) \subseteq Msgs(s)
           /\ \A m \in Msgs(Tail(s)) : Follows(m, Head(s).job, Head(s).file, Pos(Head(s)))
<1>1. Queued(Tail(s)) \subseteq Queued(s) /\ Head(s) \in Queued(s)
  BY QueuedTail
<1>2. ASSUME NEW m \in Msgs(Tail(s))
      PROVE  Follows(m, Head(s).job, Head(s).file, Pos(Head(s)))
  <2>1. PICK i \in Parts(Tail(s)) : Tail(s)[i] = m
    BY DEF Msgs, Queued, Parts
  <2>2. Follows(Tail(s)[i], Head(s).job, Head(s).file, Pos(Head(s)))
    BY TailKeeps
  <2> QED
    BY <2>1, <2>2
<1> QED
  BY <1>1, <1>2 DEF Msgs

----------------------------------------------------------------------------
(* Steps that leave the job alone and add nothing of it to what is under   *)
(* way.                                                                    *)
Quiets ==
    /\ UNCHANGED <<phase, job, file, offset, via, asking, saved>>
    /\ inbound' = inbound \/ Free'
    /\ \A t \in Paths : /\ Thins(down'[t], down[t])
                        /\ Whole(t)' => Whole(t) /\ Lasts(down'[t], down[t])
    /\ Gone => Gone'
    /\ \A t \in Paths : Queued(up'[t]) \subseteq Queued(up[t])
    /\ \A r \in creating' : r.job \in Picked

LEMMA QuietJob ==
    ASSUME TypeInv, OneJob, Quiets
    PROVE  OneJob'
<1>0. /\ UNCHANGED <<phase, job, file, offset, via, asking, saved>>
      /\ Lines /\ Holds /\ Question /\ Current /\ Replies /\ Kept
      /\ Free => Free'
      /\ inbound' = inbound \/ Free'
      /\ Gone => Gone'
  BY DEF Quiets, OneJob, Free
<1>1. ASSUME NEW t \in Paths
      PROVE  /\ Ordered(down'[t]) /\ Msgs(down'[t]) \subseteq Msgs(down[t])
             /\ \A j, f, n : GoesOn(down[t], j, f, n) => GoesOn(down'[t], j, f, n)
  BY <1>0 DEF Quiets, Thins, Lines
<1>2. Bare => Bare'
  BY <1>1 DEF Bare
<1>3. Lines'
  <2> SUFFICES ASSUME NEW t \in Paths, NEW m \in Msgs(down'[t])
      PROVE  Placed(t, m)' /\ \A o \in Msgs(down'[t]) : o.job = m.job /\ o.file = m.file
    BY <1>1 DEF Lines
  <2>1. Placed(t, m) /\ \A o \in Msgs(down[t]) : o.job = m.job /\ o.file = m.file
    BY <1>0, <1>1 DEF Lines
  <2>2. Mine(m) => Mine(m)'
    BY <1>0 DEF Mine
  <2>3. AtMost(m.job, m.file, Pos(m))'
    BY <1>0, <2>1 DEF Placed, AtMost
  <2> QED
    BY <1>0, <1>1, <2>1, <2>2, <2>3 DEF Placed
<1>4. Holds'
  BY <1>0, <1>1 DEF Holds, Rest, Filled
<1>5. Question'
  BY <1>0, <1>2 DEF Question, Fresh
<1>6. Current'
  <2>1. ASSUME phase = "pump", Whole(via)', NEW n, Level(n) PROVE Level(n)'
    <3>1. via \in Paths
      BY <2>1 DEF TypeInv, SenderTypes
    <3>2. Lasts(down'[via], down[via])
      BY <2>1, <3>1, <1>0 DEF Quiets, Whole
    <3> QED
      BY <1>0, <2>1, <3>2 DEF Level, Lasts, Chunk
  <2>2. ASSUME phase = "pump", Whole(via)' PROVE via \in Paths /\ Whole(via)
    <3>1. via \in Paths
      BY <2>2 DEF TypeInv, SenderTypes
    <3> QED
      BY <2>2, <3>1, <1>0 DEF Quiets, Whole
  <2>3. ASSUME ~Free' PROVE inbound' = inbound /\ ~Free
    BY <1>0, <2>3
  <2>4. Fresh => (inbound' = inbound => Fresh')
    BY <1>0 DEF Fresh
  <2>5. ASSUME ~Gone', phase' = "pump", Whole(via)' PROVE ~Free' => Level(Len(inbound.data))'
    BY <1>0, <2>1, <2>2, <2>3, <2>5 DEF Current
  <2>6. ASSUME ~Gone', phase' = "pump", Whole(via)', NEW m \in Msgs(down'[via]), m.k = "fstart"
        PROVE  Level(0)'
    BY <1>0, <1>1, <2>1, <2>2, <2>6 DEF Current
  <2> QED
    BY <1>0, <2>3, <2>4, <2>5, <2>6 DEF Current
<1>7. Replies'
  <2> SUFFICES ASSUME NEW t \in Paths, NEW m \in Queued(up'[t]) PROVE Truly(m)'
    BY DEF Replies
  <2>1. Truly(m)
    BY <1>0 DEF Quiets, Replies
  <2> QED
    BY <1>0, <1>2, <2>1 DEF Truly, AtMost, Clear
<1>8. Kept'
  BY <1>0 DEF Quiets, Kept
<1> QED
  BY <1>3, <1>4, <1>5, <1>6, <1>7, <1>8 DEF OneJob

(* A queue without messages of jobs.                                       *)
LEMMA NoMsgs ==
    ASSUME NEW s, Msgs(s) = {}
    PROVE  Ordered(s) /\ \A j, f, n : GoesOn(s, j, f, n)
<1>1. \A i \in 1..Len(s) : s[i].k = "text"
  BY DEF Msgs, Queued
<1> QED
  BY <1>1 DEF Ordered, Parts, GoesOn, IsChunk, IsEnd, Closes

(* A reply is a message.                                                   *)
LEMMA ReplyIsMessage ==
    ASSUME TypeInv, NEW t \in Paths, NEW m \in Queued(up[t])
    PROVE  m \in Message /\ m.job \in Nat /\ m.file \in Nat
<1>1. up[t] \in Seq(Message)
  BY DEF TypeInv, NetTypes
<1>2. m \in Message
  BY <1>1, ElementOfSeq DEF Queued
<1>3. MaxTexts \in Nat /\ NJobs \in Nat
  BY ConversationAssumption
<1> QED
  BY <1>2, <1>3 DEF Message, Jobs

(* What is taken of a job is what the sender is at, and the rest of what   *)
(* is under way comes after it.                                            *)
LEMMA TakenMsg ==
    ASSUME TypeInv, Lines, NEW t \in Paths, NEW kinds, Incoming(t, kinds), Take(t),
           "text" \notin kinds
    PROVE  /\ down[t] # <<>> /\ down[t] \in Seq(Message) /\ t = via /\ path' = path
           /\ down'[t] = Tail(down[t]) /\ Ordered(down[t]) /\ Ordered(down'[t])
           /\ \A p \in Paths \ {t} : down'[p] = down[p] /\ Msgs(down[p]) = {}
           /\ Msgs(down'[t]) \subseteq Msgs(down[t])
           /\ \E m \in Message :
                /\ m = Head(down[t]) /\ m.k \in kinds /\ m \in Msgs(down[t]) /\ Placed(t, m)
                /\ m.job \in Jobs /\ m.job \in Int /\ m.file \in Nat /\ Pos(m) \in Int
                /\ Msgs(down[t]) \subseteq Msgs(down'[t]) \cup {m}
                /\ \A o \in Msgs(down'[t]) : /\ o.job = m.job /\ o.file = m.file
                                             /\ Pos(o) \in Int /\ Pos(o) > Pos(m)
<1>1. /\ down[t] # <<>> /\ down[t] \in Seq(Message) /\ path' = path
      /\ down'[t] = Tail(down[t]) /\ \A p \in Paths \ {t} : down'[p] = down[p]
  BY DEF TypeInv, NetTypes, Incoming, Take
<1>2. PICK m \in Message : m = Head(down[t]) /\ m.k \in kinds /\ m.k # "text"
  BY <1>1, HeadTailProperties DEF Incoming
<1>3. Ordered(down[t]) /\ Ordered(down'[t])
  BY <1>1, TailKeeps DEF Lines
<1>4. /\ m \in Msgs(down[t]) /\ Msgs(down'[t]) \subseteq Msgs(down[t])
      /\ \A o \in Msgs(down'[t]) : Follows(o, m.job, m.file, Pos(m))
  BY <1>1, <1>2, <1>3, TailAfter
<1>5. Placed(t, m) /\ \A o \in Msgs(down[t]) : o.job = m.job /\ o.file = m.file
  BY <1>4 DEF Lines
<1>6. m.job \in Jobs /\ m.job \in Int /\ m.file \in Nat /\ Pos(m) \in Int
  BY <1>1, <1>4, MsgsTyped
<1>7. ASSUME NEW o \in Msgs(down'[t])
      PROVE  o.job = m.job /\ o.file = m.file /\ Pos(o) \in Int /\ Pos(o) > Pos(m)
  <2>1. o.job = m.job /\ o.file = m.file /\ Pos(o) \in Int
    BY <1>1, <1>4, <1>5, MsgsTyped
  <2>2. Follows(o, m.job, m.file, Pos(m))
    BY <1>4
  <2> QED
    BY <1>6, <2>1, <2>2 DEF Follows, Before
<1>8. Msgs(down[t]) \subseteq Msgs(down'[t]) \cup {m}
  BY <1>1, <1>2, QueuedTail DEF Msgs
<1>9. \A p \in Paths \ {t} : Msgs(down[p]) = {}
  BY <1>5 DEF Lines, Placed
<1> QED
  BY <1>1, <1>2, <1>3, <1>4, <1>5, <1>6, <1>7, <1>8, <1>9 DEF Placed

(* One message more, after all there are of its job.                       *)
LEMMA PushedMsg ==
    ASSUME TypeInv, Lines, NEW p \in Paths, NEW m \in Message, m.k # "text", SendDown(p, m),
           \A o \in Msgs(down[p]) : Follows(m, o.job, o.file, Pos(o))
    PROVE  /\ up' = up
           /\ \A t \in Paths \ {p} : down'[t] = down[t]
           /\ \A t \in Paths : Ordered(down'[t])
           /\ \/ down'[p] = down[p] /\ path[p] = "mute"
              \/ Msgs(down'[p]) = Msgs(down[p]) \cup {m} /\ Longer(down'[p], down[p], m)
<1>1. /\ up' = up /\ \A t \in Paths \ {p} : down'[t] = down[t]
      /\ down[p] \in Seq(Message) /\ Ordered(down[p])
      /\ \/ down'[p] = down[p] /\ path[p] = "mute"
         \/ down'[p] = Append(down[p], m)
  BY DEF SendDown, TypeInv, NetTypes, Lines
<1>2. CASE down'[p] = Append(down[p], m)
  <2>1. /\ Msgs(down'[p]) = Msgs(down[p]) \cup {m} /\ Longer(down'[p], down[p], m)
        /\ Ordered(down'[p])
    BY <1>1, <1>2, MsgsLonger
  <2> QED
    BY <1>1, <2>1 DEF Lines
<1> QED
  BY <1>1, <1>2 DEF Lines

----------------------------------------------------------------------------
(* The quiet steps of the sender, the paths and the receiver.              *)
LEMMA QuietNet ==
    ASSUME TypeInv, OneJob,
           \/ SendText \/ DirectOpens \/ GoesMute \/ ReceiverAborts
           \/ \E t \in Paths : Breaks(t) \/ OnText(t)
           \/ \E r \in creating : WritableReady(r)
    PROVE  OneJob'
<1>0. /\ path \in [Paths -> {"none", "open", "closed", "mute"}]
      /\ down \in [Paths -> Seq(Message)] /\ up \in [Paths -> Seq(Message)]
      /\ \A r \in creating : r.job \in Picked
  BY DEF TypeInv, NetTypes, OneJob, Kept
<1>a. \A t \in Paths : Thins(down[t], down[t]) /\ Lasts(down[t], down[t])
  BY ThinSame
<1>e. Queued(<<>>) = {}
  BY EmptySeq DEF Queued
<1>f. \A t \in Paths : Prefix(<<>>, down[t])
  BY <1>0, EmptySeq, LenProperties DEF Prefix
<1> SUFFICES Quiets
  BY QuietJob
<1>1. CASE SendText
  <2>1. texts + 1 \in 1..MaxTexts
    BY <1>1, ConversationAssumption DEF SendText, TypeInv, SenderTypes
  <2> PICK m \in Message : m = Text(texts + 1) /\ m.k = "text"
    BY <2>1, MessagesTyped DEF Text, Msg
  <2>2. ASSUME NEW t \in Paths PROVE Thins(down'[t], down[t]) /\ Lasts(down'[t], down[t])
    <3>1. down'[t] = down[t] \/ down'[t] = Append(down[t], m)
      BY <1>0, <1>1 DEF SendText, SendDown
    <3> QED
      BY <1>0, <1>a, <3>1, ThinText
  <2> QED
    BY <1>0, <1>1, <2>2 DEF SendText, SendDown, jobVars, receiverVars, Quiets, Whole, Gone
<1>2. CASE DirectOpens
  BY <1>0, <1>2, <1>a DEF DirectOpens, senderVars, jobVars, receiverVars, Quiets, Whole, Gone
<1>3. CASE GoesMute
  <2>1. ASSUME NEW t \in Paths
        PROVE  /\ Thins(down'[t], down[t]) /\ Queued(up'[t]) \subseteq Queued(up[t])
               /\ Whole(t)' => Whole(t) /\ Lasts(down'[t], down[t])
    <3>1. CASE t = "relay"
      <4>1. down'[t] = <<>> /\ up'[t] = <<>> /\ path'[t] = "mute"
        BY <1>0, <1>3, <3>1 DEF GoesMute
      <4> QED
        BY <1>0, <1>e, <1>f, <4>1, ThinPrefix DEF Whole
    <3>2. CASE t # "relay"
      <4>1. down'[t] = down[t] /\ up'[t] = up[t] /\ path'[t] = path[t]
        BY <1>0, <1>3, <3>2 DEF GoesMute
      <4> QED
        BY <1>a, <4>1 DEF Whole
    <3> QED
      BY <3>1, <3>2
  <2>2. ~Gone
    BY <1>3 DEF GoesMute, Gone
  <2> QED
    BY <1>0, <1>3, <2>1, <2>2 DEF GoesMute, senderVars, jobVars, receiverVars, Quiets
<1>4. CASE ReceiverAborts
  <2>1. ASSUME NEW t \in Paths
        PROVE  /\ Thins(down'[t], down[t]) /\ Queued(up'[t]) \subseteq Queued(up[t])
               /\ ~Whole(t)'
    <3>1. down'[t] = <<>> /\ up'[t] = <<>> /\ path'[t] = "closed"
      BY <1>4 DEF ReceiverAborts
    <3> QED
      BY <1>0, <1>e, <1>f, <3>1, ThinPrefix DEF Whole
  <2>2. Gone' /\ Free'
    BY <1>4 DEF ReceiverAborts, Gone, Free
  <2> QED
    BY <1>0, <1>4, <2>1, <2>2 DEF ReceiverAborts, senderVars, jobVars, Quiets
<1>5. ASSUME NEW p \in Paths, Breaks(p) PROVE Quiets
  <2>1. ASSUME NEW t \in Paths
        PROVE  /\ Thins(down'[t], down[t]) /\ Queued(up'[t]) \subseteq Queued(up[t])
               /\ Whole(t)' => Whole(t) /\ Lasts(down'[t], down[t])
    <3>1. CASE t = p
      <4>1. up'[t] = <<>> /\ path'[t] = "closed"
        BY <1>0, <1>5, <3>1 DEF Breaks
      <4>2. PICK n \in 0..Len(down[t]) : down'[t] = SubSeq(down[t], 1, n)
        BY <1>0, <1>5, <3>1 DEF Breaks
      <4>3. Prefix(down'[t], down[t])
        <5>1. Len(down[t]) \in Nat /\ \A i \in 1..n : down[t][i] \in Message
          BY <1>0, <4>2, ElementOfSeq, LenProperties
        <5> QED
          BY <1>0, <4>2, <5>1, SubSeqProperties, LenProperties DEF Prefix
      <4> QED
        BY <1>0, <1>e, <4>1, <4>3, ThinPrefix DEF Whole
    <3>2. CASE t # p
      <4>1. down'[t] = down[t] /\ up'[t] = up[t] /\ path'[t] = path[t]
        BY <1>0, <1>5, <3>2 DEF Breaks
      <4> QED
        BY <1>a, <4>1 DEF Whole
    <3> QED
      BY <3>1, <3>2
  <2>2. ~Gone
    BY <1>5 DEF Breaks, Gone
  <2> QED
    BY <1>0, <1>5, <2>1, <2>2 DEF Breaks, senderVars, jobVars, receiverVars, Quiets
<1>6. ASSUME NEW p \in Paths, OnText(p) PROVE Quiets
  <2>1. ASSUME NEW t \in Paths PROVE Thins(down'[t], down[t]) /\ Lasts(down'[t], down[t])
    <3>1. CASE t = p
      <4>1. down[t] # <<>> /\ Head(down[t]).k # "chunk" /\ down'[t] = Tail(down[t])
        BY <1>0, <1>6, <3>1 DEF OnText, Incoming, Take
      <4> QED
        BY <1>0, <4>1, ThinTail
    <3>2. CASE t # p
      BY <1>0, <1>6, <1>a, <3>2 DEF OnText, Take
    <3> QED
      BY <3>1, <3>2
  <2> QED
    BY <1>0, <1>6, <2>1 DEF OnText, Take, senderVars, jobVars, Quiets, Whole, Gone
<1>7. ASSUME NEW r \in creating, WritableReady(r) PROVE Quiets
  BY <1>0, <1>7, <1>a DEF WritableReady, netVars, senderVars, jobVars, Quiets, Whole, Gone, Free
<1> QED
  BY <1>1, <1>2, <1>3, <1>4, <1>5, <1>6, <1>7

----------------------------------------------------------------------------
(* The steps of the job.  Nothing else is under way when it begins, ...    *)
LEMMA BeginJob ==
    ASSUME TypeInv, TypeInv', OneJob, Begin
    PROVE  OneJob'
<1>0. /\ phase = "idle" /\ phase' = "decide" /\ job' = job + 1 /\ job \in Nat
      /\ via' = Acquired /\ Acquired \in Paths
      /\ Lines /\ Replies /\ Question /\ Current /\ Kept
      /\ UNCHANGED <<file, offset, path, inbound, asking, saved, creating>>
  BY ConversationAssumption DEF Begin, receiverVars, OneJob, TypeInv, SenderTypes
<1>1. ~Gone
  BY <1>0 DEF Begin, Usable, Gone
<1>2. Bare /\ Free /\ asking = {}
  BY <1>0, <1>1 DEF Lines, Placed, Mine, Bare, Current, Question
<1>3. PICK k \in Opens : SendDown(Acquired, Msg(k, job + 1, 1))
  BY <1>0 DEF Begin, Opens
<1>4. PICK a : a = Msg(k, job + 1, 1)
  OBVIOUS
<1>5. a \in Message /\ a.k \in Opens /\ a.job = job' /\ a.file = 1 /\ a.k # "text"
  <2>1. job + 1 \in Jobs
    BY <1>0 DEF TypeInv, SenderTypes, Jobs, Begin
  <2> QED
    BY <1>0, <1>4, <2>1, MessagesTyped DEF Msg, Opens
<1>6. /\ up' = up
      /\ \A t \in Paths : /\ Ordered(down'[t]) /\ Msgs(down'[t]) \subseteq {a}
                          /\ t # via' => Msgs(down'[t]) = {}
  <2>1. Lines /\ SendDown(Acquired, a) /\ Msgs(down[Acquired]) = {}
    BY <1>0, <1>2, <1>3, <1>4 DEF Bare
  <2>2. PICK p \in Paths : p = Acquired
    BY <1>0
  <2>3. /\ up' = up /\ \A t \in Paths \ {p} : down'[t] = down[t]
        /\ \A t \in Paths : Ordered(down'[t])
        /\ \/ down'[p] = down[p]
           \/ Msgs(down'[p]) = Msgs(down[p]) \cup {a}
    BY <1>5, <2>1, <2>2, PushedMsg
  <2> QED
    BY <1>0, <1>2, <2>2, <2>3 DEF Bare
<1>7. Placed(via, a)'
  <2>1. AtMost(a.job, a.file, Pos(a))'
    BY <1>0, <1>5 DEF AtMost, Reached, Pos
  <2>2. via' = via'
    OBVIOUS
  <2> QED
    BY <1>0, <1>5, <2>1 DEF Placed, Mine, Opens
<1>8. Lines'
  <2> SUFFICES ASSUME NEW t \in Paths, NEW m \in Msgs(down'[t])
      PROVE  Placed(t, m)' /\ \A o \in Msgs(down'[t]) : o.job = m.job /\ o.file = m.file
    BY <1>6 DEF Lines
  <2>1. m = a /\ t = via' /\ \A o \in Msgs(down'[t]) : o = a
    BY <1>6
  <2> QED
    BY <1>7, <2>1 DEF Placed
<1>9. Free'
  BY <1>0, <1>2 DEF Free
<1>10. Replies'
  <2> SUFFICES ASSUME NEW t \in Paths, NEW m \in Queued(up[t]) PROVE Truly(m)'
    BY <1>6 DEF Replies
  <2>1. Truly(m)
    BY <1>0 DEF Replies
  <2>2. m.job \in Nat
    BY ReplyIsMessage
  <2> QED
    BY <1>0, <2>1, <2>2 DEF Truly, AtMost, Reached
<1> QED
  BY <1>0, <1>2, <1>8, <1>9, <1>10 DEF OneJob, Holds, Question, Current, Kept

(* ... it goes on when the answer has come, ...                            *)
LEMMA AcceptedJob ==
    ASSUME TypeInv, TypeInv', OneJob, phase = "decide", phase' = "next", file' = 1,
           UNCHANGED <<job, offset, via, path, down, inbound, asking, saved, creating>>,
           \A t \in Paths : Queued(up'[t]) \subseteq Queued(up[t]),
           NEW t \in Paths, NEW a \in Queued(up[t]), a.k = "accept", a.job = job
    PROVE  OneJob'
<1>0. Lines /\ Holds /\ Replies /\ Question /\ Current /\ Kept /\ job \in Nat
  BY ConversationAssumption DEF OneJob, TypeInv, SenderTypes
<1>1. Bare /\ asking = {} /\ (~Free => Fresh)
  BY <1>0 DEF Replies, Truly, Question
<1>2. Bare' /\ (Free <=> Free') /\ Fresh = Fresh' /\ (Gone <=> Gone')
  BY <1>0, <1>1 DEF Bare, Free, Fresh, Gone
<1>3. Lines'
  BY <1>0, <1>2 DEF Lines, Bare
<1>4. Replies'
  <2> SUFFICES ASSUME NEW p \in Paths, NEW m \in Queued(up'[p]) PROVE Truly(m)'
    BY DEF Replies
  <2>1. Truly(m) /\ m \in Queued(up[p])
    BY <1>0 DEF Replies
  <2>2. m.job \in Nat /\ m.file \in Nat
    BY <2>1, ReplyIsMessage
  <2> QED
    BY <1>0, <2>1, <2>2 DEF Truly, AtMost, Reached
<1>5. Holds'
  BY <1>0, <1>2 DEF Holds, Rest
<1> QED
  BY <1>0, <1>1, <1>2, <1>3, <1>4, <1>5 DEF OneJob, Question, Current, Kept

(* ... an item follows on a confirmed one, which leaves nothing, ...       *)
LEMMA ConfirmedItem ==
    ASSUME TypeInv, TypeInv', OneJob, phase = "ack", ItemDone, Clear \/ Gone',
           UNCHANGED <<down, inbound, asking, saved, creating>>, Gone => Gone',
           \A t \in Paths : Queued(up'[t]) \subseteq Queued(up[t])
    PROVE  OneJob'
<1>0. /\ Lines /\ Holds /\ Replies /\ Question /\ Current /\ Kept
      /\ job \in Nat /\ file \in Nat
      /\ \/ phase' = "next" /\ file' = file + 1
         \/ phase' = "idle" /\ file' = file
      /\ UNCHANGED <<job, offset, via>>
  BY ConversationAssumption DEF OneJob, TypeInv, SenderTypes, ItemDone
<1>1. asking' = {} /\ (Free <=> Free') /\ (Bare <=> Bare')
  BY <1>0 DEF Question, Free, Bare
<1>2. Lines'
  <2> SUFFICES ASSUME NEW t \in Paths, NEW m \in Msgs(down[t])
      PROVE  Placed(t, m)'
    BY <1>0 DEF Lines
  <2>1. Placed(t, m)
    BY <1>0 DEF Lines
  <2>2. Gone'
    BY DEF Clear, Bare
  <2>3. m.job \in Int /\ m.file \in Int /\ Pos(m) \in Int
    BY MsgsTyped DEF TypeInv, NetTypes
  <2>4. AtMost(m.job, m.file, Pos(m))'
    BY <1>0, <2>1, <2>3 DEF Placed, AtMost, Reached
  <2> QED
    BY <1>0, <1>1, <2>1, <2>2, <2>4 DEF Placed
<1>3. Replies'
  <2> SUFFICES ASSUME NEW p \in Paths, NEW m \in Queued(up'[p]) PROVE Truly(m)'
    BY DEF Replies
  <2>1. Truly(m) /\ m \in Queued(up[p])
    BY <1>0 DEF Replies
  <2>2. m.job \in Nat /\ m.file \in Nat
    BY <2>1, ReplyIsMessage
  <2> QED
    BY <1>0, <2>1, <2>2 DEF Truly, AtMost, Reached
<1>4. Holds'
  BY <1>0, <1>1 DEF Holds, Rest
<1>5. Current'
  BY <1>0, <1>1 DEF Current, Clear
<1> QED
  BY <1>0, <1>1, <1>2, <1>3, <1>4, <1>5 DEF OneJob, Question, Kept

(* The answers that were waiting leave no trace in another phase.          *)
LEMMA RepliesStay ==
    ASSUME TypeInv, OneJob, phase # "decide", phase # "ack", UNCHANGED <<job, file, up>>,
           \/ phase = "next" /\ phase' = "pump" /\ offset' = 0
           \/ phase = "pump" /\ phase' = "pump" /\ offset < Chunks /\ offset' = offset + 1
           \/ phase = "pump" /\ phase' = "ack" /\ UNCHANGED offset
    PROVE  Replies'
<1>0. Replies /\ job \in Nat /\ file \in Nat /\ offset \in 0..Chunks /\ Chunks \in Nat
  BY ConversationAssumption DEF OneJob, TypeInv, SenderTypes
<1> SUFFICES ASSUME NEW p \in Paths, NEW m \in Queued(up[p]) PROVE Truly(m)'
  BY DEF Replies
<1>1. Truly(m)
  BY <1>0 DEF Replies
<1>2. m.job \in Nat /\ m.file \in Nat
  BY ReplyIsMessage
<1> QED
  BY <1>0, <1>1, <1>2 DEF Truly, AtMost, Reached

(* A path that is used is not gone.                                        *)
LEMMA UsableStays ==
    ASSUME TypeInv, phase # "idle", Usable(via)
    PROVE  via \in Paths /\ ~Gone /\ (Whole(via) <=> path[via] # "mute")
  BY DEF TypeInv, SenderTypes, Usable, Gone, Whole

(* ... it is announced, ...                                                *)
LEMMA StartedItem ==
    ASSUME TypeInv, TypeInv', OneJob, StartItem
    PROVE  OneJob'
<1>0. /\ Lines /\ Holds /\ Replies /\ Question /\ Current /\ Kept
      /\ job \in Jobs /\ job \in Nat /\ file \in Nat /\ Chunks \in Nat
      /\ phase = "next" /\ phase' = "pump" /\ offset' = 0
      /\ UNCHANGED <<job, file, via, path, inbound, asking, saved, creating>>
  BY ConversationAssumption
     DEF OneJob, TypeInv, SenderTypes, StartItem, receiverVars
<1>1. via \in Paths /\ ~Gone
  BY <1>0, UsableStays DEF StartItem
<1>2. Bare /\ asking = {} /\ (~Free => Fresh /\ file = 1) /\ ~Gone' /\ (Free <=> Free')
  BY <1>0, <1>1 DEF Lines, Placed, Mine, Bare, Question, Current, Gone, Free
<1>3. PICK m \in Message : m = Msg("fstart", job, file)
  BY <1>0, MessagesTyped
<1>4. m.k = "fstart" /\ m.job = job /\ m.file = file /\ Pos(m) = 0
  BY <1>3 DEF Msg, Pos, Opens
<1>5. /\ up' = up
      /\ \A t \in Paths : /\ Ordered(down'[t])
                          /\ Msgs(down'[t]) # {} => t = via /\ Free /\ Msgs(down'[t]) = {m}
  <2>1. CASE IsDoc(job)
    <3>1. up' = up /\ down' = down
      BY <2>1 DEF StartItem
    <3> QED
      BY <1>0, <1>2, <3>1 DEF Bare, Lines
  <2>2. CASE ~IsDoc(job)
    <3>1. SendDown(via, m) /\ Msgs(down[via]) = {} /\ Free
      BY <1>1, <1>2, <1>3, <2>2 DEF StartItem, Bare, Fresh
    <3>2. PICK p \in Paths : p = via
      BY <1>1
    <3>3. /\ up' = up /\ \A t \in Paths \ {p} : down'[t] = down[t]
          /\ \A t \in Paths : Ordered(down'[t])
          /\ \/ down'[p] = down[p]
             \/ Msgs(down'[p]) = Msgs(down[p]) \cup {m}
      BY <1>0, <1>4, <3>1, <3>2, PushedMsg
    <3> QED
      BY <1>2, <3>1, <3>2, <3>3 DEF Bare
  <2> QED
    BY <2>1, <2>2
<1>6. ASSUME NEW t \in Paths, NEW j, NEW f, NEW n
      PROVE  GoesOn(down'[t], j, f, n)
  <2>1. \A i \in 1..Len(down'[t]) : down'[t][i].k \in {"text", "fstart"}
    BY <1>4, <1>5 DEF Msgs, Queued
  <2> QED
    BY <2>1 DEF GoesOn, IsChunk, IsEnd, Closes
<1>7. Lines'
  <2> SUFFICES ASSUME NEW t \in Paths, NEW o \in Msgs(down'[t])
      PROVE  Placed(t, o)' /\ \A q \in Msgs(down'[t]) : q.job = o.job /\ q.file = o.file
    BY <1>5 DEF Lines
  <2>1. o = m /\ t = via /\ Free /\ \A q \in Msgs(down'[t]) : q = m
    BY <1>5
  <2>2. AtMost(m.job, m.file, Pos(m))'
    BY <1>0, <1>4 DEF AtMost, Reached
  <2> QED
    BY <1>0, <1>2, <1>4, <1>6, <2>1, <2>2 DEF Placed, Mine, Opens
<1>8. Holds'
  <2> SUFFICES ASSUME ~Free' PROVE Filled(inbound)' /\ \A t \in Paths : Rest(down'[t], inbound')
    BY DEF Holds
  <2>1. Filled(inbound)' /\ \A t \in Paths : Msgs(down'[t]) = {}
    BY <1>0, <1>2, <1>5 DEF Holds, Filled
  <2> QED
    BY <1>6, <2>1 DEF Rest
<1>9. Current'
  <2>1. ~Free' => inbound'.job = job' /\ inbound'.file = file' /\ inbound'.data = <<>>
    BY <1>0, <1>2 DEF Fresh
  <2>2. Len(<<>>) = 0
    BY EmptySeq
  <2> QED
    BY <1>0, <1>2, <2>1, <2>2 DEF Current, Level
<1>10. Replies'
  BY <1>0, <1>5, RepliesStay
<1> QED
  BY <1>0, <1>2, <1>7, <1>8, <1>9, <1>10 DEF OneJob, Question, Kept
(* While an item is sent, all that is under way is what was sent of it, ... *)
LEMMA PumpingWire ==
    ASSUME TypeInv, OneJob, phase = "pump", Usable(via)
    PROVE  /\ via \in Paths /\ ~Gone /\ (Whole(via) <=> path[via] # "mute")
           /\ down[via] \in Seq(Message) /\ job \in Int /\ file \in Int /\ offset \in Int
           /\ \A t \in Paths : \A o \in Msgs(down[t]) :
                /\ t = via /\ o.job = job /\ o.file = file /\ o.k \notin Opens
                /\ Pos(o) \in Int /\ Pos(o) <= offset
<1>1. via \in Paths /\ ~Gone /\ (Whole(via) <=> path[via] # "mute")
  BY UsableStays
<1>2. /\ down[via] \in Seq(Message) /\ job \in Int /\ file \in Int /\ offset \in Int
  BY <1>1, ConversationAssumption DEF TypeInv, SenderTypes, NetTypes
<1>3. ASSUME NEW t \in Paths, NEW o \in Msgs(down[t])
      PROVE  /\ t = via /\ o.job = job /\ o.file = file /\ o.k \notin Opens
             /\ Pos(o) \in Int /\ Pos(o) <= offset
  <2>1. Placed(t, o)
    BY DEF OneJob, Lines
  <2>2. t = via /\ o.job = job /\ o.file = file /\ o.k \notin Opens
    BY <1>1, <2>1 DEF Placed, Mine
  <2>3. Pos(o) \in Int
    BY MsgsTyped DEF TypeInv, NetTypes
  <2>4. Pos(o) <= offset
    BY <1>2, <2>1, <2>2, <2>3 DEF Placed, AtMost, Reached
  <2> QED
    BY <2>2, <2>3, <2>4
<1> QED
  BY <1>1, <1>2, <1>3

(* ... and the next of it goes on behind that.                             *)
LEMMA PumpedOn ==
    ASSUME TypeInv, OneJob, phase = "pump", Usable(via), NEW m \in Message, SendDown(via, m),
           m.job = job, m.file = file,
           \/ m.k = "chunk" /\ m.at = offset + 1
           \/ m.k \in Closes /\ offset = Chunks
    PROVE  /\ up' = up
           /\ \A t \in Paths :
                /\ Ordered(down'[t]) /\ Msgs(down'[t]) \subseteq Msgs(down[t]) \cup {m}
                /\ m \in Msgs(down'[t]) => t = via
                /\ Whole(via) /\ t = via => m \in Msgs(down'[t])
                /\ \A n : GoesOn(down[t], job, file, n) /\ (Whole(via) => Level(n)) =>
                          GoesOn(down'[t], job, file, n)
<1>0. /\ via \in Paths /\ (Whole(via) <=> path[via] # "mute")
      /\ down[via] \in Seq(Message) /\ job \in Int /\ file \in Int /\ offset \in Int
      /\ \A t \in Paths : \A o \in Msgs(down[t]) :
           /\ t = via /\ o.job = job /\ o.file = file /\ o.k \notin Opens
           /\ Pos(o) \in Int /\ Pos(o) <= offset
      /\ Lines /\ Chunks \in Int
  BY PumpingWire, ConversationAssumption DEF OneJob
<1>1. Pos(m) \in Int /\ Pos(m) > offset /\ m.k # "text" /\ m.k \notin Opens
  BY <1>0 DEF Pos, Opens, Closes
<1>2. PICK p \in Paths : p = via
  BY <1>0
<1>3. \A o \in Msgs(down[p]) : Follows(m, o.job, o.file, Pos(o))
  BY <1>0, <1>1, <1>2 DEF Follows, Before
<1>4. /\ up' = up /\ \A t \in Paths \ {p} : down'[t] = down[t]
      /\ \A t \in Paths : Ordered(down'[t])
      /\ \/ down'[p] = down[p] /\ path[p] = "mute"
         \/ Msgs(down'[p]) = Msgs(down[p]) \cup {m} /\ Longer(down'[p], down[p], m)
  BY <1>0, <1>1, <1>2, <1>3, PushedMsg
<1>5. ASSUME NEW n, Longer(down'[p], down[p], m), GoesOn(down[p], job, file, n),
             path[p] # "mute", Level(n)
      PROVE  GoesOn(down'[p], job, file, n)
  <2>1. offset = n \/ OnWire(down[p], Chunk(job, file, offset))
    BY <1>2, <1>5 DEF Level, Msgs, Queued, OnWire
  <2>2. IsChunk(m, job, file) => m.at = n + 1 \/ OnWire(down[p], Chunk(job, file, m.at - 1))
    <3>1. m.k = "chunk" => m.at = offset + 1 /\ m.at - 1 = offset
      BY <1>0 DEF Closes
    <3> QED
      BY <2>1, <3>1 DEF IsChunk
  <2>3. IsEnd(m, job, file) => n = Chunks \/ OnWire(down[p], Chunk(job, file, Chunks))
    BY <2>1 DEF IsEnd, Closes
  <2> QED
    BY <1>5, <2>2, <2>3, GoesOnLonger
<1>6. down'[p] = down[p] \/ path[p] # "mute"
  BY <1>2 DEF SendDown, TypeInv, NetTypes
<1>7. ASSUME NEW t \in Paths
      PROVE  /\ Msgs(down'[t]) \subseteq Msgs(down[t]) \cup {m}
             /\ m \in Msgs(down'[t]) => t = p
             /\ t = p /\ path[p] # "mute" => m \in Msgs(down'[t])
             /\ \A n : GoesOn(down[t], job, file, n) /\ (path[p] # "mute" => Level(n)) =>
                          GoesOn(down'[t], job, file, n)
  <2>1. CASE t # p
    BY <1>0, <1>2, <1>4, <2>1
  <2>2. CASE t = p
    BY <1>4, <1>5, <1>6, <2>2
  <2> QED
    BY <2>1, <2>2
<1> QED
  BY <1>0, <1>2, <1>4, <1>7
(* ... its chunks are sent, and its end, ...                               *)
LEMMA PumpedItem ==
    ASSUME TypeInv, TypeInv', OneJob, PumpChunk \/ EndItem
    PROVE  OneJob'
<1>0. /\ Lines /\ Holds /\ Replies /\ Question /\ Current /\ Kept
      /\ phase = "pump" /\ phase' \in {"pump", "ack"} /\ Usable(via)
      /\ offset \in Nat /\ Chunks \in Nat /\ job \in Jobs /\ file \in Nat
      /\ UNCHANGED <<job, file, via, path, inbound, asking, saved, creating>>
  BY ConversationAssumption
     DEF OneJob, TypeInv, SenderTypes, PumpChunk, EndItem, receiverVars
<1>1. \/ phase' = "pump" /\ offset < Chunks /\ offset' = offset + 1
      \/ phase' = "ack" /\ offset = Chunks /\ offset' = offset
  BY DEF PumpChunk, EndItem
<1>2. PICK m \in Message :
        /\ SendDown(via, m) /\ m.job = job /\ m.file = file
        /\ \/ m.k = "chunk" /\ m.at = offset + 1 /\ phase' = "pump" /\ offset < Chunks
              /\ offset' = offset + 1 /\ m = Chunk(job, file, offset + 1)
           \/ m.k \in Closes /\ phase' = "ack" /\ offset = Chunks /\ offset' = offset
  <2>1. CASE PumpChunk
    <3>1. Chunk(job, file, offset + 1) \in Message
      BY <1>0, MessagesTyped
    <3>2. PICK m \in Message : m = Chunk(job, file, offset + 1)
      BY <3>1
    <3>3. m.job = job /\ m.file = file /\ m.k = "chunk" /\ m.at = offset + 1
      BY <3>2 DEF Chunk
    <3> QED
      BY <2>1, <3>2, <3>3 DEF PumpChunk
  <2>2. CASE EndItem
    <3>1. PICK k \in Closes : SendDown(via, Msg(k, job, file))
      BY <2>2 DEF EndItem, Closes
    <3>2. Msg(k, job, file) \in Message
      BY <1>0, MessagesTyped DEF Closes
    <3>3. PICK m \in Message : m = Msg(k, job, file)
      BY <3>2
    <3>4. m.job = job /\ m.file = file /\ m.k \in Closes
      BY <3>3 DEF Msg
    <3> QED
      BY <2>2, <3>1, <3>3, <3>4 DEF EndItem
  <2> QED
    BY <2>1, <2>2
<1>3. /\ via \in Paths /\ ~Gone /\ ~Gone' /\ (Free <=> Free') /\ (Whole(via) <=> Whole(via)')
      /\ \A t \in Paths : \A o \in Msgs(down[t]) :
           /\ t = via /\ o.job = job /\ o.file = file /\ o.k \notin Opens
           /\ Pos(o) \in Int /\ Pos(o) <= offset
  BY <1>0, PumpingWire DEF Gone, Free, Whole
<1>4. /\ up' = up
      /\ \A t \in Paths :
           /\ Ordered(down'[t]) /\ Msgs(down'[t]) \subseteq Msgs(down[t]) \cup {m}
           /\ m \in Msgs(down'[t]) => t = via
           /\ Whole(via) /\ t = via => m \in Msgs(down'[t])
           /\ \A n : GoesOn(down[t], job, file, n) /\ (Whole(via) => Level(n)) =>
                     GoesOn(down'[t], job, file, n)
  BY <1>0, <1>2, PumpedOn
<1>5. ASSUME NEW t \in Paths, NEW o \in Msgs(down'[t])
      PROVE  /\ t = via /\ o.job = job /\ o.file = file /\ o.k \notin Opens
             /\ AtMost(o.job, o.file, Pos(o))'
             /\ o.k = "chunk" => o.at \in 1..Chunks
             /\ o.k = "fstart" => o \in Msgs(down[t])
  <2>1. CASE o \in Msgs(down[t])
    <3>1. Placed(t, o) /\ t = via /\ o.job = job /\ o.file = file /\ o.k \notin Opens
      BY <1>0, <1>3, <2>1 DEF Lines
    <3>2. Pos(o) \in Int /\ Pos(o) <= offset
      BY <1>3, <2>1
    <3>3. AtMost(o.job, o.file, Pos(o))'
      BY <1>0, <1>1, <3>1, <3>2 DEF AtMost, Reached
    <3> QED
      BY <2>1, <3>1, <3>3 DEF Placed
  <2>2. CASE o = m
    <3>1. t = via
      BY <1>4, <2>2
    <3>2. AtMost(o.job, o.file, Pos(o))'
      BY <1>0, <1>2, <2>2 DEF AtMost, Reached, Pos, Opens, Closes
    <3> QED
      BY <1>0, <1>2, <2>2, <3>1, <3>2 DEF Opens, Closes
  <2> QED
    BY <1>4, <2>1, <2>2
<1>6. Lines'
  <2> SUFFICES ASSUME NEW t \in Paths, NEW o \in Msgs(down'[t]) PROVE Placed(t, o)'
    BY <1>4, <1>5 DEF Lines
  <2>1. Mine(o)'
    BY <1>0, <1>5 DEF Mine
  <2>2. ASSUME o.k = "fstart" PROVE Free' /\ GoesOn(down'[t], o.job, o.file, 0)
    <3>1. o \in Msgs(down[t]) /\ o.job = job /\ o.file = file /\ t = via
      BY <1>5, <2>2
    <3>2. Placed(t, o) /\ (Whole(via) => Level(0))
      BY <1>0, <1>3, <2>2, <3>1 DEF Lines, Current
    <3> QED
      BY <1>3, <1>4, <2>2, <3>1, <3>2 DEF Placed
  <2> QED
    BY <1>0, <1>5, <2>1, <2>2 DEF Placed
<1>7. Holds'
  <2> SUFFICES ASSUME ~Free'
      PROVE  Filled(inbound)' /\ \A t \in Paths : Rest(down'[t], inbound')
    BY DEF Holds
  <2>1. /\ Filled(inbound) /\ inbound.job = job /\ inbound.file = file
        /\ \A t \in Paths : Rest(down[t], inbound)
        /\ Whole(via) => Level(Len(inbound.data))
    BY <1>0, <1>3 DEF Holds, Current
  <2>2. ASSUME NEW t \in Paths PROVE GoesOn(down'[t], job, file, Len(inbound.data))
    BY <1>4, <2>1 DEF Rest
  <2> QED
    BY <1>0, <1>2, <1>4, <2>1, <2>2 DEF Filled, Rest
<1>8. Current'
  <2>1. ASSUME Whole(via), phase' = "pump" PROVE \A n : Level(n)'
    BY <1>0, <1>2, <1>3, <1>4, <2>1 DEF Level, Closes
  <2> QED
    BY <1>0, <1>3, <2>1 DEF Current
<1>9. Replies'
  BY <1>0, <1>1, <1>4, RepliesStay
<1> QED
  BY <1>0, <1>6, <1>7, <1>8, <1>9 DEF OneJob, Question, Kept
(* A job that fails does not go unnoticed.                                 *)
LEMMA FailureShows ==
    ASSUME JobFails
    PROVE  failed' # {}
  BY DEF JobFails

(* ... and the answers to it are taken, or passed over, ...                *)
LEMMA AnsweredJob ==
    ASSUME TypeInv, TypeInv', OneJob, failed' = {}, NEW t \in Paths, FromReceiver(t)
    PROVE  OneJob'
<1>0. /\ down \in [Paths -> Seq(Message)] /\ up \in [Paths -> Seq(Message)]
      /\ Replies /\ \A r \in creating : r.job \in Picked
  BY DEF TypeInv, NetTypes, OneJob, Kept
<1>1. /\ PopUp(t) /\ up[t] # <<>> /\ path' = path /\ down' = down
      /\ UNCHANGED <<asking, inbound, saved, creating>>
  BY DEF FromReceiver, ResolveDecision, ResolveAck, Answer, PopUp, receiverVars
<1>2. Queued(Tail(up[t])) \subseteq Queued(up[t]) /\ Head(up[t]) \in Queued(up[t])
  BY <1>0, <1>1, QueuedTail
<1>3. \A p \in Paths : Queued(up'[p]) \subseteq Queued(up[p])
  <2> SUFFICES ASSUME NEW p \in Paths PROVE Queued(up'[p]) \subseteq Queued(up[p])
    OBVIOUS
  <2>1. up'[p] = IF p = t THEN Tail(up[t]) ELSE up[p]
    BY <1>0, <1>1 DEF PopUp
  <2> QED
    BY <1>2, <2>1
<1>4. PICK a \in Queued(up[t]) : a = Head(up[t])
  BY <1>2
<1>5. CASE UNCHANGED senderVars
  <2>1. \A p \in Paths : Thins(down[p], down[p]) /\ Lasts(down[p], down[p])
    BY ThinSame
  <2>2. Quiets
    BY <1>0, <1>1, <1>3, <1>5, <2>1 DEF senderVars, jobVars, Quiets, Whole, Gone
  <2> QED
    BY <2>2, QuietJob
<1>6. CASE ~UNCHANGED senderVars /\ ResolveDecision(t)
  <2>1. /\ phase = "decide" /\ a.job = job /\ a.k = "accept" /\ phase' = "next" /\ file' = 1
        /\ UNCHANGED <<job, offset, via>>
    BY <1>4, <1>6, FailureShows DEF ResolveDecision, Answer
  <2> QED
    BY <1>1, <1>3, <2>1, AcceptedJob
<1>7. CASE ~UNCHANGED senderVars /\ ResolveAck(t)
  <2>1. phase = "ack" /\ a.job = job /\ a.file = file /\ a.k = "received" /\ ItemDone
    BY <1>4, <1>7 DEF ResolveAck, Answer
  <2>2. Clear
    BY <1>0, <2>1 DEF Replies, Truly
  <2>3. Gone => Gone'
    BY <1>1 DEF Gone
  <2> QED
    BY <1>1, <1>3, <2>1, <2>2, <2>3, ConfirmedItem
<1> QED
  BY <1>5, <1>6, <1>7 DEF FromReceiver

(* ... unless the sender is told that the peer has gone.                   *)
LEMMA AbortedSender ==
    ASSUME TypeInv, TypeInv', OneJob, failed' = {}, SenderAborts
    PROVE  OneJob'
<1>1. /\ UNCHANGED <<down, asking, inbound, saved, creating>>
      /\ \A t \in Paths : path'[t] = "closed" /\ up'[t] = <<>>
  BY DEF SenderAborts, AllClosed, receiverVars
<1>2. Gone' /\ \A t \in Paths : Queued(up'[t]) \subseteq Queued(up[t])
  BY <1>1, EmptySeq DEF Gone, Queued
<1>3. CASE UNCHANGED senderVars
  <2>1. \A p \in Paths : Thins(down[p], down[p]) /\ Lasts(down[p], down[p])
    BY ThinSame
  <2>2. \A r \in creating : r.job \in Picked
    BY DEF OneJob, Kept
  <2>3. Quiets
    BY <1>1, <1>2, <1>3, <2>1, <2>2 DEF senderVars, jobVars, Quiets, Whole
  <2> QED
    BY <2>3, QuietJob
<1>4. CASE ~UNCHANGED senderVars
  <2>1. phase = "ack" /\ ItemDone
    BY <1>4, FailureShows DEF SenderAborts
  <2> QED
    BY <1>1, <1>2, <2>1, ConfirmedItem
<1> QED
  BY <1>3, <1>4
----------------------------------------------------------------------------
(* The steps of the receiver.  A question is answered once nothing is      *)
(* under way, ...                                                          *)
LEMMA QuestionOver ==
    ASSUME TypeInv, OneJob, phase = "decide", asking' = {}, Bare',
           inbound' = inbound \/ Fresh', UNCHANGED <<senderVars, path, saved, creating>>,
           NEW a, a.k \in {"accept", "decline"}, a.job = job,
           \A p \in Paths : Queued(up'[p]) \subseteq Queued(up[p]) \cup {a}
    PROVE  OneJob'
<1>0. /\ Question /\ Holds /\ Replies /\ Kept /\ phase' = "decide" /\ job' = job /\ job \in Nat
      /\ UNCHANGED <<file, offset>>
  BY ConversationAssumption DEF OneJob, TypeInv, SenderTypes, senderVars, jobVars
<1>1. \A t \in Paths : Ordered(down'[t]) /\ Msgs(down'[t]) = {}
                       /\ \A j, f, n : GoesOn(down'[t], j, f, n)
  BY NoMsgs DEF Bare
<1>2. Lines'
  BY <1>1 DEF Lines
<1>3. Holds'
  <2> SUFFICES ASSUME ~Free'
      PROVE  Filled(inbound)' /\ \A t \in Paths : Rest(down'[t], inbound')
    BY DEF Holds
  <2>1. CASE inbound' = inbound
    BY <1>0, <1>1, <2>1 DEF Holds, Filled, Free, Rest
  <2>2. CASE Fresh'
    <3>1. Len(inbound'.data) = 0 /\ inbound'.data = <<>>
      BY <2>2, EmptySeq DEF Fresh
    <3>2. Filled(inbound)'
      BY <3>1, EmptySeq DEF Filled
    <3> QED
      BY <1>1, <3>2 DEF Rest
  <2> QED
    BY <2>1, <2>2
<1>4. Question' /\ Current'
  <2>1. ~Free' => Fresh'
    BY <1>0 DEF Question, Fresh, Free
  <2> QED
    BY <1>0, <2>1 DEF Question, Current
<1>5. Replies'
  <2> SUFFICES ASSUME NEW p \in Paths, NEW m \in Queued(up'[p]) PROVE Truly(m)'
    BY DEF Replies
  <2>1. CASE m = a
    BY <1>0, <2>1 DEF Truly
  <2>2. CASE m \in Queued(up[p])
    BY <1>0, <2>2 DEF Replies, Truly, AtMost
  <2> QED
    BY <2>1, <2>2
<1>6. Kept'
  BY <1>0 DEF Kept
<1> QED
  BY <1>2, <1>3, <1>4, <1>5, <1>6 DEF OneJob

(* A reply adds itself, if anything.                                       *)
LEMMA ReplyAdds ==
    ASSUME TypeInv, NEW t, NEW a \in Message, Reply(t, a)
    PROVE  \A p \in Paths : Queued(up'[p]) \subseteq Queued(up[p]) \cup {a}
<1> SUFFICES ASSUME NEW p \in Paths PROVE Queued(up'[p]) \subseteq Queued(up[p]) \cup {a}
  OBVIOUS
<1>1. /\ up[p] \in Seq(Message) /\ up \in [Paths -> Seq(Message)]
      /\ up' = [up EXCEPT ![t] = IF path[t] = "open" THEN Append(up[t], a) ELSE up[t]]
  BY DEF Reply, TypeInv, NetTypes
<1>2. up'[p] = up[p] \/ up'[p] = Append(up[p], a)
  BY <1>1
<1>3. CASE up'[p] = Append(up[p], a)
  BY <1>1, <1>3, QueuedAppend
<1> QED
  BY <1>2, <1>3

(* ... by the user ...                                                     *)
LEMMA UserAnswers ==
    ASSUME TypeInv, OneJob, NEW q \in asking, Accept(q) \/ Decline(q)
    PROVE  OneJob'
<1>0. q.job \in Jobs
  BY DEF TypeInv, ReceiverTypes
<1>1. /\ phase = "decide" /\ asking = {q} /\ q.job = job /\ Bare
      /\ UNCHANGED <<senderVars, path, down, saved, creating>>
  BY DEF OneJob, Question, Accept, Decline
<1>2. asking' = {} /\ Bare'
  BY <1>1 DEF Bare, Accept, Decline
<1>3. PICK a \in Message : /\ a.k \in {"accept", "decline"} /\ a.job = job
                          /\ Reply(q.via, a)
  <2>1. CASE Accept(q)
    <3>1. PICK a \in Message : a = Msg("accept", q.job, 1)
      BY <1>0, MessagesTyped
    <3> QED
      BY <1>1, <2>1, <3>1 DEF Accept, Msg
  <2>2. CASE Decline(q)
    <3>1. PICK a \in Message : a = Msg("decline", q.job, 1)
      BY <1>0, MessagesTyped
    <3> QED
      BY <1>1, <2>2, <3>1 DEF Decline, Msg
  <2> QED
    BY <2>1, <2>2
<1>4. \A p \in Paths : Queued(up'[p]) \subseteq Queued(up[p]) \cup {a}
  BY <1>3, ReplyAdds
<1>5. inbound' = inbound \/ Fresh'
  BY <1>1 DEF Accept, Decline, Fresh, Receiving, IsDoc, senderVars, jobVars
<1> QED
  BY <1>1, <1>2, <1>3, <1>4, <1>5, QuestionOver

(* What announces a job is all that is under way.                          *)
LEMMA TakenOpens ==
    ASSUME TypeInv, OneJob, NEW t \in Paths, NEW kinds, kinds \subseteq Opens,
           Incoming(t, kinds), Take(t)
    PROVE  /\ phase = "decide" /\ Head(down[t]).job = job /\ ~Bare /\ asking = {} /\ Free /\ Bare'
           /\ path' = path
<1>1. PICK m \in Message :
        /\ m = Head(down[t]) /\ m.k \in kinds /\ m \in Msgs(down[t]) /\ Placed(t, m)
        /\ \A o \in Msgs(down'[t]) : /\ o \in Msgs(down[t])
                                     /\ Pos(o) \in Int /\ Pos(o) > Pos(m)
        /\ \A p \in Paths \ {t} : down'[p] = down[p] /\ Msgs(down[p]) = {}
        /\ path' = path
  <2>1. "text" \notin kinds /\ Lines
    BY DEF Opens, OneJob
  <2> QED
    BY <2>1, TakenMsg
<1>2. phase = "decide" /\ m.job = job /\ ~Bare /\ m.k \in Opens
  BY <1>1 DEF Placed, Mine, Bare
<1>3. ASSUME NEW o \in Msgs(down'[t]) PROVE FALSE
  <2>1. Placed(t, o)
    BY <1>1 DEF OneJob, Lines
  <2>2. o.k \in Opens
    BY <1>2, <2>1 DEF Placed, Mine
  <2> QED
    BY <1>1, <1>2, <2>2 DEF Pos
<1>4. Bare'
  BY <1>1, <1>3 DEF Bare
<1> QED
  BY <1>1, <1>2, <1>4 DEF OneJob, Question
(* ... or without asking; ...                                              *)
LEMMA AnnouncedJob ==
    ASSUME TypeInv, OneJob, NEW t \in Paths, Ask(t) \/ OnDocStart(t)
    PROVE  OneJob'
<1>0. down[t] \in Seq(Message)
  BY DEF TypeInv, NetTypes
<1>1. /\ phase = "decide" /\ Head(down[t]).job = job /\ ~Bare /\ asking = {} /\ Free /\ Bare'
      /\ path' = path /\ UNCHANGED <<senderVars, saved, creating>>
      /\ job \in Jobs
  <2>1. PICK kinds : kinds \subseteq Opens /\ Incoming(t, kinds) /\ Take(t)
    BY DEF Ask, OnDocStart, Opens
  <2>2. UNCHANGED <<senderVars, saved, creating>>
    BY DEF Ask, OnDocStart
  <2> QED
    BY <2>1, <2>2, TakenOpens DEF TypeInv, SenderTypes
<1>2. CASE OnDocStart(t)
  <2>1. PICK a \in Message : a = Msg("accept", job, 1)
    BY <1>1, MessagesTyped
  <2>2. a.k = "accept" /\ a.job = job
    BY <2>1 DEF Msg
  <2>3. \A p \in Paths : Queued(up'[p]) \subseteq Queued(up[p]) \cup {a}
    BY <1>1, <1>2, <2>1, ReplyAdds DEF OnDocStart
  <2>4. Fresh' /\ asking' = {}
    BY <1>1, <1>2 DEF OnDocStart, Fresh, Receiving, IsDoc, senderVars, jobVars
  <2> QED
    BY <1>1, <2>2, <2>3, <2>4, QuestionOver
<1>3. CASE Ask(t)
  <2>1. UNCHANGED <<phase, job, file, offset, inbound, saved, creating, up>>
    BY <1>1, <1>3 DEF Ask, senderVars, jobVars
  <2>2. PICK q : asking' = {q} /\ q.job = job
    <3>1. PICK q : q = [job |-> Head(down[t]).job, via |-> t]
      OBVIOUS
    <3>2. asking' = {q} /\ q.job = job
      BY <1>1, <1>3, <3>1 DEF Ask
    <3> QED
      BY <3>2
  <2>3. Free' /\ Lines'
    BY <1>1, <2>1, NoMsgs DEF Free, Bare, Lines
  <2>4. Replies'
    <3> SUFFICES ASSUME NEW p \in Paths, NEW m \in Queued(up[p]) PROVE Truly(m)'
      BY <2>1 DEF Replies
    <3>1. Truly(m)
      BY DEF OneJob, Replies
    <3> QED
      BY <1>1, <2>1, <3>1 DEF Truly, AtMost
  <2>5. Kept'
    BY <2>1 DEF OneJob, Kept
  <2> QED
    BY <1>1, <2>1, <2>2, <2>3, <2>4, <2>5 DEF OneJob, Holds, Question, Current
<1> QED
  BY <1>2, <1>3
(* ... a file is opened, or not; ...                                       *)
LEMMA OpenedItem ==
    ASSUME TypeInv, OneJob, NEW t \in Paths, OnFileStart(t)
    PROVE  OneJob'
<1>0. /\ Holds /\ Replies /\ Question /\ Current /\ Kept /\ Lines
      /\ UNCHANGED <<phase, job, file, offset, via, up, asking, saved>>
      /\ Incoming(t, {"fstart"}) /\ Take(t)
      /\ down \in [Paths -> Seq(Message)]
  BY DEF OneJob, OnFileStart, senderVars, jobVars, TypeInv, NetTypes
<1>1. PICK m \in Message :
        /\ m = Head(down[t]) /\ m.k = "fstart" /\ m \in Msgs(down[t]) /\ Placed(t, m)
        /\ m.job \in Jobs /\ m.file \in Nat
        /\ Msgs(down[t]) \subseteq Msgs(down'[t]) \cup {m}
        /\ \A o \in Msgs(down'[t]) : /\ o \in Msgs(down[t]) /\ o.job = m.job /\ o.file = m.file
                                     /\ Pos(o) \in Int /\ Pos(o) > Pos(m)
        /\ \A p \in Paths \ {t} : down'[p] = down[p] /\ Msgs(down[p]) = {}
        /\ path' = path /\ down'[t] = Tail(down[t]) /\ Ordered(down'[t]) /\ t = via
        /\ down[t] # <<>>
  <2>1. "text" \notin {"fstart"}
    OBVIOUS
  <2> QED
    BY <1>0, <2>1, TakenMsg
<1>2. /\ ~Bare /\ Free /\ GoesOn(down[t], m.job, m.file, 0) /\ m.k # "chunk"
      /\ phase # "decide" /\ (Gone <=> Gone')
      /\ ~Gone => m.job = job /\ m.file = file /\ phase \in {"pump", "ack"}
  BY <1>1 DEF Placed, Bare, Opens, Mine, Gone
<1>3. CASE inbound' = inbound
  <2>1. \A r \in creating' : r.job \in Picked
    <3>1. handle => batch \in Picked
      BY DEF TypeInv, ReceiverTypes
    <3> QED
      BY <1>0, <1>1, <3>1 DEF OnFileStart, Receiving, Kept
  <2>2. ASSUME NEW p \in Paths PROVE Thins(down'[p], down[p]) /\ Lasts(down'[p], down[p])
    <3>1. CASE p = t
      <4>1. down[t] \in Seq(Message) /\ down[t] # <<>> /\ Head(down[t]).k # "chunk"
        BY <1>0, <1>1, <1>2
      <4> QED
        BY <1>1, <3>1, <4>1, ThinTail
    <3>2. CASE p # t
      BY <1>1, <3>2, ThinSame
    <3> QED
      BY <3>1, <3>2
  <2>3. Quiets
    BY <1>0, <1>1, <1>3, <2>1, <2>2 DEF Quiets, Whole, Gone
  <2> QED
    BY <2>3, QuietJob
<1>4. CASE inbound' # inbound
  <2>1. /\ inbound' = Receiving(m.job, m.file, t) /\ creating' = creating
    BY <1>1, <1>4 DEF OnFileStart
  <2>2. /\ inbound'.job = m.job /\ inbound'.file = m.file /\ inbound'.data = <<>>
        /\ Len(inbound'.data) = 0
    BY <2>1, EmptySeq DEF Receiving
  <2>3. ASSUME NEW o \in Msgs(down'[t]) PROVE o.k # "fstart" /\ Placed(t, o)
    BY <1>0, <1>1 DEF Pos, Opens, Lines
  <2>4. Lines'
    <3> SUFFICES ASSUME NEW p \in Paths, NEW o \in Msgs(down'[p]) PROVE Placed(p, o)' /\ p = t
      BY <1>0, <1>1 DEF Lines
    <3>1. p = t
      BY <1>1
    <3>2. Placed(t, o) /\ o.k # "fstart"
      BY <2>3, <3>1
    <3>3. Mine(o) => Mine(o)'
      BY <1>0 DEF Mine
    <3> QED
      BY <1>0, <1>2, <3>1, <3>2, <3>3 DEF Placed, AtMost
  <2>5. Holds'
    <3>1. Filled(inbound)'
      BY <2>2, EmptySeq DEF Filled
    <3>2. ASSUME NEW p \in Paths PROVE GoesOn(down'[p], m.job, m.file, 0)
      <4>1. CASE p = t
        <5>1. down[t] \in Seq(Message) /\ ~IsChunk(Head(down[t]), m.job, m.file)
          BY <1>0, <1>1, <1>2 DEF IsChunk
        <5> QED
          BY <1>1, <1>2, <4>1, <5>1, TailKeeps
      <4>2. CASE p # t
        BY <1>1, <4>2, NoMsgs
      <4> QED
        BY <4>1, <4>2
    <3> QED
      BY <1>1, <2>2, <3>1, <3>2 DEF Holds, Rest
  <2>6. Current'
    <3>1. ASSUME phase = "pump", ~Gone, Whole(via) PROVE Level(0)'
      <4>1. Level(0)
        BY <1>0, <1>1, <3>1 DEF Current
      <4>2. \A k : m # Chunk(job, file, k)
        BY <1>1 DEF Chunk
      <4> QED
        BY <1>0, <1>1, <4>1, <4>2 DEF Level
    <3>2. Whole(via)' => Whole(via)
      BY <1>0, <1>1 DEF Whole
    <3> QED
      BY <1>0, <1>1, <1>2, <2>2, <3>1, <3>2 DEF Current
  <2>7. Replies'
    <3> SUFFICES ASSUME NEW p \in Paths, NEW a \in Queued(up[p]) PROVE Truly(a)'
      BY <1>0 DEF Replies
    <3>1. Truly(a)
      BY <1>0 DEF Replies
    <3> QED
      BY <1>0, <1>2, <3>1 DEF Truly, AtMost, Clear
  <2>8. Question' /\ Kept'
    BY <1>0, <1>2, <2>1 DEF Question, Kept
  <2> QED
    BY <2>4, <2>5, <2>6, <2>7, <2>8 DEF OneJob
<1> QED
  BY <1>3, <1>4
(* ... a chunk goes to the open item, of which it is the next; ...         *)
LEMMA WrittenChunk ==
    ASSUME TypeInv, OneJob, NEW t \in Paths, OnChunk(t)
    PROVE  OneJob'
<1>0. /\ Holds /\ Replies /\ Question /\ Current /\ Kept /\ Lines
      /\ UNCHANGED <<phase, job, file, offset, via, up, asking, saved, creating>>
      /\ Incoming(t, {"chunk"}) /\ Take(t)
      /\ down \in [Paths -> Seq(Message)] /\ offset \in Int /\ Chunks \in Nat
      /\ inbound \in Opened \cup {Nothing}
  BY ConversationAssumption
     DEF OneJob, OnChunk, senderVars, jobVars, TypeInv, NetTypes, SenderTypes, ReceiverTypes
<1>1. PICK m \in Message :
        /\ m = Head(down[t]) /\ m.k = "chunk" /\ m \in Msgs(down[t]) /\ Placed(t, m)
        /\ m.job \in Jobs /\ m.file \in Nat
        /\ Msgs(down[t]) \subseteq Msgs(down'[t]) \cup {m}
        /\ \A o \in Msgs(down'[t]) : /\ o \in Msgs(down[t]) /\ o.job = m.job /\ o.file = m.file
                                     /\ Pos(o) \in Int /\ Pos(o) > Pos(m)
        /\ \A p \in Paths \ {t} : down'[p] = down[p] /\ Msgs(down[p]) = {}
        /\ path' = path /\ down'[t] = Tail(down[t]) /\ t = via
        /\ Ordered(down[t]) /\ Ordered(down'[t]) /\ down[t] # <<>>
  <2>1. "text" \notin {"chunk"}
    OBVIOUS
  <2> QED
    BY <1>0, <2>1, TakenMsg
<1>2. /\ ~Bare /\ m.at \in 1..Chunks /\ Pos(m) = m.at
      /\ phase # "decide" /\ (Gone <=> Gone')
      /\ ~Gone => m.job = job /\ m.file = file /\ phase \in {"pump", "ack"}
  BY <1>1 DEF Placed, Bare, Opens, Mine, Gone, Pos
<1>3. ASSUME NEW o \in Msgs(down'[t]) PROVE o.k # "fstart" /\ Placed(t, o)
  BY <1>0, <1>1, <1>2 DEF Pos, Opens, Lines
<1>4. Lines'
  <2> SUFFICES ASSUME NEW p \in Paths, NEW o \in Msgs(down'[p]) PROVE Placed(p, o)' /\ p = t
    BY <1>0, <1>1 DEF Lines
  <2>1. p = t
    BY <1>1
  <2>2. Placed(t, o) /\ o.k # "fstart"
    BY <1>3, <2>1
  <2>3. Mine(o) => Mine(o)'
    BY <1>0 DEF Mine
  <2> QED
    BY <1>0, <1>2, <2>1, <2>2, <2>3 DEF Placed, AtMost
<1>5. Replies'
  <2> SUFFICES ASSUME NEW p \in Paths, NEW a \in Queued(up[p]) PROVE Truly(a)'
    BY <1>0 DEF Replies
  <2>1. Truly(a)
    BY <1>0 DEF Replies
  <2> QED
    BY <1>0, <1>2, <2>1 DEF Truly, AtMost, Clear
<1>6. Question' /\ Kept'
  BY <1>0, <1>2 DEF Question, Kept
<1>7. CASE Free
  <2>1. Free'
    BY <1>0, <1>7 DEF OnChunk, Free, Write, Opened, Nothing
  <2>2. Current'
    BY <1>0, <1>1, <1>3, <2>1 DEF Current
  <2>3. Holds'
    BY <2>1 DEF Holds
  <2> QED
    BY <1>4, <1>5, <1>6, <2>2, <2>3 DEF OneJob
<1>8. CASE ~Free
  <2> DEFINE n == Len(inbound.data)
  <2>1. /\ inbound # Nothing /\ inbound \in Opened /\ inbound.data \in Seq(Message) /\ n \in Nat
        /\ Filled(inbound) /\ GoesOn(down[t], inbound.job, inbound.file, n)
        /\ m.job = inbound.job /\ m.file = inbound.file
    BY <1>0, <1>1, <1>8, LenProperties DEF Free, Holds, Rest, Opened
  <2>2. /\ m = Chunk(inbound.job, inbound.file, n + 1)
        /\ GoesOn(down'[t], inbound.job, inbound.file, n + 1)
    <3>1. IsChunk(Head(down[t]), inbound.job, inbound.file) /\ Head(down[t]).at <= Chunks
      BY <1>0, <1>1, <1>2, <2>1 DEF IsChunk
    <3>2. down[t] \in Seq(Message)
      BY <1>0
    <3> QED
      BY <1>1, <2>1, <3>1, <3>2, NextChunk
  <2>3. n + 1 <= Chunks /\ m.at = n + 1
    BY <1>0, <1>2, <2>1, <2>2 DEF Chunk
  <2>4. inbound' = Write(inbound, m)
    BY <1>0, <1>1, <2>1, <2>3 DEF OnChunk
  <2>5. /\ inbound'.job = inbound.job /\ inbound'.file = inbound.file
        /\ inbound'.data = Append(inbound.data, m) /\ ~Free'
    BY <1>8, <2>1, <2>4 DEF Write, Opened, Free, Nothing
  <2>6. Len(inbound'.data) = n + 1
    BY <2>1, <2>5, AppendProperties
  <2>7. Filled(inbound)'
    <3>1. \A k \in 1..n : inbound.data[k] = Chunk(inbound.job, inbound.file, k)
      BY <2>1 DEF Filled
    <3>2. inbound'.data = [k \in 1..(n + 1) |-> Chunk(inbound.job, inbound.file, k)]
      <4>1. \A k \in 1..(n + 1) : Append(inbound.data, m)[k] = Chunk(inbound.job, inbound.file, k)
        BY <2>1, <2>2, <3>1, AppendProperties
      <4>2. Append(inbound.data, m) = [k \in 1..(n + 1) |-> Append(inbound.data, m)[k]]
        BY <2>1, AppendProperties, LenProperties
      <4> QED
        BY <2>5, <4>1, <4>2
    <3> QED
      BY <2>5, <2>6, <3>2 DEF Filled
  <2>8. Holds'
    <3>1. ASSUME NEW p \in Paths PROVE GoesOn(down'[p], inbound.job, inbound.file, n + 1)
      <4>1. CASE p = t
        BY <2>2, <4>1
      <4>2. CASE p # t
        BY <1>1, <4>2, NoMsgs
      <4> QED
        BY <4>1, <4>2
    <3> QED
      BY <1>1, <2>1, <2>5, <2>6, <2>7, <3>1 DEF Holds, Rest
  <2>9. Current'
    <3>1. ASSUME phase = "pump", ~Gone, Whole(via)
          PROVE  offset = n + 1 \/ Chunk(job, file, offset) \in Msgs(down'[via])
      <4>1. Level(n) /\ m.job = job /\ m.file = file /\ inbound.job = job /\ inbound.file = file
        BY <1>0, <1>2, <1>8, <2>1, <3>1 DEF Current
      <4>2. offset >= n + 1
        BY <1>1, <1>2, <2>3, <3>1, <4>1 DEF Placed, AtMost, Reached, TypeInv, SenderTypes
      <4>3. Chunk(job, file, offset) \in Msgs(down[via])
        BY <2>1, <1>0, <4>1, <4>2 DEF Level
      <4>4. CASE Chunk(job, file, offset) = m
        BY <2>3, <4>4 DEF Chunk
      <4> QED
        BY <1>1, <4>3, <4>4
    <3>2. (Whole(via)' => Whole(via)) /\ ~Fresh' /\ via' = via
      BY <1>0, <1>1, <2>1, <2>6, EmptySeq DEF Whole, Fresh
    <3>3. phase' = "pump" /\ ~Gone' /\ Whole(via)' => Level(Len(inbound.data))'
      BY <1>0, <1>2, <2>6, <3>1, <3>2 DEF Level, Chunk
    <3>4. ~Gone => phase \in {"pump", "ack"} /\ inbound.job = job /\ inbound.file = file
      BY <1>2, <2>1
    <3> QED
      BY <1>0, <1>1, <1>2, <1>3, <2>5, <3>2, <3>3, <3>4 DEF Current
  <2> QED
    BY <1>4, <1>5, <1>6, <2>8, <2>9 DEF OneJob
<1> QED
  BY <1>7, <1>8
(* ... and its end closes it, when all of it has come.                     *)
LEMMA EndedItem ==
    ASSUME TypeInv, OneJob, NEW t \in Paths, OnEnd(t) \/ SinkFails(t)
    PROVE  OneJob'
<1>0. /\ Holds /\ Replies /\ Question /\ Current /\ Kept /\ Lines
      /\ UNCHANGED <<phase, job, file, offset, via, asking, creating>>
      /\ Incoming(t, Closes) /\ Take(t)
      /\ down \in [Paths -> Seq(Message)] /\ Chunks \in Nat
      /\ inbound \in Opened \cup {Nothing}
  BY ConversationAssumption
     DEF OneJob, OnEnd, SinkFails, Closes, Incoming, senderVars, jobVars, TypeInv, NetTypes,
         ReceiverTypes
<1>1. PICK m \in Message :
        /\ m = Head(down[t]) /\ m.k \in Closes /\ m \in Msgs(down[t]) /\ Placed(t, m)
        /\ m.job \in Jobs /\ m.file \in Nat
        /\ \A o \in Msgs(down'[t]) : /\ o \in Msgs(down[t])
                                     /\ Pos(o) \in Int /\ Pos(o) > Pos(m)
        /\ \A p \in Paths \ {t} : down'[p] = down[p] /\ Msgs(down[p]) = {}
        /\ path' = path /\ down'[t] = Tail(down[t]) /\ down[t] # <<>>
  <2>1. "text" \notin Closes
    BY DEF Closes
  <2> QED
    BY <1>0, <2>1, TakenMsg
<1>2. CASE UNCHANGED <<saved, up>> /\ (inbound' = inbound \/ inbound' = Nothing)
  <2>1. ASSUME NEW p \in Paths PROVE Thins(down'[p], down[p]) /\ Lasts(down'[p], down[p])
    <3>1. CASE p = t
      <4>1. down[t] \in Seq(Message) /\ down[t] # <<>> /\ Head(down[t]).k # "chunk"
        BY <1>0, <1>1 DEF Closes
      <4> QED
        BY <1>1, <3>1, <4>1, ThinTail
    <3>2. CASE p # t
      BY <1>1, <3>2, ThinSame
    <3> QED
      BY <3>1, <3>2
  <2>2. inbound' = inbound \/ Free'
    BY <1>2 DEF Free
  <2>3. Quiets
    BY <1>0, <1>1, <1>2, <2>1, <2>2 DEF Quiets, Whole, Gone, Kept
  <2> QED
    BY <2>3, QuietJob
<1>3. CASE ~(UNCHANGED <<saved, up>> /\ (inbound' = inbound \/ inbound' = Nothing))
  <2>1. /\ inbound.job = m.job /\ inbound.file = m.file /\ inbound' = Nothing
        /\ saved' = saved \cup {Finished(inbound)}
        /\ Reply(t, Msg("received", m.job, m.file))
    BY <1>0, <1>1, <1>3 DEF OnEnd, SinkFails
  <2>2. Bare' /\ Free' /\ phase # "decide" /\ ~Bare
    <3>1. ASSUME NEW o \in Msgs(down'[t]) PROVE FALSE
      <4>1. Placed(t, o)
        BY <1>0, <1>1, <3>1 DEF Lines
      <4>2. Pos(m) = Chunks + 1 /\ Pos(o) <= Chunks + 1
        BY <1>0, <1>1, <4>1 DEF Placed, Pos, Opens, Closes
      <4> QED
        BY <1>0, <1>1, <4>2
    <3>2. phase # "decide" /\ ~Bare
      BY <1>1 DEF Placed, Mine, Opens, Closes, Bare
    <3> QED
      BY <1>1, <2>1, <3>1, <3>2 DEF Bare, Free
  <2>3. Lines'
    BY <2>2, NoMsgs DEF Bare, Lines
  <2>4. Replies'
    <3>1. PICK a \in Message : a = Msg("received", m.job, m.file)
      BY <1>1, MessagesTyped
    <3>2. \A p \in Paths : Queued(up'[p]) \subseteq Queued(up[p]) \cup {a}
      BY <2>1, <3>1, ReplyAdds
    <3> SUFFICES ASSUME NEW p \in Paths, NEW b \in Queued(up'[p]) PROVE Truly(b)'
      BY DEF Replies
    <3>3. CASE b = a
      <4>1. b.k = "received" /\ b.job = m.job /\ b.file = m.file
        BY <3>1, <3>3 DEF Msg
      <4>2. AtMost(b.job, b.file, Chunks + 1)
        BY <1>1, <4>1 DEF Placed, Pos, Opens, Closes
      <4> QED
        BY <1>0, <2>2, <4>1, <4>2 DEF Truly, AtMost, Clear
    <3>4. CASE b \in Queued(up[p])
      <4>1. Truly(b)
        BY <1>0, <3>4 DEF Replies
      <4> QED
        BY <1>0, <2>2, <4>1 DEF Truly, AtMost, Clear
    <3> QED
      BY <3>2, <3>3, <3>4
  <2>5. Kept'
    <3>1. ASSUME inbound.job \notin Picked PROVE inbound.data = Content(inbound.job, inbound.file)
      <4>1. inbound \in Opened /\ ~Free
        BY <1>0, <1>1, <2>1, <3>1 DEF Nothing, Free, Jobs
      <4>2. GoesOn(down[t], inbound.job, inbound.file, Len(inbound.data)) /\ Filled(inbound)
        BY <1>0, <4>1 DEF Holds, Rest
      <4>3. Head(down[t]) = down[t][1] /\ 1 \in 1..Len(down[t])
        BY <1>0, <1>1, HeadTailProperties, EmptySeq, LenProperties
      <4>4. IsEnd(down[t][1], inbound.job, inbound.file)
        BY <1>1, <2>1, <4>3 DEF IsEnd
      <4>5. \A c : ~Earlier(down[t], c, 1)
        BY DEF Earlier
      <4>6. Len(inbound.data) = Chunks
        BY <4>2, <4>3, <4>4, <4>5 DEF GoesOn
      <4> QED
        BY <4>2, <4>6 DEF Filled, Content
    <3>2. \A r \in saved : r.job \notin Picked => r.data = Content(r.job, r.file)
      BY <1>0 DEF Kept
    <3>3. ASSUME NEW r \in saved', r.job \notin Picked PROVE r.data = Content(r.job, r.file)
      BY <2>1, <3>1, <3>2, <3>3 DEF Finished
    <3> QED
      BY <1>0, <3>3 DEF Kept
  <2>6. Question' /\ Holds'
    BY <1>0, <2>2 DEF Question, Holds
  <2>7. Current'
    <3>1. phase = "pump" => via \in Paths
      BY DEF TypeInv, SenderTypes
    <3> QED
      BY <1>0, <2>2, <3>1 DEF Current, Bare
  <2> QED
    BY <2>3, <2>4, <2>5, <2>6, <2>7 DEF OneJob
<1> QED
  BY <1>2, <1>3

----------------------------------------------------------------------------
(* As long as no job failed, every step keeps it.                          *)
LEMMA OneJobStep ==
    ASSUME TypeInv, [Next]_vars, failed' = {}, failed = {} => OneJob
    PROVE  OneJob'
<1>1. TypeInv'
  BY TypesStep
<1>2. failed \subseteq failed'
  <2>1. CASE UNCHANGED vars
    BY <2>1 DEF vars, senderVars, jobVars
  <2>2. CASE UNCHANGED jobVars \/ UNCHANGED senderVars
    BY <2>2 DEF senderVars, jobVars
  <2>3. CASE SenderStep \/ Timeouts \/ Begin
    BY <2>3 DEF Begin, SenderStep, StartItem, PumpChunk, EndItem, SendFails,
                Timeouts, DecisionTimesOut, AckTimesOut, JobFails
  <2>4. CASE SendText
    BY <2>4 DEF SendText, jobVars
  <2>5. ASSUME NEW t \in Paths, FromReceiver(t) PROVE failed \subseteq failed'
    BY <2>5 DEF FromReceiver, ResolveDecision, ResolveAck, JobFails, ItemDone, senderVars, jobVars
  <2>6. CASE SenderAborts
    BY <2>6 DEF SenderAborts, JobFails, ItemDone, senderVars, jobVars
  <2>7. CASE \/ \E t \in Paths : FromSender(t) \/ Breaks(t)
             \/ \E q \in asking : Accept(q) \/ Decline(q)
             \/ \E r \in creating : WritableReady(r)
             \/ DirectOpens \/ GoesMute \/ ReceiverAborts
    <3>1. UNCHANGED senderVars
      BY <2>7, ReceiverTyped
    <3> QED
      BY <2>2, <3>1
  <2> QED
    BY <2>1, <2>3, <2>4, <2>5, <2>6, <2>7 DEF Next
<1>3. OneJob
  BY <1>2
<1>4. CASE UNCHANGED vars
  <2>1. \A p \in Paths : Thins(down[p], down[p]) /\ Lasts(down[p], down[p])
    BY ThinSame
  <2>2. \A r \in creating : r.job \in Picked
    BY <1>3 DEF OneJob, Kept
  <2>3. Quiets
    BY <1>4, <2>1, <2>2 DEF vars, senderVars, jobVars, netVars, receiverVars, Quiets, Whole, Gone
  <2> QED
    BY <1>3, <2>3, QuietJob
<1>5. CASE Begin
  BY <1>1, <1>3, <1>5, BeginJob
<1>6. CASE SenderStep \/ Timeouts
  <2>1. CASE StartItem
    BY <1>1, <1>3, <2>1, StartedItem
  <2>2. CASE PumpChunk \/ EndItem
    BY <1>1, <1>3, <2>2, PumpedItem
  <2>3. CASE SendFails \/ Timeouts
    BY <2>3, FailureShows DEF SendFails, Timeouts, DecisionTimesOut, AckTimesOut
  <2> QED
    BY <1>6, <2>1, <2>2, <2>3 DEF SenderStep
<1>7. ASSUME NEW t \in Paths, FromReceiver(t) PROVE OneJob'
  BY <1>1, <1>3, <1>7, AnsweredJob
<1>8. ASSUME NEW t \in Paths, FromSender(t) PROVE OneJob'
  BY <1>3, <1>8, AnnouncedJob, OpenedItem, WrittenChunk, EndedItem, QuietNet DEF FromSender
<1>9. ASSUME NEW q \in asking, Accept(q) \/ Decline(q) PROVE OneJob'
  BY <1>3, <1>9, UserAnswers
<1>10. CASE SenderAborts
  BY <1>1, <1>3, <1>10, AbortedSender
<1>11. CASE \/ SendText \/ DirectOpens \/ GoesMute \/ ReceiverAborts
            \/ \E t \in Paths : Breaks(t)
            \/ \E r \in creating : WritableReady(r)
  BY <1>3, <1>11, QuietNet
<1> QED
  BY <1>4, <1>5, <1>6, <1>7, <1>8, <1>9, <1>10, <1>11 DEF Next

(* Over any paths, of which the better may open in the middle of a job or  *)
(* any may break, what the user is handed is intact as long as no job      *)
(* failed: a job starts when the one before it was confirmed to the end,   *)
(* and stays on the path it has acquired (transfer.js:175-177, 313-351).   *)
THEOREM IntactOverPaths == Spec => []IntactUndisturbed
<1> DEFINE I == TypeInv /\ (failed = {} => OneJob)
<1>1. Init => I
  BY TypesInit, OneJobInit
<1>2. I /\ [Next]_vars => I'
  BY TypesStep, OneJobStep
<1>3. I => IntactUndisturbed
  BY DEF IntactUndisturbed, OneJob, Kept
<1> QED
  BY <1>1, <1>2, <1>3, PTL DEF Spec
=============================================================================
