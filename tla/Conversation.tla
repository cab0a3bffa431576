---------------------------- MODULE Conversation ----------------------------
(***************************************************************************)
(* The transfer engine (transfer.js), one direction of one pair of peers:  *)
(* the sending half of one browser's Conversation, the receiving half of   *)
(* the other's, and the transports between them.  A job is one sendFiles   *)
(* or sendDoc; its items are its files, or the document.  Payload chunks   *)
(* carry no identity on the wire; the job, item and position recorded in   *)
(* them here are what the properties compare, and no guard reads them.     *)
(***************************************************************************)
EXTENDS Integers, Sequences, FiniteSets

CONSTANTS
    NJobs,      \* bound: jobs the user starts, one after the other
    Kind,       \* Kind[j]: "files", "doc" (auto-accepted) or "bigdoc" (asked)
    Files,      \* items of a "files" job
    Chunks,     \* chunks of an item
    Window,     \* chunks in flight before waitUntilWritable waits
    Picked,     \* jobs for which the receiver picks a file to stream to
    Paths,      \* transports that can come to exist
    MaxTexts,   \* bound: text messages the user sends beside
    Faults      \* what may go wrong

FaultKinds == {"timeout", "read", "break", "mute", "leave", "sink"}

ASSUME ConversationAssumption ==
    /\ NJobs \in Nat /\ Files \in Nat \ {0} /\ Chunks \in Nat \ {0} /\ Window \in Nat \ {0}
    /\ MaxTexts \in Nat
    /\ Kind \in [1..NJobs -> {"files", "doc", "bigdoc"}]
    /\ Picked \subseteq 1..NJobs
    /\ Paths \subseteq {"direct", "relay"}
    /\ Faults \subseteq FaultKinds

VARIABLES
    phase,      \* the running job: "idle", "decide", "next", "pump", "ack"
    job,        \* the last job started
    file,       \* its current item
    offset,     \* chunks of that item sent
    via,        \* the transport the job acquired
    done,       \* items the sender has shown as transferred
    failed,     \* jobs that ended declined or with an error
    texts,      \* text messages sent
    path,       \* path[t]: "none", "open", "closed", or "mute": dead but not known to be
    down, up,   \* per transport, messages to the receiver and back
    lost,       \* chunks swallowed by a mute transport
    asking,     \* confirmation dialogs open at the receiver
    batch,      \* #inboundBatch: the accepted job, or 0
    handle,     \* whether that batch still has its picked file handle
    creating,   \* items waiting for createWritable
    inbound,    \* #inbound: the item being received, with its data so far
    saved,      \* items handed to the user, with their data
    shown       \* text messages shown to the user, in order

jobVars      == <<phase, job, file, offset, via, done, failed>>
senderVars   == <<jobVars, texts>>
netVars      == <<path, down, up, lost>>
receiverVars == <<asking, batch, handle, creating, inbound, saved, shown>>
vars == <<senderVars, netVars, receiverVars>>

Jobs == 1..NJobs
Nothing == [job |-> 0, file |-> 0, via |-> "none", data |-> <<>>]

Items(j) == IF Kind[j] = "files" THEN Files ELSE 1
IsDoc(j) == Kind[j] # "files"

Chunk(j, f, k) == [k |-> "chunk", job |-> j, file |-> f, at |-> k]
Content(j, f)  == [k \in 1..Chunks |-> Chunk(j, f, k)]
Msg(kind, j, f) == [k |-> kind, job |-> j, file |-> f]

Init ==
    /\ phase = "idle" /\ job = 0 /\ file = 0 /\ offset = 0 /\ via = "none"
    /\ done = {} /\ failed = {} /\ texts = 0 /\ shown = <<>>
    /\ path = [t \in Paths |-> IF t = "relay" THEN "open" ELSE "none"]
    /\ down = [t \in Paths |-> <<>>] /\ up = [t \in Paths |-> <<>>]
    /\ lost = 0
    /\ asking = {} /\ batch = 0 /\ handle = FALSE /\ creating = {}
    /\ inbound = Nothing /\ saved = {}

----------------------------------------------------------------------------
(* Transports, as transfer.js uses them.                                   *)

Usable(t) == path[t] \in {"open", "mute"}    \* send does not throw

(* transport.send: a mute transport drops the message.                     *)
SendDown(t, m) ==
    /\ down' = [down EXCEPT ![t] = IF path[t] = "mute" THEN @ ELSE Append(@, m)]
    /\ UNCHANGED up

Reply(t, m) ==
    up' = [up EXCEPT ![t] = IF path[t] = "open" THEN Append(@, m) ELSE @]

(* acquireTransport: the direct path if it is open, else the relay.        *)
Acquired == IF "direct" \in Paths /\ path["direct"] = "open" THEN "direct" ELSE "relay"

(* ICE may succeed at any time, also while a transfer runs on the relay.   *)
DirectOpens ==
    /\ "direct" \in Paths /\ path["direct"] = "none"
    /\ path' = [path EXCEPT !["direct"] = "open"]
    /\ UNCHANGED <<down, up, lost, senderVars, receiverVars>>

(* A path closes: of what is in flight, a prefix still arrives.            *)
Breaks(t) ==
    /\ "break" \in Faults /\ path[t] = "open"
    /\ path' = [path EXCEPT ![t] = "closed"]
    /\ \E n \in 0..Len(down[t]) : down' = [down EXCEPT ![t] = SubSeq(@, 1, n)]
    /\ up' = [up EXCEPT ![t] = <<>>]
    /\ UNCHANGED <<lost, senderVars, receiverVars>>

(* The relay session is dead and the sender is not told: the receiver's    *)
(* connection was displaced, or the sender's own reconnected.              *)
GoesMute ==
    /\ "mute" \in Faults /\ "relay" \in Paths /\ path["relay"] = "open"
    /\ path' = [path EXCEPT !["relay"] = "mute"]
    /\ down' = [down EXCEPT !["relay"] = <<>>]
    /\ up'   = [up EXCEPT !["relay"] = <<>>]
    /\ UNCHANGED <<lost, senderVars, receiverVars>>

----------------------------------------------------------------------------
(* Sending.  #sending is held exactly while phase is not "idle".           *)

(* An await rejects or a send throws: the error is shown, the lock freed.  *)
JobFails ==
    /\ phase' = "idle" /\ failed' = failed \cup {job}
    /\ UNCHANGED <<job, file, offset, via, done, texts>>

(* sendFiles, sendDoc: take the lock, acquire a transport, announce the    *)
(* job, and wait for the decision.                                         *)
Begin ==
    /\ phase = "idle" /\ job < NJobs
    /\ Acquired \in Paths /\ Usable(Acquired)
    /\ job' = job + 1 /\ via' = Acquired /\ phase' = "decide"
    /\ SendDown(Acquired, Msg(IF IsDoc(job') THEN "dstart" ELSE "batch", job', 1))
    /\ UNCHANGED <<file, offset, done, failed, texts, path, lost, receiverVars>>

(* sendText takes whatever path is best now, beside a running job.         *)
Text(n) == Msg("text", 0, n)

SendTextLocked ==         \* mutant: a running job holds back texts for good
    /\ texts < MaxTexts /\ Acquired \in Paths /\ Usable(Acquired)
    /\ texts' = texts + 1
    /\ IF phase = "idle" THEN SendDown(Acquired, Text(texts + 1)) ELSE UNCHANGED <<down, up>>
    /\ UNCHANGED <<jobVars, path, lost, receiverVars>>

SendText ==
    /\ texts < MaxTexts /\ Acquired \in Paths /\ Usable(Acquired)
    /\ texts' = texts + 1 /\ SendDown(Acquired, Text(texts + 1))
    /\ UNCHANGED <<jobVars, path, lost, receiverVars>>

DecisionTimesOut ==
    /\ "timeout" \in Faults /\ phase = "decide"
    /\ JobFails /\ UNCHANGED <<netVars, receiverVars>>

(* #sendOne announces a file; #runDoc goes straight to its chunks.         *)
StartItem ==
    /\ phase = "next" /\ Usable(via)
    /\ phase' = "pump" /\ offset' = 0
    /\ IF IsDoc(job) THEN UNCHANGED <<down, up>> ELSE SendDown(via, Msg("fstart", job, file))
    /\ UNCHANGED <<job, file, via, done, failed, texts, path, lost, receiverVars>>

(* #pump: one chunk, once the transport is writable.                       *)
InFlight == Cardinality({n \in 1..Len(down[via]) : down[via][n].k = "chunk"}) + lost

PumpPastEnd ==            \* mutant: one chunk too many
    /\ phase = "pump" /\ offset <= Chunks
    /\ Usable(via) /\ InFlight < Window
    /\ offset' = offset + 1
    /\ SendDown(via, Chunk(job, file, offset + 1))
    /\ UNCHANGED <<phase, job, file, via, done, failed, texts, path, lost, receiverVars>>

PumpBestPath ==           \* mutant: each chunk takes the best path of the moment
    /\ phase = "pump" /\ offset < Chunks
    /\ Usable(Acquired) /\ InFlight < Window
    /\ offset' = offset + 1
    /\ SendDown(Acquired, Chunk(job, file, offset + 1))
    /\ UNCHANGED <<phase, job, file, via, done, failed, texts, path, lost, receiverVars>>

PumpChunk ==
    /\ phase = "pump" /\ offset < Chunks
    /\ Usable(via) /\ InFlight < Window
    /\ offset' = offset + 1
    /\ SendDown(via, Chunk(job, file, offset + 1))
    /\ lost' = IF path[via] = "mute" THEN lost + 1 ELSE lost
    /\ UNCHANGED <<phase, job, file, via, done, failed, texts, path, receiverVars>>

(* The last chunk is out: end the item and wait for its confirmation.      *)
EndUnconfirmed ==         \* mutant: done as soon as all is sent
    /\ phase = "pump" /\ offset = Chunks /\ Usable(via)
    /\ phase' = "idle" /\ done' = done \cup {<<job, file>>}
    /\ SendDown(via, Msg(IF IsDoc(job) THEN "dend" ELSE "fend", job, file))
    /\ UNCHANGED <<job, file, offset, via, failed, texts, path, lost, receiverVars>>

EndItem ==
    /\ phase = "pump" /\ offset = Chunks /\ Usable(via)
    /\ phase' = "ack"
    /\ SendDown(via, Msg(IF IsDoc(job) THEN "dend" ELSE "fend", job, file))
    /\ UNCHANGED <<job, file, offset, via, done, failed, texts, path, lost, receiverVars>>

(* A send throws, waitUntilWritable rejects, or the file cannot be read.   *)
SendFailsOnlyOnRead ==    \* mutant: a closed transport is waited for
    /\ phase = "pump" /\ "read" \in Faults /\ offset < Chunks
    /\ JobFails /\ UNCHANGED <<netVars, receiverVars>>

SendFails ==
    /\ \/ phase \in {"next", "pump"} /\ ~Usable(via)
       \/ phase = "pump" /\ "read" \in Faults /\ offset < Chunks
    /\ JobFails /\ UNCHANGED <<netVars, receiverVars>>

AckTimesOut ==
    /\ "timeout" \in Faults /\ phase = "ack"
    /\ JobFails /\ UNCHANGED <<netVars, receiverVars>>

----------------------------------------------------------------------------
(* The sender's #onMessage: decisions and confirmations.  One for anything *)
(* but the job and item waited for is ignored.                             *)

Answer(t, kinds) == up[t] # <<>> /\ Head(up[t]).k \in kinds
PopUp(t) == up' = [up EXCEPT ![t] = Tail(@)] /\ UNCHANGED <<path, down, lost>>

ResolveDecision(t) ==
    /\ Answer(t, {"accept", "decline"})
    /\ LET m == Head(up[t])
       IN  IF phase # "decide" \/ m.job # job THEN UNCHANGED senderVars
           ELSE IF m.k = "decline" THEN JobFails
           ELSE /\ phase' = "next" /\ file' = 1
                /\ UNCHANGED <<job, offset, via, done, failed, texts>>
    /\ PopUp(t) /\ UNCHANGED receiverVars

(* The item is shown as sent; the next one follows, or the job is over.    *)
ItemDoneEndsEarly ==       \* mutant: the last item is left out
    /\ done' = done \cup {<<job, file>>}
    /\ IF file < Items(job) - 1 THEN phase' = "next" /\ file' = file + 1
                                ELSE phase' = "idle" /\ UNCHANGED file
    /\ UNCHANGED <<job, offset, via, failed, texts>>

ItemDone ==
    /\ done' = done \cup {<<job, file>>}
    /\ IF file < Items(job) THEN phase' = "next" /\ file' = file + 1
                            ELSE phase' = "idle" /\ UNCHANGED file
    /\ UNCHANGED <<job, offset, via, failed, texts>>

ResolveAck(t) ==
    /\ Answer(t, {"received"})
    /\ LET m == Head(up[t])
       IN  IF phase = "ack" /\ m.job = job /\ m.file = file
           THEN ItemDone ELSE UNCHANGED senderVars
    /\ PopUp(t) /\ UNCHANGED receiverVars

----------------------------------------------------------------------------
(* The receiver's #onMessage.                                              *)

Incoming(t, kinds) == down[t] # <<>> /\ Head(down[t]).k \in kinds
Take(t) == down' = [down EXCEPT ![t] = Tail(@)] /\ UNCHANGED <<path, lost>>

Receiving(j, f, t) == [job |-> j, file |-> f, via |-> t, data |-> <<>>]

(* The sinks: a chunk goes after those before it, and what is handed over  *)
(* at the end is all of them.                                              *)
Write(item, chunk) == [item EXCEPT !.data = Append(@, chunk)]
Finished(item) == [job |-> item.job, file |-> item.file, data |-> item.data]

(* #onBatch, or #onDocStart of a large document: ask the user.             *)
Ask(t) ==
    /\ Incoming(t, {"batch", "dstart"}) /\ Kind[Head(down[t]).job] # "doc"
    /\ asking' = asking \cup {[job |-> Head(down[t]).job, via |-> t]}
    /\ Take(t) /\ UNCHANGED <<up, senderVars, batch, handle, creating, inbound, saved, shown>>

(* The user answers.  The accepted state is set before the reply is sent.  *)
Accept(q) ==
    /\ asking' = asking \ {q}
    /\ IF IsDoc(q.job)
       THEN inbound' = Receiving(q.job, 1, q.via) /\ UNCHANGED <<batch, handle>>
       ELSE batch' = q.job /\ handle' = (q.job \in Picked) /\ UNCHANGED inbound
    /\ Reply(q.via, Msg("accept", q.job, 1))
    /\ UNCHANGED <<senderVars, path, down, lost, creating, saved, shown>>

Decline(q) ==
    /\ asking' = asking \ {q}
    /\ Reply(q.via, Msg("decline", q.job, 1))
    /\ UNCHANGED <<senderVars, path, down, lost, batch, handle, creating, inbound, saved, shown>>

(* #onDocStart of a small document: accepted without asking.               *)
OnDocStart(t) ==
    /\ Incoming(t, {"dstart"}) /\ Kind[Head(down[t]).job] = "doc"
    /\ inbound' = Receiving(Head(down[t]).job, 1, t)
    /\ Reply(t, Msg("accept", Head(down[t]).job, 1))
    /\ Take(t) /\ UNCHANGED <<senderVars, asking, batch, handle, creating, saved, shown>>

(* #onFileStart: ignored unless it is of the accepted batch.  With a       *)
(* picked handle it awaits createWritable before it sets #inbound, and     *)
(* messages keep coming meanwhile.                                         *)
OnFileStartKeepsSink(t) ==    \* mutant: the sink of an unfinished item is reused
    /\ Incoming(t, {"fstart"})
    /\ inbound' = IF Head(down[t]).job # batch THEN inbound
                  ELSE [inbound EXCEPT !.job = batch, !.file = Head(down[t]).file]
    /\ Take(t) /\ UNCHANGED <<up, senderVars, asking, batch, handle, creating, saved, shown>>

OnFileStart(t) ==
    /\ Incoming(t, {"fstart"})
    /\ LET m == Head(down[t])
       IN  IF m.job # batch THEN UNCHANGED <<creating, inbound>>
           ELSE IF handle
           THEN creating' = creating \cup {Receiving(m.job, m.file, t)} /\ UNCHANGED inbound
           ELSE inbound' = Receiving(m.job, m.file, t) /\ UNCHANGED creating
    /\ Take(t) /\ UNCHANGED <<up, senderVars, asking, batch, handle, saved, shown>>

WritableReady(r) ==
    /\ creating' = creating \ {r}
    /\ inbound' = r
    /\ handle' = (handle /\ batch # r.job)
    /\ UNCHANGED <<senderVars, netVars, asking, batch, saved, shown>>

(* #onChunk: whatever arrives belongs to what is open, on either path; a   *)
(* document is cut off when it exceeds what it announced.                  *)
OnChunk(t) ==
    /\ Incoming(t, {"chunk"})
    /\ inbound' = IF inbound = Nothing THEN Nothing
                  ELSE IF IsDoc(inbound.job) /\ Len(inbound.data) >= Chunks THEN Nothing
                  ELSE Write(inbound, Head(down[t]))
    /\ Take(t) /\ UNCHANGED <<up, senderVars, asking, batch, handle, creating, saved, shown>>

(* #onFileEnd, #onDocEnd: close the open item, hand it to the user and     *)
(* confirm it; ignored when another item is open.                          *)
OnEnd(t) ==
    /\ Incoming(t, {"fend", "dend"})
    /\ LET m == Head(down[t])
       IN  IF inbound.job = m.job /\ inbound.file = m.file
           THEN /\ inbound' = Nothing
                /\ saved' = saved \cup {Finished(inbound)}
                /\ Reply(t, Msg("received", m.job, m.file))
           ELSE UNCHANGED <<inbound, saved, up>>
    /\ Take(t) /\ UNCHANGED <<senderVars, asking, batch, handle, creating, shown>>

(* The sink of the open item cannot be closed, as after a failed write:    *)
(* nothing is saved, and the sender is left to its timeout.                *)
SinkFails(t) ==
    /\ "sink" \in Faults /\ Incoming(t, {"fend"})
    /\ inbound.job = Head(down[t]).job /\ inbound.file = Head(down[t]).file
    /\ inbound' = Nothing
    /\ Take(t) /\ UNCHANGED <<up, senderVars, asking, batch, handle, creating, saved, shown>>

OnText(t) ==
    /\ Incoming(t, {"text"})
    /\ shown' = Append(shown, Head(down[t]).file)
    /\ Take(t) /\ UNCHANGED <<up, senderVars, asking, batch, handle, creating, inbound, saved>>

----------------------------------------------------------------------------
(* abortAll, when the server reports the peer gone: the link is disposed   *)
(* of and its transports closed.  On the sending side a pending decision   *)
(* resolves as declined and pending confirmations resolve.                 *)
AllClosed ==
    /\ path' = [t \in Paths |-> "closed"]
    /\ up' = [t \in Paths |-> <<>>]
    /\ UNCHANGED <<down, lost>>

SenderAborts ==
    /\ "leave" \in Faults /\ \E t \in Paths : path[t] # "closed"
    /\ \/ phase = "decide" /\ JobFails
       \/ phase = "ack" /\ ItemDone
       \/ phase \notin {"decide", "ack"} /\ UNCHANGED senderVars
    /\ AllClosed /\ UNCHANGED receiverVars

ReceiverAborts ==
    /\ "leave" \in Faults /\ \E t \in Paths : path[t] # "closed"
    /\ inbound' = Nothing
    /\ path' = [t \in Paths |-> "closed"]
    /\ up' = [t \in Paths |-> <<>>] /\ down' = [t \in Paths |-> <<>>]
    /\ UNCHANGED <<lost, senderVars, asking, batch, handle, creating, saved, shown>>

----------------------------------------------------------------------------
SenderStep == StartItem \/ PumpChunk \/ EndItem \/ SendFails
Timeouts   == DecisionTimesOut \/ AckTimesOut

FromReceiver(t) == ResolveDecision(t) \/ ResolveAck(t)
FromSender(t)   == \/ Ask(t) \/ OnDocStart(t) \/ OnFileStart(t) \/ OnChunk(t) \/ OnEnd(t)
                   \/ SinkFails(t) \/ OnText(t)

Next ==
    \/ Begin \/ SendText \/ SenderStep \/ Timeouts
    \/ \E t \in Paths : FromReceiver(t) \/ FromSender(t) \/ Breaks(t)
    \/ \E q \in asking : Accept(q) \/ Decline(q)
    \/ \E r \in creating : WritableReady(r)
    \/ DirectOpens \/ GoesMute \/ SenderAborts \/ ReceiverAborts

Spec == Init /\ [][Next]_vars

(* The event loop runs what is due, transports deliver and timers fire;    *)
(* the user need not answer.                                               *)
Fairness ==
    /\ WF_vars(SenderStep) /\ WF_vars(Timeouts)
    /\ \A t \in Paths : WF_vars(FromReceiver(t)) /\ WF_vars(FromSender(t))

FairSpec == Spec /\ Fairness

----------------------------------------------------------------------------
Message == [k : {"chunk"}, job : Jobs, file : Nat, at : Nat]
           \cup [k : {"batch", "dstart", "fstart", "fend", "dend",
                      "accept", "decline", "received"}, job : Jobs, file : Nat]
           \cup [k : {"text"}, job : {0}, file : 1..MaxTexts]

(* Every variable has its type, and a batch only holds a picked handle     *)
(* while it is the accepted one.                                           *)
TypeOK ==
    /\ phase \in {"idle", "decide", "next", "pump", "ack"}
    /\ job \in 0..NJobs /\ file \in Nat /\ offset \in 0..Chunks
    /\ via \in Paths \cup {"none"} /\ failed \subseteq Jobs
    /\ done \subseteq Jobs \X Nat
    /\ path \in [Paths -> {"none", "open", "closed", "mute"}]
    /\ down \in [Paths -> Seq(Message)] /\ up \in [Paths -> Seq(Message)]
    /\ texts \in 0..MaxTexts /\ shown \in Seq(1..MaxTexts)
    /\ lost \in Nat /\ batch \in 0..NJobs /\ handle \in BOOLEAN
    /\ handle => batch \in Picked

(* What the receiver hands to the user as an item is that item, whole and  *)
(* in order: chunks never go missing, or end up in another item            *)
(* (transfer.js:5-9, 175-177).                                             *)
Integrity == \A r \in saved : r.data = Content(r.job, r.file)

(* An item shown to the sender as transferred has been saved by the        *)
(* receiver, whole (transfer.js:344-351).                                  *)
SentMeansSaved == \A i \in done :
    [job |-> i[1], file |-> i[2], data |-> Content(i[1], i[2])] \in saved

(* Over one path, text messages are shown once and in order, without gaps, *)
(* whatever job runs beside them (transfer.js:210-213, 421).               *)
TextsInOrder == \A i \in 1..Len(shown) : shown[i] = i

(* Nothing has gone wrong so far: no job failed, and no path was lost.     *)
Undisturbed == failed = {} /\ \A t \in Paths : path[t] \in {"none", "open"}

(* Over two paths, of which the better may open in the middle of a job,    *)
(* what is saved is intact as long as every earlier job went well and the  *)
(* item is not streamed to a picked file (app.js:194-200).                 *)
IntactUndisturbed == failed = {} => \A r \in saved :
    r.job \notin Picked => r.data = Content(r.job, r.file)

(* A job that was accepted is delivered and confirmed, item by item, also  *)
(* when a better path opens meanwhile, unless something goes wrong         *)
(* (transfer.js:313-351).                                                  *)
Delivers == \A j \in Jobs \ Picked :
    phase = "next" /\ job = j ~>
        (\A f \in 1..Items(j) : <<j, f>> \in done) \/ ~Undisturbed

(* A running job ends: the lock it holds is released, and further          *)
(* transfers to the peer are possible (transfer.js:284-292).               *)
LockReleased == phase # "idle" ~> phase = "idle"
=============================================================================
