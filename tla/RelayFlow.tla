------------------------------ MODULE RelayFlow -----------------------------
(***************************************************************************)
(* Flow control of the relay fallback (relay.js), one direction of one     *)
(* session: the sender's byte counters and credit window, the receiver's   *)
(* cumulative acknowledgements, and the server between them, which         *)
(* forwards frames and acks in order.  Sizes are in bytes.                 *)
(***************************************************************************)
EXTENDS Integers, Sequences

CONSTANTS
    CreditWindow,   \* CREDIT_WINDOW
    AckInterval,    \* ACK_INTERVAL
    ChunkSize,      \* largest chunk #pump sends (CHUNK_SIZE)
    TextSize,       \* largest control message
    MaxSent         \* bound: bytes sent in a behaviour

ASSUME FlowAssumption ==
    /\ CreditWindow \in Nat /\ AckInterval \in Nat \ {0}
    /\ ChunkSize \in Nat \ {0} /\ TextSize \in Nat \ {0} /\ MaxSent \in Nat
    /\ AckInterval <= CreditWindow

VARIABLES
    sent, acked,            \* the sender's #sent and #acked
    received, ackedUpTo,    \* the receiver's #received and #ackedUpTo
    ready,                  \* #pump's waitUntilWritable resolved, chunk not sent yet
    frames,                 \* frames under way, with their place in the stream
    acks,                   \* relay-acks under way
    text, textReceived, textAcked   \* control-message bytes sent, received, acked

(* The last line and the from and text fields of frames and acks record    *)
(* history for the properties; no step reads them.                         *)
history == <<text, textReceived, textAcked>>
vars == <<sent, acked, received, ackedUpTo, ready, frames, acks, history>>

Init ==
    /\ sent = 0 /\ acked = 0 /\ received = 0 /\ ackedUpTo = 0
    /\ ready = FALSE /\ frames = <<>> /\ acks = <<>>
    /\ text = 0 /\ textReceived = 0 /\ textAcked = 0

----------------------------------------------------------------------------
Writable == sent - acked <= CreditWindow

(* waitUntilWritable resolves, at once or on a poll.  #pump then awaits    *)
(* the chunk's bytes, and other messages may be sent before the chunk is.  *)
WaitForgotten ==          \* mutant: the pump does not await it
    /\ ~ready
    /\ ready' = TRUE
    /\ UNCHANGED <<sent, acked, received, ackedUpTo, frames, acks, history>>

waitUntilWritable ==
    /\ ~ready /\ Writable
    /\ ready' = TRUE
    /\ UNCHANGED <<sent, acked, received, ackedUpTo, frames, acks, history>>

write(size) ==
    /\ sent + size <= MaxSent
    /\ sent' = sent + size

SendChunk(size) ==
    /\ ready
    /\ write(size)
    /\ frames' = Append(frames, [from |-> sent, size |-> size, text |-> text])
    /\ ready' = FALSE
    /\ UNCHANGED <<acked, received, ackedUpTo, acks, history>>

(* Texts, decisions and confirmations are sent without waiting.            *)
SendText(size) ==
    /\ write(size)
    /\ text' = text + size
    /\ frames' = Append(frames, [from |-> sent, size |-> size, text |-> text'])
    /\ UNCHANGED <<acked, received, ackedUpTo, ready, acks, textReceived, textAcked>>

(* #receive: count the frame, and acknowledge once enough has come in.     *)
(* Mutants: report a difference, the wrong way round; report the count of  *)
(* the ack before.                                                         *)
AckDifference(bytes, t) ==
    /\ ackedUpTo' = bytes
    /\ acks' = Append(acks, [bytes |-> ackedUpTo - bytes, text |-> t])

AckPrevious(bytes, t) ==
    /\ ackedUpTo' = bytes
    /\ acks' = Append(acks, [bytes |-> ackedUpTo, text |-> t])

Ack(bytes, t) == ackedUpTo' = bytes /\ acks' = Append(acks, [bytes |-> bytes, text |-> t])

Receive ==
    /\ frames # <<>>
    /\ received' = received + Head(frames).size
    /\ textReceived' = Head(frames).text
    /\ frames' = Tail(frames)
    /\ IF received' - ackedUpTo >= AckInterval
       THEN Ack(received', textReceived') ELSE UNCHANGED <<ackedUpTo, acks>>
    /\ UNCHANGED <<sent, acked, ready, text, textAcked>>

(* flushAck, at the end of each item.                                      *)
FlushAck ==
    /\ received # ackedUpTo
    /\ Ack(received, textReceived)
    /\ UNCHANGED <<sent, acked, received, ready, frames, history>>

(* applyAck: the larger of the two counts.                                 *)
ApplyAckSmaller ==        \* mutant: the smaller of the two
    /\ acks # <<>>
    /\ acks' = Tail(acks)
    /\ UNCHANGED <<sent, acked, received, ackedUpTo, ready, frames, history>>

ApplyAck ==
    /\ acks # <<>>
    /\ IF Head(acks).bytes > acked
       THEN acked' = Head(acks).bytes /\ textAcked' = Head(acks).text
       ELSE UNCHANGED <<acked, textAcked>>
    /\ acks' = Tail(acks)
    /\ UNCHANGED <<sent, received, ackedUpTo, ready, frames, text, textReceived>>

----------------------------------------------------------------------------
Next ==
    \/ waitUntilWritable
    \/ \E size \in 1..ChunkSize : SendChunk(size)
    \/ \E size \in 1..TextSize : SendText(size)
    \/ Receive \/ FlushAck \/ ApplyAck

Spec == Init /\ [][Next]_vars

(* The server forwards and the browsers handle what arrives; nobody need   *)
(* send, nor flush.                                                        *)
FairSpec == Spec /\ WF_vars(Receive) /\ WF_vars(ApplyAck)

----------------------------------------------------------------------------
(* All counters are naturals, frames and acks have their shape.            *)
Frame == [from : Nat, size : Nat \ {0}, text : Nat]
AckMsg == [bytes : Nat, text : Nat]

TypeOK ==
    /\ sent \in Nat /\ acked \in Nat /\ received \in Nat /\ ackedUpTo \in Nat
    /\ ready \in BOOLEAN /\ frames \in Seq(Frame) /\ acks \in Seq(AckMsg)
    /\ text \in Nat /\ textReceived \in Nat /\ textAcked \in Nat

(* File bytes the sender has sent and not seen acknowledged never exceed   *)
(* the window by more than one chunk, however many control messages slip   *)
(* past the window and between the check and the send: this is what bounds *)
(* the server's memory for a transfer (relay.js:15-17).                    *)
ChunkBytesUnacked == (sent - text) - (acked - textAcked)

WindowRespected == ChunkBytesUnacked <= CreditWindow + ChunkSize

(* With nothing under way the sender may send: waiting for credit never    *)
(* waits for an ack that nobody owes (relay.js:19-20, 150-170).            *)
NoStall == frames = <<>> /\ acks = <<>> => Writable

(* A sender out of credit gets it back.                                    *)
CreditReturns == ~Writable ~> Writable
=============================================================================
