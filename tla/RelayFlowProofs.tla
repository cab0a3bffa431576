--------------------------- MODULE RelayFlowProofs --------------------------
(***************************************************************************)
(* RelayFlow is correct for every window, interval and message size.       *)
(*                                                                         *)
(* The window bounds file bytes although control messages bypass it.  The  *)
(* induction therefore follows file bytes and control bytes separately     *)
(* along the pipes: frames and acks each form a chain, along which the     *)
(* number of file bytes never decreases.                                   *)
(***************************************************************************)
EXTENDS RelayFlow, SequenceTheorems, TLAPS

ChunkEnd(m) == (m.from + m.size) - m.text
ChunkAck(m) == m.bytes - m.text

Counters ==
    /\ acked <= ackedUpTo /\ ackedUpTo <= received
    /\ received - ackedUpTo < AckInterval
    /\ textReceived <= text /\ textAcked <= text

(* The frames under way continue the stream where the receiver is and end  *)
(* where the sender is.                                                    *)
FrameChain ==
    /\ frames = <<>> => received = sent /\ textReceived = text
    /\ frames # <<>> =>
         /\ frames[1].from = received
         /\ received - textReceived <= ChunkEnd(frames[1])
         /\ frames[Len(frames)].from + frames[Len(frames)].size = sent
         /\ frames[Len(frames)].text = text
    /\ \A k \in 1..Len(frames) : frames[k].text <= text
    /\ \A k \in 1..(Len(frames) - 1) :
         /\ frames[k].from + frames[k].size = frames[k + 1].from
         /\ ChunkEnd(frames[k]) <= ChunkEnd(frames[k + 1])

(* The acks under way lead from what the sender knows to what the receiver *)
(* last said.                                                              *)
AckChain ==
    /\ acks = <<>> => acked = ackedUpTo /\ acked - textAcked <= received - textReceived
    /\ acks # <<>> =>
         /\ acked - textAcked <= ChunkAck(acks[1])
         /\ acks[Len(acks)].bytes = ackedUpTo
         /\ ChunkAck(acks[Len(acks)]) <= received - textReceived
    /\ \A k \in 1..Len(acks) : acks[k].bytes <= ackedUpTo /\ acks[k].text <= text
    /\ \A k \in 1..(Len(acks) - 1) : ChunkAck(acks[k]) <= ChunkAck(acks[k + 1])

Credit ==
    /\ ready => ChunkBytesUnacked <= CreditWindow
    /\ WindowRespected

IInv == TypeOK /\ Counters /\ FrameChain /\ AckChain /\ Credit

----------------------------------------------------------------------------
(* What appending to and taking from a queue does to its entries.          *)
LEMMA AppendFacts ==
    ASSUME NEW S, NEW q \in Seq(S), NEW e \in S
    PROVE  /\ Append(q, e) \in Seq(S) /\ Append(q, e) # <<>>
           /\ Len(Append(q, e)) = Len(q) + 1
           /\ Append(q, e)[Len(q) + 1] = e
           /\ \A k \in 1..Len(q) : Append(q, e)[k] = q[k]
           /\ q = <<>> <=> Len(q) = 0
           /\ Len(q) \in Nat
  OBVIOUS

LEMMA TailFacts ==
    ASSUME NEW S, NEW q \in Seq(S), q # <<>>
    PROVE  /\ Len(q) \in Nat \ {0}
           /\ Head(q) = q[1] /\ q[1] \in S
           /\ Tail(q) \in Seq(S) /\ Len(Tail(q)) = Len(q) - 1
           /\ \A k \in 1..(Len(q) - 1) : Tail(q)[k] = q[k + 1]
           /\ Tail(q) = <<>> <=> Len(q) = 1
  <1>1. Len(q) \in Nat \ {0} /\ Head(q) = q[1] /\ q[1] \in S
    BY EmptySeq
  <1>2. Tail(q) \in Seq(S) /\ Len(Tail(q)) = Len(q) - 1
    BY HeadTailProperties
  <1>3. \A k \in 1..(Len(q) - 1) : Tail(q)[k] = q[k + 1]
    BY <1>2, HeadTailProperties
  <1>4. Tail(q) = <<>> <=> Len(Tail(q)) = 0
    BY <1>2, EmptySeq
  <1> QED BY <1>1, <1>2, <1>3, <1>4

----------------------------------------------------------------------------
LEMMA InitOK == Init => IInv
  <1> SUFFICES ASSUME Init PROVE IInv
    OBVIOUS
  <1> USE FlowAssumption DEF Init
  <1>1. TypeOK
    <2>1. ready \in BOOLEAN
      OBVIOUS
    <2>2. frames \in Seq(Frame) /\ acks \in Seq(AckMsg)
      BY EmptySeq
    <2> QED BY <2>1, <2>2 DEF TypeOK
  <1>4. Counters
    BY DEF Counters
  <1>2. FrameChain /\ AckChain
    BY DEF FrameChain, AckChain
  <1>3. Credit
    BY DEF Credit, WindowRespected, ChunkBytesUnacked
  <1> QED BY <1>1, <1>2, <1>3, <1>4 DEF IInv

LEMMA WaitOK == IInv /\ waitUntilWritable => IInv'
  <1> SUFFICES ASSUME IInv, waitUntilWritable PROVE IInv'
    OBVIOUS
  <1> USE FlowAssumption DEF IInv, waitUntilWritable, history
  <1>1. (TypeOK /\ Counters /\ FrameChain /\ AckChain)'
    BY DEF TypeOK, Counters, FrameChain, AckChain, ChunkEnd, ChunkAck
  <1>2. Credit'
    BY DEF TypeOK, Counters, Credit, Writable, WindowRespected, ChunkBytesUnacked
  <1> QED BY <1>1, <1>2

(* What both sends do to the chain of frames.                              *)
LEMMA ExtendChain ==
    ASSUME TypeOK, Counters, FrameChain, NEW size \in Nat \ {0}, NEW t \in Nat,
           text <= t, t <= text + size, sent' = sent + size, text' = t,
           frames' = Append(frames, [from |-> sent, size |-> size, text |-> t]),
           received' = received, textReceived' = textReceived
    PROVE  FrameChain' /\ frames' \in Seq(Frame)
  <1> DEFINE m == [from |-> sent, size |-> size, text |-> t]
  <1>1. /\ m \in Frame /\ frames \in Seq(Frame)
        /\ m.from = sent /\ m.size = size /\ m.text = t
    BY DEF TypeOK, Frame
  <1>2. /\ frames' \in Seq(Frame) /\ frames' # <<>>
        /\ Len(frames') = Len(frames) + 1 /\ frames'[Len(frames')] = m
        /\ \A k \in 1..Len(frames) : frames'[k] = frames[k]
        /\ frames = <<>> <=> Len(frames) = 0
        /\ Len(frames) \in Nat
    BY <1>1, AppendFacts
  <1>3. \A k \in 1..Len(frames) : frames[k] \in Frame
    BY <1>1
  <1>4. ASSUME frames # <<>>
        PROVE  /\ frames'[1] = frames[1] /\ frames'[Len(frames)] = frames[Len(frames)]
               /\ frames[Len(frames)] \in Frame /\ Len(frames) >= 1
    BY <1>2, <1>3, <1>4
  <1>5. /\ frames'[1].from = received
        /\ received - textReceived <= ChunkEnd(frames'[1])
    <2>1. CASE frames = <<>>
      BY <1>2, <2>1 DEF FrameChain, ChunkEnd, TypeOK
    <2>2. CASE frames # <<>>
      BY <1>4, <2>2 DEF FrameChain
    <2> QED BY <2>1, <2>2
  <1>6. \A k \in 1..Len(frames') : frames'[k].text <= t
    <2>1. \A k \in 1..Len(frames) : frames[k].text <= text /\ frames[k].text \in Nat
      BY <1>3 DEF FrameChain, Frame
    <2> SUFFICES ASSUME NEW k \in 1..Len(frames') PROVE frames'[k].text <= t
      OBVIOUS
    <2>2. CASE k \in 1..Len(frames)
      BY <1>2, <2>1, <2>2 DEF TypeOK
    <2>3. CASE k = Len(frames')
      BY <1>1, <1>2, <2>3
    <2> QED BY <1>2, <2>2, <2>3
  <1>7. ASSUME NEW k \in 1..(Len(frames') - 1)
        PROVE  /\ frames'[k].from + frames'[k].size = frames'[k + 1].from
               /\ ChunkEnd(frames'[k]) <= ChunkEnd(frames'[k + 1])
    <2>1. CASE k < Len(frames)
      <3>1. k \in 1..(Len(frames) - 1) /\ k \in 1..Len(frames) /\ k + 1 \in 1..Len(frames)
        BY <1>2, <2>1
      <3> QED BY <1>2, <3>1 DEF FrameChain
    <2>2. CASE k = Len(frames)
      <3>1. frames # <<>> /\ frames'[k + 1] = m /\ frames'[k] = frames[k]
        BY <1>2, <2>2
      <3>2. /\ frames[k].from + frames[k].size = sent /\ frames[k].text = text
            /\ frames[k] \in Frame
        BY <1>4, <2>2, <3>1 DEF FrameChain
      <3>3. ChunkEnd(frames'[k]) = sent - text /\ ChunkEnd(frames'[k + 1]) = (sent + size) - t
        <4>1. /\ frames'[k].from + frames'[k].size = sent /\ frames'[k].text = text
              /\ frames'[k + 1].from = sent /\ frames'[k + 1].size = size
              /\ frames'[k + 1].text = t
          BY <1>1, <3>1, <3>2
        <4>2. /\ ChunkEnd(frames'[k]) = (frames'[k].from + frames'[k].size) - frames'[k].text
              /\ ChunkEnd(frames'[k + 1]) =
                   (frames'[k + 1].from + frames'[k + 1].size) - frames'[k + 1].text
          BY DEF ChunkEnd
        <4> QED BY <4>1, <4>2
      <3>4. sent - text <= (sent + size) - t
        BY DEF TypeOK
      <3> QED BY <1>1, <3>1, <3>2, <3>3, <3>4
    <2> QED BY <1>2, <2>1, <2>2
  <1>8. frames'[Len(frames')].from + frames'[Len(frames')].size = sent'
        /\ frames'[Len(frames')].text = text'
    BY <1>1, <1>2
  <1> QED BY <1>2, <1>5, <1>6, <1>7, <1>8 DEF FrameChain, ChunkEnd

LEMMA SendChunkOK == ASSUME IInv, NEW size \in 1..ChunkSize, SendChunk(size) PROVE IInv'
  <1> USE FlowAssumption DEF IInv, SendChunk, write, history
  <1>1. FrameChain' /\ frames' \in Seq(Frame)
    <2>1. size \in Nat \ {0} /\ text \in Nat /\ text <= text /\ text <= text + size
      BY DEF TypeOK
    <2> QED BY <2>1, ExtendChain
  <1>2. TypeOK'
    <2>1. ready' \in BOOLEAN
      BY DEF TypeOK
    <2> QED BY <1>1, <2>1 DEF TypeOK
  <1>5. Counters'
    BY DEF TypeOK, Counters
  <1>3. AckChain'
    BY DEF AckChain, ChunkAck
  <1>4. Credit'
    BY DEF TypeOK, Credit, WindowRespected, ChunkBytesUnacked
  <1> QED BY <1>1, <1>2, <1>3, <1>4, <1>5

LEMMA SendTextOK == ASSUME IInv, NEW size \in 1..TextSize, SendText(size) PROVE IInv'
  <1> USE FlowAssumption DEF IInv, SendText, write, history
  <1>1. FrameChain' /\ frames' \in Seq(Frame)
    <2>1. /\ size \in Nat \ {0} /\ text + size \in Nat
          /\ text <= text + size /\ text + size <= text + size
      BY DEF TypeOK
    <2> QED BY <2>1, ExtendChain
  <1>2. TypeOK'
    <2>1. ready' \in BOOLEAN
      BY DEF TypeOK
    <2> QED BY <1>1, <2>1 DEF TypeOK
  <1>5. Counters'
    BY DEF TypeOK, Counters
  <1>3. AckChain'
    <2>1. \A k \in 1..Len(acks) : acks[k].text \in Nat /\ acks[k].text <= text
      <3>1. \A k \in 1..Len(acks) : acks[k] \in AckMsg
        BY DEF TypeOK
      <3> QED BY <3>1 DEF AckMsg, AckChain
    <2>2. \A k \in 1..Len(acks) : acks[k].text <= text'
      BY <2>1 DEF TypeOK
    <2> QED BY <2>2 DEF AckChain, ChunkAck
  <1>4. Credit'
    BY DEF TypeOK, Credit, WindowRespected, ChunkBytesUnacked
  <1> QED BY <1>1, <1>2, <1>3, <1>4, <1>5

(* Appending an acknowledgement for all that was received.                 *)
LEMMA ExtendAcks ==
    ASSUME TypeOK, AckChain, NEW b \in Nat, NEW t \in Nat,
           ackedUpTo <= b, t <= text, received - textReceived <= b - t,
           ackedUpTo' = b, received' = b, textReceived' = t,
           acks' = Append(acks, [bytes |-> b, text |-> t]),
           acked' = acked, textAcked' = textAcked, text' = text
    PROVE  AckChain' /\ acks' \in Seq(AckMsg)
  <1> DEFINE m == [bytes |-> b, text |-> t]
  <1>1. /\ m \in AckMsg /\ acks \in Seq(AckMsg)
        /\ m.bytes = b /\ m.text = t /\ ChunkAck(m) = b - t
    BY DEF TypeOK, AckMsg, ChunkAck
  <1>2. /\ acks' \in Seq(AckMsg) /\ acks' # <<>>
        /\ Len(acks') = Len(acks) + 1 /\ acks'[Len(acks')] = m
        /\ \A k \in 1..Len(acks) : acks'[k] = acks[k]
        /\ acks = <<>> <=> Len(acks) = 0
        /\ Len(acks) \in Nat
    BY <1>1, AppendFacts
  <1>3. \A k \in 1..Len(acks) :
          acks[k].bytes \in Nat /\ acks[k].text \in Nat /\ ChunkAck(acks[k]) \in Int
    <2>1. \A k \in 1..Len(acks) : acks[k] \in AckMsg
      BY <1>1
    <2> QED BY <2>1 DEF AckMsg, ChunkAck
  <1>4. acked - textAcked <= ChunkAck(acks'[1])
    <2>1. CASE acks = <<>>
      BY <1>1, <1>2, <2>1 DEF AckChain, TypeOK
    <2>2. CASE acks # <<>>
      BY <1>2, <2>2 DEF AckChain
    <2> QED BY <2>1, <2>2
  <1>5. \A k \in 1..Len(acks') : acks'[k].bytes <= b /\ acks'[k].text <= text
    <2> SUFFICES ASSUME NEW k \in 1..Len(acks')
                 PROVE  acks'[k].bytes <= b /\ acks'[k].text <= text
      OBVIOUS
    <2>1. CASE k \in 1..Len(acks)
      BY <1>2, <1>3, <2>1 DEF AckChain, TypeOK
    <2>2. CASE k = Len(acks')
      BY <1>1, <1>2, <2>2
    <2> QED BY <1>2, <2>1, <2>2
  <1>6. ASSUME NEW k \in 1..(Len(acks') - 1)
        PROVE  ChunkAck(acks'[k]) <= ChunkAck(acks'[k + 1])
    <2>1. CASE k < Len(acks)
      <3>1. k \in 1..(Len(acks) - 1) /\ k \in 1..Len(acks) /\ k + 1 \in 1..Len(acks)
        BY <1>2, <2>1
      <3> QED BY <1>2, <3>1 DEF AckChain
    <2>2. CASE k = Len(acks)
      <3>1. acks # <<>> /\ acks'[k + 1] = m /\ acks'[k] = acks[k] /\ k \in 1..Len(acks)
        BY <1>2, <2>2
      <3>2. ChunkAck(acks[k]) <= received - textReceived
        BY <2>2, <3>1 DEF AckChain
      <3> QED BY <1>1, <1>3, <3>1, <3>2 DEF TypeOK
    <2> QED BY <1>2, <2>1, <2>2
  <1>7. acks'[Len(acks')].bytes = b /\ ChunkAck(acks'[Len(acks')]) = b - t
    BY <1>1, <1>2
  <1> QED BY <1>2, <1>4, <1>5, <1>6, <1>7 DEF AckChain, ChunkAck

LEMMA ReceiveOK == IInv /\ Receive => IInv'
  <1> SUFFICES ASSUME IInv, Receive PROVE IInv'
    OBVIOUS
  <1> USE FlowAssumption DEF IInv
  <1> DEFINE m == frames[1]
  <1>1. /\ frames \in Seq(Frame) /\ frames # <<>>
    BY DEF Receive, TypeOK
  <1>2. /\ Len(frames) \in Nat \ {0} /\ Head(frames) = m /\ m \in Frame
        /\ frames' \in Seq(Frame) /\ Len(frames') = Len(frames) - 1
        /\ \A k \in 1..(Len(frames) - 1) : frames'[k] = frames[k + 1]
        /\ frames' = <<>> <=> Len(frames) = 1
    BY <1>1, TailFacts DEF Receive
  <1>3. m.from \in Nat /\ m.size \in Nat \ {0} /\ m.text \in Nat
    BY <1>2 DEF Frame
  <1>4. /\ received' = m.from + m.size /\ textReceived' = m.text
        /\ received' = received + m.size
        /\ received - textReceived <= received' - textReceived'
        /\ textReceived' <= text /\ received' \in Nat /\ textReceived' \in Nat
    <2>1. /\ received' = received + m.size /\ textReceived' = m.text
      BY <1>2 DEF Receive
    <2>2. m.from = received /\ received - textReceived <= ChunkEnd(m) /\ m.text <= text
      BY <1>1, <1>2 DEF FrameChain
    <2>3. ChunkEnd(m) = (received + m.size) - m.text
      <3>1. ChunkEnd(m) = (m.from + m.size) - m.text
        BY DEF ChunkEnd
      <3> QED BY <2>2, <3>1
    <2> QED BY <1>3, <2>1, <2>2, <2>3 DEF TypeOK
  <1>5. UNCHANGED <<sent, acked, ready, text, textAcked>>
    BY DEF Receive
  <1>6. FrameChain'
    <2>1. CASE Len(frames) = 1
      <3>1. frames' = <<>> /\ Len(frames') = 0
        BY <1>2, <2>1
      <3>2. received' = sent' /\ textReceived' = text'
        BY <1>1, <1>4, <1>5, <2>1 DEF FrameChain
      <3> QED BY <3>1, <3>2 DEF FrameChain
    <2>2. CASE Len(frames) > 1
      <3>1. /\ frames' # <<>> /\ frames'[1] = frames[2]
            /\ frames'[Len(frames')] = frames[Len(frames)]
            /\ 1 \in 1..(Len(frames) - 1)
        BY <1>2, <2>2
      <3>2. /\ frames'[1].from = received'
            /\ ChunkEnd(m) <= ChunkEnd(frames'[1])
        BY <1>4, <3>1 DEF FrameChain
      <3>3. received' - textReceived' <= ChunkEnd(frames'[1])
        BY <1>3, <1>4, <3>2 DEF ChunkEnd
      <3>4. \A k \in 1..Len(frames') : frames'[k].text <= text
        BY <1>2 DEF FrameChain
      <3>5. \A k \in 1..(Len(frames') - 1) :
              /\ frames'[k].from + frames'[k].size = frames'[k + 1].from
              /\ ChunkEnd(frames'[k]) <= ChunkEnd(frames'[k + 1])
        <4> SUFFICES ASSUME NEW k \in 1..(Len(frames') - 1)
                     PROVE  /\ frames'[k].from + frames'[k].size = frames'[k + 1].from
                            /\ ChunkEnd(frames'[k]) <= ChunkEnd(frames'[k + 1])
          OBVIOUS
        <4>1. /\ frames'[k] = frames[k + 1] /\ frames'[k + 1] = frames[(k + 1) + 1]
              /\ k + 1 \in 1..(Len(frames) - 1)
          BY <1>2
        <4> QED BY <4>1 DEF FrameChain
      <3>6. /\ frames'[Len(frames')].from + frames'[Len(frames')].size = sent'
            /\ frames'[Len(frames')].text = text'
        BY <1>1, <1>5, <3>1 DEF FrameChain
      <3> QED BY <1>5, <3>1, <3>2, <3>3, <3>4, <3>5, <3>6 DEF FrameChain, ChunkEnd
    <2> QED BY <1>2, <2>1, <2>2
  <1>7. AckChain' /\ Counters' /\ acks' \in Seq(AckMsg) /\ ackedUpTo' \in Nat
    <2>1. CASE received' - ackedUpTo >= AckInterval
      <3>1. /\ ackedUpTo' = received'
            /\ acks' = Append(acks, [bytes |-> received', text |-> textReceived'])
        BY <2>1 DEF Receive, Ack
      <3>2. ackedUpTo <= received'
        BY <2>1, <1>4 DEF TypeOK
      <3>3. AckChain' /\ acks' \in Seq(AckMsg)
        BY <1>4, <1>5, <3>1, <3>2, ExtendAcks
      <3>4. Counters'
        BY <1>4, <1>5, <3>1, <3>2 DEF Counters, TypeOK
      <3> QED BY <1>4, <3>1, <3>3, <3>4
    <2>2. CASE ~(received' - ackedUpTo >= AckInterval)
      <3>1. UNCHANGED <<ackedUpTo, acks>>
        BY <2>2 DEF Receive
      <3>2. acks \in Seq(AckMsg) /\ ackedUpTo \in Nat
        BY DEF TypeOK
      <3>3. AckChain'
        <4>1. acks = <<>> => acked - textAcked <= received' - textReceived'
          BY <1>4 DEF AckChain, TypeOK
        <4>2. ASSUME acks # <<>>
              PROVE  ChunkAck(acks[Len(acks)]) <= received' - textReceived'
          <5>1. Len(acks) \in 1..Len(acks)
            BY <3>2, <4>2, EmptySeq
          <5>2. acks[Len(acks)] \in AckMsg
            BY <3>2, <5>1
          <5>3. ChunkAck(acks[Len(acks)]) \in Int
            BY <5>2 DEF AckMsg, ChunkAck
          <5>4. ChunkAck(acks[Len(acks)]) <= received - textReceived
            BY <4>2 DEF AckChain
          <5> QED BY <1>4, <5>3, <5>4 DEF TypeOK
        <4> QED BY <1>5, <3>1, <4>1, <4>2 DEF AckChain, ChunkAck
      <3>4. Counters'
        <4>1. ackedUpTo <= received'
          BY <1>3, <1>4 DEF Counters, TypeOK
        <4>2. received' - ackedUpTo < AckInterval
          <5> DEFINE n == received'
          <5>1. n \in Nat /\ ~(n - ackedUpTo >= AckInterval)
            BY <1>4, <2>2
          <5> HIDE DEF n
          <5>2. n - ackedUpTo < AckInterval
            BY <3>2, <5>1
          <5> QED BY <5>2 DEF n
        <4>3. acked <= ackedUpTo /\ textAcked <= text
          BY DEF Counters
        <4> QED BY <1>4, <1>5, <3>1, <4>1, <4>2, <4>3 DEF Counters
      <3> QED BY <3>1, <3>2, <3>3, <3>4
    <2> QED BY <2>1, <2>2
  <1>8. Credit'
    BY <1>5 DEF Credit, WindowRespected, ChunkBytesUnacked
  <1>9. TypeOK'
    <2>1. ready' \in BOOLEAN
      BY <1>5 DEF TypeOK
    <2> QED BY <1>2, <1>4, <1>5, <1>7, <2>1 DEF TypeOK
  <1> QED BY <1>6, <1>7, <1>8, <1>9

LEMMA FlushOK == IInv /\ FlushAck => IInv'
  <1> SUFFICES ASSUME IInv, FlushAck PROVE IInv'
    OBVIOUS
  <1> USE FlowAssumption DEF IInv, FlushAck, history
  <1>1. /\ ackedUpTo' = received
        /\ acks' = Append(acks, [bytes |-> received, text |-> textReceived])
        /\ received' = received /\ textReceived' = textReceived
    BY DEF Ack
  <1>2. /\ received \in Nat /\ textReceived \in Nat /\ ackedUpTo <= received
        /\ textReceived <= text /\ received - textReceived <= received - textReceived
    BY DEF TypeOK, Counters
  <1>3. AckChain' /\ acks' \in Seq(AckMsg)
    BY <1>1, <1>2, ExtendAcks
  <1>4. FrameChain'
    BY DEF FrameChain, ChunkEnd
  <1>5. Counters'
    BY <1>1, <1>2 DEF Counters, TypeOK
  <1>6. Credit'
    BY DEF Credit, WindowRespected, ChunkBytesUnacked
  <1>7. TypeOK'
    <2>1. ready' \in BOOLEAN
      BY DEF TypeOK
    <2> QED BY <1>1, <1>3, <2>1 DEF TypeOK
  <1> QED BY <1>3, <1>4, <1>5, <1>6, <1>7

LEMMA ApplyOK == IInv /\ ApplyAck => IInv'
  <1> SUFFICES ASSUME IInv, ApplyAck PROVE IInv'
    OBVIOUS
  <1> USE FlowAssumption DEF IInv
  <1> DEFINE m == acks[1]
  <1>1. acks \in Seq(AckMsg) /\ acks # <<>>
    BY DEF ApplyAck, TypeOK
  <1>2. /\ Len(acks) \in Nat \ {0} /\ Head(acks) = m /\ m \in AckMsg
        /\ acks' \in Seq(AckMsg) /\ Len(acks') = Len(acks) - 1
        /\ \A k \in 1..(Len(acks) - 1) : acks'[k] = acks[k + 1]
        /\ acks' = <<>> <=> Len(acks) = 1
    BY <1>1, TailFacts DEF ApplyAck
  <1>3. m.bytes \in Nat /\ m.text \in Nat /\ ChunkAck(m) = m.bytes - m.text
    BY <1>2 DEF AckMsg, ChunkAck
  <1>4. UNCHANGED <<sent, received, ackedUpTo, ready, frames, text, textReceived>>
    BY DEF ApplyAck
  <1>5. /\ m.bytes <= ackedUpTo /\ m.text <= text
        /\ acked - textAcked <= ChunkAck(m)
    BY <1>1, <1>2 DEF AckChain
  <1>6. /\ acked' \in Nat /\ textAcked' \in Nat /\ acked <= acked' /\ m.bytes <= acked'
        /\ acked' <= ackedUpTo /\ textAcked' <= text
        /\ acked' - textAcked' <= ChunkAck(m)
        /\ acked - textAcked <= acked' - textAcked'
    <2>1. CASE m.bytes > acked
      <3>1. acked' = m.bytes /\ textAcked' = m.text
        BY <1>2, <2>1 DEF ApplyAck
      <3> QED BY <1>3, <1>5, <2>1, <3>1 DEF TypeOK
    <2>2. CASE ~(m.bytes > acked)
      <3>1. acked' = acked /\ textAcked' = textAcked
        BY <1>2, <2>2 DEF ApplyAck
      <3> QED BY <1>3, <1>5, <2>2, <3>1 DEF TypeOK, Counters
    <2> QED BY <2>1, <2>2
  <1>7. AckChain'
    <2>1. \A k \in 1..Len(acks') : acks'[k].bytes <= ackedUpTo /\ acks'[k].text <= text
      BY <1>2 DEF AckChain
    <2>2. \A k \in 1..(Len(acks') - 1) : ChunkAck(acks'[k]) <= ChunkAck(acks'[k + 1])
      <3> SUFFICES ASSUME NEW k \in 1..(Len(acks') - 1)
                   PROVE  ChunkAck(acks'[k]) <= ChunkAck(acks'[k + 1])
        OBVIOUS
      <3>1. /\ acks'[k] = acks[k + 1] /\ acks'[k + 1] = acks[(k + 1) + 1]
            /\ k + 1 \in 1..(Len(acks) - 1)
        BY <1>2
      <3> QED BY <3>1 DEF AckChain
    <2>3. CASE Len(acks) = 1
      <3>1. acks' = <<>> /\ m.bytes = ackedUpTo /\ ChunkAck(m) <= received - textReceived
        BY <1>1, <1>2, <2>3 DEF AckChain
      <3>2. acked' = ackedUpTo
        BY <1>3, <1>6, <3>1
      <3>3. received - textReceived \in Int /\ ChunkAck(m) \in Int /\ acked' - textAcked' \in Int
        BY <1>3, <1>6 DEF TypeOK
      <3>4. acked' - textAcked' <= received - textReceived
        BY <1>6, <3>1, <3>3
      <3> QED BY <1>4, <2>1, <2>2, <3>1, <3>2, <3>4 DEF AckChain, ChunkAck
    <2>4. CASE Len(acks) > 1
      <3>1. /\ acks' # <<>> /\ acks'[1] = acks[2] /\ acks'[Len(acks')] = acks[Len(acks)]
            /\ 1 \in 1..(Len(acks) - 1) /\ 2 \in 1..Len(acks)
        BY <1>2, <2>4
      <3>2. ChunkAck(m) <= ChunkAck(acks'[1])
        BY <3>1 DEF AckChain
      <3>3. ChunkAck(acks'[1]) \in Int
        <4>1. acks[2] \in AckMsg
          BY <1>1, <3>1
        <4> QED BY <3>1, <4>1 DEF AckMsg, ChunkAck
      <3>4. acked' - textAcked' <= ChunkAck(acks'[1])
        BY <1>3, <1>6, <3>2, <3>3
      <3>5. /\ acks'[Len(acks')].bytes = ackedUpTo
            /\ ChunkAck(acks'[Len(acks')]) <= received - textReceived
        BY <1>1, <3>1 DEF AckChain
      <3> QED BY <1>4, <2>1, <2>2, <3>1, <3>4, <3>5 DEF AckChain, ChunkAck
    <2> QED BY <1>2, <2>3, <2>4
  <1>8. FrameChain'
    BY <1>4 DEF FrameChain, ChunkEnd
  <1>9. Counters'
    BY <1>4, <1>6 DEF Counters, TypeOK
  <1>10. Credit'
    <2>1. /\ ChunkBytesUnacked \in Int /\ ChunkBytesUnacked' \in Int
          /\ ChunkBytesUnacked' <= ChunkBytesUnacked
      <3>1. /\ sent \in Nat /\ text \in Nat /\ acked \in Nat /\ textAcked \in Nat
            /\ sent' = sent /\ text' = text
        BY <1>4 DEF TypeOK
      <3>2. /\ ChunkBytesUnacked = (sent - text) - (acked - textAcked)
            /\ ChunkBytesUnacked' = (sent - text) - (acked' - textAcked')
        BY <3>1 DEF ChunkBytesUnacked
      <3>3. ASSUME NEW n \in Nat, NEW u \in Nat, acked - textAcked <= n - u
            PROVE  /\ (sent - text) - (acked - textAcked) \in Int
                   /\ (sent - text) - (n - u) \in Int
                   /\ (sent - text) - (n - u) <= (sent - text) - (acked - textAcked)
        BY <3>1, <3>3
      <3> QED BY <1>6, <3>2, <3>3
    <2>2. ready' <=> ready
      BY <1>4
    <2> QED BY <2>1, <2>2 DEF Credit, WindowRespected
  <1>11. TypeOK'
    <2>1. ready' \in BOOLEAN
      BY <1>4 DEF TypeOK
    <2> QED BY <1>2, <1>4, <1>6, <2>1 DEF TypeOK
  <1> QED BY <1>7, <1>8, <1>9, <1>10, <1>11

----------------------------------------------------------------------------
(* The inductive invariant holds throughout.                               *)
THEOREM Invariance == Spec => []IInv
  <1>1. IInv /\ [Next]_vars => IInv'
    <2> SUFFICES ASSUME IInv, [Next]_vars PROVE IInv'
      OBVIOUS
    <2>1. CASE waitUntilWritable
      BY <2>1, WaitOK
    <2>2. CASE \E size \in 1..ChunkSize : SendChunk(size)
      BY <2>2, SendChunkOK
    <2>3. CASE \E size \in 1..TextSize : SendText(size)
      BY <2>3, SendTextOK
    <2>4. CASE Receive
      BY <2>4, ReceiveOK
    <2>5. CASE FlushAck
      BY <2>5, FlushOK
    <2>6. CASE ApplyAck
      BY <2>6, ApplyOK
    <2>7. CASE UNCHANGED vars
      <3>1. UNCHANGED <<sent, acked, received, ackedUpTo, ready, frames, acks,
                        text, textReceived, textAcked>>
        BY <2>7 DEF vars, history
      <3>2. (TypeOK /\ Counters)'
        BY <3>1 DEF IInv, TypeOK, Counters
      <3>3. (FrameChain /\ AckChain)'
        BY <3>1 DEF IInv, FrameChain, AckChain, ChunkEnd, ChunkAck
      <3>4. Credit'
        BY <3>1 DEF IInv, Credit, WindowRespected, ChunkBytesUnacked
      <3> QED BY <3>2, <3>3, <3>4 DEF IInv
    <2> QED BY <2>1, <2>2, <2>3, <2>4, <2>5, <2>6, <2>7 DEF Next
  <1> QED BY InitOK, <1>1, PTL DEF Spec

(* All counters keep their type (relay.js #sent, #acked, #received,        *)
(* #ackedUpTo).                                                            *)
THEOREM TypeCorrect == Spec => []TypeOK
  <1>1. IInv => TypeOK
    BY DEF IInv
  <1> QED BY Invariance, <1>1, PTL

(* The credit window bounds the unacknowledged file bytes, to within one   *)
(* chunk, for every window, interval and message size (relay.js:15-17).    *)
THEOREM WindowHolds == Spec => []WindowRespected
  <1>1. IInv => WindowRespected
    BY DEF IInv, Credit
  <1> QED BY Invariance, <1>1, PTL

(* A sender out of credit is always owed a frame's delivery or an ack,     *)
(* provided the receiver acknowledges at least once a window (relay.js:    *)
(* 150-170).                                                               *)
THEOREM NeverStalls == Spec => []NoStall
  <1>1. IInv => NoStall
    BY FlowAssumption DEF IInv, NoStall, TypeOK, Counters, FrameChain, AckChain, Writable
  <1> QED BY Invariance, <1>1, PTL
=============================================================================
