----------------------------- MODULE FrameProofs -----------------------------
(***************************************************************************)
(* Proofs about the messages of a relay session on their way to a page: a  *)
(* frame never overtakes the announcement of its session, and whoever      *)
(* accepted a session is told when it ends.                                *)
(***************************************************************************)
EXTENDS ServerProofs

(* Both hold while no ID is handed out twice, that is, MaxOpen does not    *)
(* exceed SessMax.  The second needs more, or TLC refutes it: no device    *)
(* connects twice and no page kept a session from before a restart.        *)
Calm == Distinct /\ Stale = {}

(* What a message says of session s.                                       *)
Announces(m, s) == m.type \in {"relay-ready", "relay-incoming"} /\ m.session = s
Frames(m, s)    == m.type = "frame" /\ m.session = s
Ends(m, s)      == m.type = "relay-close" /\ m.session = s
About(m, s)     == Announces(m, s) \/ Frames(m, s) \/ Ends(m, s)

(* What it makes of the page's count v of the session's frames, where it   *)
(* comes in order.                                                         *)
Turn(s, m, v, w) ==
    /\ Announces(m, s) => v = NoHandler /\ w = 0
    /\ Frames(m, s) => \/ v = SelfClosed /\ w = SelfClosed
                       \/ v >= 0 /\ v = m.n - 1 /\ w = m.n
    /\ Ends(m, s) => w = IF v >= 0 THEN FarClosed ELSE v
    /\ ~About(m, s) => w = v
Turns(s) == {r \in serverMessage \X Int \X Int : Turn(s, r[1], r[2], r[3])}

(* p has m to send to x, somebody has.                                     *)
Due(p, x, m) == Send(x, m) \in On(todo[p])
Pend(x, m)   == \E p \in Conn : Due(p, x, m)

Awaits(x, s) == \E m \in serverMessage : Pend(x, m) /\ Announces(m, s)
Framed(x, s) == \E m \in serverMessage : Pend(x, m) /\ Frames(m, s)
Ending(x, s) == \E m \in serverMessage : Pend(x, m) /\ Ends(m, s)

Live(c) == ~done[c] /\ link[c] = "up"
Far(c, s) == other(s, c) # None /\ pc[other(s, c)] # "gone"

(* A frame is sent while nothing else is, by the far end of who gets it;   *)
(* a session is announced by who opened it, to itself first; a close is    *)
(* sent when the session is gone.                                          *)
FrameForm(p, x, m, s) ==
    /\ todo[p] = Stage({Send(x, m)}) /\ m.n >= 1
    /\ Taken(s) => other(s, p) = x /\ m.n = sessions[s].sent[p]

OpenForm(p, x, s) ==
    /\ pc[p] = "read" /\ p \in Openers
    /\ \E t \in Conn \ {p} :
         /\ todo[p] = OpenStages(p, t, s) \/ todo[p] = Incoming(p, t, s)
         /\ x = p \/ x = t
         /\ Taken(s) => /\ sessions[s].from = p /\ sessions[s].to = t
                        /\ sessions[s].sent[other(s, x)] = 0
    /\ Calm /\ x # p /\ Live(x) => Taken(s)

Formed(p, x, m, s) ==
    /\ About(m, s) => s <= nextSess
    /\ Frames(m, s) => FrameForm(p, x, m, s)
    /\ Announces(m, s) => OpenForm(p, x, s)
    /\ Ends(m, s) => ~Taken(s)

Forms == \A p, x \in Conn, m \in serverMessage, s \in Sessions :
    Due(p, x, m) => Formed(p, x, m, s)

(* A session is announced to each end once, its frames are sent one by     *)
(* one, and none with its close.                                           *)
Unique == \A p, q, x \in Conn, m, n \in serverMessage, s \in Sessions :
    Due(p, x, m) /\ Due(q, x, n) =>
        /\ Announces(m, s) /\ Announces(n, s) => p = q /\ m = n
        /\ Frames(m, s) /\ Frames(n, s) => p = q /\ m = n
        /\ ~(Frames(m, s) /\ Ends(n, s))

TableSound ==
    /\ nextSess = relaySessions
    /\ \A s \in Sessions : Taken(s) => s <= nextSess /\ sessions[s].from # sessions[s].to
    /\ \A c \in Conn : pc[c] = "open" => c \in Openers /\ c \notin held[c]
    /\ \A c \in Conn : pc[c] \in {"leave", "gone"} => done[c]
    /\ \A c \in Conn : done[c] => out[c] = <<>>
    /\ Calm => \A c \in Conn : pc[c] \in Active => Registered(c)

(* Where c's page will stand with session s when all that is queued for it *)
(* is taken in: the frames yet to be sent come next, and if it is an end   *)
(* of the session it has all the others.                                   *)
Stands(c, s, b) ==
    /\ s > nextSess => b = NoHandler
    /\ Awaits(c, s) => b = NoHandler
    /\ \A m \in serverMessage : Pend(c, m) /\ Frames(m, s) => b = m.n - 1 \/ b = SelfClosed
    /\ Taken(s) /\ other(s, c) = None => b = NoHandler
    /\ \A f \in Conn : other(s, c) = f =>
         \/ Awaits(c, s)
         \/ b = sessions[s].sent[f]
         \/ b = sessions[s].sent[f] - 1 /\ Framed(c, s)
    /\ Calm /\ c \notin Openers /\ b >= 0 => Far(c, s) \/ Ending(c, s)

Known == \A c \in Conn, s \in Sessions : Live(c) =>
    \E b \in Int : Leads(Int, Turns(s), out[c], got[c][s], b) /\ Stands(c, s, b)

FrameInv == ServerInv /\ TodoInv /\ TableSound /\ Forms /\ Unique /\ Known

----------------------------------------------------------------------------
(* Sends, turns and ends.                                                  *)

(* What is due is a message for a connection.                              *)
LEMMA DueTyped ==
    ASSUME ServerInv, NEW p \in Conn, NEW x, NEW m, Due(p, x, m)
    PROVE  x \in Conn /\ m \in serverMessage
<1>1. PICK k \in 1..Len(todo[p]) : Send(x, m) \in todo[p][k]
  BY DEF Due, On
<1>2. todo[p] \in Seq((SUBSET Fitting) \ {{}})
  BY DEF ServerInv, QueueInv, Stages
<1>3. Send(x, m) \in Fitting
  <2> DEFINE U == (SUBSET Fitting) \ {{}}
  <2>1. todo[p] \in Seq(U) /\ k \in 1..Len(todo[p])
    BY <1>2
  <2> HIDE DEF U
  <2>2. todo[p][k] \in U
    BY <2>1, ElementOfSeq
  <2> QED
    BY <1>1, <2>2 DEF U
<1>4. Send(x, m) \in Effect /\ Send(x, m).op = "send"
  BY <1>3 DEF Fitting, Send
<1>5. Send(x, m).to = x /\ Send(x, m).msg = m
  BY DEF Send
<1> HIDE DEF Send
<1> QED
  BY <1>4, <1>5 DEF Effect

(* Sends of different messages, or to different receivers, are different.  *)
LEMMA SendIs ==
    ASSUME NEW x, NEW m, NEW y, NEW n
    PROVE  Send(x, m) = Send(y, n) <=> x = y /\ m = n
<1>1. /\ Send(x, m).to = x /\ Send(x, m).msg = m
      /\ Send(y, n).to = y /\ Send(y, n).msg = n
  BY DEF Send
<1> QED
  BY <1>1

(* A message of the server is about one session in one way at most.        *)
LEMMA OneKind ==
    ASSUME NEW m \in serverMessage, NEW s, NEW t
    PROVE  /\ About(m, s) /\ About(m, t) => s = t
           /\ Announces(m, s) => ~Frames(m, t) /\ ~Ends(m, t)
           /\ Frames(m, s) => ~Ends(m, t) /\ m.n \in Nat
  BY DEF About, Announces, Frames, Ends, serverMessage

(* The page makes of a message what its turn says.                         *)
LEMMA TurnTaken ==
    ASSUME NEW m \in serverMessage, NEW s \in Sessions, NEW g \in [Sessions -> Int], NEW w \in Int,
           Turn(s, m, g[s], w)
    PROVE  GotAfter(g, m)[s] = w
<1>1. CASE Announces(m, s)
  <2>1. GotAfter(g, m) = [g EXCEPT ![m.session] = 0]
    BY <1>1 DEF GotAfter, Announces
  <2> QED
    BY <1>1, <2>1 DEF Turn, Announces
<1>2. CASE Frames(m, s)
  <2>1. m.type = "frame" /\ m.session = s
    BY <1>2 DEF Frames
  <2>2. CASE g[s] >= 0
    <3>1. GotAfter(g, m) = [g EXCEPT ![s] = g[s] + 1]
      BY <2>1, <2>2 DEF GotAfter
    <3>2. g[s] = m.n - 1 /\ w = m.n /\ m.n \in Nat
      BY <1>2, <2>2, OneKind DEF Turn, SelfClosed
    <3> QED
      BY <3>1, <3>2
  <2>3. CASE ~(g[s] >= 0)
    <3>1. GotAfter(g, m) = g
      BY <2>1, <2>3 DEF GotAfter
    <3> QED
      BY <1>2, <2>3, <3>1 DEF Turn
  <2> QED
    BY <2>2, <2>3
<1>3. CASE Ends(m, s)
  <2>1. m.type = "relay-close" /\ m.session = s
    BY <1>3 DEF Ends
  <2>2. w = IF g[s] >= 0 THEN FarClosed ELSE g[s]
    BY <1>3 DEF Turn
  <2>3. CASE g[s] >= 0
    <3>1. GotAfter(g, m) = [g EXCEPT ![s] = FarClosed]
      BY <2>1, <2>3 DEF GotAfter
    <3> QED
      BY <2>2, <2>3, <3>1
  <2>4. CASE ~(g[s] >= 0)
    <3>1. GotAfter(g, m) = g
      BY <2>1, <2>4 DEF GotAfter
    <3> QED
      BY <2>2, <2>4, <3>1
  <2> QED
    BY <2>3, <2>4
<1>4. CASE ~About(m, s)
  <2>1. w = g[s]
    BY <1>4 DEF Turn
  <2>2. CASE m.type \in {"relay-ready", "relay-incoming", "relay-close", "frame"}
    <3>1. m.session # s /\ m.session \in Sessions
      BY <1>4, <2>2 DEF About, Announces, Frames, Ends, serverMessage
    <3> QED
      BY <2>1, <2>2, <3>1 DEF GotAfter
  <2>3. CASE m.type \notin {"relay-ready", "relay-incoming", "relay-close", "frame"}
    BY <2>1, <2>3 DEF GotAfter
  <2> QED
    BY <2>2, <2>3
<1> QED
  BY <1>1, <1>2, <1>3, <1>4 DEF About

(* The far end of the far end is this end.                                 *)
LEMMA OtherEnds ==
    ASSUME ServerInv, TableSound, NEW s \in Sessions, NEW p \in Conn, other(s, p) # None
    PROVE  /\ other(s, p) \in Conn /\ other(s, p) # p
           /\ Taken(s) /\ sessions[s] \in relaySession /\ s <= nextSess
           /\ other(s, other(s, p)) = p
           /\ \A c \in Conn : other(s, c) # None => c = p \/ c = other(s, p)
<1>1. Taken(s) /\ sessions[s] \in relaySession /\ other(s, p) \in Conn
  BY FarEndIsHere DEF ServerInv
<1>2. sessions[s].from # sessions[s].to /\ s <= nextSess
  BY <1>1 DEF TableSound
<1> QED
  BY <1>1, <1>2, HubAssumption DEF other, relaySession

----------------------------------------------------------------------------
(* What a step leaves as it is.                                            *)

(* The form of a send that is still to be made.                            *)
LEMMA FormStays ==
    ASSUME Forms, NEW p \in Conn, NEW x \in Conn, NEW m \in serverMessage, NEW s \in Sessions,
           Due(p, x, m), todo'[p] = todo[p], pc'[p] = pc[p], sessions'[s] = sessions[s],
           s <= nextSess => s <= nextSess', Live(x)' => Live(x)
    PROVE  Formed(p, x, m, s)'
<1>1. Formed(p, x, m, s)
  BY DEF Forms
<1>2. /\ Taken(s)' <=> Taken(s)
      /\ other(s, p)' = other(s, p) /\ other(s, x)' = other(s, x)
  BY DEF Taken, other, NoSession
<1>3. FrameForm(p, x, m, s) => FrameForm(p, x, m, s)'
  BY <1>2 DEF FrameForm
<1>4. OpenForm(p, x, s) => OpenForm(p, x, s)'
  BY <1>2 DEF OpenForm, OpenStages, Ready, Incoming
<1> QED
  BY <1>1, <1>2, <1>3, <1>4 DEF Formed

(* Where a page will stand with a session that nothing happens to.         *)
LEMMA StandsStays ==
    ASSUME NEW c \in Conn, NEW s \in Sessions, NEW b, Stands(c, s, b),
           \A m \in serverMessage : About(m, s) => (Pend(c, m) <=> Pend(c, m)'),
           sessions'[s] = sessions[s], s <= nextSess => s <= nextSess',
           nextSess \in Int, nextSess' \in Int,
           Calm /\ Far(c, s) => Far(c, s)'
    PROVE  Stands(c, s, b)'
<1>1. other(s, c)' = other(s, c) /\ (Taken(s)' <=> Taken(s))
  BY DEF other, Taken, NoSession
<1>2. /\ Awaits(c, s) <=> Awaits(c, s)'
      /\ Framed(c, s) <=> Framed(c, s)'
      /\ Ending(c, s) <=> Ending(c, s)'
  BY DEF Awaits, Framed, Ending, About
<1>3. s > nextSess' => s > nextSess
  BY DEF Sessions
<1>4. ASSUME NEW m \in serverMessage, Pend(c, m)', Frames(m, s) PROVE b = m.n - 1 \/ b = SelfClosed
  BY <1>4 DEF Stands, About
<1>5. ASSUME NEW f \in Conn, other(s, c)' = f
      PROVE  \/ Awaits(c, s)'
             \/ b = sessions'[s].sent[f]
             \/ b = sessions'[s].sent[f] - 1 /\ Framed(c, s)'
  BY <1>1, <1>2, <1>5 DEF Stands
<1>6. Calm /\ c \notin Openers /\ b >= 0 => Far(c, s)' \/ Ending(c, s)'
  BY <1>2 DEF Stands
<1>7. /\ s > nextSess' => b = NoHandler
      /\ Awaits(c, s)' => b = NoHandler
      /\ Taken(s)' /\ other(s, c)' = None => b = NoHandler
  BY <1>1, <1>2, <1>3 DEF Stands
<1> QED
  BY <1>4, <1>5, <1>6, <1>7 DEF Stands

(* Pages whose queue and counts are as they were.                          *)
Same(c) == out'[c] = out[c] /\ got'[c] = got[c]

LEMMA KnownStays ==
    ASSUME Known,
           \A c \in Conn : Live(c)' => Live(c) /\ Same(c),
           \A c \in Conn, s \in Sessions, b \in Int :
               Live(c)' /\ Live(c) /\ Stands(c, s, b) => Stands(c, s, b)'
    PROVE  Known'
<1> SUFFICES ASSUME NEW c \in Conn, NEW s \in Sessions, Live(c)'
    PROVE  \E b \in Int : Leads(Int, Turns(s), out'[c], got'[c][s], b) /\ Stands(c, s, b)'
  BY DEF Known
<1>1. PICK b \in Int : Leads(Int, Turns(s), out[c], got[c][s], b) /\ Stands(c, s, b)
  BY DEF Known
<1> QED
  BY <1>1 DEF Same

----------------------------------------------------------------------------
(* Steps that post nothing about sessions and leave the table alone.       *)
Silent(w) == \A x \in Conn, m \in serverMessage, s \in Sessions :
    Send(x, m) \in On(w) => ~About(m, s)

Mild ==
    /\ UNCHANGED <<sessions, nextSess>>
    /\ \A c \in Conn : Live(c)' => Live(c)
    /\ \A p \in Conn : \/ todo'[p] = todo[p] /\ pc'[p] = pc[p]
                       \/ todo[p] = <<>> /\ Silent(todo'[p])
    /\ Calm => \A p \in Conn : pc'[p] = "gone" => pc[p] = "gone"

(* The sends about sessions are the same as before.                        *)
LEMMA MildPend ==
    ASSUME FrameInv, Mild, NEW x \in Conn, NEW m \in serverMessage, NEW s \in Sessions, About(m, s)
    PROVE  /\ \A p \in Conn : Due(p, x, m)' => todo'[p] = todo[p] /\ pc'[p] = pc[p]
           /\ \A p \in Conn : Due(p, x, m) <=> Due(p, x, m)'
           /\ Pend(x, m) <=> Pend(x, m)'
<1>1. ASSUME NEW p \in Conn, Due(p, x, m)' PROVE todo'[p] = todo[p] /\ pc'[p] = pc[p]
  BY <1>1 DEF Mild, Silent, Due
<1>2. ASSUME NEW p \in Conn, Due(p, x, m) PROVE todo'[p] = todo[p]
  <2>1. On(<<>>) = {}
    BY DEF On
  <2> QED
    BY <1>2, <2>1 DEF Mild, Due
<1>3. ASSUME NEW p \in Conn PROVE Due(p, x, m) <=> Due(p, x, m)'
  BY <1>1, <1>2 DEF Due
<1> QED
  BY <1>1, <1>3 DEF Pend

LEMMA MildStep ==
    ASSUME FrameInv, Mild
    PROVE  /\ Forms' /\ Unique'
           /\ \A c \in Conn, s \in Sessions, b \in Int :
                Live(c)' /\ Live(c) /\ Stands(c, s, b) => Stands(c, s, b)'
<1>0. Forms /\ Unique /\ nextSess \in Int
  BY DEF FrameInv, ServerInv, TableInv, RelayTypeOK
<1>1. ASSUME NEW p \in Conn, NEW x \in Conn, NEW m \in serverMessage, NEW s \in Sessions, Due(p, x, m)'
      PROVE  Formed(p, x, m, s)'
  <2>1. CASE About(m, s)
    <3>1. Due(p, x, m) /\ todo'[p] = todo[p] /\ pc'[p] = pc[p]
      BY <1>1, <2>1, MildPend
    <3> QED
      BY <1>0, <3>1, FormStays DEF Mild
  <2>2. CASE ~About(m, s)
    BY <2>2 DEF Formed, About
  <2> QED
    BY <2>1, <2>2
<1>2. ASSUME NEW p \in Conn, NEW q \in Conn, NEW x \in Conn,
             NEW m \in serverMessage, NEW n \in serverMessage, NEW s \in Sessions,
             Due(p, x, m)', Due(q, x, n)'
      PROVE  /\ Announces(m, s) /\ Announces(n, s) => p = q /\ m = n
             /\ Frames(m, s) /\ Frames(n, s) => p = q /\ m = n
             /\ ~(Frames(m, s) /\ Ends(n, s))
  <2>1. CASE About(m, s) /\ About(n, s)
    <3>1. Due(p, x, m) /\ Due(q, x, n)
      BY <1>2, <2>1, MildPend
    <3> QED
      BY <1>0, <3>1 DEF Unique
  <2> QED
    BY <2>1 DEF About
<1>3. ASSUME NEW c \in Conn, NEW s \in Sessions, NEW b \in Int, Stands(c, s, b)
      PROVE  Stands(c, s, b)'
  <2>1. \A m \in serverMessage : About(m, s) => (Pend(c, m) <=> Pend(c, m)')
    BY MildPend
  <2>2. Calm /\ Far(c, s) => Far(c, s)'
    <3> SUFFICES ASSUME Calm, Far(c, s) PROVE Far(c, s)'
      OBVIOUS
    <3>1. other(s, c)' = other(s, c) /\ other(s, c) \in Conn
      BY OtherEnds DEF Far, FrameInv, other, Mild
    <3>2. PICK f \in Conn : f = other(s, c)
      BY <3>1
    <3> QED
      BY <3>1, <3>2 DEF Far, Mild
  <2> QED
    BY <1>0, <1>3, <2>1, <2>2, StandsStays DEF Mild
<1> QED
  BY <1>1, <1>2, <1>3 DEF Forms, Unique

----------------------------------------------------------------------------
(* Steps that end the sessions K, and tell their ends other than c.        *)
Closing(c, K) ==
    /\ K \subseteq Sessions /\ todo[c] = <<>>
    /\ \A p \in Conn \ {c} : todo'[p] = todo[p] /\ pc'[p] = pc[p]
    /\ sessions' = [s \in Sessions |-> IF s \in K THEN NoSession ELSE sessions[s]]
    /\ nextSess' = nextSess
    /\ \A d \in Conn : Live(d)' => Live(d)
    /\ \A x \in Conn, m \in serverMessage, s \in Sessions : Due(c, x, m)' /\ About(m, s) =>
         s \in K /\ Ends(m, s) /\ other(s, c) = x
    /\ \A s \in K, x \in Conn : other(s, c) = x => \E m \in serverMessage : Due(c, x, m)' /\ Ends(m, s)
    /\ Calm => /\ \A s \in K : Taken(s) => /\ other(s, c) # None
                                           /\ \A p, x \in Conn, m \in serverMessage :
                                                Due(p, x, m) /\ Announces(m, s) /\ x # p => ~Live(x)'
               /\ \A s \in Sessions \ K : pc'[c] = pc[c] \/ other(s, c) = None

(* The table after it.                                                     *)
LEMMA ClosingTable ==
    ASSUME FrameInv, NEW c \in Conn, NEW K, Closing(c, K), NEW s \in Sessions
    PROVE  /\ s \in K => ~Taken(s)' /\ \A d : d # None => other(s, d)' = None
           /\ s \notin K => /\ sessions'[s] = sessions[s] /\ (Taken(s)' <=> Taken(s))
                            /\ \A d \in Conn : other(s, d)' = other(s, d)
<1>1. sessions'[s] = IF s \in K THEN NoSession ELSE sessions[s]
  BY DEF Closing
<1>2. s \in K => ~Taken(s)'
  BY <1>1 DEF Taken, NoSession
<1>3. s \in K => \A d : d # None => other(s, d)' = None
  BY <1>1 DEF other, NoSession
<1>4. s \notin K => /\ (Taken(s)' <=> Taken(s)) /\ \A d \in Conn : other(s, d)' = other(s, d)
  BY <1>1 DEF Taken, NoSession, other
<1> QED
  BY <1>1, <1>2, <1>3, <1>4

(* Nothing was due from c, and what is due from others stays so.           *)
LEMMA ClosingPend ==
    ASSUME FrameInv, NEW c \in Conn, NEW K, Closing(c, K),
           NEW p \in Conn, NEW x \in Conn, NEW m \in serverMessage
    PROVE  /\ Due(p, x, m) => p # c /\ Due(p, x, m)'
           /\ p # c => (Due(p, x, m)' <=> Due(p, x, m))
<1>1. On(<<>>) = {}
  BY DEF On
<1> QED
  BY <1>1 DEF Closing, Due

(* What it has to send is neither an announcement nor a frame.             *)
LEMMA ClosingElse ==
    ASSUME FrameInv, NEW c \in Conn, NEW K, Closing(c, K), NEW p \in Conn, NEW x \in Conn,
           NEW m \in serverMessage, NEW s \in Sessions, Announces(m, s) \/ Frames(m, s)
    PROVE  (Due(p, x, m)' <=> Due(p, x, m)) /\ (Due(p, x, m)' => p # c)
<1>1. About(m, s) /\ ~Ends(m, s)
  BY OneKind DEF About
<1>2. ~Due(c, x, m)'
  BY <1>1 DEF Closing
<1>3. ~Due(c, x, m)
  BY ClosingPend
<1>4. CASE p = c
  BY <1>2, <1>3, <1>4
<1>5. CASE p # c
  BY <1>5, ClosingPend
<1> QED
  BY <1>4, <1>5

LEMMA ClosingForms ==
    ASSUME FrameInv, NEW c \in Conn, NEW K, Closing(c, K)
    PROVE  Forms' /\ Unique'
<1>0. ServerInv /\ TableSound /\ Forms /\ Unique
  BY DEF FrameInv
<1>1. ASSUME NEW p \in Conn, NEW x \in Conn, NEW m \in serverMessage, NEW s \in Sessions, Due(p, x, m)'
      PROVE  Formed(p, x, m, s)'
  <2>1. CASE p = c
    <3>1. About(m, s) => s \in K /\ Ends(m, s) /\ other(s, c) = x
      BY <1>1, <2>1 DEF Closing
    <3>2. About(m, s) => ~Taken(s)' /\ s <= nextSess'
      <4>1. x # None
        BY HubAssumption
      <4> QED
        BY <1>0, <3>1, <4>1, ClosingTable, OtherEnds DEF Closing
    <3>3. ~Frames(m, s) /\ ~Announces(m, s)
      BY <3>1, OneKind DEF About
    <3> QED
      BY <3>2, <3>3 DEF Formed, About
  <2>2. CASE p # c
    <3>1. Due(p, x, m) /\ todo'[p] = todo[p] /\ pc'[p] = pc[p]
      BY <1>1, <2>2, ClosingPend DEF Closing
    <3>2. CASE s \notin K
      BY <1>0, <3>1, <3>2, ClosingTable, FormStays DEF Closing
    <3>3. CASE s \in K
      <4>1. Formed(p, x, m, s) /\ ~Taken(s)'
        BY <1>0, <3>1, <3>3, ClosingTable DEF Forms
      <4>2. FrameForm(p, x, m, s) => FrameForm(p, x, m, s)'
        BY <3>1, <4>1 DEF FrameForm
      <4>3. Announces(m, s) => OpenForm(p, x, s)'
        <5> SUFFICES ASSUME Announces(m, s) PROVE OpenForm(p, x, s)'
          OBVIOUS
        <5>1. OpenForm(p, x, s)
          BY <4>1 DEF Formed
        <5>2. Calm /\ x # p => ~Live(x)'
          <6>1. Calm /\ x # p /\ Live(x) => Taken(s)
            BY <5>1 DEF OpenForm
          <6>2. Live(x)' => Live(x)
            BY DEF Closing
          <6> QED
            BY <3>1, <3>3, <6>1, <6>2 DEF Closing
        <5> QED
          BY <3>1, <4>1, <5>1, <5>2 DEF OpenForm, OpenStages, Ready, Incoming
      <4> QED
        BY <4>1, <4>2, <4>3 DEF Formed, Closing
    <3> QED
      BY <3>2, <3>3
  <2> QED
    BY <2>1, <2>2
<1>2. ASSUME NEW p \in Conn, NEW x \in Conn, NEW m \in serverMessage, NEW n \in serverMessage,
             NEW s \in Sessions, Due(p, x, m), Due(c, x, n)', Frames(m, s)
      PROVE  ~Ends(n, s)
  <2> SUFFICES ASSUME Ends(n, s) PROVE FALSE
    OBVIOUS
  <2>1. other(s, c) = x /\ x # None
    BY <1>2, HubAssumption DEF Closing, About
  <2>2. Taken(s)
    BY <1>0, <2>1, OtherEnds
  <2>3. other(s, p) = x /\ p # c
    BY <1>0, <1>2, <2>2, ClosingPend DEF Forms, Formed, FrameForm
  <2>4. p = other(s, c)
    BY <1>0, <2>1, <2>3, OtherEnds
  <2> QED
    BY <1>0, <2>1, <2>3, <2>4, OtherEnds
<1>3. ASSUME NEW p \in Conn, NEW q \in Conn, NEW x \in Conn,
             NEW m \in serverMessage, NEW n \in serverMessage, NEW s \in Sessions,
             Due(p, x, m)', Due(q, x, n)'
      PROVE  /\ Announces(m, s) /\ Announces(n, s) => p = q /\ m = n
             /\ Frames(m, s) /\ Frames(n, s) => p = q /\ m = n
             /\ ~(Frames(m, s) /\ Ends(n, s))
  <2>1. ASSUME Announces(m, s) \/ Frames(m, s)
        PROVE  p # c /\ Due(p, x, m)
    BY <1>3, <2>1, ClosingElse
  <2>2. ASSUME Announces(n, s) \/ Frames(n, s)
        PROVE  q # c /\ Due(q, x, n)
    BY <1>3, <2>2, ClosingElse
  <2>3. Frames(m, s) => ~Ends(n, s)
    <3> SUFFICES ASSUME Frames(m, s) PROVE ~Ends(n, s)
      OBVIOUS
    <3>1. Due(p, x, m)
      BY <2>1
    <3>2. CASE q = c
      BY <1>2, <1>3, <3>1, <3>2
    <3>3. CASE q # c
      <4>1. Due(q, x, n)
        BY <1>3, <3>3, ClosingPend
      <4> QED
        BY <1>0, <3>1, <4>1 DEF Unique
    <3> QED
      BY <3>2, <3>3
  <2>4. Announces(m, s) /\ Announces(n, s) => p = q /\ m = n
    BY <1>0, <2>1, <2>2 DEF Unique
  <2>5. Frames(m, s) /\ Frames(n, s) => p = q /\ m = n
    BY <1>0, <2>1, <2>2 DEF Unique
  <2> QED
    BY <2>3, <2>4, <2>5
<1> QED
  BY <1>1, <1>3 DEF Forms, Unique

(* Where a page stands with a session that ended, and with the others.     *)
LEMMA ClosingStands ==
    ASSUME FrameInv, NEW c \in Conn, NEW K, Closing(c, K), NEW d \in Conn, NEW s \in Sessions,
           NEW b \in Int, Stands(d, s, b), Live(d)',
           NEW a \in Int, \/ a = b /\ (d = c => ~Calm \/ s \notin K)
                          \/ s \in K /\ a = SelfClosed /\ b # NoHandler
    PROVE  Stands(d, s, a)'
<1>0. ServerInv /\ TableSound /\ Forms /\ Unique /\ nextSess \in Int
  BY DEF FrameInv, ServerInv, TableInv, RelayTypeOK
<1>1. ASSUME NEW m \in serverMessage, Announces(m, s) \/ Frames(m, s)
      PROVE  Pend(d, m) <=> Pend(d, m)'
  <2>1. ASSUME NEW p \in Conn PROVE Due(p, d, m) <=> Due(p, d, m)'
    BY <1>1, ClosingElse
  <2> QED
    BY <2>1 DEF Pend
<1>2. \A m \in serverMessage : Pend(d, m) => Pend(d, m)'
  BY ClosingPend DEF Pend
<1>3. /\ Awaits(d, s) <=> Awaits(d, s)'
      /\ Framed(d, s) <=> Framed(d, s)'
      /\ Ending(d, s) => Ending(d, s)'
  BY <1>1, <1>2 DEF Awaits, Framed, Ending
<1>4. CASE s \notin K
  <2>1. a = b /\ sessions'[s] = sessions[s]
    BY <1>4, ClosingTable
  <2>2. \A m \in serverMessage : About(m, s) => (Pend(d, m) <=> Pend(d, m)')
    <3> SUFFICES ASSUME NEW m \in serverMessage, Ends(m, s), Pend(d, m)' PROVE Pend(d, m)
      BY <1>1, <1>2 DEF About
    <3>1. PICK p \in Conn : Due(p, d, m)'
      BY DEF Pend
    <3>2. p # c
      BY <1>4, <3>1 DEF Closing, About
    <3> QED
      BY <3>1, <3>2, ClosingPend DEF Pend
  <2>3. Calm /\ Far(d, s) => Far(d, s)'
    <3> SUFFICES ASSUME Calm, Far(d, s) PROVE Far(d, s)'
      OBVIOUS
    <3>1. other(s, d)' = other(s, d) /\ other(s, d) \in Conn
      BY <1>0, <1>4, ClosingTable, OtherEnds DEF Far
    <3>2. PICK f \in Conn : f = other(s, d)
      BY <3>1
    <3>3. pc'[f] = pc[f]
      <4>1. CASE f = c
        <5>1. other(s, d) = c /\ other(s, d) # None /\ d # None
          BY <3>2, <4>1, HubAssumption
        <5>2. other(s, c) = d
          BY <1>0, <5>1, OtherEnds
        <5> QED
          BY <1>4, <4>1, <5>1, <5>2 DEF Closing
      <4>2. CASE f # c
        BY <4>2 DEF Closing
      <4> QED
        BY <4>1, <4>2
    <3> QED
      BY <3>1, <3>2, <3>3 DEF Far
  <2> QED
    BY <1>0, <2>1, <2>2, <2>3, StandsStays DEF Closing
<1>5. CASE s \in K
  <2>1. ~Taken(s)' /\ other(s, d)' = None /\ nextSess' = nextSess
    BY <1>5, ClosingTable, HubAssumption DEF Closing
  <2>2. a = NoHandler <=> b = NoHandler
    BY DEF NoHandler, SelfClosed
  <2>3. ASSUME NEW m \in serverMessage, Pend(d, m)', Frames(m, s)
        PROVE  a = m.n - 1 \/ a = SelfClosed
    BY <1>1, <2>3 DEF Stands
  <2>4. ASSUME Calm, d \notin Openers, a >= 0 PROVE Ending(d, s)'
    <3>1. a = b /\ d # c
      BY <1>5, <2>4 DEF SelfClosed
    <3>2. Far(d, s) \/ Ending(d, s)
      BY <2>4, <3>1 DEF Stands
    <3>3. ASSUME Far(d, s) PROVE Ending(d, s)'
      <4>1. other(s, d) # None /\ Taken(s)
        BY <1>0, <3>3, OtherEnds DEF Far
      <4>2. other(s, c) # None
        BY <1>5, <2>4, <4>1 DEF Closing
      <4>3. other(s, c) = d
        BY <1>0, <3>1, <4>1, <4>2, OtherEnds
      <4>4. PICK m \in serverMessage : Due(c, d, m)' /\ Ends(m, s)
        BY <1>5, <4>3 DEF Closing
      <4> QED
        BY <4>4 DEF Ending, Pend
    <3> QED
      BY <1>3, <3>2, <3>3
  <2>5. \A f \in Conn : other(s, d)' # f
    BY <2>1, HubAssumption
  <2> QED
    BY <1>3, <2>1, <2>2, <2>3, <2>4, <2>5 DEF Stands
<1> QED
  BY <1>4, <1>5

----------------------------------------------------------------------------
(* What a page that has a handler for a session knows of it.               *)

(* It has one to the end of its queue, in which nothing announces the      *)
(* session again.                                                          *)
LEMMA HandlerStays ==
    ASSUME NEW s \in Sessions, NEW q \in Seq(serverMessage), NEW a \in Int, NEW b,
           Leads(Int, Turns(s), q, a, b), a # NoHandler
    PROVE  /\ b \in Int /\ b # NoHandler
           /\ \A i \in 1..Len(q) : q[i] \in serverMessage /\ ~Announces(q[i], s)
<1> DEFINE W == Int \ {NoHandler}
<1>1. ASSUME NEW m, NEW v \in W, NEW w, <<m, v, w>> \in Turns(s)
      PROVE  w \in W /\ m \in serverMessage /\ ~Announces(m, s)
  <2>1. Turn(s, m, v, w) /\ m \in serverMessage /\ w \in Int
    BY <1>1 DEF Turns
  <2>2. ~Announces(m, s)
    BY <2>1 DEF Turn
  <2>3. w # NoHandler
    BY <2>1, <2>2, OneKind DEF Turn, NoHandler, SelfClosed, FarClosed, About
  <2> QED
    BY <2>1, <2>2, <2>3
<1>2. a \in W
  OBVIOUS
<1> HIDE DEF W
<1>3. \A m, v, w : <<m, v, w>> \in Turns(s) /\ v \in W => w \in W
  BY <1>1
<1>4. b \in W /\ \A i \in 1..Len(q) : \E v \in W, w \in W : <<q[i], v, w>> \in Turns(s)
  BY <1>2, <1>3, LeadsWithin
<1>5. ASSUME NEW i \in 1..Len(q) PROVE q[i] \in serverMessage /\ ~Announces(q[i], s)
  BY <1>1, <1>4
<1> QED
  BY <1>4, <1>5 DEF W

(* So the session was handed out, and nobody is to announce it to the page.*)
LEMMA HasHandler ==
    ASSUME FrameInv, NEW c \in Conn, NEW s \in Sessions, Live(c), got[c][s] # NoHandler
    PROVE  /\ s <= nextSess /\ ~Awaits(c, s) /\ (Taken(s) => other(s, c) # None)
           /\ \A b \in Int : Leads(Int, Turns(s), out[c], got[c][s], b) => b # NoHandler
<1>0. ServerInv /\ Known
  BY DEF FrameInv
<1>1. out[c] \in Seq(serverMessage) /\ got[c][s] \in Int /\ nextSess \in Int /\ s \in Int
  <2>1. out[c] \in Seq(serverMessage)
    BY <1>0 DEF ServerInv, QueueInv
  <2>2. got[c][s] \in Int
    BY <1>0 DEF ServerInv, PageInv, BrowserTypeOK
  <2>3. nextSess \in Int /\ s \in Int
    BY <1>0, ConnAssumption DEF ServerInv, TableInv, RelayTypeOK, Sessions
  <2> QED
    BY <2>1, <2>2, <2>3
<1>2. PICK b \in Int : Leads(Int, Turns(s), out[c], got[c][s], b) /\ Stands(c, s, b)
  BY <1>0 DEF Known
<1>3. \A a \in Int : Leads(Int, Turns(s), out[c], got[c][s], a) => a # NoHandler
  BY <1>1, HandlerStays
<1>4. b # NoHandler
  BY <1>2, <1>3
<1> QED
  BY <1>1, <1>2, <1>3, <1>4 DEF Stands

(* The browser closes the session: it is so to the end of the queue.       *)
LEMMA ClosedStays ==
    ASSUME NEW s \in Sessions, NEW q \in Seq(serverMessage), NEW a \in Int, NEW b,
           Leads(Int, Turns(s), q, a, b), a # NoHandler
    PROVE  Leads(Int, Turns(s), q, SelfClosed, SelfClosed)
<1>1. SelfClosed \in Int
  BY DEF SelfClosed
<1>2. \A i \in 1..Len(q) : q[i] \in serverMessage /\ ~Announces(q[i], s)
  BY HandlerStays
<1>3. ASSUME NEW i \in 1..Len(q) PROVE <<q[i], SelfClosed, SelfClosed>> \in Turns(s)
  <2>1. Turn(s, q[i], SelfClosed, SelfClosed)
    BY <1>2 DEF Turn, SelfClosed
  <2> QED
    BY <1>1, <1>2, <2>1 DEF Turns
<1> QED
  BY <1>1, <1>3, LeadsStill

----------------------------------------------------------------------------
(* A session is opened.                                                    *)

(* The lists of an opening.                                                *)
ReadyMsg(t, s)    == [type |-> "relay-ready", session |-> s, id |-> IdOf[t]]
IncomingMsg(c, s) == [type |-> "relay-incoming", session |-> s, id |-> IdOf[c]]

LEMMA OneAndOne ==
    ASSUME NEW S, NEW x \in S, NEW y \in S
    PROVE  <<x>> \o <<y>> = <<x, y>>
<1> DEFINE u == <<x>>  v == <<y>>  w == <<x, y>>
<1>1. /\ u \in Seq(S) /\ Len(u) = 1 /\ u[1] = x
      /\ v \in Seq(S) /\ Len(v) = 1 /\ v[1] = y
      /\ w \in Seq(S) /\ Len(w) = 2 /\ w[1] = x /\ w[2] = y
  OBVIOUS
<1> HIDE DEF u, v, w
<1>2. /\ u \o v \in Seq(S) /\ Len(u \o v) = 2
      /\ \A i \in 1..2 : (u \o v)[i] = IF i <= 1 THEN u[i] ELSE v[i - 1]
  BY <1>1, ConcatProperties
<1>3. \A i \in 1..2 : (u \o v)[i] = w[i]
  BY <1>1, <1>2
<1>4. u \o v = w
  BY <1>1, <1>2, <1>3, SeqEqual
<1> QED
  BY <1>4 DEF u, v, w

LEMMA OnOpening ==
    ASSUME NEW c, NEW t, NEW s
    PROVE  /\ OpenStages(c, t, s) = <<{Send(c, ReadyMsg(t, s))}, {Send(t, IncomingMsg(c, s))}>>
           /\ Incoming(c, t, s) = <<{Send(t, IncomingMsg(c, s))}>>
           /\ On(OpenStages(c, t, s)) = {Send(c, ReadyMsg(t, s)), Send(t, IncomingMsg(c, s))}
           /\ On(Incoming(c, t, s)) = {Send(t, IncomingMsg(c, s))}
<1> DEFINE A == {Send(c, ReadyMsg(t, s))}  B == {Send(t, IncomingMsg(c, s))}
<1>1. Ready(c, t, s) = Stage(A) /\ Incoming(c, t, s) = Stage(B)
  BY DEF Ready, Incoming, ReadyMsg, IncomingMsg
<1>2. A # {} /\ B # {}
  OBVIOUS
<1>3. A \cup B = {Send(c, ReadyMsg(t, s)), Send(t, IncomingMsg(c, s))}
  OBVIOUS
<1> HIDE DEF A, B
<1>4. On(Stage(A) \o Stage(B)) = A \cup B /\ On(Stage(B)) = B
  BY StageIsSeq, OnConcat, OnStage
<1>5. Stage(A) \o Stage(B) = <<A, B>> /\ Stage(B) = <<B>>
  <2>1. Stage(A) = <<A>> /\ Stage(B) = <<B>>
    BY <1>2 DEF Stage
  <2>2. <<A>> \o <<B>> = <<A, B>>
    <3>1. A \in {A, B} /\ B \in {A, B}
      OBVIOUS
    <3> QED
      BY <3>1, OneAndOne
  <2>3. ASSUME NEW u, NEW v, u = <<A>>, v = <<B>> PROVE u \o v = <<A, B>>
    BY <2>2, <2>3, Zenon
  <2> QED
    BY <2>1, <2>3, Zenon
<1> QED
  BY <1>1, <1>3, <1>4, <1>5 DEF OpenStages, A, B

(* It announces s to its two ends, and is about nothing else.              *)
LEMMA OpeningSays ==
    ASSUME NEW c, NEW t, NEW s
    PROVE  /\ Announces(ReadyMsg(t, s), s) /\ Announces(IncomingMsg(c, s), s)
           /\ \A u : About(ReadyMsg(t, s), u) \/ About(IncomingMsg(c, s), u) => u = s
           /\ \A u : ~Frames(ReadyMsg(t, s), u) /\ ~Frames(IncomingMsg(c, s), u)
           /\ \A u : ~Ends(ReadyMsg(t, s), u) /\ ~Ends(IncomingMsg(c, s), u)
  BY DEF About, Announces, Frames, Ends, ReadyMsg, IncomingMsg

(* The next ID is the next number, as long as there is one.                *)
LEMMA NextIsNext ==
    ASSUME MaxOpen <= SessMax, ServerInv, TableSound, relaySessions < MaxOpen
    PROVE  /\ NextFree = nextSess + 1 /\ nextSess + 1 \in Sessions /\ ~Taken(nextSess + 1)
           /\ nextSess \in Nat
<1> USE ConnAssumption, RelayAssumption
<1>1. nextSess \in Nat /\ nextSess < SessMax /\ relaySessions \in Nat
  BY DEF ServerInv, TableInv, RelayTypeOK, TableSound
<1>2. nextSess + 1 \in Sessions /\ 1 \in Sessions
  BY <1>1 DEF Sessions
<1>3. ~Taken(nextSess + 1)
  BY <1>1, <1>2 DEF TableSound
<1>4. Candidate(1) = nextSess + 1
  <2>1. nextSess + 1 - 1 = nextSess /\ nextSess \in 0..(SessMax - 1) /\ SessMax \in Nat \ {0}
    BY <1>1
  <2>2. nextSess % SessMax = nextSess
    BY <2>1, Modulo
  <2> QED
    BY <2>1, <2>2 DEF Candidate
<1> DEFINE P(k) == ~Taken(Candidate(k)) /\ \A j \in 1..(k - 1) : Taken(Candidate(j))
<1>5. P(1)
  BY <1>3, <1>4
<1>6. ASSUME NEW k \in Sessions, P(k) PROVE k = 1
  <2>1. k > 1 => 1 \in 1..(k - 1)
    BY DEF Sessions
  <2>2. ~(k > 1)
    BY <1>3, <1>4, <1>6, <2>1
  <2> QED
    BY <2>2 DEF Sessions
<1> HIDE DEF P
<1>7. (CHOOSE k \in Sessions : P(k)) = 1
  BY <1>2, <1>5, <1>6
<1>8. NextFree = Candidate(CHOOSE k \in Sessions : P(k))
  BY DEF NextFree, P
<1> QED
  BY <1>1, <1>2, <1>3, <1>4, <1>7, <1>8

LEMMA OpenStep ==
    ASSUME MaxOpen <= SessMax, FrameInv, NEW c \in Conn, OpenSession(c)
    PROVE  /\ Forms' /\ Unique'
           /\ \A d \in Conn, s \in Sessions, b \in Int : Stands(d, s, b) => Stands(d, s, b)'
<1>0. ServerInv /\ TodoInv /\ TableSound /\ Forms /\ Unique
  BY DEF FrameInv
<1>a. PICK z : z = nextSess + 1
  OBVIOUS
<1>1. NextFree = z /\ z \in Sessions /\ ~Taken(z) /\ nextSess \in Nat
  BY <1>0, <1>a, NextIsNext DEF OpenSession
<1>2. PICK t \in held[c] :
        /\ sessions' = [sessions EXCEPT ![z] = [from |-> c, to |-> t, sent |-> [d \in Conn |-> 0]]]
        /\ nextSess' = z
        /\ todo' = [todo EXCEPT ![c] = OpenStages(c, t, z)]
  BY <1>1 DEF OpenSession
<1>3. pc[c] = "open" /\ pc' = [pc EXCEPT ![c] = "read"] /\ UNCHANGED <<done, link>>
  BY DEF OpenSession
<1>4. t \in Conn /\ t # c /\ c \in Openers /\ todo[c] = <<>>
  BY <1>0, <1>3 DEF ServerInv, TableInv, TableSound, TodoInv
<1>5. /\ todo'[c] = OpenStages(c, t, z) /\ pc'[c] = "read"
      /\ \A p \in Conn \ {c} : todo'[p] = todo[p] /\ pc'[p] = pc[p]
      /\ \A p \in Conn : pc'[p] = "gone" => pc[p] = "gone"
      /\ \A d \in Conn : Live(d)' <=> Live(d)
  BY <1>0, <1>2, <1>3 DEF TodoInv, ServerInv, RegistryInv, Live
<1>6. /\ sessions'[z].from = c /\ sessions'[z].to = t /\ \A d \in Conn : sessions'[z].sent[d] = 0
      /\ \A s \in Sessions \ {z} : sessions'[s] = sessions[s]
  BY <1>0, <1>1, <1>2 DEF ServerInv, TableInv, RelayTypeOK
<1>7. /\ Taken(z)' /\ \A d \in Conn : other(z, d)' = IF d = c THEN t ELSE IF d = t THEN c ELSE None
  BY <1>4, <1>6, HubAssumption DEF Taken, NoSession, other
<1>8. /\ z \in Int /\ nextSess' = z /\ z > nextSess
      /\ \A s \in Sessions : s <= nextSess => s <= nextSess' /\ s # z
  BY <1>1, <1>2, <1>a DEF Sessions
<1>9. ASSUME NEW p \in Conn, NEW x \in Conn, NEW m \in serverMessage, Due(p, x, m)
      PROVE  /\ p # c /\ Due(p, x, m)'
             /\ \A s \in Sessions : About(m, s) => s # z
  <2>1. On(<<>>) = {}
    BY DEF On
  <2>2. p # c
    BY <1>4, <1>9, <2>1 DEF Due
  <2>3. \A s \in Sessions : Formed(p, x, m, s)
    BY <1>0, <1>9 DEF Forms
  <2> QED
    BY <1>5, <1>8, <1>9, <2>2, <2>3 DEF Due, Formed
<1>10. ASSUME NEW p \in Conn, NEW x \in Conn, NEW m \in serverMessage, Due(p, x, m)'
       PROVE  \/ p # c /\ Due(p, x, m)
              \/ p = c /\ x = c /\ m = ReadyMsg(t, z)
              \/ p = c /\ x = t /\ m = IncomingMsg(c, z)
  <2>1. CASE p # c
    BY <1>5, <1>10, <2>1 DEF Due
  <2>2. CASE p = c
    <3>1. Send(x, m) \in {Send(c, ReadyMsg(t, z)), Send(t, IncomingMsg(c, z))}
      BY <1>5, <1>10, <2>2, OnOpening DEF Due
    <3> QED
      BY <2>2, <3>1, SendIs
  <2> QED
    BY <2>1, <2>2
<1>11. ASSUME NEW p \in Conn, NEW x \in Conn, NEW m \in serverMessage, NEW s \in Sessions,
              Due(p, x, m)', About(m, s)
       PROVE  \/ p # c /\ s # z /\ Due(p, x, m)
              \/ /\ p = c /\ s = z /\ Announces(m, s) /\ ~Frames(m, s) /\ ~Ends(m, s)
                 /\ (x = c /\ m = ReadyMsg(t, z)) \/ (x = t /\ m = IncomingMsg(c, z))
  <2>1. CASE p # c /\ Due(p, x, m)
    BY <1>9, <1>11, <2>1
  <2>2. CASE p = c /\ ((x = c /\ m = ReadyMsg(t, z)) \/ (x = t /\ m = IncomingMsg(c, z)))
    <3>1. s = z /\ Announces(m, z) /\ ~Frames(m, z) /\ ~Ends(m, z)
      BY <1>11, <2>2, OpeningSays
    <3> QED
      BY <2>2, <3>1
  <2>3. \/ p # c /\ Due(p, x, m)
        \/ p = c /\ x = c /\ m = ReadyMsg(t, z)
        \/ p = c /\ x = t /\ m = IncomingMsg(c, z)
    BY <1>10, <1>11
  <2> QED
    BY <2>1, <2>2, <2>3
<1>12. ASSUME NEW p \in Conn, NEW x \in Conn, NEW m \in serverMessage, NEW s \in Sessions, Due(p, x, m)'
       PROVE  Formed(p, x, m, s)'
  <2>1. CASE ~About(m, s)
    BY <2>1 DEF Formed, About
  <2>2. CASE About(m, s) /\ p # c
    <3>1. s # z /\ Due(p, x, m) /\ sessions'[s] = sessions[s]
      BY <1>6, <1>11, <1>12, <2>2
    <3> QED
      BY <1>0, <1>5, <1>8, <2>2, <3>1, FormStays
  <2>3. CASE About(m, s) /\ p = c
    <3>1. s = z /\ Announces(m, s) /\ ~Frames(m, s) /\ ~Ends(m, s) /\ (x = c \/ x = t)
      BY <1>11, <1>12, <2>3
    <3>2. sessions'[z].sent[other(z, x)'] = 0
      BY <1>4, <1>6, <1>7, <3>1
    <3>3. OpenForm(c, x, z)'
      BY <1>4, <1>5, <1>6, <1>7, <3>1, <3>2 DEF OpenForm, OpenStages, Ready, Incoming
    <3>4. z <= nextSess'
      BY <1>8
    <3> QED
      BY <2>3, <3>1, <3>3, <3>4 DEF Formed
  <2> QED
    BY <2>1, <2>2, <2>3
<1>13. ASSUME NEW p \in Conn, NEW q \in Conn, NEW x \in Conn,
              NEW m \in serverMessage, NEW n \in serverMessage, NEW s \in Sessions,
              Due(p, x, m)', Due(q, x, n)', About(m, s), About(n, s)
       PROVE  /\ Announces(m, s) /\ Announces(n, s) => p = q /\ m = n
              /\ Frames(m, s) /\ Frames(n, s) => p = q /\ m = n
              /\ ~(Frames(m, s) /\ Ends(n, s))
  <2>1. CASE s = z
    BY <1>4, <1>11, <1>13, <2>1
  <2>2. CASE s # z
    <3>1. Due(p, x, m) /\ Due(q, x, n)
      BY <1>11, <1>13, <2>2
    <3> QED
      BY <1>0, <3>1 DEF Unique
  <2> QED
    BY <2>1, <2>2
<1>14. Forms' /\ Unique'
  BY <1>12, <1>13 DEF Forms, Unique, About
<1>15. ASSUME NEW d \in Conn, NEW s \in Sessions, NEW b \in Int, Stands(d, s, b)
       PROVE  Stands(d, s, b)'
  <2>1. CASE s # z
    <3>1. \A m \in serverMessage : About(m, s) => (Pend(d, m) <=> Pend(d, m)')
      BY <1>9, <1>11, <2>1 DEF Pend
    <3>2. Calm /\ Far(d, s) => Far(d, s)'
      <4> SUFFICES ASSUME Far(d, s) PROVE Far(d, s)'
        OBVIOUS
      <4>1. other(s, d)' = other(s, d) /\ other(s, d) \in Conn
        <5>1. sessions'[s] = sessions[s]
          BY <1>6, <2>1
        <5> QED
          BY <1>0, <5>1, OtherEnds DEF Far, other
      <4>2. PICK f \in Conn : f = other(s, d)
        BY <4>1
      <4> QED
        BY <1>5, <4>1, <4>2 DEF Far
    <3> QED
      BY <1>1, <1>6, <1>8, <1>15, <2>1, <3>1, <3>2, StandsStays
  <2>2. CASE s = z
    <3>1. b = NoHandler
      BY <1>8, <1>15, <2>2 DEF Stands
    <3>2. \A m \in serverMessage : Pend(d, m)' => ~Frames(m, z)
      BY <1>1, <1>11 DEF Pend, About
    <3>3. ASSUME d = c \/ d = t PROVE Awaits(d, z)'
      <4>1. Due(c, c, ReadyMsg(t, z))' /\ Due(c, t, IncomingMsg(c, z))'
        BY <1>5, OnOpening DEF Due
      <4>2. PICK m : Due(c, d, m)' /\ Announces(m, z)
        BY <3>3, <4>1, OpeningSays
      <4>3. m \in serverMessage
        <5>1. PICK f : f = todo'
          OBVIOUS
        <5>2. ReadyMsg(t, z) \in serverMessage /\ IncomingMsg(c, z) \in serverMessage
          BY <1>1, <1>4, ConnAssumption DEF ReadyMsg, IncomingMsg, serverMessage
        <5>3. Send(d, m) \in {Send(c, ReadyMsg(t, z)), Send(t, IncomingMsg(c, z))}
          BY <1>5, <4>2, OnOpening DEF Due
        <5> QED
          BY <5>2, <5>3, SendIs
      <4> QED
        BY <4>2, <4>3 DEF Awaits, Pend
    <3>4. ~(z > nextSess') /\ ~(b >= 0)
      BY <1>8, <3>1 DEF NoHandler
    <3>5. \A f \in Conn : other(z, d)' = f => Awaits(d, z)'
      BY <1>7, <3>3, HubAssumption
    <3> QED
      BY <2>2, <3>1, <3>2, <3>4, <3>5 DEF Stands
  <2> QED
    BY <2>1, <2>2
<1> QED
  BY <1>14, <1>15

----------------------------------------------------------------------------
(* A frame is passed on.                                                   *)

LEMMA FrameStep ==
    ASSUME FrameInv, NEW c \in Conn, NEW s \in Sessions, RecvFrame(c, s)
    PROVE  /\ Forms' /\ Unique'
           /\ \A d \in Conn, u \in Sessions, b \in Int : Stands(d, u, b) => Stands(d, u, b)'
<1>0. ServerInv /\ TodoInv /\ TableSound /\ Forms /\ Unique /\ Live(c)
  BY DEF FrameInv, RecvFrame, Reading, Live
<1>1. PICK x : x = other(s, c)
  OBVIOUS
<1>2. /\ x \in Conn /\ x # c /\ other(s, c) = x /\ other(s, x) = c /\ Taken(s) /\ s <= nextSess
      /\ \A d \in Conn : other(s, d) # None => d = c \/ d = x
      /\ sessions[s] \in relaySession
  BY <1>0, <1>1, OtherEnds DEF RecvFrame
<1>3. PICK n : n = sessions[s].sent[c] + 1
  OBVIOUS
<1>4. n \in Nat /\ n >= 1 /\ sessions[s].sent[c] = n - 1
  BY <1>2, <1>3 DEF relaySession
<1>5. PICK w : w = [type |-> "frame", session |-> s, n |-> n]
  OBVIOUS
<1>6. /\ w \in serverMessage /\ Frames(w, s) /\ w.n = n /\ w.n \in Nat
      /\ \A u : About(w, u) => u = s
      /\ \A u : ~Announces(w, u) /\ ~Ends(w, u)
  BY <1>4, <1>5 DEF serverMessage, About, Announces, Frames, Ends
<1>7. /\ sessions' = [sessions EXCEPT ![s].sent[c] = n]
      /\ todo' = [todo EXCEPT ![c] = Stage({Send(x, w)})]
      /\ pc' = pc /\ done' = done /\ link' = link /\ nextSess' = nextSess
      /\ todo[c] = <<>> /\ got[c][s] >= 0
  BY <1>1, <1>3, <1>5 DEF RecvFrame, Reading
<1>8. /\ sessions'[s].from = sessions[s].from /\ sessions'[s].to = sessions[s].to
      /\ sessions'[s].sent[c] = n
      /\ \A d \in Conn \ {c} : sessions'[s].sent[d] = sessions[s].sent[d]
      /\ \A u \in Sessions \ {s} : sessions'[u] = sessions[u]
  BY <1>0, <1>2, <1>7 DEF ServerInv, TableInv, RelayTypeOK, relaySession
<1>9. /\ todo'[c] = Stage({Send(x, w)})
      /\ \A p \in Conn \ {c} : todo'[p] = todo[p]
      /\ \A d \in Conn : Live(d)' <=> Live(d)
  BY <1>0, <1>7 DEF TodoInv, Live
<1>10. /\ Taken(s)'
       /\ \A u \in Sessions, d \in Conn : other(u, d)' = other(u, d)
  <2>1. \A u \in Sessions : sessions'[u].from = sessions[u].from /\ sessions'[u].to = sessions[u].to
    BY <1>8
  <2>2. sessions'[s].from # None
    BY <1>2, <1>8, HubAssumption DEF relaySession
  <2> QED
    BY <2>1, <2>2 DEF other, Taken, NoSession
<1>11. ASSUME NEW p \in Conn, NEW y \in Conn, NEW m \in serverMessage
       PROVE  /\ Due(p, y, m)' <=> \/ p # c /\ Due(p, y, m)
                                   \/ p = c /\ y = x /\ m = w
              /\ Due(p, y, m) => p # c /\ Due(p, y, m)'
  <2>1. On(<<>>) = {}
    BY DEF On
  <2>2. On(todo'[c]) = {Send(x, w)}
    BY <1>9, OnStage
  <2>3. CASE p = c
    <3>1. ~Due(c, y, m)
      BY <1>7, <2>1 DEF Due
    <3>2. Due(c, y, m)' <=> Send(y, m) = Send(x, w)
      BY <2>2 DEF Due
    <3> QED
      BY <2>3, <3>1, <3>2, SendIs
  <2>4. CASE p # c
    BY <1>9, <2>4 DEF Due
  <2> QED
    BY <2>3, <2>4
<1>12. ASSUME NEW p \in Conn, NEW m \in serverMessage, Due(p, x, m)
       PROVE  ~About(m, s)
  <2>1. Formed(p, x, m, s) /\ p # c
    <3>1. Formed(p, x, m, s)
      BY <1>0, <1>2, <1>12 DEF Forms
    <3> QED
      BY <1>2, <1>11, <1>12, <3>1
  <2>2. ~Frames(m, s)
    <3> SUFFICES ASSUME Frames(m, s) PROVE FALSE
      OBVIOUS
    <3>1. other(s, p) = x
      BY <1>2, <2>1 DEF Formed, FrameForm
    <3> QED
      BY <1>2, <2>1, <3>1, HubAssumption
  <2>3. ~Announces(m, s)
    <3> SUFFICES ASSUME Announces(m, s) PROVE FALSE
      OBVIOUS
    <3>1. PICK t \in Conn \ {p} :
            /\ todo[p] = OpenStages(p, t, s) \/ todo[p] = Incoming(p, t, s)
            /\ sessions[s].from = p /\ sessions[s].to = t
      BY <1>2, <2>1 DEF Formed, OpenForm
    <3>2. t = c
      BY <1>2, <2>1, <3>1, HubAssumption DEF other
    <3>3. Due(p, c, IncomingMsg(p, s))
      BY <3>1, <3>2, OnOpening DEF Due
    <3>4. IncomingMsg(p, s) \in serverMessage /\ Announces(IncomingMsg(p, s), s)
      BY ConnAssumption DEF IncomingMsg, serverMessage, Announces
    <3>5. Awaits(c, s)
      BY <3>3, <3>4 DEF Awaits, Pend
    <3>6. got[c][s] # NoHandler
      BY <1>7 DEF NoHandler
    <3> QED
      BY <1>0, <3>5, <3>6, HasHandler
  <2>4. ~Ends(m, s)
    BY <1>2, <2>1 DEF Formed
  <2> QED
    BY <2>2, <2>3, <2>4 DEF About
<1>13. ASSUME NEW p \in Conn, NEW y \in Conn, NEW m \in serverMessage, NEW u \in Sessions, Due(p, y, m)'
       PROVE  Formed(p, y, m, u)'
  <2>1. CASE ~About(m, u)
    BY <2>1 DEF Formed, About
  <2>2. CASE About(m, u) /\ p = c
    <3>1. y = x /\ m = w /\ u = s
      BY <1>6, <1>11, <1>13, <2>2
    <3>2. FrameForm(c, x, w, s)'
      <4>1. other(s, c)' = x
        BY <1>2, <1>10
      <4> QED
        BY <1>4, <1>6, <1>8, <1>9, <4>1 DEF FrameForm
    <3> QED
      BY <1>2, <1>6, <1>7, <2>2, <3>1, <3>2 DEF Formed
  <2>3. CASE About(m, u) /\ p # c /\ u # s
    BY <1>0, <1>7, <1>8, <1>9, <1>11, <1>13, <2>3, FormStays
  <2>4. CASE About(m, u) /\ p # c /\ u = s
    <3>1. Due(p, y, m) /\ Formed(p, y, m, s)
      BY <1>0, <1>11, <1>13, <2>4 DEF Forms
    <3>2. FrameForm(p, y, m, s) => FrameForm(p, y, m, s)'
      BY <1>2, <1>8, <1>9, <1>10, <2>4 DEF FrameForm
    <3>3. Announces(m, s) => OpenForm(p, y, s)'
      <4> SUFFICES ASSUME Announces(m, s) PROVE OpenForm(p, y, s)'
        OBVIOUS
      <4>1. y # x
        BY <1>12, <3>1, <2>4
      <4>2. OpenForm(p, y, s)
        BY <3>1 DEF Formed
      <4>3. PICK t \in Conn \ {p} :
              /\ todo[p] = OpenStages(p, t, s) \/ todo[p] = Incoming(p, t, s)
              /\ y = p \/ y = t
              /\ Taken(s) => /\ sessions[s].from = p /\ sessions[s].to = t
                             /\ sessions[s].sent[other(s, y)] = 0
        BY <4>2 DEF OpenForm
      <4>4. /\ sessions'[s].from = p /\ sessions'[s].to = t
            /\ sessions'[s].sent[other(s, y)'] = 0
        <5>1. other(s, y) # None
          BY <1>2, <4>3, HubAssumption DEF other
        <5>2. other(s, y) \in Conn /\ other(s, y) # c
          BY <1>0, <1>2, <4>1, <5>1, OtherEnds
        <5>3. sessions'[s].sent[other(s, y)] = 0
          BY <1>2, <1>8, <4>3, <5>2
        <5>4. other(s, y)' = other(s, y)
          BY <1>10
        <5> QED
          BY <1>2, <1>8, <4>3, <5>3, <5>4
      <4>5. Calm /\ y # p /\ Live(y)' => Taken(s)'
        BY <1>10
      <4>6. pc'[p] = "read" /\ p \in Openers
        BY <1>7, <4>2 DEF OpenForm
      <4>7. todo'[p] = OpenStages(p, t, s) \/ todo'[p] = Incoming(p, t, s)
        BY <1>9, <2>4, <4>3
      <4> QED
        BY <4>3, <4>4, <4>5, <4>6, <4>7 DEF OpenForm, OpenStages, Ready, Incoming
    <3> QED
      BY <1>2, <1>7, <1>10, <2>4, <3>1, <3>2, <3>3 DEF Formed
  <2> QED
    BY <2>1, <2>2, <2>3, <2>4
<1>14. ASSUME NEW p \in Conn, NEW q \in Conn, NEW y \in Conn,
              NEW m \in serverMessage, NEW k \in serverMessage, NEW u \in Sessions,
              Due(p, y, m)', Due(q, y, k)', About(m, u), About(k, u)
       PROVE  /\ Announces(m, u) /\ Announces(k, u) => p = q /\ m = k
              /\ Frames(m, u) /\ Frames(k, u) => p = q /\ m = k
              /\ ~(Frames(m, u) /\ Ends(k, u))
  <2>1. CASE p = c
    <3>1. y = x /\ m = w /\ u = s
      BY <1>6, <1>11, <1>14, <2>1
    <3>2. q = c /\ k = w
      BY <1>11, <1>12, <1>14, <3>1
    <3> QED
      BY <1>6, <2>1, <3>1, <3>2
  <2>2. CASE q = c
    <3>1. y = x /\ k = w /\ u = s
      BY <1>6, <1>11, <1>14, <2>2
    <3>2. p = c /\ m = w
      BY <1>11, <1>12, <1>14, <3>1
    <3> QED
      BY <1>6, <2>2, <3>1, <3>2
  <2>3. CASE p # c /\ q # c
    <3>1. Due(p, y, m) /\ Due(q, y, k)
      BY <1>11, <1>14, <2>3
    <3> QED
      BY <1>0, <3>1 DEF Unique
  <2> QED
    BY <2>1, <2>2, <2>3
<1>15. Forms' /\ Unique'
  BY <1>13, <1>14 DEF Forms, Unique, About
<1>16. ASSUME NEW d \in Conn, NEW u \in Sessions, NEW b \in Int, Stands(d, u, b)
       PROVE  Stands(d, u, b)'
  <2>1. Far(d, u)' <=> Far(d, u)
    BY <1>7, <1>10 DEF Far
  <2>2. ASSUME NEW m \in serverMessage PROVE Pend(d, m)' <=> Pend(d, m) \/ (d = x /\ m = w)
    BY <1>11 DEF Pend
  <2>3. CASE u # s
    <3>1. \A m \in serverMessage : About(m, u) => (Pend(d, m) <=> Pend(d, m)')
      BY <1>6, <2>2, <2>3
    <3>2. nextSess \in Int /\ nextSess' \in Int
      BY <1>0, <1>7 DEF ServerInv, TableInv, RelayTypeOK
    <3> QED
      BY <1>7, <1>8, <1>16, <2>1, <2>3, <3>1, <3>2, StandsStays
  <2>4. Ending(d, u) => Ending(d, u)'
    BY <2>2 DEF Ending
  <2>5. CASE u = s /\ d = x
    <3>1. ~Awaits(x, s) /\ ~Framed(x, s)
      BY <1>12 DEF Awaits, Framed, Pend, About
    <3>2. b = n - 1
      BY <1>2, <1>4, <1>16, <2>5, <3>1 DEF Stands
    <3>3. ~Awaits(x, s)' /\ Framed(x, s)'
      BY <1>6, <2>2, <2>5, <3>1 DEF Awaits, Framed
    <3>4. ASSUME NEW m \in serverMessage, Pend(x, m)', Frames(m, s) PROVE m = w
      BY <2>2, <2>5, <3>1, <3>4 DEF Framed
    <3>5. other(s, x)' = c
      BY <1>2, <1>10
    <3>6. ~(s > nextSess') /\ c # None
      <4>1. s \in Int /\ nextSess \in Int
        BY <1>0 DEF ServerInv, TableInv, RelayTypeOK, Sessions
      <4> QED
        BY <1>2, <1>7, <4>1, HubAssumption
    <3>7. Calm /\ d \notin Openers /\ b >= 0 => Far(x, s)' \/ Ending(x, s)'
      BY <1>16, <2>1, <2>4, <2>5 DEF Stands
    <3> QED
      BY <1>6, <1>8, <2>5, <3>2, <3>3, <3>4, <3>5, <3>6, <3>7 DEF Stands
  <2>6. CASE u = s /\ d # x
    <3>1. \A m \in serverMessage : Pend(d, m)' <=> Pend(d, m)
      BY <2>2, <2>6
    <3>2. (Awaits(d, s)' <=> Awaits(d, s)) /\ (Framed(d, s)' <=> Framed(d, s))
      BY <3>1 DEF Awaits, Framed
    <3>3. ASSUME NEW f \in Conn, other(s, d)' = f
          PROVE  sessions'[s].sent[f] = sessions[s].sent[f] /\ other(s, d) = f
      <4>1. other(s, d) = f /\ other(s, d) # None
        BY <1>10, <3>3, HubAssumption
      <4>2. f = x
        BY <1>2, <2>6, <4>1
      <4> QED
        BY <1>2, <1>8, <4>1, <4>2
    <3>4. other(s, d)' = other(s, d)
      BY <1>10
    <3>5. ASSUME NEW f \in Conn, other(s, d)' = f
          PROVE  \/ Awaits(d, s)'
                 \/ b = sessions'[s].sent[f]
                 \/ b = sessions'[s].sent[f] - 1 /\ Framed(d, s)'
      BY <1>16, <2>6, <3>2, <3>3, <3>5 DEF Stands
    <3>6. Calm /\ d \notin Openers /\ b >= 0 => Far(d, s)' \/ Ending(d, s)'
      BY <1>16, <2>1, <2>4, <2>6 DEF Stands
    <3>7. \A m \in serverMessage : Pend(d, m)' /\ Frames(m, s) => b = m.n - 1 \/ b = SelfClosed
      BY <1>16, <2>6, <3>1 DEF Stands
    <3>8. /\ s > nextSess' => b = NoHandler
          /\ Awaits(d, s)' => b = NoHandler
          /\ Taken(s)' /\ other(s, d)' = None => b = NoHandler
      BY <1>2, <1>7, <1>16, <2>6, <3>2, <3>4 DEF Stands
    <3> QED
      BY <2>6, <3>5, <3>6, <3>7, <3>8 DEF Stands
  <2> QED
    BY <2>3, <2>5, <2>6
<1> QED
  BY <1>15, <1>16

----------------------------------------------------------------------------
(* A goroutine does the first thing on its list.                           *)
Taking(c, e) ==
    /\ todo[c] # <<>> /\ e \in Head(todo[c]) /\ Finish(c, e)
    /\ UNCHANGED <<sessions, nextSess, pc>>
    /\ \A d \in Conn : Live(d)' => Live(d)

(* Of a list of one thing nothing is left, of one of two the second.       *)
LEMMA WithoutOne ==
    ASSUME NEW s, NEW f, s = <<{f}>>, NEW e \in Head(s)
    PROVE  e = f /\ Without(s, e) = <<>>
<1>1. s[1] = {f} /\ Head(s) = s[1] /\ Tail(s) = <<>>
  OBVIOUS
<1> QED
  BY <1>1 DEF Without

LEMMA WithoutTwo ==
    ASSUME NEW s, NEW f, NEW g, s = <<{f}, {g}>>, NEW e \in Head(s)
    PROVE  e = f /\ Without(s, e) = <<{g}>>
<1>1. s[1] = {f} /\ Head(s) = s[1] /\ Tail(s) = <<{g}>>
  OBVIOUS
<1> QED
  BY <1>1 DEF Without

(* What is due after it was due before, and only that thing is not any     *)
(* more.                                                                   *)
LEMMA TakingDue ==
    ASSUME FrameInv, NEW c \in Conn, NEW e, Taking(c, e)
    PROVE  /\ e \in Fitting /\ e \in On(todo[c]) /\ todo'[c] = Without(todo[c], e)
           /\ \A p \in Conn \ {c} : todo'[p] = todo[p]
           /\ \A p, y \in Conn, m \in serverMessage :
                /\ Due(p, y, m)' => Due(p, y, m)
                /\ Due(p, y, m) => Due(p, y, m)' \/ (p = c /\ e = Send(y, m))
<1>1. ServerInv /\ TodoInv /\ IsSeq(todo[c]) /\ todo \in [Conn -> Stages]
  BY DEF FrameInv, TodoInv, ServerInv, QueueInv
<1>2. e \in Fitting /\ e \in On(todo[c])
  BY <1>1, RestFits, OnWithout DEF Taking
<1>3. todo'[c] = Without(todo[c], e) /\ \A p \in Conn \ {c} : todo'[p] = todo[p]
  BY <1>1 DEF Taking, Finish
<1>4. /\ On(todo'[c]) \subseteq On(todo[c])
      /\ On(todo[c]) \subseteq On(todo'[c]) \cup {e}
  BY <1>1, <1>3, OnWithout DEF Taking
<1>5. ASSUME NEW p \in Conn, NEW y \in Conn, NEW m \in serverMessage
      PROVE  /\ Due(p, y, m)' => Due(p, y, m)
             /\ Due(p, y, m) => Due(p, y, m)' \/ (p = c /\ e = Send(y, m))
  <2>1. CASE p = c
    BY <1>4, <2>1 DEF Due
  <2>2. CASE p # c
    BY <1>3, <2>2 DEF Due
  <2> QED
    BY <2>1, <2>2
<1> QED
  BY <1>2, <1>3, <1>5

(* The rest of an opening is one, and of a frame nothing is left.          *)
LEMMA TakingForms ==
    ASSUME FrameInv, NEW c \in Conn, NEW e, Taking(c, e)
    PROVE  /\ Forms' /\ Unique'
           /\ \A y \in Conn, m \in serverMessage, s \in Sessions :
                Due(c, y, m) /\ Frames(m, s) => ~Due(c, y, m)'
           /\ \A y \in Conn, m \in serverMessage, s \in Sessions :
                Due(c, y, m) /\ Announces(m, s) /\ e = Send(y, m) => ~Due(c, y, m)'
<1>0. ServerInv /\ TodoInv /\ TableSound /\ Forms /\ Unique
  BY DEF FrameInv
<1>1. On(<<>>) = {} /\ e \in Head(todo[c]) /\ todo'[c] = Without(todo[c], e)
  BY TakingDue DEF On, Taking
<1>2. ASSUME NEW y \in Conn, NEW m \in serverMessage, NEW s \in Sessions, Due(c, y, m), Frames(m, s)
      PROVE  ~Due(c, y, m)'
  <2>1. todo[c] = Stage({Send(y, m)})
    BY <1>0, <1>2 DEF Forms, Formed, FrameForm
  <2>2. todo[c] = <<{Send(y, m)}>>
    BY <2>1 DEF Stage
  <2>3. todo'[c] = <<>>
    BY <1>1, <2>2, WithoutOne
  <2> QED
    BY <1>1, <2>3 DEF Due
<1>3. ASSUME NEW y \in Conn, NEW m \in serverMessage, NEW s \in Sessions, Due(c, y, m), Announces(m, s)
      PROVE  Due(c, y, m)' => OpenForm(c, y, s)' /\ e # Send(y, m)
  <2>1. OpenForm(c, y, s)
    BY <1>0, <1>3 DEF Forms, Formed
  <2>2. PICK t \in Conn \ {c} :
          /\ todo[c] = OpenStages(c, t, s) \/ todo[c] = Incoming(c, t, s)
          /\ y = c \/ y = t
          /\ Taken(s) => /\ sessions[s].from = c /\ sessions[s].to = t
                         /\ sessions[s].sent[other(s, y)] = 0
    BY <2>1 DEF OpenForm
  <2>3. CASE todo[c] = OpenStages(c, t, s)
    <3>1. todo[c] = <<{Send(c, ReadyMsg(t, s))}, {Send(t, IncomingMsg(c, s))}>>
      BY <2>3, OnOpening
    <3>2. e = Send(c, ReadyMsg(t, s)) /\ todo'[c] = <<{Send(t, IncomingMsg(c, s))}>>
      <4>1. PICK u : u = todo[c]
        OBVIOUS
      <4>2. PICK f, g : f = Send(c, ReadyMsg(t, s)) /\ g = Send(t, IncomingMsg(c, s))
        OBVIOUS
      <4>3. u = <<{f}, {g}>> /\ e \in Head(u)
        BY <1>1, <3>1, <4>1, <4>2
      <4>4. e = f /\ Without(u, e) = <<{g}>>
        BY <4>3, WithoutTwo
      <4> QED
        BY <1>1, <4>1, <4>2, <4>4
    <3>3. todo'[c] = Incoming(c, t, s)
      BY <3>2, OnOpening
    <3>4. Due(c, y, m)' => y = t /\ m = IncomingMsg(c, s)
      <4>1. On(todo'[c]) = {Send(t, IncomingMsg(c, s))}
        BY <3>3, OnOpening
      <4>2. Due(c, y, m)' => Send(y, m) = Send(t, IncomingMsg(c, s))
        BY <4>1 DEF Due
      <4> QED
        BY <4>2, SendIs
    <3>5. y = t => e # Send(y, m)
      BY <3>2, SendIs
    <3>6. OpenForm(c, y, s)'
      <4>1. /\ other(s, y)' = other(s, y) /\ (Taken(s)' <=> Taken(s))
            /\ sessions' = sessions /\ pc' = pc
        BY DEF Taking, other, Taken, NoSession
      <4>2. Calm /\ y # c /\ Live(y)' => Taken(s)'
        BY <2>1, <4>1 DEF OpenForm, Taking
      <4> QED
        BY <2>1, <2>2, <3>3, <4>1, <4>2 DEF OpenForm, OpenStages, Ready, Incoming
    <3> QED
      BY <3>4, <3>5, <3>6
  <2>4. CASE todo[c] = Incoming(c, t, s)
    <3>1. todo[c] = <<{Send(t, IncomingMsg(c, s))}>>
      BY <2>4, OnOpening
    <3>2. todo'[c] = <<>>
      BY <1>1, <3>1, WithoutOne
    <3> QED
      BY <1>1, <3>2 DEF Due
  <2> QED
    BY <2>2, <2>3, <2>4
<1>4. ASSUME NEW p \in Conn, NEW y \in Conn, NEW m \in serverMessage, NEW s \in Sessions, Due(p, y, m)'
      PROVE  Formed(p, y, m, s)'
  <2>1. Due(p, y, m) /\ Formed(p, y, m, s)
    BY <1>0, <1>4, TakingDue DEF Forms
  <2>2. CASE p # c
    BY <1>0, <2>1, <2>2, TakingDue, FormStays DEF Taking
  <2>3. CASE p = c
    <3>1. ~Frames(m, s)
      BY <1>2, <1>4, <2>1, <2>3
    <3>2. Announces(m, s) => OpenForm(p, y, s)'
      BY <1>3, <1>4, <2>1, <2>3
    <3>3. (Taken(s)' <=> Taken(s)) /\ nextSess' = nextSess
      BY DEF Taking, Taken, NoSession
    <3> QED
      BY <2>1, <3>1, <3>2, <3>3 DEF Formed
  <2> QED
    BY <2>2, <2>3
<1>5. Unique'
  <2>1. \A p, y \in Conn, m \in serverMessage : Due(p, y, m)' => Due(p, y, m)
    BY TakingDue
  <2> QED
    BY <1>0, <2>1 DEF Unique
<1> QED
  BY <1>2, <1>3, <1>4, <1>5 DEF Forms

(* A page that is not sent anything stands where it did.                   *)
LEMMA TakingStands ==
    ASSUME FrameInv, NEW c \in Conn, NEW e, Taking(c, e), NEW d \in Conn, NEW s \in Sessions, NEW b,
           Stands(d, s, b), \A m \in serverMessage : About(m, s) => e # Send(d, m)
    PROVE  Stands(d, s, b)'
<1>1. ASSUME NEW m \in serverMessage, About(m, s) PROVE Pend(d, m) <=> Pend(d, m)'
  <2>1. ASSUME NEW p \in Conn PROVE Due(p, d, m) <=> Due(p, d, m)'
    BY <1>1, TakingDue
  <2> QED
    BY <2>1 DEF Pend
<1>2. Far(d, s)' <=> Far(d, s)
  BY DEF Far, other, Taking
<1>3. nextSess \in Int /\ nextSess' = nextSess /\ sessions' = sessions
  BY DEF FrameInv, ServerInv, TableInv, RelayTypeOK, Taking
<1> QED
  BY <1>1, <1>2, <1>3, StandsStays

(* One that is sent a message will have taken it in its turn.              *)
LEMMA SentStands ==
    ASSUME FrameInv, NEW c \in Conn, NEW x \in Conn, NEW m \in serverMessage, Taking(c, Send(x, m)),
           Live(x), NEW s \in Sessions, NEW b \in Int, Stands(x, s, b)
    PROVE  \E a \in Int : Turn(s, m, b, a) /\ Stands(x, s, a)'
<1>0. ServerInv /\ TableSound /\ Forms /\ Unique /\ nextSess \in Int /\ s \in Int
  BY DEF FrameInv, ServerInv, TableInv, RelayTypeOK, Sessions
<1>1. Due(c, x, m) /\ Formed(c, x, m, s) /\ Pend(x, m)
  BY <1>0, TakingDue DEF Due, Forms, Pend
<1>2. /\ sessions' = sessions /\ nextSess' = nextSess /\ pc' = pc
      /\ other(s, x)' = other(s, x) /\ (Taken(s)' <=> Taken(s)) /\ (Far(x, s)' <=> Far(x, s))
  BY DEF Taking, other, Taken, NoSession, Far
<1>3. ASSUME NEW k \in serverMessage
      PROVE  /\ Pend(x, k)' => Pend(x, k)
             /\ Pend(x, k) /\ k # m => Pend(x, k)'
  <2>1. ASSUME NEW p \in Conn
        PROVE  /\ Due(p, x, k)' => Due(p, x, k)
               /\ Due(p, x, k) /\ k # m => Due(p, x, k)'
    BY TakingDue, SendIs
  <2> QED
    BY <2>1 DEF Pend
<1>4. ASSUME NEW k \in serverMessage, Pend(x, k)'
      PROVE  /\ Announces(m, s) => ~Announces(k, s)
             /\ Frames(m, s) => ~Frames(k, s)
             /\ Ends(m, s) => ~Frames(k, s)
  <2>1. PICK p \in Conn : Due(p, x, k)' /\ Due(p, x, k)
    BY <1>4, TakingDue DEF Pend
  <2>2. /\ Announces(m, s) /\ Announces(k, s) => p = c /\ k = m
        /\ Frames(m, s) /\ Frames(k, s) => p = c /\ k = m
        /\ ~(Frames(k, s) /\ Ends(m, s))
    BY <1>0, <1>1, <2>1 DEF Unique
  <2>3. /\ Announces(m, s) => ~Due(c, x, m)'
        /\ Frames(m, s) => ~Due(c, x, m)'
    BY <1>1, TakingForms
  <2> QED
    BY <2>1, <2>2, <2>3
<1>5. Awaits(x, s)' => Awaits(x, s)
  BY <1>3 DEF Awaits
<1>6. ~Ends(m, s) /\ Ending(x, s) => Ending(x, s)'
  BY <1>3 DEF Ending
<1>7. CASE ~About(m, s)
  <2>1. \A k \in serverMessage : About(k, s) => Send(x, m) # Send(x, k)
    BY <1>7, SendIs
  <2>2. Turn(s, m, b, b)
    BY <1>7 DEF Turn, About
  <2> QED
    BY <2>1, <2>2, TakingStands
<1>8. CASE Announces(m, s)
  <2>1. b = NoHandler /\ ~Frames(m, s) /\ ~Ends(m, s) /\ s <= nextSess /\ OpenForm(c, x, s)
    BY <1>1, <1>8, OneKind DEF Stands, Awaits, Formed, About
  <2>2. Turn(s, m, b, 0)
    BY <1>8, <2>1 DEF Turn, About
  <2>3. ASSUME NEW k \in serverMessage, Pend(x, k)', Frames(k, s) PROVE FALSE
    <3>1. Pend(x, k)
      BY <1>3, <2>3
    <3>2. b = k.n - 1 \/ b = SelfClosed
      BY <2>3, <3>1 DEF Stands
    <3>3. PICK p \in Conn : Due(p, x, k)
      BY <3>1 DEF Pend
    <3>4. k.n >= 1 /\ k.n \in Nat
      BY <1>0, <2>3, <3>3, OneKind DEF Forms, Formed, FrameForm
    <3> QED
      BY <2>1, <3>2, <3>4 DEF NoHandler, SelfClosed
  <2>4. PICK t \in Conn \ {c} :
          /\ x = c \/ x = t
          /\ Taken(s) => /\ sessions[s].from = c /\ sessions[s].to = t
                         /\ sessions[s].sent[other(s, x)] = 0
    BY <2>1 DEF OpenForm
  <2>5. Taken(s) => other(s, x) \in Conn
    BY <2>4 DEF other
  <2>6. ASSUME NEW f \in Conn, other(s, x)' = f PROVE sessions'[s].sent[f] = 0
    <3>1. other(s, x) # None /\ other(s, x) = f
      BY <1>2, <2>6, HubAssumption
    <3>2. Taken(s)
      BY <1>0, <3>1, OtherEnds
    <3> QED
      BY <1>2, <2>4, <3>1, <3>2
  <2>7. ASSUME Calm, x \notin Openers PROVE Far(x, s)'
    <3>1. x # c /\ Taken(s) /\ pc[c] = "read"
      BY <2>1, <2>7 DEF OpenForm
    <3>2. other(s, x) = c
      BY <2>4, <3>1 DEF other
    <3>3. other(s, x) # None /\ pc[other(s, x)] # "gone"
      BY <3>1, <3>2, HubAssumption
    <3> QED
      BY <1>2, <3>3 DEF Far
  <2>8. ~Awaits(x, s)'
    BY <1>4, <1>8 DEF Awaits
  <2>9. ~(s > nextSess')
    BY <1>0, <1>2, <2>1
  <2>10. Taken(s)' => other(s, x)' # None
    BY <1>2, <2>5, HubAssumption
  <2>11. Stands(x, s, 0)'
    BY <2>3, <2>6, <2>7, <2>8, <2>9, <2>10 DEF Stands
  <2> QED
    BY <2>2, <2>11
<1>9. CASE Frames(m, s)
  <2>1. /\ ~Announces(m, s) /\ ~Ends(m, s) /\ m.n \in Nat /\ m.n >= 1
        /\ s <= nextSess /\ (Taken(s) => other(s, c) = x /\ m.n = sessions[s].sent[c])
    BY <1>1, <1>9, OneKind DEF Formed, FrameForm, About
  <2>2. b = m.n - 1 \/ b = SelfClosed
    BY <1>1, <1>9 DEF Stands
  <2> DEFINE a == IF b = SelfClosed THEN SelfClosed ELSE m.n
  <2>3. a \in Int /\ Turn(s, m, b, a)
    BY <1>9, <2>1, <2>2 DEF Turn, About, SelfClosed
  <2>4. b # NoHandler /\ (a >= 0 => b >= 0)
    BY <2>1, <2>2 DEF SelfClosed, NoHandler
  <2>5. ~(s > nextSess') /\ ~Awaits(x, s)'
    BY <1>0, <1>2, <1>5, <2>1, <2>4 DEF Stands
  <2>6. ~(Taken(s)' /\ other(s, x)' = None)
    BY <1>2, <2>4 DEF Stands
  <2>7. ASSUME NEW f \in Conn, other(s, x)' = f PROVE a = sessions'[s].sent[f]
    <3>1. other(s, x) # None /\ other(s, x) = f
      BY <1>2, <2>7, HubAssumption
    <3>2. Taken(s)
      BY <1>0, <3>1, OtherEnds
    <3>3. other(s, c) = x /\ other(s, c) # None
      BY <2>1, <3>2, HubAssumption
    <3>4. f = c
      BY <1>0, <3>1, <3>3, OtherEnds
    <3>5. m.n = sessions[s].sent[c]
      BY <2>1, <3>2
    <3>6. b = m.n \/ b = m.n - 1
      BY <1>2, <1>5, <2>4, <2>7, <3>1, <3>4, <3>5 DEF Stands
    <3> QED
      BY <1>2, <2>1, <2>2, <3>4, <3>5, <3>6 DEF SelfClosed
  <2>8. ASSUME Calm, x \notin Openers, a >= 0 PROVE Far(x, s)' \/ Ending(x, s)'
    BY <1>2, <1>6, <2>1, <2>4, <2>8 DEF Stands
  <2>9. \A k \in serverMessage : ~(Pend(x, k)' /\ Frames(k, s))
    BY <1>4, <1>9
  <2> HIDE DEF a
  <2>10. Stands(x, s, a)'
    BY <2>5, <2>6, <2>7, <2>8, <2>9 DEF Stands
  <2> QED
    BY <2>3, <2>10
<1>10. CASE Ends(m, s)
  <2>1. ~Announces(m, s) /\ ~Frames(m, s) /\ ~Taken(s) /\ s <= nextSess
    BY <1>1, <1>10, OneKind DEF Formed, About
  <2> DEFINE a == IF b >= 0 THEN FarClosed ELSE b
  <2>2. a \in Int /\ Turn(s, m, b, a) /\ ~(a >= 0) /\ (b = NoHandler => a = NoHandler)
    BY <1>10, <2>1 DEF Turn, About, FarClosed, NoHandler
  <2>3. Awaits(x, s)' => a = NoHandler
    BY <1>5, <2>2 DEF Stands
  <2>4. ~(s > nextSess') /\ ~Taken(s)'
    BY <1>0, <1>2, <2>1
  <2>5. \A f \in Conn : other(s, x)' # f
    BY <1>0, <1>2, <2>1, OtherEnds, HubAssumption
  <2>6. \A k \in serverMessage : ~(Pend(x, k)' /\ Frames(k, s))
    BY <1>4, <1>10
  <2> HIDE DEF a
  <2>7. Stands(x, s, a)'
    BY <2>2, <2>3, <2>4, <2>5, <2>6 DEF Stands
  <2> QED
    BY <2>2, <2>7
<1> QED
  BY <1>7, <1>8, <1>9, <1>10 DEF About

(* A message passes from the list to the queue, or its receiver is closed. *)
LEMMA SendsFrames ==
    ASSUME FrameInv, NEW c \in Conn, Sends(c)
    PROVE  Forms' /\ Unique' /\ Known'
<1>0. ServerInv /\ TodoInv /\ Known
  BY DEF FrameInv
<1> DEFINE Queues(e) == e.op = "send" /\ out' = [out EXCEPT ![e.to] = Append(@, e.msg)] /\ done' = done
           Drops(e) == \/ out' = out /\ done' = done /\ done[e.to]
                       \/ close(e.to)
<1>1. PICK e : todo[c] # <<>> /\ e \in Head(todo[c]) /\ Finish(c, e) /\ (Queues(e) \/ Drops(e))
  BY DEF Sends, RunTodo, SendQueued, SendToClosed, SendTimesOut, CloseDisplaced
<1>2. /\ UNCHANGED <<sessions, nextSess, pc, link, got>>
  BY DEF Sends, RunTodo, SendQueued, SendToClosed, SendTimesOut, CloseDisplaced, relayVars, browserVars
<1>3. todo \in [Conn -> Stages] /\ out \in [Conn -> Seq(serverMessage)] /\ done \in [Conn -> BOOLEAN]
  BY <1>0 DEF ServerInv, QueueInv
<1>4. e \in Fitting /\ e \in Effect /\ e.to \in Conn /\ (e.op = "send" => e.msg \in serverMessage)
  BY <1>1, <1>3, RestFits DEF Fitting, Effect
<1>5. \A d \in Conn : Live(d)' => Live(d)
  BY <1>1, <1>2, <1>3 DEF Live, close
<1>6. Taking(c, e)
  BY <1>1, <1>2, <1>5 DEF Taking
<1>7. Forms' /\ Unique'
  BY <1>6, TakingForms
<1>8. CASE Drops(e)
  <2>1. ~Live(e.to)' /\ \A d \in Conn \ {e.to} : out'[d] = out[d]
    BY <1>2, <1>3, <1>4, <1>8 DEF Live, close
  <2>2. ASSUME NEW d \in Conn, Live(d)' PROVE Live(d) /\ Same(d)
    BY <1>2, <1>5, <2>1, <2>2 DEF Same
  <2>3. ASSUME NEW d \in Conn, NEW s \in Sessions, NEW b \in Int, Live(d)', Stands(d, s, b)
        PROVE  Stands(d, s, b)'
    <3>1. d # e.to
      BY <2>1, <2>3
    <3>2. \A m : e # Send(d, m)
      BY <3>1 DEF Send
    <3> QED
      BY <1>6, <2>3, <3>2, TakingStands
  <2> QED
    BY <1>0, <1>7, <2>2, <2>3, KnownStays
<1>9. CASE Queues(e)
  <2>1. PICK x \in Conn, m \in serverMessage : x = e.to /\ m = e.msg
    BY <1>4, <1>9
  <2>2. e = Send(x, m)
    BY <1>4, <1>9, <2>1 DEF Effect, Send
  <2>3. out'[x] = Append(out[x], m) /\ \A d \in Conn \ {x} : out'[d] = out[d]
    BY <1>3, <1>9, <2>1
  <2>4. ASSUME NEW d \in Conn, NEW s \in Sessions, Live(d)'
        PROVE  \E b \in Int : Leads(Int, Turns(s), out'[d], got'[d][s], b) /\ Stands(d, s, b)'
    <3>1. PICK b \in Int : Leads(Int, Turns(s), out[d], got[d][s], b) /\ Stands(d, s, b)
      BY <1>0, <1>5, <2>4 DEF Known
    <3>2. CASE d # x
      <4>1. \A k : e # Send(d, k)
        BY <2>1, <3>2 DEF Send
      <4>2. Stands(d, s, b)'
        BY <1>6, <3>1, <4>1, TakingStands
      <4> QED
        BY <1>2, <2>3, <3>1, <3>2, <4>2
    <3>3. CASE d = x
      <4>1. PICK a \in Int : Turn(s, m, b, a) /\ Stands(x, s, a)'
        BY <1>5, <1>6, <2>2, <2>4, <3>1, <3>3, SentStands
      <4>2. <<m, b, a>> \in Turns(s)
        BY <4>1 DEF Turns
      <4>3. Leads(Int, Turns(s), Append(out[x], m), got[x][s], a)
        BY <1>3, <3>1, <3>3, <4>2, LeadsAppend
      <4> QED
        BY <1>2, <2>3, <3>3, <4>1, <4>3
    <3> QED
      BY <3>2, <3>3
  <2> QED
    BY <1>7, <2>4 DEF Known
<1> QED
  BY <1>1, <1>8, <1>9

(* A message is written, and taken in by the page if it is still there.    *)
LEMMA WriteFrames ==
    ASSUME FrameInv, NEW c \in Conn, Writes(c)
    PROVE  Forms' /\ Unique' /\ Known'
<1>0. ServerInv /\ Known /\ out \in [Conn -> Seq(serverMessage)] /\ done \in [Conn -> BOOLEAN]
  BY DEF FrameInv, ServerInv, QueueInv
<1>1. /\ UNCHANGED <<sessions, nextSess, todo, pc, link>>
      /\ \A d \in Conn : Live(d)' => Live(d)
  BY <1>0 DEF Writes, WriteNext, WriteFails, close, relayVars, Live
<1>2. Mild
  BY <1>1 DEF Mild
<1>3. Forms' /\ Unique'
  BY <1>2, MildStep
<1>4. ASSUME NEW d \in Conn, NEW s \in Sessions, Live(d)'
      PROVE  \E b \in Int : Leads(Int, Turns(s), out'[d], got'[d][s], b) /\ Stands(d, s, b)'
  <2>0. Live(d)
    BY <1>1, <1>4
  <2>1. PICK b \in Int : Leads(Int, Turns(s), out[d], got[d][s], b) /\ Stands(d, s, b)
    BY <1>0, <2>0 DEF Known
  <2>2. Stands(d, s, b)'
    BY <1>2, <1>4, <2>0, <2>1, MildStep
  <2>3. CASE out'[d] = out[d] /\ got'[d] = got[d]
    BY <2>1, <2>2, <2>3
  <2>4. CASE ~(out'[d] = out[d] /\ got'[d] = got[d])
    <3>1. CASE WriteFails(c)
      <4>1. d # c
        BY <1>0, <1>4, <3>1 DEF WriteFails, close, Live
      <4> QED
        BY <1>0, <2>4, <3>1, <4>1 DEF WriteFails, close, browserVars
    <3>2. CASE WriteNext(c)
      <4>1. got \in [Conn -> [Sessions -> Int]]
        BY <1>0 DEF ServerInv, PageInv, BrowserTypeOK
      <4>2. d = c
        BY <1>0, <2>4, <3>2, <4>1 DEF WriteNext, Receive, browserVars
      <4>3. PICK m : m = Head(out[c])
        OBVIOUS
      <4>4. /\ out'[c] = Tail(out[c]) /\ out[c] # <<>> /\ got'[c] = GotAfter(got[c], m)
        BY <1>0, <2>0, <3>2, <4>1, <4>2, <4>3 DEF WriteNext, Receive, Live
      <4>5. PICK a \in Int : <<m, got[c][s], a>> \in Turns(s) /\ Leads(Int, Turns(s), Tail(out[c]), a, b)
        BY <1>0, <2>1, <4>2, <4>3, <4>4, LeadsTail
      <4>6. m \in serverMessage /\ Turn(s, m, got[c][s], a)
        BY <4>5 DEF Turns
      <4>7. GotAfter(got[c], m)[s] = a
        BY <4>1, <4>6, TurnTaken
      <4> QED
        BY <2>2, <4>2, <4>4, <4>5, <4>7
    <3> QED
      BY <3>1, <3>2 DEF Writes
  <2> QED
    BY <2>3, <2>4
<1> QED
  BY <1>3, <1>4 DEF Known

----------------------------------------------------------------------------
(* The steps that are about no session.                                    *)
LEMMA QuietFrames ==
    ASSUME FrameInv, Mild, \A d \in Conn : Live(d)' => Same(d)
    PROVE  Forms' /\ Unique' /\ Known'
<1>1. Known /\ \A d \in Conn : Live(d)' => Live(d)
  BY DEF FrameInv, Mild
<1>2. Forms' /\ Unique'
  BY MildStep
<1>3. \A c \in Conn, s \in Sessions, b \in Int :
        Live(c)' /\ Live(c) /\ Stands(c, s, b) => Stands(c, s, b)'
  BY MildStep
<1> QED
  BY <1>1, <1>2, <1>3, KnownStays

(* A goroutine with nothing on its list is given one.                      *)
LEMMA PostsMild ==
    ASSUME FrameInv, NEW c \in Conn, todo[c] = <<>>, NEW w, Silent(w),
           todo' = [todo EXCEPT ![c] = w], UNCHANGED <<sessions, nextSess>>,
           \A p \in Conn \ {c} : pc'[p] = pc[p], Calm => pc'[c] # "gone",
           \A d \in Conn : Live(d)' => Live(d)
    PROVE  Mild
<1>1. todo'[c] = w /\ \A p \in Conn \ {c} : todo'[p] = todo[p]
  BY DEF FrameInv, TodoInv
<1>2. Silent(todo'[c])
  BY <1>1 DEF Silent
<1>3. ASSUME NEW p \in Conn
      PROVE  \/ todo'[p] = todo[p] /\ pc'[p] = pc[p]
             \/ todo[p] = <<>> /\ Silent(todo'[p])
  <2>1. CASE p = c
    BY <1>2, <2>1
  <2>2. CASE p # c
    BY <1>1, <2>2
  <2> QED
    BY <2>1, <2>2
<1> QED
  BY <1>3 DEF Mild

(* What these lists hold.                                                  *)
LEMMA SilentLists ==
    ASSUME FrameInv, NEW c \in Conn
    PROVE  /\ Silent(<<>>) /\ Silent(Stage({Send(c, Error)}))
           /\ \A t, i : Silent(Stage({Send(t, [type |-> "signal", from |-> i])}))
           /\ \A t, s, n : Silent(Stage({Send(t, [type |-> "relay-ack", session |-> s, n |-> n])}))
           /\ \A D : Silent(JoinStages(c, D))
           /\ \A f : Silent(Stage({Send(o, [type |-> "peer-join", peer |-> f]) : o \in Others(c)}))
<1>1. ASSUME NEW w, NEW T, T \cap {"relay-ready", "relay-incoming", "frame", "relay-close"} = {},
             \A x \in Conn, m \in serverMessage : Send(x, m) \in On(w) => m.type \in T
      PROVE  Silent(w)
  BY <1>1 DEF Silent, About, Announces, Frames, Ends
<1>2. Silent(<<>>)
  BY DEF Silent, On
<1>3. ASSUME NEW t, NEW k, k.type \in {"error", "signal", "relay-ack"}
      PROVE  Silent(Stage({Send(t, k)}))
  <2>1. \A x \in Conn, m \in serverMessage : Send(x, m) \in On(Stage({Send(t, k)})) => m = k
    BY OnStage, SendIs
  <2> DEFINE T == {"error", "signal", "relay-ack"}
  <2>2. \A x \in Conn, m \in serverMessage : Send(x, m) \in On(Stage({Send(t, k)})) => m.type \in T
    BY <1>3, <2>1
  <2>3. T \cap {"relay-ready", "relay-incoming", "frame", "relay-close"} = {}
    OBVIOUS
  <2> HIDE DEF T
  <2> QED
    BY <1>1, <2>2, <2>3
<1>4. Error.type = "error"
  BY DEF Error
<1>5. ASSUME NEW t, NEW i PROVE Silent(Stage({Send(t, [type |-> "signal", from |-> i])}))
  <2>1. PICK k : k = [type |-> "signal", from |-> i]
    OBVIOUS
  <2> QED
    BY <1>3, <2>1
<1>6. ASSUME NEW t, NEW s, NEW n
      PROVE  Silent(Stage({Send(t, [type |-> "relay-ack", session |-> s, n |-> n])}))
  <2>1. PICK k : k = [type |-> "relay-ack", session |-> s, n |-> n]
    OBVIOUS
  <2> QED
    BY <1>3, <2>1
<1>7. ASSUME NEW f
      PROVE  Silent(Stage({Send(o, [type |-> "peer-join", peer |-> f]) : o \in Others(c)}))
  <2>1. PICK k : k = [type |-> "peer-join", peer |-> f]
    OBVIOUS
  <2> DEFINE A == {Send(o, k) : o \in Others(c)}
  <2>2. \A x, m : Send(x, m) \in A => m = k
    BY SendIs
  <2> HIDE DEF A
  <2>3. \A x \in Conn, m \in serverMessage : Send(x, m) \in On(Stage(A)) => m.type \in {"peer-join"}
    BY <2>1, <2>2, OnStage
  <2>4. Silent(Stage(A))
    <3> DEFINE T == {"peer-join"}
    <3>1. T \cap {"relay-ready", "relay-incoming", "frame", "relay-close"} = {}
      OBVIOUS
    <3> HIDE DEF T
    <3> QED
      BY <1>1, <2>3, <3>1 DEF T
  <2> QED
    BY <2>1, <2>4 DEF A
<1>8. ASSUME NEW D PROVE Silent(JoinStages(c, D))
  <2> DEFINE T == {"error", "welcome", "peer-join"}
  <2>1. ASSUME NEW x \in Conn, NEW m \in serverMessage, Send(x, m) \in On(JoinStages(c, D))
        PROVE  m.type \in T
    <3>1. \A d : Send(x, m) # Close(d)
      <4>1. ASSUME NEW d PROVE Send(x, m).op = "send" /\ Close(d).op = "close"
        BY DEF Send, Close
      <4> QED
        BY <4>1
    <3>2. m = Error \/ m = Welcome(c) \/ m = PeerJoin(c)
      BY <2>1, <3>1, OnJoin, SendIs
    <3> QED
      BY <3>2 DEF Error, Welcome, PeerJoin
  <2>2. T \cap {"relay-ready", "relay-incoming", "frame", "relay-close"} = {}
    OBVIOUS
  <2> HIDE DEF T
  <2> QED
    BY <1>1, <2>1, <2>2
<1>9. Silent(Stage({Send(c, Error)}))
  BY <1>3, <1>4
<1> QED
  BY <1>2, <1>5, <1>6, <1>7, <1>8, <1>9

LEMMA QuietSteps ==
    ASSUME FrameInv, NEW c \in Conn,
           \/ Joins(c) \/ Quits(c) \/ Heartbeat(c)
           \/ FinishHello(c) /\ UNCHANGED relayVars
           \/ (Leave(c) \/ LeaveDisplaced(c)) /\ UNCHANGED relayVars
           \/ RecvHello(c) /\ UNCHANGED relayVars
           \/ \E i \in Ids : (RecvSignal(c, i) /\ UNCHANGED relayVars) \/ RecvOpen(c, i)
           \/ \E s \in Sessions : RecvAck(c, s)
    PROVE  Forms' /\ Unique' /\ Known'
<1>0. ServerInv /\ TodoInv /\ TableSound /\ RegistryInv
  BY DEF FrameInv, ServerInv
<1>1. /\ out \in [Conn -> Seq(serverMessage)] /\ done \in [Conn -> BOOLEAN]
      /\ link \in [Conn -> {"up", "closed", "vanished"}] /\ pc \in [Conn -> Phases]
      /\ todo = [d \in Conn |-> todo[d]]
  BY <1>0 DEF ServerInv, QueueInv, PageInv, RegistryInv, TodoInv
<1>2. CASE Quits(c)
  <2>1. /\ UNCHANGED <<sessions, nextSess, todo, pc, out, got>>
        /\ \A d \in Conn : Live(d)' => Live(d)
    BY <1>1, <1>2 DEF Quits, BrowserCloses, BrowserVanishes, relayVars, browserVars, Live
  <2> QED
    BY <2>1, QuietFrames DEF Mild, Same
<1>3. CASE Heartbeat(c)
  <2>1. /\ UNCHANGED <<sessions, nextSess, todo, pc, got>>
        /\ \A d \in Conn : Live(d)' => Live(d) /\ out'[d] = out[d]
    BY <1>1, <1>3 DEF Heartbeat, HeartbeatFails, close, relayVars, browserVars, Live
  <2> QED
    BY <2>1, QuietFrames DEF Mild, Same
<1>4. ASSUME todo[c] = <<>>, NEW w, Silent(w), todo' = [todo EXCEPT ![c] = w],
             UNCHANGED <<sessions, nextSess, got>>,
             \A p \in Conn \ {c} : pc'[p] = pc[p], Calm => pc'[c] # "gone",
             \A d \in Conn : Live(d)' => Live(d) /\ out'[d] = out[d]
      PROVE  Forms' /\ Unique' /\ Known'
  <2>1. Mild
    BY <1>4, PostsMild
  <2> QED
    BY <1>4, <2>1, QuietFrames DEF Same
<1>5. CASE (Leave(c) \/ LeaveDisplaced(c)) /\ UNCHANGED relayVars
  <2>1. /\ todo[c] = <<>> /\ todo' = [todo EXCEPT ![c] = <<>>] /\ pc[c] = "read"
        /\ UNCHANGED <<sessions, nextSess, got>>
        /\ \A p \in Conn \ {c} : pc'[p] = pc[p]
    BY <1>1, <1>5 DEF Leave, LeaveDisplaced, ReadFails, relayVars, browserVars
  <2>2. \A d \in Conn : Live(d)' => Live(d) /\ out'[d] = out[d]
    BY <1>1, <1>5 DEF Leave, LeaveDisplaced, close, Live
  <2>3. Calm => pc'[c] # "gone"
    <3>1. Calm => Registered(c)
      BY <1>0, <2>1 DEF TableSound, Active
    <3> QED
      BY <1>1, <1>5, <3>1 DEF Leave, LeaveDisplaced
  <2> QED
    BY <1>4, <2>1, <2>2, <2>3, SilentLists
<1>6. CASE Joins(c)
  <2>1. PICK D : todo' = [todo EXCEPT ![c] = JoinStages(c, D)]
    BY <1>6 DEF Joins, Join
  <2>2. /\ todo[c] = <<>> /\ UNCHANGED <<sessions, nextSess, got, out, done, link>>
        /\ pc' = [pc EXCEPT ![c] = "read"]
    BY <1>0, <1>6 DEF Joins, Join, relayVars, browserVars, TodoInv
  <2> QED
    BY <1>1, <1>4, <2>1, <2>2, SilentLists DEF Live
<1>7. CASE FinishHello(c) /\ UNCHANGED relayVars
  <2>1. PICK f : f = [id |-> IdOf[c], name |-> "new"]
    OBVIOUS
  <2>2. PICK w : w = Stage({Send(o, [type |-> "peer-join", peer |-> f]) : o \in Others(c)})
    OBVIOUS
  <2>3. /\ todo[c] = <<>> /\ UNCHANGED <<sessions, nextSess, got, out, done, link>>
        /\ pc' = [pc EXCEPT ![c] = "read"]
    BY <1>0, <1>7 DEF FinishHello, browserVars, relayVars, TodoInv
  <2>4. todo' = [todo EXCEPT ![c] = w]
    BY <1>7, <2>1, <2>2 DEF FinishHello
  <2>5. Silent(w)
    BY <2>2, SilentLists
  <2> QED
    BY <1>1, <1>4, <2>3, <2>4, <2>5 DEF Live
<1>8. CASE RecvHello(c) /\ UNCHANGED relayVars
  <2>1. /\ todo[c] = <<>> /\ todo' = [todo EXCEPT ![c] = <<>>]
        /\ UNCHANGED <<sessions, nextSess, got, out, done, link>>
        /\ pc' = [pc EXCEPT ![c] = "rename"]
    BY <1>1, <1>8 DEF RecvHello, Reading, relayVars, browserVars
  <2> QED
    BY <1>1, <1>4, <2>1, SilentLists DEF Live
<1>9. ASSUME NEW i \in Ids, RecvSignal(c, i), UNCHANGED relayVars
      PROVE  Forms' /\ Unique' /\ Known'
  <2>1. /\ todo[c] = <<>> /\ pc[c] = "read"
        /\ UNCHANGED <<sessions, nextSess, got, out, done, link, pc>>
    BY <1>9 DEF RecvSignal, Reading, relayVars, browserVars
  <2>2. PICK t : t = find(RoomOf[c], i)
    OBVIOUS
  <2>3. \/ todo' = [todo EXCEPT ![c] = Stage({Send(c, Error)})]
        \/ todo' = [todo EXCEPT ![c] = Stage({Send(t, [type |-> "signal", from |-> IdOf[c]])})]
    BY <1>9, <2>2 DEF RecvSignal
  <2> QED
    BY <1>4, <2>1, <2>3, SilentLists DEF Live
<1>10. ASSUME NEW i \in Ids, RecvOpen(c, i)
       PROVE  Forms' /\ Unique' /\ Known'
  <2>1. /\ todo[c] = <<>> /\ UNCHANGED <<sessions, nextSess, got, out, done, link>>
        /\ pc[c] = "read" /\ (pc' = pc \/ pc' = [pc EXCEPT ![c] = "open"])
    BY <1>10 DEF RecvOpen, Reading, relayVars, browserVars
  <2>2. \/ todo' = [todo EXCEPT ![c] = Stage({Send(c, Error)})]
        \/ todo' = [todo EXCEPT ![c] = <<>>]
    BY <1>1, <1>10, <2>1 DEF RecvOpen
  <2>3. (\A p \in Conn \ {c} : pc'[p] = pc[p]) /\ pc'[c] # "gone"
    BY <1>1, <2>1
  <2> QED
    BY <1>4, <2>1, <2>2, <2>3, SilentLists DEF Live
<1>11. ASSUME NEW s \in Sessions, RecvAck(c, s)
       PROVE  Forms' /\ Unique' /\ Known'
  <2>1. /\ todo[c] = <<>> /\ pc[c] = "read"
        /\ UNCHANGED <<sessions, nextSess, got, out, done, link, pc>>
    BY <1>11 DEF RecvAck, Reading, relayVars, browserVars
  <2>2. PICK t, n : t = other(s, c) /\ n = got[c][s]
    OBVIOUS
  <2>3. todo' = [todo EXCEPT ![c] = Stage({Send(t, [type |-> "relay-ack", session |-> s, n |-> n])})]
    BY <1>11, <2>2 DEF RecvAck
  <2> QED
    BY <1>4, <2>1, <2>3, SilentLists DEF Live
<1> QED
  BY <1>2, <1>3, <1>5, <1>6, <1>7, <1>8, <1>9, <1>10, <1>11

----------------------------------------------------------------------------
(* The steps that end sessions.                                            *)

(* None of them is announced to its second end any more: it is the one     *)
(* that ends it, or it has taken the announcement.                         *)
LEMMA NoneAnnounced ==
    ASSUME FrameInv, NEW c \in Conn, todo[c] = <<>>, NEW s \in Sessions, Taken(s), other(s, c) # None,
           NEW p \in Conn, NEW x \in Conn, NEW m \in serverMessage, Due(p, x, m), Announces(m, s), x # p
    PROVE  x = c /\ Awaits(c, s)
<1>1. On(<<>>) = {}
  BY DEF On
<1>2. p # c
  BY <1>1 DEF Due
<1>3. OpenForm(p, x, s)
  BY DEF FrameInv, Forms, Formed
<1>4. sessions[s].from = p /\ sessions[s].to = x
  BY <1>3 DEF OpenForm
<1>5. x = c
  BY <1>2, <1>4 DEF other
<1> QED
  BY <1>5 DEF Awaits, Pend

LEMMA CloseClosing ==
    ASSUME FrameInv, NEW c \in Conn, NEW s \in Sessions, RecvClose(c, s)
    PROVE  Closing(c, {s})
<1>0. ServerInv /\ TodoInv /\ TableSound
  BY DEF FrameInv
<1>1. /\ todo[c] = <<>> /\ pc' = pc /\ nextSess' = nextSess /\ UNCHANGED <<done, link>> /\ Live(c)
      /\ sessions' = [sessions EXCEPT ![s] = NoSession]
  BY DEF RecvClose, Reading, Live
<1>2. PICK w : w = [type |-> "relay-close", session |-> s]
  OBVIOUS
<1>3. PICK o : o = other(s, c)
  OBVIOUS
<1> DEFINE A == {Send(t, w) : t \in {o} \ {None}}
<1>4. todo' = [todo EXCEPT ![c] = Stage(A)]
  BY <1>2, <1>3 DEF RecvClose
<1>5. /\ w \in serverMessage /\ Ends(w, s)
      /\ \A u : About(w, u) => u = s
  BY <1>2 DEF serverMessage, About, Announces, Frames, Ends
<1>6. \A x, m : Send(x, m) \in A <=> x = o /\ x # None /\ m = w
  BY SendIs
<1> HIDE DEF A
<1>7. On(todo'[c]) = A /\ \A p \in Conn \ {c} : todo'[p] = todo[p]
  BY <1>0, <1>4, OnStage DEF TodoInv
<1>8. sessions' = [u \in Sessions |-> IF u \in {s} THEN NoSession ELSE sessions[u]]
  BY <1>0, <1>1 DEF ServerInv, TableInv, RelayTypeOK
<1>9. ASSUME NEW x \in Conn, NEW m \in serverMessage PROVE Due(c, x, m)' <=> x = o /\ m = w
  <2>1. x # None
    BY HubAssumption
  <2> QED
    BY <1>6, <1>7, <2>1 DEF Due
<1>10. ASSUME NEW x \in Conn, NEW m \in serverMessage, NEW u \in Sessions, Due(c, x, m)', About(m, u)
       PROVE  u \in {s} /\ Ends(m, u) /\ other(u, c) = x
  BY <1>3, <1>5, <1>9, <1>10
<1>11. ASSUME NEW u \in {s}, NEW x \in Conn, other(u, c) = x
       PROVE  \E m \in serverMessage : Due(c, x, m)' /\ Ends(m, u)
  BY <1>3, <1>5, <1>9, <1>11
<1>12. ASSUME Calm, Taken(s)
       PROVE  /\ other(s, c) # None
              /\ \A p, x \in Conn, m \in serverMessage :
                    Due(p, x, m) /\ Announces(m, s) /\ x # p => ~Live(x)'
  <2>1. got[c][s] # NoHandler
    BY <1>12 DEF RecvClose, Calm, NoHandler
  <2>2. other(s, c) # None /\ ~Awaits(c, s)
    BY <1>1, <1>12, <2>1, HasHandler
  <2> QED
    BY <1>1, <1>12, <2>2, NoneAnnounced
<1>13. \A d \in Conn : Live(d)' => Live(d)
  BY <1>1 DEF Live
<1> QED
  BY <1>1, <1>7, <1>8, <1>10, <1>11, <1>12, <1>13 DEF Closing

LEMMA CloseFrames ==
    ASSUME FrameInv, NEW c \in Conn, NEW s \in Sessions, RecvClose(c, s)
    PROVE  Forms' /\ Unique' /\ Known'
<1>0. ServerInv /\ Known /\ Closing(c, {s}) /\ Live(c)
  BY CloseClosing DEF FrameInv, RecvClose, Reading, Live
<1>1. Forms' /\ Unique'
  BY <1>0, ClosingForms
<1>2. ASSUME NEW d \in Conn, NEW u \in Sessions, Live(d)'
      PROVE  \E b \in Int : Leads(Int, Turns(u), out'[d], got'[d][u], b) /\ Stands(d, u, b)'
  <2>1. Live(d) /\ out'[d] = out[d]
    BY <1>0, <1>2 DEF Closing, RecvClose
  <2>2. PICK b \in Int : Leads(Int, Turns(u), out[d], got[d][u], b) /\ Stands(d, u, b)
    BY <1>0, <2>1 DEF Known
  <2>3. /\ got \in [Conn -> [Sessions -> Int]]
        /\ got' = [got EXCEPT ![c][s] = IF got[c][s] >= 0 THEN SelfClosed ELSE got[c][s]]
    BY <1>0 DEF ServerInv, PageInv, BrowserTypeOK, RecvClose
  <2>4. CASE d = c /\ u = s /\ got[c][s] >= 0
    <3>1. got'[c][s] = SelfClosed /\ got[c][s] # NoHandler /\ got[c][s] \in Int /\ SelfClosed \in Int
      BY <2>3, <2>4 DEF NoHandler, SelfClosed
    <3>2. out[c] \in Seq(serverMessage)
      BY <1>0 DEF ServerInv, QueueInv
    <3>3. Leads(Int, Turns(s), out[c], SelfClosed, SelfClosed)
      BY <2>2, <2>4, <3>1, <3>2, ClosedStays
    <3>4. b # NoHandler
      BY <1>0, <2>2, <2>4, <3>1, HasHandler
    <3>5. Stands(c, s, SelfClosed)'
      BY <1>0, <1>2, <2>2, <2>4, <3>1, <3>4, ClosingStands
    <3> QED
      BY <2>1, <2>4, <3>1, <3>3, <3>5
  <2>5. CASE ~(d = c /\ u = s /\ got[c][s] >= 0)
    <3>1. got'[d][u] = got[d][u]
      BY <2>3, <2>5
    <3>2. d = c => ~Calm \/ u \notin {s}
      BY <2>5 DEF RecvClose, Calm
    <3>3. Stands(d, u, b)'
      BY <1>0, <1>2, <2>2, <3>2, ClosingStands
    <3> QED
      BY <2>1, <2>2, <3>1, <3>3
  <2> QED
    BY <2>4, <2>5
<1> QED
  BY <1>1, <1>2 DEF Known

LEMMA LeaveClosing ==
    ASSUME FrameInv, NEW c \in Conn, CloseSessions(c)
    PROVE  Closing(c, Orphaned(c))
<1>0. ServerInv /\ TodoInv /\ TableSound
  BY DEF FrameInv
<1>1. /\ todo[c] = <<>> /\ nextSess' = nextSess /\ UNCHANGED <<done, link>> /\ ~Live(c) /\ ~Live(c)'
      /\ \A p \in Conn \ {c} : pc'[p] = pc[p]
      /\ sessions' = [u \in Sessions |-> IF u \in Orphaned(c) THEN NoSession ELSE sessions[u]]
  BY <1>0 DEF CloseSessions, Live, TodoInv, TableSound, ServerInv, RegistryInv
<1> DEFINE W(s) == [type |-> "relay-close", session |-> s]
           A == {Send(other(s, c), W(s)) : s \in Orphaned(c)}
           B == {Send(o, PeerLeave(c)) : o \in held[c]}
<1>2. todo' = [todo EXCEPT ![c] = Stage(A) \o Stage(B)]
  BY DEF CloseSessions
<1>3. On(Stage(A) \o Stage(B)) = A \cup B
  <2> HIDE DEF A, B
  <2> QED
    BY StageIsSeq, OnConcat, OnStage
<1>4. ASSUME NEW x, NEW m, Send(x, m) \in A
      PROVE  \E s \in Orphaned(c) : x = other(s, c) /\ m = W(s)
  <2>1. PICK s \in Orphaned(c) : Send(x, m) = Send(other(s, c), W(s))
    BY <1>4
  <2>2. PICK y, w : y = other(s, c) /\ w = W(s)
    OBVIOUS
  <2>3. x = y /\ m = w
    <3>1. Send(x, m) = Send(y, w)
      BY <2>1, <2>2
    <3> HIDE DEF A, B, W
    <3> QED
      BY <3>1, SendIs
  <2> QED
    BY <2>2, <2>3
<1>5. \A s \in Orphaned(c) : Send(other(s, c), W(s)) \in A
  OBVIOUS
<1>6. \A x, m : Send(x, m) \in B => m.type = "peer-leave"
  BY SendIs DEF PeerLeave
<1>7. \A s \in Sessions : /\ W(s) \in serverMessage /\ Ends(W(s), s)
                          /\ \A u : About(W(s), u) => u = s
  BY DEF serverMessage, About, Announces, Frames, Ends
<1> HIDE DEF A, B, W
<1>8. On(todo'[c]) = A \cup B /\ \A p \in Conn \ {c} : todo'[p] = todo[p]
  BY <1>0, <1>2, <1>3 DEF TodoInv
<1>9. ASSUME NEW x \in Conn, NEW m \in serverMessage, NEW u \in Sessions, Due(c, x, m)', About(m, u)
      PROVE  u \in Orphaned(c) /\ Ends(m, u) /\ other(u, c) = x
  <2>1. Send(x, m) \in A \cup B
    BY <1>8, <1>9 DEF Due
  <2>2. m.type # "peer-leave"
    BY <1>9 DEF About, Announces, Frames, Ends
  <2>3. PICK s \in Orphaned(c) : x = other(s, c) /\ m = W(s)
    BY <1>4, <1>6, <2>1, <2>2
  <2>4. s = u
    BY <1>7, <1>9, <2>3 DEF Orphaned
  <2> QED
    BY <1>7, <2>3, <2>4
<1>10. ASSUME NEW u \in Orphaned(c), NEW x \in Conn, other(u, c) = x
       PROVE  \E m \in serverMessage : Due(c, x, m)' /\ Ends(m, u)
  <2>1. u \in Sessions /\ Send(x, W(u)) \in On(todo'[c])
    BY <1>5, <1>8, <1>10 DEF Orphaned
  <2>2. Due(c, x, W(u))'
    <3>1. PICK m : m = W(u)
      OBVIOUS
    <3>2. Due(c, x, m)'
      BY <2>1, <3>1 DEF Due
    <3> QED
      BY <3>1, <3>2 DEF W
  <2> QED
    BY <1>7, <2>1, <2>2
<1>11. ASSUME NEW u \in Orphaned(c), Taken(u)
       PROVE  /\ other(u, c) # None
              /\ \A p, x \in Conn, m \in serverMessage :
                    Due(p, x, m) /\ Announces(m, u) /\ x # p => ~Live(x)'
  <2>1. u \in Sessions /\ sessions[u] \in relaySession /\ (sessions[u].from = c \/ sessions[u].to = c)
    BY <1>0, <1>11 DEF Orphaned, Taken, ServerInv, TableInv, RelayTypeOK
  <2>2. other(u, c) # None
    BY <2>1, HubAssumption DEF other, relaySession
  <2> QED
    BY <1>1, <1>11, <2>1, <2>2, NoneAnnounced
<1>12. \A u \in Sessions \ Orphaned(c) : other(u, c) = None
  BY DEF Orphaned, other
<1>13. \A d \in Conn : Live(d)' => Live(d)
  BY <1>1 DEF Live
<1>14. Orphaned(c) \subseteq Sessions
  BY DEF Orphaned
<1> QED
  BY <1>1, <1>8, <1>9, <1>10, <1>11, <1>12, <1>13, <1>14 DEF Closing

LEMMA LeaveFrames ==
    ASSUME FrameInv, NEW c \in Conn, CloseSessions(c)
    PROVE  Forms' /\ Unique' /\ Known'
<1>1. Known /\ TableSound /\ Closing(c, Orphaned(c))
  BY LeaveClosing DEF FrameInv
<1>2. Forms' /\ Unique'
  BY <1>1, ClosingForms
<1>3. ASSUME NEW d \in Conn, Live(d)' PROVE Live(d) /\ Same(d) /\ d # c
  BY <1>1, <1>3 DEF Closing, CloseSessions, browserVars, Same, Live, TableSound
<1>4. \A d \in Conn, s \in Sessions, b \in Int :
        Live(d)' /\ Live(d) /\ Stands(d, s, b) => Stands(d, s, b)'
  BY <1>1, <1>3, ClosingStands
<1> QED
  BY <1>1, <1>2, <1>3, <1>4, KnownStays

----------------------------------------------------------------------------
(* The table, the phases and the closed connections.                       *)

(* IDs are handed out in order, to two different connections.              *)
LEMMA NumbersStep ==
    ASSUME MaxOpen <= SessMax, FrameInv, [Next]_vars
    PROVE  /\ nextSess' = relaySessions'
           /\ \A s \in Sessions : Taken(s)' => s <= nextSess' /\ sessions'[s].from # sessions'[s].to
<1>0. ServerInv /\ TableSound /\ sessions \in [Sessions -> relaySession \cup {NoSession}]
      /\ nextSess \in Int
  BY DEF FrameInv, ServerInv, TableInv, RelayTypeOK
<1> DEFINE Goal == /\ nextSess' = relaySessions'
                   /\ \A s \in Sessions : sessions'[s] # NoSession =>
                        s <= nextSess' /\ sessions'[s].from # sessions'[s].to
<1>1. ASSUME nextSess' = nextSess, relaySessions' = relaySessions,
             \A s \in Sessions : sessions'[s] # NoSession =>
               /\ sessions[s] # NoSession
               /\ sessions'[s].from = sessions[s].from /\ sessions'[s].to = sessions[s].to
      PROVE  Goal
  BY <1>0, <1>1 DEF TableSound, Taken
<1>2. ASSUME UNCHANGED relayVars PROVE Goal
  BY <1>1, <1>2 DEF relayVars
<1>3. ASSUME NEW c \in Conn, Tables(c) PROVE Goal
  <2>1. CASE (Leave(c) /\ UNCHANGED relayVars) \/ \E i \in Ids : RecvOpen(c, i)
    BY <1>2, <2>1 DEF RecvOpen
  <2>2. CASE CloseSessions(c)
    BY <1>1, <2>2 DEF CloseSessions
  <2>3. ASSUME NEW s \in Sessions, RecvClose(c, s) PROVE Goal
    BY <1>0, <1>1, <2>3 DEF RecvClose
  <2>4. ASSUME NEW s \in Sessions, RecvFrame(c, s) PROVE Goal
    <3>1. /\ sessions' = [sessions EXCEPT ![s].sent[c] = sessions[s].sent[c] + 1]
          /\ nextSess' = nextSess /\ relaySessions' = relaySessions /\ other(s, c) # None
      BY <2>4 DEF RecvFrame
    <3>2. sessions[s] # NoSession /\ sessions[s] \in relaySession
      BY <1>0, <3>1, FarEndIsHere DEF Taken, ServerInv
    <3> QED
      BY <1>0, <1>1, <3>1, <3>2 DEF relaySession
  <2>5. CASE OpenSession(c)
    <3>1. NextFree = nextSess + 1
      BY <1>0, <2>5, NextIsNext DEF OpenSession
    <3>2. PICK t \in held[c] :
            sessions' = [sessions EXCEPT ![nextSess + 1] =
                           [from |-> c, to |-> t, sent |-> [d \in Conn |-> 0]]]
      BY <2>5, <3>1 DEF OpenSession
    <3>3. nextSess' = nextSess + 1 /\ relaySessions' = relaySessions + 1 /\ t # c
      BY <1>0, <2>5, <3>1 DEF OpenSession, TableSound
    <3>4. ASSUME NEW s \in Sessions, sessions'[s] # NoSession
          PROVE  s <= nextSess' /\ sessions'[s].from # sessions'[s].to
      <4>1. CASE s = nextSess + 1
        BY <1>0, <3>2, <3>3, <4>1
      <4>2. CASE s # nextSess + 1
        <5>1. sessions'[s] = sessions[s]
          BY <1>0, <3>2, <4>2
        <5>2. s <= nextSess /\ sessions[s].from # sessions[s].to
          BY <1>0, <3>4, <5>1 DEF TableSound, Taken
        <5> QED
          BY <1>0, <3>3, <5>1, <5>2 DEF Sessions
      <4> QED
        BY <4>1, <4>2
    <3> QED
      BY <1>0, <3>3, <3>4 DEF TableSound
  <2> QED
    BY <1>3, <2>1, <2>2, <2>3, <2>4, <2>5 DEF Tables
<1>4. Goal
  BY <1>2, <1>3, OnlyTables
<1> QED
  BY <1>4 DEF Taken, NoSession

(* Who opens a session is an opener, and holds somebody else.              *)
LEMMA OpensStep ==
    ASSUME FrameInv, [Next]_vars, NEW c \in Conn, pc'[c] = "open"
    PROVE  c \in Openers /\ c \notin held'[c]
<1>0. /\ pc \in [Conn -> Phases] /\ held \in [Conn -> SUBSET Conn] /\ TableSound
  BY DEF FrameInv, ServerInv, RegistryInv, TableInv
<1>1. ASSUME NEW d \in Conn, NEW i \in Ids, d \in Openers, RecvOpen(d, i)
      PROVE  c \in Openers /\ c \notin held'[c]
  <2>1. CASE UNCHANGED <<pc, held>>
    BY <1>0, <2>1 DEF TableSound
  <2>2. CASE ~UNCHANGED <<pc, held>>
    <3>1. PICK t : t # d /\ held' = [held EXCEPT ![d] = {t}] /\ pc' = [pc EXCEPT ![d] = "open"]
      BY <1>1, <2>2 DEF RecvOpen
    <3> QED
      BY <1>0, <1>1, <3>1 DEF TableSound
  <2> QED
    BY <2>1, <2>2
<1>2. ASSUME NEW d \in Conn, NEW p, p # "open",
             pc' = [pc EXCEPT ![d] = p], \A x \in Conn \ {d} : held'[x] = held[x]
      PROVE  c \in Openers /\ c \notin held'[c]
  BY <1>0, <1>2 DEF TableSound
<1>3. ASSUME UNCHANGED <<pc, held>>
      PROVE  c \in Openers /\ c \notin held'[c]
  BY <1>0, <1>3 DEF TableSound
<1>4. CASE UNCHANGED vars
  BY <1>3, <1>4 DEF vars, peerVars, hubVars
<1>5. ASSUME NEW d \in Conn, Joins(d) \/ Leaves(d) \/ Continues(d)
      PROVE  c \in Openers /\ c \notin held'[c]
  <2>1. \/ /\ pc' = [pc EXCEPT ![d] = "read"] \/ pc' = [pc EXCEPT ![d] = "leave"]
              \/ pc' = [pc EXCEPT ![d] = "gone"]
           /\ \A x \in Conn \ {d} : held'[x] = held[x]
    BY <1>0, <1>5 DEF Joins, Join, Leaves, Leave, LeaveDisplaced, CloseSessions, Continues, FinishHello,
                      OpenSession, hubVars
  <2> QED
    BY <1>2, <2>1
<1>6. ASSUME NEW d \in Conn, Receives(d)
      PROVE  c \in Openers /\ c \notin held'[c]
  <2>1. CASE RecvHello(d)
    <3>1. pc' = [pc EXCEPT ![d] = "rename"] /\ held' = held
      BY <2>1 DEF RecvHello, hubVars
    <3> QED
      BY <1>2, <3>1
  <2>2. ASSUME NEW i \in Ids, RecvSignal(d, i) PROVE c \in Openers /\ c \notin held'[c]
    BY <1>3, <2>2 DEF RecvSignal, hubVars
  <2>3. ASSUME NEW s \in Sessions, RecvFrame(d, s) \/ RecvAck(d, s) \/ RecvClose(d, s)
        PROVE  c \in Openers /\ c \notin held'[c]
    BY <1>3, <2>3 DEF RecvFrame, RecvAck, RecvClose, hubVars
  <2> QED
    BY <1>1, <1>6, <2>1, <2>2, <2>3 DEF Receives
<1>7. ASSUME NEW d \in Conn, Quits(d) \/ Writes(d) \/ Sends(d) \/ Heartbeat(d)
      PROVE  c \in Openers /\ c \notin held'[c]
  <2>1. UNCHANGED <<pc, held>>
    BY <1>7 DEF Quits, BrowserCloses, BrowserVanishes, Writes, WriteNext, WriteFails, Sends, RunTodo,
                SendQueued, SendToClosed, SendTimesOut, CloseDisplaced, Heartbeat, HeartbeatFails, hubVars
  <2> QED
    BY <1>3, <2>1
<1> QED
  BY <1>4, <1>5, <1>6, <1>7 DEF Next

(* Whoever has left is closed, and what was queued for it is dropped.      *)
LEMMA ClosedStep ==
    ASSUME FrameInv, [Next]_vars, NEW c \in Conn
    PROVE  /\ pc'[c] \in {"leave", "gone"} => done'[c]
           /\ done'[c] => out'[c] = <<>>
<1>0. /\ ServerInv /\ TodoInv /\ TableSound /\ pc \in [Conn -> Phases]
      /\ out \in [Conn -> Seq(serverMessage)] /\ done \in [Conn -> BOOLEAN]
  BY DEF FrameInv, ServerInv, RegistryInv, QueueInv
<1>1. done[c] => done'[c]
  BY <1>0, Courses
<1>2. pc'[c] \in {"leave", "gone"} => done'[c]
  <2>1. CASE pc[c] \in {"leave", "gone"}
    BY <1>0, <1>1, <2>1 DEF TableSound
  <2>2. CASE pc[c] \notin {"leave", "gone"}
    <3>1. ASSUME NEW d \in Conn, Moves(d) PROVE pc'[c] \in {"leave", "gone"} => done'[c]
      BY <1>0, <2>2, <3>1 DEF Moves, Join, Leave, LeaveDisplaced, CloseSessions, RecvHello, FinishHello,
                              OpenSession, RecvOpen, close, TableSound
    <3> QED
      BY <2>2, <3>1, OnlyMoves
  <2> QED
    BY <2>1, <2>2
<1> DEFINE Goal == done'[c] => out'[c] = <<>>
<1>3. ASSUME done' = done, out'[c] = out[c] PROVE Goal
  BY <1>0, <1>3 DEF TableSound
<1>4. ASSUME NEW d, close(d) PROVE Goal
  BY <1>0, <1>4 DEF close, TableSound
<1> HIDE DEF Goal
<1>5. ASSUME UNCHANGED vars PROVE Goal
  BY <1>3, <1>5 DEF vars, peerVars
<1>6. ASSUME NEW d \in Conn, Sends(d) PROVE Goal
  <2>1. CASE SendQueued(d)
    <3>1. PICK e : ~done[e.to] /\ out' = [out EXCEPT ![e.to] = Append(@, e.msg)] /\ done' = done
      BY <2>1 DEF SendQueued
    <3>2. done[c] => out'[c] = out[c]
      BY <1>0, <3>1
    <3> QED
      BY <1>0, <3>1, <3>2 DEF TableSound, Goal
  <2>2. CASE SendToClosed(d)
    BY <1>3, <2>2 DEF SendToClosed
  <2>3. CASE SendTimesOut(d) \/ CloseDisplaced(d)
    BY <1>4, <2>3 DEF SendTimesOut, CloseDisplaced
  <2> QED
    BY <1>6, <2>1, <2>2, <2>3 DEF Sends, RunTodo
<1>7. ASSUME NEW d \in Conn, Writes(d) PROVE Goal
  <2>1. CASE WriteNext(d)
    <3>1. ~done[d] /\ out' = [out EXCEPT ![d] = Tail(@)] /\ done' = done
      BY <2>1 DEF WriteNext
    <3>2. done[c] => out'[c] = out[c]
      BY <1>0, <3>1
    <3> QED
      BY <1>0, <3>1, <3>2 DEF TableSound, Goal
  <2>2. CASE WriteFails(d)
    BY <1>4, <2>2 DEF WriteFails
  <2> QED
    BY <1>7, <2>1, <2>2 DEF Writes
<1>8. ASSUME NEW d \in Conn, Heartbeat(d) \/ Leaves(d) \/ Continues(d) \/ Joins(d) \/ Quits(d) PROVE Goal
  <2>1. CASE HeartbeatFails(d) \/ Leave(d) \/ LeaveDisplaced(d)
    BY <1>4, <2>1 DEF HeartbeatFails, Leave, LeaveDisplaced
  <2>2. CASE ~(HeartbeatFails(d) \/ Leave(d) \/ LeaveDisplaced(d))
    <3>1. done' = done /\ out' = out
      BY <1>8, <2>2 DEF Heartbeat, Leaves, CloseSessions, Continues, FinishHello, OpenSession, Joins, Join,
                        Quits, BrowserCloses, BrowserVanishes
    <3> QED
      BY <1>3, <3>1
  <2> QED
    BY <2>1, <2>2
<1>9. ASSUME NEW d \in Conn, Receives(d) PROVE Goal
  <2>1. done' = done /\ out' = out
    BY <1>9 DEF Receives, RecvHello, RecvSignal, RecvOpen, RecvFrame, RecvAck, RecvClose
  <2> QED
    BY <1>3, <2>1
<1>10. Goal
  BY <1>5, <1>6, <1>7, <1>8, <1>9 DEF Next
<1> QED
  BY <1>2, <1>10 DEF Goal

LEMMA SoundStep ==
    ASSUME MaxOpen <= SessMax, FrameInv, [Next]_vars
    PROVE  TableSound'
<1>1. Calm => \A c \in Conn : pc'[c] \in Active => Registered(c)'
  BY RegisteredStep DEF FrameInv, ServerInv, TableSound, Calm
<1> QED
  BY <1>1, NumbersStep, OpensStep, ClosedStep DEF TableSound

(* Nobody is told of a session at first.                                   *)
LEMMA FrameInit == Init => FrameInv
<1> SUFFICES ASSUME Init PROVE FrameInv
  OBVIOUS
<1>1. ServerInv /\ TodoInv
  BY ServerInit, DisplacedInit DEF DisplacedInv
<1>2. /\ \A c \in Conn : todo[c] = <<>> /\ out[c] = <<>> /\ pc[c] = "new"
      /\ \A c \in Conn, s \in Sessions : got[c][s] = NoHandler
      /\ \A s \in Sessions : sessions[s] = NoSession
      /\ nextSess = 0 /\ relaySessions = 0
  BY DEF Init, PeerInit, BrowserInit, RelayInit
<1>3. On(<<>>) = {}
  BY DEF On
<1>4. \A p, x \in Conn, m \in serverMessage : ~Due(p, x, m)
  BY <1>2, <1>3 DEF Due
<1>5. TableSound
  BY <1>2 DEF TableSound, Taken, Active
<1>6. Forms /\ Unique
  BY <1>4 DEF Forms, Unique
<1>7. ASSUME NEW c \in Conn, NEW s \in Sessions PROVE Stands(c, s, NoHandler)
  <2>1. ~Taken(s) /\ \A f \in Conn : other(s, c) # f
    BY <1>2, HubAssumption DEF Taken, other, NoSession
  <2>2. ~Awaits(c, s) /\ \A m \in serverMessage : ~Pend(c, m)
    BY <1>4 DEF Awaits, Pend
  <2> QED
    BY <2>1, <2>2 DEF Stands, NoHandler
<1>8. NoHandler \in Int
  BY DEF NoHandler
<1>9. ASSUME NEW c \in Conn, NEW s \in Sessions
      PROVE  \E b \in Int : Leads(Int, Turns(s), out[c], got[c][s], b) /\ Stands(c, s, b)
  <2>1. Leads(Int, Turns(s), <<>>, NoHandler, NoHandler)
    BY <1>8, LeadsNowhere
  <2> QED
    BY <1>2, <1>7, <1>8, <1>9, <2>1
<1> QED
  BY <1>1, <1>5, <1>6, <1>9 DEF FrameInv, Known

LEMMA FramesStep ==
    ASSUME MaxOpen <= SessMax, FrameInv, [Next]_vars
    PROVE  FrameInv'
<1>0. ServerInv /\ TodoInv /\ RegistryInv /\ Known
  BY DEF FrameInv, ServerInv
<1>1. ServerInv' /\ TodoInv' /\ TableSound'
  BY <1>0, ServerStep, TodoStep, SoundStep
<1>2. CASE UNCHANGED vars
  <2>1. Mild /\ \A d \in Conn : Same(d)
    BY <1>2 DEF Mild, Same, vars, peerVars, browserVars, relayVars, Live
  <2>2. Forms' /\ Unique' /\ Known'
    BY <2>1, QuietFrames
  <2> QED
    BY <1>1, <2>2 DEF FrameInv
<1>3. ASSUME NEW c \in Conn,
             \/ Joins(c) \/ Receives(c) \/ Quits(c)
             \/ Writes(c) \/ Sends(c) \/ Heartbeat(c) \/ Leaves(c) \/ Continues(c)
      PROVE  Forms' /\ Unique' /\ Known'
  <2>1. ASSUME Joins(c) \/ Quits(c) \/ Heartbeat(c)
        PROVE  Forms' /\ Unique' /\ Known'
    <3>1. CASE Joins(c)
      BY <3>1, QuietSteps DEF Joins
    <3>2. CASE Quits(c)
      BY <3>2, QuietSteps DEF Quits
    <3>3. CASE Heartbeat(c)
      BY <3>3, QuietSteps DEF Heartbeat
    <3> QED
      BY <2>1, <3>1, <3>2, <3>3
  <2>2. CASE Writes(c)
    BY <2>2, WriteFrames
  <2>3. CASE Sends(c)
    BY <2>3, SendsFrames
  <2>4. CASE Leaves(c)
    BY <2>4, QuietSteps, LeaveFrames DEF Leaves
  <2>5. CASE OpenSession(c)
    <3>1. /\ Forms' /\ Unique'
          /\ \A d \in Conn, s \in Sessions, b \in Int : Stands(d, s, b) => Stands(d, s, b)'
      BY <2>5, OpenStep
    <3>2. \A d \in Conn : Live(d)' => Live(d) /\ Same(d)
      BY <2>5 DEF OpenSession, browserVars, Live, Same
    <3> QED
      BY <1>0, <3>1, <3>2, KnownStays
  <2>6. CASE Continues(c) /\ ~OpenSession(c)
    BY <2>6, QuietSteps DEF Continues
  <2>7. ASSUME NEW s \in Sessions, RecvFrame(c, s) PROVE Forms' /\ Unique' /\ Known'
    <3>1. /\ Forms' /\ Unique'
          /\ \A d \in Conn, u \in Sessions, b \in Int : Stands(d, u, b) => Stands(d, u, b)'
      BY <2>7, FrameStep
    <3>2. \A d \in Conn : Live(d)' => Live(d) /\ Same(d)
      BY <2>7 DEF RecvFrame, browserVars, Live, Same
    <3> QED
      BY <1>0, <3>1, <3>2, KnownStays
  <2>8. CASE Receives(c) /\ \A s \in Sessions : ~RecvFrame(c, s)
    <3>1. \/ RecvHello(c) /\ UNCHANGED relayVars
          \/ \E i \in Ids : (RecvSignal(c, i) /\ UNCHANGED relayVars) \/ RecvOpen(c, i)
          \/ \E s \in Sessions : RecvAck(c, s)
          \/ \E s \in Sessions : RecvClose(c, s)
      BY <2>8 DEF Receives
    <3> QED
      BY <3>1, QuietSteps, CloseFrames
  <2> QED
    BY <1>3, <2>1, <2>2, <2>3, <2>4, <2>5, <2>6, <2>7, <2>8
<1> QED
  BY <1>1, <1>2, <1>3 DEF Next, FrameInv

(* On its way to a browser, a relay frame never overtakes the announcement *)
(* of its session, follows its close, or leaves a gap (relay.go, signaling *)
(* .js routeBinary), whoever connects, leaves, opens and closes, as long   *)
(* as no session ID is handed out twice.                                   *)
THEOREM FramesComeInOrder ==
    ASSUME MaxOpen <= SessMax
    PROVE  Spec => []FramesInOrder
<1>1. FrameInv => FramesInOrder
  <2> SUFFICES ASSUME FrameInv, NEW c \in Conn, out[c] # <<>>, Head(out[c]).type = "frame", link[c] = "up"
      PROVE  LET g == got[c][Head(out[c]).session]
             IN  g = SelfClosed \/ g = Head(out[c]).n - 1
    BY DEF FramesInOrder
  <2>1. out[c] \in Seq(serverMessage) /\ Live(c)
    BY DEF FrameInv, ServerInv, QueueInv, TableSound, Live
  <2>2. PICK m \in serverMessage : m = Head(out[c])
    BY <2>1, HeadTailProperties
  <2>3. m.session \in Sessions
    BY <2>2 DEF serverMessage
  <2>4. PICK s \in Sessions : s = m.session
    BY <2>3
  <2>5. PICK b \in Int : Leads(Int, Turns(s), out[c], got[c][s], b)
    BY <2>1 DEF FrameInv, Known
  <2>6. PICK a \in Int : <<m, got[c][s], a>> \in Turns(s)
    BY <2>1, <2>2, <2>5, LeadsTail
  <2>7. Turn(s, m, got[c][s], a) /\ Frames(m, s)
    BY <2>2, <2>4, <2>6 DEF Turns, Frames
  <2> QED
    BY <2>2, <2>4, <2>7 DEF Turn
<1> QED
  BY <1>1, FrameInit, FramesStep, PTL DEF Spec

(* Once settled, a session that a browser accepted and holds open exists,  *)
(* and its far end is there: whoever ends it, the end that accepted it is  *)
(* told (relay.go:117-151).  No ID is handed out twice, no device connects *)
(* twice and no page kept a session from before a restart.                 *)
THEOREM AcceptedAreLive ==
    ASSUME MaxOpen <= SessMax, Distinct, Stale = {}
    PROVE  Spec => []AcceptedMeansLive
<1>1. FrameInv => AcceptedMeansLive
  <2> SUFFICES ASSUME FrameInv, Settled, NEW c \in Conn \ Openers, NEW s \in Sessions, HoldsOpen(c, s)
      PROVE  other(s, c) # None /\ pc[other(s, c)] # "gone"
    BY DEF AcceptedMeansLive
  <2>1. Live(c) /\ out[c] = <<>> /\ got[c][s] >= 0 /\ \A d \in Conn : todo[d] = <<>>
    BY DEF Settled, HoldsOpen, Reading, Live
  <2>2. PICK b \in Int : Leads(Int, Turns(s), out[c], got[c][s], b) /\ Stands(c, s, b)
    BY <2>1 DEF FrameInv, Known
  <2>3. b = got[c][s]
    BY <2>1, <2>2, LeadsNowhere
  <2>4. On(<<>>) = {}
    BY DEF On
  <2>5. ~Ending(c, s)
    BY <2>1, <2>4 DEF Ending, Pend, Due
  <2>6. Far(c, s)
    BY <2>1, <2>2, <2>3, <2>5 DEF Stands, Calm
  <2> QED
    BY <2>6 DEF Far
<1> QED
  BY <1>1, FrameInit, FramesStep, PTL DEF Spec
=============================================================================
