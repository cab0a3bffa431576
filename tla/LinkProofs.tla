----------------------------- MODULE LinkProofs -----------------------------
(***************************************************************************)
(* Proofs about a page and its links, for any peers, any number of links   *)
(* and sessions and any order of messages.                                 *)
(***************************************************************************)
EXTENDS Link, QueueLemmas

(* What the server may send.                                               *)
ToPage == [t : {"peer-join", "peer-leave", "signal"}, p : Peers]
          \cup [t : {"relay-incoming", "relay-ready"}, p : Peers, s : Sess]
          \cup [t : {"relay-close"}, s : Sess]
          \cup [t : {"error"}]
          \cup [t : {"welcome"}, peers : SUBSET Peers]

(* While the connection lasts: what a message does to the peers known, a   *)
(* before it and b after it.                                               *)
Rolls(m, a, b) ==
    CASE m.t = "peer-join"  -> m.p \notin a /\ b = a \cup {m.p}
      [] m.t = "peer-leave" -> m.p \in a /\ b = a \ {m.p}
      [] m.t \in {"signal", "relay-incoming", "relay-ready"} -> m.p \in a /\ b = a
      [] m.t \in {"relay-close", "error"} -> b = a
      [] OTHER -> FALSE

Roster == {r \in ToPage \X (SUBSET Peers) \X (SUBSET Peers) : Rolls(r[1], r[2], r[3])}

(* The types.                                                              *)
WireTypes ==
    /\ online \in BOOLEAN /\ drops \in Nat /\ toPage \in Seq(ToPage)

ServerTypes ==
    /\ present \subseteq Peers /\ joins \in [Peers -> 0..MaxJoins]
    /\ session \in [Sess -> Peers \cup {Nobody}] /\ lastSess \in 0..MaxSess

Badges == {"none", "idle", "connecting", "direct", "relay"}

PageTypes ==
    /\ badge \in [Peers -> Badges] /\ made \in [Peers -> Nat] /\ linked \subseteq Peers
    /\ direct \in [Links -> {"none", "trying", "open", "failed", "closed"}]
    /\ settled \in [Links -> {"no", "transport", "null"}]
    /\ connect \in [Links -> {"idle", "direct", "relay"}]
    /\ state \in [Links -> Badges] /\ gaveUp \in BOOLEAN

RelayTypes ==
    /\ relay \in [Links -> 0..MaxSess]
    /\ transport \in [Links -> [Sess -> {"none", "open", "closed"}]]
    /\ active \in [Sess -> (Peers \X Nat) \cup {NoLink}]

LinkTypes == WireTypes /\ ServerTypes /\ PageTypes /\ RelayTypes

(* Until the connection is lost, the queue leads from the peers on the     *)
(* page to those on the server.                                            *)
RosterInv == drops = 0 =>
    /\ online /\ linked = shown
    /\ Leads(SUBSET Peers, Roster, toPage, shown, present)

(* Only the current link of a peer goes on with its direct path, and only  *)
(* what that link did makes a tile say Direct.                             *)
DirectInv ==
    /\ \A l \in Links : direct[l] \in {"trying", "open"} => l = Current(Peer(l)) /\ Peer(l) \in linked
    /\ \A p \in Peers : badge[p] = "direct" =>
         p \in linked /\ Current(p) \in Links /\ direct[Current(p)] \in {"open", "failed"}

(* The links and the requests of peers that come once: each has one link,  *)
(* and what was asked of the server is waited for.                         *)
Meets == {r \in ToPage \X (SUBSET Peers) \X (SUBSET Peers) :
            IF r[1].t = "peer-join" THEN r[1].p \notin r[2] /\ r[3] = r[2] \cup {r[1].p}
            ELSE r[3] = r[2]}

Once ==
    /\ \A p \in Peers : made[p] \in {0, 1} /\ (p \in linked => made[p] = 1)
    /\ \A p \in present : joins[p] = 1
    /\ \A l \in Links : connect[l] # "idle" => l[2] = 1
    /\ Leads(SUBSET Peers, Meets, toPage, {p \in Peers : made[p] = 1}, {p \in Peers : joins[p] = 1})

IsReady(i, p) == toPage[i].t = "relay-ready" /\ toPage[i].p = p

Asked == \A p \in Peers : \A i \in 1..Len(toPage) : IsReady(i, p) =>
    connect[<<p, 1>>] = "relay" /\ \A k \in 1..Len(toPage) : IsReady(k, p) => k = i

(* The life of a relay session, and what a message does to it.             *)
NewS     == [on |-> "new", far |-> Nobody]
OpenS(p) == [on |-> "open", far |-> p]
OverS    == [on |-> "over", far |-> Nobody]
Status   == {NewS, OverS} \cup {OpenS(p) : p \in Peers}

Opening(m, s) == m.t \in {"relay-incoming", "relay-ready"} /\ m.s = s
Closing(m, s) == m.t = "relay-close" /\ m.s = s

Turns(s) == {r \in ToPage \X Status \X Status :
    IF Opening(r[1], s) THEN r[2] = NewS /\ r[3] = OpenS(r[1].p)
    ELSE IF Closing(r[1], s) THEN r[2] # NewS /\ r[3] = OverS
    ELSE r[3] = r[2]}

(* What the server and the page have of it.                                *)
Has(s) == IF s > lastSess THEN NewS ELSE IF session[s] = Nobody THEN OverS ELSE OpenS(session[s])

Shows(s, v) ==
    /\ v = NewS => active[s] = NoLink /\ \A l \in Links : transport[l][s] = "none"
    /\ v = OverS => \A l \in Links : transport[l][s] # "open"
    /\ \A p \in Peers : v = OpenS(p) =>
         \E l \in Links : /\ Peer(l) = p /\ Serves(l, s)
                          /\ \A k \in Links : transport[k][s] = "open" => k = l

Tracked(s) ==
    /\ s > lastSess => session[s] = Nobody
    /\ \E v \in Status : Shows(s, v) /\ Leads(Status, Turns(s), toPage, v, Has(s))

(* The queue leads from what the page has of each session to what the      *)
(* server has of it.                                                       *)
SessionInv == Undisturbed => Once /\ Asked /\ \A s \in Sess : Tracked(s)

----------------------------------------------------------------------------
(* What the server says is a list of messages.                             *)
LEMMA ToldTyped ==
    ASSUME NEW ms \in Seq(ToPage), Tells(ms), WireTypes
    PROVE  toPage' \in Seq(ToPage)
  BY ConcatProperties DEF Tells, WireTypes

(* One message is a list.                                                 *)
LEMMA OneTyped ==
    ASSUME NEW m \in ToPage
    PROVE  <<m>> \in Seq(ToPage)
  OBVIOUS

(* The closes of some sessions, in any order.                              *)
LEMMA ClosesTyped ==
    ASSUME NEW S, S \subseteq Sess, NEW q \in Bijection(1..Cardinality(S), S)
    PROVE  /\ Closes(q) \in Seq(ToPage) /\ DOMAIN q = 1..Len(Closes(q))
           /\ \A i \in 1..Len(Closes(q)) :
                q[i] \in S /\ Closes(q)[i] = [t |-> "relay-close", s |-> q[i]]
           /\ \A s \in S : \E i \in 1..Len(Closes(q)) : q[i] = s
<1>1. Cardinality(S) \in Nat
  <2>1. IsFiniteSet(Sess)
    BY FS_Interval, LinkAssumption DEF Sess
  <2>2. IsFiniteSet(S)
    BY <2>1, FS_Subset
  <2> QED
    BY <2>2, FS_CardinalityType
<1> DEFINE n == Cardinality(S)
<1>2. q \in [1..n -> S] /\ \A s \in S : \E i \in 1..n : q[i] = s
  BY DEF Bijection, Injection, Surjection
<1> HIDE DEF n
<1>3. \A i \in 1..n : [t |-> "relay-close", s |-> q[i]] \in ToPage
  BY <1>2 DEF ToPage
<1>4. Closes(q) = [i \in 1..n |-> [t |-> "relay-close", s |-> q[i]]]
  BY <1>2 DEF Closes
<1>5. n \in Nat
  BY <1>1 DEF n
<1>6. Closes(q) \in [1..n -> ToPage]
  BY <1>3, <1>4
<1>7. Closes(q) \in Seq(ToPage) /\ Len(Closes(q)) = n
  BY <1>5, <1>6
<1> QED
  BY <1>2, <1>4, <1>7

(* A message at the head of the queue.                                     *)
LEMMA HeadTyped ==
    ASSUME NEW kinds, Gets(kinds), WireTypes
    PROVE  Msg \in ToPage /\ Msg.t \in kinds /\ Tail(toPage) \in Seq(ToPage)
<1>1. toPage \in Seq(ToPage) /\ toPage # <<>>
  BY DEF Gets, WireTypes
<1>2. Head(toPage) \in ToPage /\ Tail(toPage) \in Seq(ToPage)
  BY <1>1, HeadTailProperties
<1> QED
  BY <1>2 DEF Gets, Msg

(* The queue and the connection keep their types.                          *)
LEMMA WireTyped ==
    ASSUME LinkTypes, [Next]_vars
    PROVE  WireTypes'
<1> USE DEF LinkTypes
<1>0. WireTypes
  OBVIOUS
<1>a. ASSUME NEW ms \in Seq(ToPage), Tells(ms), UNCHANGED <<online, drops>>
      PROVE  WireTypes'
  BY <1>a, ToldTyped DEF WireTypes
<1>b. ASSUME NEW m \in ToPage, Tells(<<m>>), UNCHANGED <<online, drops>>
      PROVE  WireTypes'
  BY <1>a, <1>b, OneTyped
<1>c. ASSUME UNCHANGED wireVars PROVE WireTypes'
  BY <1>0, <1>c DEF wireVars, WireTypes
<1>d. ASSUME NEW kinds, Gets(kinds), Taken PROVE WireTypes'
  BY <1>0, <1>d, HeadTyped DEF Taken, WireTypes
<1>1. ASSUME NEW p \in Peers, PeerComes(p) \/ PeerOpens(p) \/ PeerSignals(p) \/ Acquire(p)
      PROVE  WireTypes'
  <2>1. CASE PeerComes(p)
    <3>1. [t |-> "peer-join", p |-> p] \in ToPage
      BY DEF ToPage
    <3> QED
      BY <1>b, <2>1, <3>1 DEF PeerComes
  <2>2. CASE PeerOpens(p)
    <3>1. lastSess' \in Sess
      BY <2>2, LinkAssumption DEF PeerOpens, ServerTypes, Sess
    <3>2. [t |-> "relay-incoming", p |-> p, s |-> lastSess'] \in ToPage
      BY <3>1 DEF ToPage
    <3> QED
      BY <1>b, <2>2, <3>2 DEF PeerOpens
  <2>3. CASE PeerSignals(p)
    <3>1. [t |-> "signal", p |-> p] \in ToPage
      BY DEF ToPage
    <3> QED
      BY <1>b, <2>3, <3>1 DEF PeerSignals
  <2>4. CASE Acquire(p)
    BY <1>c, <2>4 DEF Acquire
  <2> QED
    BY <1>1, <2>1, <2>2, <2>3, <2>4
<1>2. ASSUME NEW p \in Peers, PeerGoes(p)
      PROVE  WireTypes'
  <2> DEFINE leave == [t |-> "peer-leave", p |-> p]
  <2>1. PICK q \in Bijection(1..Cardinality(SessionsOf(p)), SessionsOf(p)) :
          Tells(Append(Closes(q), leave))
    BY <1>2 DEF PeerGoes
  <2>2. SessionsOf(p) \subseteq Sess
    BY DEF SessionsOf
  <2>3. Closes(q) \in Seq(ToPage)
    BY <2>2, ClosesTyped
  <2>4. leave \in ToPage
    BY DEF ToPage
  <2> HIDE DEF leave
  <2>5. Append(Closes(q), leave) \in Seq(ToPage)
    BY <2>3, <2>4, AppendProperties
  <2> QED
    BY <1>2, <1>a, <2>1, <2>5 DEF PeerGoes
<1>3. ASSUME NEW s \in Sess, PeerCloses(s)
      PROVE  WireTypes'
  <2>1. [t |-> "relay-close", s |-> s] \in ToPage
    BY DEF ToPage
  <2> QED
    BY <1>b, <1>3, <2>1 DEF PeerCloses
<1>4. ASSUME NEW l \in Links,
             DirectOpens(l) \/ DirectFails(l) \/ SignalRefused(l) \/ Timers(l) \/ ConnectResumes(l)
      PROVE  WireTypes'
  <2>0. Peer(l) \in Peers /\ [t |-> "error"] \in ToPage
    BY DEF Links, Peer, ToPage
  <2>1. CASE DirectOpens(l) \/ DirectFails(l) \/ Timers(l)
    BY <1>c, <2>1 DEF DirectOpens, DirectFails, Timers, DirectDeadline, RelayTimesOut
  <2>2. CASE SignalRefused(l)
    BY <1>b, <2>0, <2>2 DEF SignalRefused
  <2>3. CASE ConnectResumes(l)
    <3>1. UNCHANGED <<online, drops>>
      BY <2>3 DEF ConnectResumes
    <3>2. CASE UNCHANGED toPage
      BY <1>c, <3>1, <3>2 DEF wireVars
    <3>3. CASE Tells(<<[t |-> "error"]>>)
      BY <1>b, <2>0, <3>1, <3>3
    <3>4. CASE lastSess < MaxSess /\ lastSess' = lastSess + 1
               /\ Tells(<<[t |-> "relay-ready", p |-> Peer(l), s |-> lastSess']>>)
      <4>1. lastSess' \in Sess
        BY <3>4, LinkAssumption DEF ServerTypes, Sess
      <4>2. [t |-> "relay-ready", p |-> Peer(l), s |-> lastSess'] \in ToPage
        BY <2>0, <4>1 DEF ToPage
      <4> QED
        BY <1>b, <3>1, <3>4, <4>2
    <3> QED
      BY <2>3, <3>2, <3>3, <3>4 DEF ConnectResumes
  <2> QED
    BY <1>4, <2>1, <2>2, <2>3
<1>5. CASE Handles
  BY <1>5, <1>d DEF Handles, RecvPeers, RecvLeave, RecvSignal, RecvIncoming, RecvReady,
                    RecvError, RecvClose
<1>6. CASE Drops
  <2>1. <<>> \in Seq(ToPage)
    BY EmptySeq
  <2>2. online' = FALSE /\ drops' = drops + 1 /\ toPage' = <<>>
    BY <1>6 DEF Drops
  <2>3. drops' \in Nat
    BY <1>0, <2>2 DEF WireTypes
  <2>4. online' \in BOOLEAN
    BY <2>2
  <2> QED
    BY <2>1, <2>2, <2>3, <2>4 DEF WireTypes
<1>7. CASE Reconnects
  <2>1. [t |-> "welcome", peers |-> present] \in ToPage
    BY DEF ToPage, ServerTypes
  <2> QED
    BY <1>7, <2>1, OneTyped DEF Reconnects, WireTypes
<1>8. CASE UNCHANGED vars
  BY <1>8, <1>c DEF vars
<1> QED
  BY <1>1, <1>2, <1>3, <1>4, <1>5, <1>6, <1>7, <1>8 DEF Next

(* The server's view keeps its types.                                      *)
LEMMA ServerTyped ==
    ASSUME LinkTypes, [Next]_vars
    PROVE  ServerTypes'
<1> USE DEF LinkTypes
<1>0. /\ present \subseteq Peers /\ joins \in [Peers -> 0..MaxJoins]
      /\ session \in [Sess -> Peers \cup {Nobody}] /\ lastSess \in 0..MaxSess
  BY DEF ServerTypes
<1>a. ASSUME UNCHANGED serverVars PROVE ServerTypes'
  BY <1>0, <1>a DEF serverVars, ServerTypes
<1>1. ASSUME NEW p \in Peers, PeerComes(p)
      PROVE  ServerTypes'
  <2>1. /\ joins' = [joins EXCEPT ![p] = joins[p] + 1] /\ joins[p] < MaxJoins
        /\ present' = present \cup {p} /\ UNCHANGED <<session, lastSess>>
    BY <1>1 DEF PeerComes
  <2> QED
    BY <1>0, <2>1, LinkAssumption DEF ServerTypes
<1>2. ASSUME NEW p \in Peers, PeerGoes(p)
      PROVE  ServerTypes'
  BY <1>0, <1>2 DEF PeerGoes, ServerTypes
<1>3. ASSUME NEW p \in Peers, PeerOpens(p)
      PROVE  ServerTypes'
  BY <1>0, <1>3, LinkAssumption DEF PeerOpens, ServerTypes, Sess
<1>4. ASSUME NEW p \in Peers, PeerSignals(p) \/ Acquire(p)
      PROVE  ServerTypes'
  BY <1>4, <1>a DEF PeerSignals, Acquire
<1>5. ASSUME NEW s \in Sess, PeerCloses(s)
      PROVE  ServerTypes'
  BY <1>0, <1>5 DEF PeerCloses, ServerTypes
<1>6. ASSUME NEW l \in Links, DirectOpens(l) \/ DirectFails(l) \/ SignalRefused(l) \/ Timers(l)
      PROVE  ServerTypes'
  BY <1>6, <1>a DEF DirectOpens, DirectFails, SignalRefused, Timers, DirectDeadline, RelayTimesOut
<1>7. ASSUME NEW l \in Links, ConnectResumes(l)
      PROVE  ServerTypes'
  <2>1. UNCHANGED <<present, joins>> /\ Peer(l) \in Peers
    BY <1>7 DEF ConnectResumes, Links, Peer
  <2>2. \/ UNCHANGED <<session, lastSess>>
        \/ /\ lastSess < MaxSess /\ lastSess' = lastSess + 1
           /\ session' = [session EXCEPT ![lastSess'] = Peer(l)]
    BY <1>7 DEF ConnectResumes
  <2> QED
    BY <1>0, <2>1, <2>2, LinkAssumption, SMTT(30) DEF ServerTypes, Sess
<1>8. CASE RecvLeave
  <2>1. UNCHANGED <<present, joins, lastSess>>
        /\ (session' = session \/ \E s : session' = [session EXCEPT ![s] = Nobody])
    BY <1>8 DEF RecvLeave
  <2> QED
    BY <1>0, <2>1 DEF ServerTypes
<1>9. CASE Handles /\ ~RecvLeave
  BY <1>9, <1>a DEF Handles, RecvPeers, RecvSignal, RecvIncoming, RecvReady, RecvError, RecvClose
<1>10. CASE Drops
  BY <1>0, <1>10 DEF Drops, ServerTypes
<1>11. CASE Reconnects
  BY <1>11, <1>a DEF Reconnects
<1>12. CASE UNCHANGED vars
  BY <1>12, <1>a DEF vars
<1> QED
  BY <1>1, <1>2, <1>3, <1>4, <1>5, <1>6, <1>7, <1>8, <1>9, <1>10, <1>11, <1>12 DEF Next

(* A badge is a badge.                                                     *)
LEMMA StateTyped ==
    ASSUME PageTypes, NEW L, NEW v \in Badges, SetState(L, v)
    PROVE  state' \in [Links -> Badges] /\ badge' \in [Peers -> Badges]
  BY DEF PageTypes, SetState

(* The page keeps its types.                                               *)
LEMMA PageTyped ==
    ASSUME LinkTypes, [Next]_vars
    PROVE  PageTypes'
<1> USE DEF LinkTypes
<1>0. PageTypes /\ WireTypes
  OBVIOUS
<1>v. {"none", "idle", "connecting", "direct", "relay"} = Badges
  BY DEF Badges
<1>a. ASSUME UNCHANGED <<pageVars, direct, settled, connect, state, gaveUp>> PROVE PageTypes'
  BY <1>0, <1>a DEF pageVars, PageTypes
<1>m. ASSUME NEW S, S \subseteq Peers, LinkFor(S)
      PROVE  made' \in [Peers -> Nat] /\ linked' \subseteq Peers
  BY <1>0, <1>m DEF LinkFor, PageTypes
<1>d. ASSUME NEW S, StartDirect(S)
      PROVE  direct' \in [Links -> {"none", "trying", "open", "failed", "closed"}]
  BY <1>0, <1>d DEF StartDirect, PageTypes
<1>s. ASSUME NEW l \in Links, NEW r \in {"no", "transport", "null"}, Settle(l, r)
      PROVE  settled' \in [Links -> {"no", "transport", "null"}]
  <2>1. settled' = [settled EXCEPT ![l] = IF settled[l] = "no" THEN r ELSE settled[l]]
    BY <1>s DEF Settle
  <2> QED
    BY <1>0, <2>1 DEF PageTypes
<1>1. ASSUME NEW p \in Peers, PeerComes(p) \/ PeerGoes(p) \/ PeerOpens(p) \/ PeerSignals(p)
      PROVE  PageTypes'
  BY <1>1, <1>a DEF PeerComes, PeerGoes, PeerOpens, PeerSignals, linkVars
<1>2. ASSUME NEW p \in Peers, Acquire(p)
      PROVE  PageTypes'
  <2> DEFINE l == Current(p)
             L == IF state[l] = "idle" THEN {l} ELSE {}
  <2>1. /\ connect' = [connect EXCEPT ![l] = "direct"]
        /\ direct' = [direct EXCEPT ![l] = IF direct[l] = "none" THEN "trying" ELSE direct[l]]
        /\ SetState(L, "connecting") /\ UNCHANGED <<made, linked, settled, gaveUp>>
    BY <1>2 DEF Acquire
  <2>2. state' \in [Links -> Badges] /\ badge' \in [Peers -> Badges]
    BY <2>1, <1>0, <1>v, StateTyped
  <2> HIDE DEF l, L
  <2> QED
    BY <1>0, <2>1, <2>2 DEF PageTypes
<1>3. ASSUME NEW s \in Sess, PeerCloses(s)
      PROVE  PageTypes'
  BY <1>3, <1>a DEF PeerCloses, linkVars
<1>4. ASSUME NEW l \in Links, DirectOpens(l)
      PROVE  PageTypes'
  <2>1. /\ direct' = [direct EXCEPT ![l] = "open"] /\ Settle(l, "transport")
        /\ SetState({l}, "direct") /\ UNCHANGED <<made, linked, connect, gaveUp>>
    BY <1>4 DEF DirectOpens
  <2>2. state' \in [Links -> Badges] /\ badge' \in [Peers -> Badges]
    BY <2>1, <1>0, <1>v, StateTyped
  <2>3. settled' \in [Links -> {"no", "transport", "null"}]
    BY <1>s, <2>1
  <2> QED
    BY <1>0, <2>1, <2>2, <2>3 DEF PageTypes
<1>5. ASSUME NEW l \in Links, DirectFails(l) \/ DirectDeadline(l)
      PROVE  PageTypes'
  <2>1. /\ direct' = direct \/ direct' = [direct EXCEPT ![l] = "failed"]
        /\ SettleNull(l) /\ UNCHANGED <<made, linked, connect, gaveUp>>
    BY <1>5 DEF DirectFails, DirectDeadline
  <2>2. state' \in [Links -> Badges] /\ badge' \in [Peers -> Badges]
    BY <2>1, <1>0, <1>v, StateTyped DEF SettleNull
  <2>3. settled' \in [Links -> {"no", "transport", "null"}]
    BY <1>s, <2>1 DEF SettleNull
  <2> QED
    BY <1>0, <2>1, <2>2, <2>3 DEF PageTypes
<1>6. ASSUME NEW l \in Links, SignalRefused(l)
      PROVE  PageTypes'
  BY <1>6, <1>a DEF SignalRefused, linkVars
<1>7. ASSUME NEW l \in Links, RelayTimesOut(l) \/ ConnectResumes(l)
      PROVE  PageTypes'
  <2>1. /\ connect' = [connect EXCEPT ![l] = "idle"] \/ connect' = [connect EXCEPT ![l] = "relay"]
        /\ UNCHANGED <<pageVars, direct, settled, state>> /\ (gaveUp' = TRUE \/ gaveUp' = gaveUp)
    BY <1>7 DEF RelayTimesOut, ConnectResumes
  <2>2. gaveUp' \in BOOLEAN
    BY <1>0, <2>1 DEF PageTypes
  <2> QED
    BY <1>0, <2>1, <2>2 DEF PageTypes, pageVars
<1>8. CASE RecvPeers
  <2> DEFINE S == IF Msg.t = "welcome" THEN Msg.peers ELSE {Msg.p}
  <2>1. S \subseteq Peers
    BY <1>0, <1>8, HeadTyped DEF RecvPeers, ToPage
  <2> HIDE DEF S
  <2>2. LinkFor(S) /\ StartDirect(S) /\ UNCHANGED <<settled, connect, gaveUp>>
    BY <1>8 DEF RecvPeers, S
  <2>3. state' \in [Links -> Badges] /\ badge' \in [Peers -> Badges]
    BY <1>0, <1>8, <1>v DEF RecvPeers, PageTypes
  <2> QED
    BY <1>0, <1>d, <1>m, <2>1, <2>2, <2>3 DEF PageTypes
<1>9. CASE RecvLeave
  <2>1. /\ badge' = [badge EXCEPT ![Msg.p] = "none"] /\ linked' = linked \ {Msg.p} /\ made' = made
        /\ UNCHANGED <<settled, connect, state, gaveUp>>
        /\ direct' = direct \/ direct' = [direct EXCEPT ![Current(Msg.p)] = "closed"]
    BY <1>9 DEF RecvLeave, linkVars
  <2> QED
    BY <1>0, <1>v, <2>1 DEF PageTypes
<1>10. CASE RecvSignal
  <2>1. {Msg.p} \subseteq Peers
    BY <1>0, <1>10, HeadTyped DEF RecvSignal, ToPage
  <2>2. LinkFor({Msg.p}) /\ StartDirect({Msg.p}) /\ UNCHANGED <<badge, settled, connect, state, gaveUp>>
    BY <1>10 DEF RecvSignal
  <2> QED
    BY <1>0, <1>d, <1>m, <2>1, <2>2 DEF PageTypes
<1>11. CASE RecvIncoming
  <2>1. {Msg.p} \subseteq Peers
    BY <1>0, <1>11, HeadTyped DEF RecvIncoming, ToPage
  <2>2. LinkFor({Msg.p}) /\ (\E L : SetState(L, "relay")) /\ UNCHANGED <<direct, settled, connect, gaveUp>>
    BY <1>11 DEF RecvIncoming
  <2>3. state' \in [Links -> Badges] /\ badge' \in [Peers -> Badges]
    BY <1>0, <1>v, <2>2, StateTyped
  <2> QED
    BY <1>0, <1>m, <2>1, <2>2, <2>3 DEF PageTypes
<1>12. CASE RecvReady
  <2>1. (UNCHANGED <<state, badge>> \/ \E L : SetState(L, "relay"))
        /\ UNCHANGED <<made, linked, direct, settled, gaveUp>>
    BY <1>12 DEF RecvReady
  <2>2. state' \in [Links -> Badges] /\ badge' \in [Peers -> Badges]
    BY <1>0, <1>v, <2>1, StateTyped DEF PageTypes
  <2>3. connect' \in [Links -> {"idle", "direct", "relay"}]
    BY <1>0, <1>12 DEF RecvReady, PageTypes
  <2> QED
    BY <1>0, <2>1, <2>2, <2>3 DEF PageTypes
<1>13. CASE RecvError
  <2>1. gaveUp' \in BOOLEAN
    BY <1>13 DEF RecvError
  <2>2. connect' \in [Links -> {"idle", "direct", "relay"}]
    BY <1>0, <1>13 DEF RecvError, PageTypes
  <2>3. UNCHANGED <<pageVars, direct, settled, state>>
    BY <1>13 DEF RecvError
  <2> QED
    BY <1>0, <2>1, <2>2, <2>3 DEF PageTypes, pageVars
<1>14. CASE RecvClose
  BY <1>14, <1>a DEF RecvClose
<1>15. CASE Drops \/ Reconnects \/ UNCHANGED vars
  BY <1>15, <1>a DEF Drops, Reconnects, vars, linkVars
<1> QED
  BY <1>1, <1>2, <1>3, <1>4, <1>5, <1>6, <1>7, <1>8, <1>9, <1>10, <1>11, <1>12, <1>13, <1>14,
     <1>15 DEF Next, Handles, Timers

(* A transport is built and closed for a session there is.                 *)
LEMMA BuildTyped ==
    ASSUME RelayTypes, NEW L, L \subseteq Peers \X Nat, L # {}, NEW s \in Sess, Build(L, s)
    PROVE  RelayTypes'
<1> DEFINE c == CHOOSE l \in L : TRUE
<1>1. c \in Peers \X Nat
  OBVIOUS
<1>2. active' = [active EXCEPT ![s] = c]
  BY DEF Build
<1> HIDE DEF c
<1>3. active' \in [Sess -> (Peers \X Nat) \cup {NoLink}]
  BY <1>1, <1>2 DEF RelayTypes
<1>4. relay' \in [Links -> 0..MaxSess]
  BY LinkAssumption DEF Build, RelayTypes, Sess
<1>5. transport' \in [Links -> [Sess -> {"none", "open", "closed"}]]
  BY DEF Build, RelayTypes
<1> QED
  BY <1>3, <1>4, <1>5 DEF RelayTypes

(* A transport that is closed is still of its type.                        *)
LEMMA ClosedTyped ==
    ASSUME RelayTypes, NEW l, NEW s, MarkClosed(l, s)
    PROVE  /\ transport' \in [Links -> [Sess -> {"none", "open", "closed"}]]
           /\ active' \in [Sess -> (Peers \X Nat) \cup {NoLink}]
<1>1. transport' = [transport EXCEPT ![l] = [transport[l] EXCEPT ![s] = "closed"]]
      /\ active' = [active EXCEPT ![s] = NoLink]
  BY DEF MarkClosed
<1> QED
  BY <1>1 DEF RelayTypes

(* The page's transports keep their types.                                 *)
LEMMA RelayTyped ==
    ASSUME LinkTypes, [Next]_vars
    PROVE  RelayTypes'
<1> USE DEF LinkTypes
<1>0. RelayTypes /\ WireTypes /\ PageTypes
  OBVIOUS
<1>a. ASSUME UNCHANGED <<relay, transport, active>> PROVE RelayTypes'
  BY <1>0, <1>a DEF RelayTypes
<1>1. ASSUME NEW p \in Peers,
             PeerComes(p) \/ PeerGoes(p) \/ PeerOpens(p) \/ PeerSignals(p) \/ Acquire(p)
      PROVE  RelayTypes'
  BY <1>1, <1>a DEF PeerComes, PeerGoes, PeerOpens, PeerSignals, Acquire, linkVars
<1>2. ASSUME NEW s \in Sess, PeerCloses(s)
      PROVE  RelayTypes'
  BY <1>2, <1>a DEF PeerCloses, linkVars
<1>3. ASSUME NEW l \in Links,
             DirectOpens(l) \/ DirectFails(l) \/ SignalRefused(l) \/ Timers(l) \/ ConnectResumes(l)
      PROVE  RelayTypes'
  BY <1>3, <1>a DEF DirectOpens, DirectFails, SignalRefused, Timers, DirectDeadline, RelayTimesOut,
                    ConnectResumes, linkVars
<1>4. CASE RecvLeave
  <2>1. relay' = relay \/ relay' = [relay EXCEPT ![Current(Msg.p)] = 0]
    BY <1>4 DEF RecvLeave, linkVars
  <2>2. UNCHANGED <<transport, active>> \/ \E l, s : MarkClosed(l, s)
    BY <1>4 DEF RecvLeave, linkVars
  <2>3. relay' \in [Links -> 0..MaxSess]
    BY <1>0, <2>1, LinkAssumption DEF RelayTypes
  <2> QED
    BY <1>0, <2>2, <2>3, ClosedTyped DEF RelayTypes
<1>5. CASE RecvIncoming
  <2>1. Msg.p \in Peers /\ Msg.s \in Sess
    BY <1>0, <1>5, HeadTyped DEF RecvIncoming, ToPage
  <2>2. made' \in [Peers -> Nat]
    BY <1>0, PageTyped DEF PageTypes
  <2> DEFINE l == <<Msg.p, made'[Msg.p]>>
  <2>3. Build({l}, Msg.s)
    BY <1>5 DEF RecvIncoming
  <2>4. {l} \subseteq Peers \X Nat
    BY <2>1, <2>2
  <2> QED
    BY <1>0, <2>1, <2>3, <2>4, BuildTyped
<1>6. CASE RecvReady
  <2>1. Msg.p \in Peers /\ Msg.s \in Sess
    BY <1>0, <1>6, HeadTyped DEF RecvReady, ToPage
  <2>2. Waiting(Msg.p) \subseteq Peers \X Nat
    BY LinkAssumption DEF Waiting, Links
  <2>3. UNCHANGED <<transport, relay, active>>
        \/ (Waiting(Msg.p) # {} /\ Build(Waiting(Msg.p), Msg.s))
    BY <1>6 DEF RecvReady
  <2> QED
    BY <1>0, <1>a, <2>1, <2>2, <2>3, BuildTyped
<1>7. CASE RecvClose
  <2>1. relay' = relay /\ (UNCHANGED <<transport, active>> \/ \E l, s : MarkClosed(l, s))
    BY <1>7 DEF RecvClose
  <2> QED
    BY <1>0, <2>1, ClosedTyped DEF RelayTypes
<1>8. CASE RecvPeers \/ RecvSignal \/ RecvError
  BY <1>8, <1>a DEF RecvPeers, RecvSignal, RecvError
<1>9. CASE Drops \/ Reconnects \/ UNCHANGED vars
  BY <1>9, <1>a DEF Drops, Reconnects, vars, linkVars
<1> QED
  BY <1>1, <1>2, <1>3, <1>4, <1>5, <1>6, <1>7, <1>8, <1>9 DEF Next, Handles

(* The types hold at first.                                                *)
LEMMA TypesInit == Init => LinkTypes
<1> SUFFICES ASSUME Init PROVE LinkTypes
  OBVIOUS
<1> USE LinkAssumption DEF Init
<1>1. WireTypes
  <2>1. toPage \in Seq(ToPage)
    BY EmptySeq
  <2>2. online \in BOOLEAN /\ drops \in Nat
    OBVIOUS
  <2> QED
    BY <2>1, <2>2 DEF WireTypes
<1>2. ServerTypes
  BY DEF ServerTypes
<1>3. PageTypes
  <2>1. gaveUp \in BOOLEAN
    OBVIOUS
  <2> QED
    BY <2>1 DEF PageTypes, Badges
<1>4. RelayTypes
  BY DEF RelayTypes
<1> QED
  BY <1>1, <1>2, <1>3, <1>4 DEF LinkTypes

(* Every step keeps the types.                                             *)
LEMMA TypesStep ==
    ASSUME LinkTypes, [Next]_vars
    PROVE  LinkTypes'
  BY WireTyped, ServerTyped, PageTyped, RelayTyped DEF LinkTypes

----------------------------------------------------------------------------
(* The direct path.                                                        *)

(* A link is its peer and its number.                                      *)
LEMMA LinkPair ==
    ASSUME NEW l \in Links
    PROVE  l = <<Peer(l), l[2]>> /\ Peer(l) \in Peers /\ l[2] \in 1..(MaxJoins + 1)
  BY DEF Links, Peer

(* A link is made only for a peer without one, and a direct attempt only   *)
(* started by the link a peer has.                                         *)
LEMMA NewLinks ==
    ASSUME LinkTypes, DirectInv, NEW S, S \subseteq Peers, LinkFor(S),
           \A l \in Links : direct'[l] = direct[l] \/
              (direct[l] = "none" /\ direct'[l] = "trying" /\ Peer(l) \in S /\ l[2] = made'[Peer(l)]),
           direct' \in [Links -> {"none", "trying", "open", "failed", "closed"}],
           \A p \in Peers : badge'[p] = "direct" => badge[p] = "direct"
    PROVE  DirectInv'
<1>0. made \in [Peers -> Nat] /\ linked \subseteq Peers
  BY DEF LinkTypes, PageTypes
<1>1. /\ linked' = linked \cup S
      /\ \A p \in Peers : made'[p] = IF p \in S \ linked THEN made[p] + 1 ELSE made[p]
  BY <1>0 DEF LinkFor
<1>2. ASSUME NEW l \in Links, direct'[l] \in {"trying", "open"}
      PROVE  l = Current(Peer(l))' /\ Peer(l) \in linked'
  <2>1. CASE direct'[l] = direct[l]
    <3>1. l = Current(Peer(l)) /\ Peer(l) \in linked
      BY <1>2, <2>1 DEF DirectInv
    <3> QED
      BY <1>1, <3>1, LinkPair DEF Current
  <2>2. CASE Peer(l) \in S /\ l[2] = made'[Peer(l)]
    BY <1>1, <2>2, LinkPair DEF Current
  <2> QED
    BY <2>1, <2>2
<1>3. ASSUME NEW p \in Peers, badge'[p] = "direct"
      PROVE  p \in linked' /\ Current(p)' \in Links /\ direct'[Current(p)'] \in {"open", "failed"}
  <2>1. p \in linked /\ Current(p) \in Links /\ direct[Current(p)] \in {"open", "failed"}
    BY <1>3 DEF DirectInv
  <2>2. Current(p)' = Current(p)
    BY <1>1, <2>1 DEF Current
  <2> QED
    BY <1>1, <2>1, <2>2
<1> QED
  BY <1>2, <1>3 DEF DirectInv, Current

(* Every step keeps to the current link what the direct path is about.     *)
LEMMA DirectStep ==
    ASSUME LinkTypes, DirectInv, [Next]_vars
    PROVE  DirectInv'
<1>0. /\ made \in [Peers -> Nat] /\ linked \subseteq Peers /\ badge \in [Peers -> Badges]
      /\ direct \in [Links -> {"none", "trying", "open", "failed", "closed"}] /\ WireTypes
  BY DEF LinkTypes, PageTypes
<1>t. direct' \in [Links -> {"none", "trying", "open", "failed", "closed"}]
  BY PageTyped DEF PageTypes
<1>a. ASSUME UNCHANGED <<made, linked, direct>>, \A p \in Peers : badge'[p] = "direct" => badge[p] = "direct"
      PROVE  DirectInv'
  BY <1>a DEF DirectInv, Current
<1>b. ASSUME NEW L, NEW v, v # "direct", SetState(L, v), NEW p \in Peers, badge'[p] = "direct"
      PROVE  badge[p] = "direct"
  BY <1>b DEF SetState
<1>1. ASSUME NEW p \in Peers, PeerComes(p) \/ PeerGoes(p) \/ PeerOpens(p) \/ PeerSignals(p)
      PROVE  DirectInv'
  BY <1>1, <1>a DEF PeerComes, PeerGoes, PeerOpens, PeerSignals, linkVars, pageVars
<1>2. ASSUME NEW p \in Peers, Acquire(p)
      PROVE  DirectInv'
  <2> DEFINE l == Current(p)
             L == IF state[l] = "idle" THEN {l} ELSE {}
  <2>1. /\ direct' = [direct EXCEPT ![l] = IF direct[l] = "none" THEN "trying" ELSE direct[l]]
        /\ SetState(L, "connecting") /\ UNCHANGED <<made, linked>> /\ p \in linked
    BY <1>2 DEF Acquire
  <2>2. \A q \in Peers : badge'[q] = "direct" => badge[q] = "direct"
    BY <1>b, <2>1
  <2> HIDE DEF L
  <2>3. ASSUME NEW k \in Links, direct'[k] \in {"trying", "open"}
        PROVE  k = Current(Peer(k))' /\ Peer(k) \in linked'
    <3>1. CASE k = l
      BY <2>1, <3>1 DEF Current, Peer
    <3>2. CASE k # l
      BY <1>0, <2>1, <2>3, <3>2 DEF DirectInv, Current
    <3> QED
      BY <3>1, <3>2
  <2>4. \A k \in Links : direct[k] \in {"open", "failed"} => direct'[k] = direct[k]
    BY <1>0, <2>1
  <2> QED
    BY <2>1, <2>2, <2>3, <2>4 DEF DirectInv, Current
<1>3. ASSUME NEW s \in Sess, PeerCloses(s)
      PROVE  DirectInv'
  BY <1>3, <1>a DEF PeerCloses, linkVars, pageVars
<1>4. ASSUME NEW l \in Links, DirectOpens(l)
      PROVE  DirectInv'
  <2>1. /\ direct' = [direct EXCEPT ![l] = "open"] /\ direct[l] = "trying"
        /\ SetState({l}, "direct") /\ UNCHANGED <<made, linked>>
    BY <1>4 DEF DirectOpens
  <2>2. l = Current(Peer(l)) /\ Peer(l) \in linked
    BY <2>1 DEF DirectInv
  <2>3. \A p \in Peers : badge'[p] = "direct" => badge[p] = "direct" \/ p = Peer(l)
    BY <2>1 DEF SetState
  <2> QED
    BY <1>0, <2>1, <2>2, <2>3, LinkPair DEF DirectInv, Current
<1>5. ASSUME NEW l \in Links, DirectFails(l) \/ DirectDeadline(l)
      PROVE  DirectInv'
  <2>1. /\ direct' = direct \/ (direct[l] \in {"trying", "open"} /\ direct' = [direct EXCEPT ![l] = "failed"])
        /\ SettleNull(l) /\ UNCHANGED <<made, linked>>
    BY <1>5 DEF DirectFails, DirectDeadline
  <2>2. \A p \in Peers : badge'[p] = "direct" => badge[p] = "direct"
    BY <2>1, <1>b DEF SettleNull
  <2> QED
    BY <1>0, <2>1, <2>2 DEF DirectInv, Current
<1>6. ASSUME NEW l \in Links, SignalRefused(l) \/ RelayTimesOut(l) \/ ConnectResumes(l)
      PROVE  DirectInv'
  BY <1>6, <1>a DEF SignalRefused, RelayTimesOut, ConnectResumes, linkVars, pageVars
<1>7. CASE RecvPeers
  <2> DEFINE S == IF Msg.t = "welcome" THEN Msg.peers ELSE {Msg.p}
             Warms(l) == Peer(l) \in S /\ l[2] = made'[Peer(l)] /\ direct[l] = "none"
  <2>1. S \subseteq Peers
    BY <1>0, <1>7, HeadTyped, SMTT(30) DEF RecvPeers, ToPage
  <2>2. LinkFor(S) /\ StartDirect(S)
    BY <1>7 DEF RecvPeers
  <2>3. badge' = [p \in Peers |->
                IF \E l \in Links : Peer(l) = p /\ Warms(l) THEN "connecting"
                ELSE IF p \in S \ shown THEN "idle" ELSE badge[p]]
    BY <1>7 DEF RecvPeers
  <2> HIDE DEF S
  <2>4. \A p \in Peers : badge'[p] = "direct" => badge[p] = "direct"
    BY <2>3
  <2>5. \A l \in Links : direct'[l] = direct[l] \/
              (direct[l] = "none" /\ direct'[l] = "trying" /\ Peer(l) \in S /\ l[2] = made'[Peer(l)])
    BY <2>2 DEF StartDirect
  <2> QED
    BY <1>t, <2>1, <2>2, <2>4, <2>5, NewLinks
<1>8. CASE RecvLeave
  <2>1. /\ badge' = [badge EXCEPT ![Msg.p] = "none"] /\ linked' = linked \ {Msg.p} /\ made' = made
        /\ IF Msg.p \in linked THEN direct' = [direct EXCEPT ![Current(Msg.p)] = "closed"]
           ELSE direct' = direct
    BY <1>8 DEF RecvLeave, linkVars
  <2>2. Msg.p \in Peers
    BY <1>0, <1>8, HeadTyped DEF RecvLeave, ToPage
  <2>3. ASSUME NEW l \in Links, direct'[l] \in {"trying", "open"}
        PROVE  l = Current(Peer(l))' /\ Peer(l) \in linked'
    <3>1. direct'[l] = direct[l]
      BY <1>0, <2>1, <2>3
    <3>2. l = Current(Peer(l)) /\ Peer(l) \in linked
      BY <2>3, <3>1 DEF DirectInv
    <3>3. Peer(l) # Msg.p
      BY <1>0, <2>1, <2>3, <3>2
    <3> QED
      BY <2>1, <3>2, <3>3 DEF Current
  <2>4. ASSUME NEW p \in Peers, badge'[p] = "direct"
        PROVE  p \in linked' /\ Current(p)' \in Links /\ direct'[Current(p)'] \in {"open", "failed"}
    <3>1. p # Msg.p /\ badge[p] = "direct"
      BY <1>0, <2>1, <2>2, <2>4
    <3>2. p \in linked /\ Current(p) \in Links /\ direct[Current(p)] \in {"open", "failed"}
      BY <3>1 DEF DirectInv
    <3>3. Current(p)' = Current(p) /\ Current(p) # Current(Msg.p)
      BY <2>1, <3>1 DEF Current
    <3> QED
      BY <1>0, <2>1, <3>1, <3>2, <3>3
  <2> QED
    BY <2>3, <2>4 DEF DirectInv, Current
<1>9. CASE RecvSignal
  <2>1. {Msg.p} \subseteq Peers
    BY <1>0, <1>9, HeadTyped DEF RecvSignal, ToPage
  <2>2. LinkFor({Msg.p}) /\ StartDirect({Msg.p}) /\ badge' = badge
    BY <1>9 DEF RecvSignal
  <2>3. \A l \in Links : direct'[l] = direct[l] \/
              (direct[l] = "none" /\ direct'[l] = "trying" /\ Peer(l) \in {Msg.p} /\ l[2] = made'[Peer(l)])
    BY <2>2 DEF StartDirect
  <2> QED
    BY <1>t, <2>1, <2>2, <2>3, NewLinks
<1>10. CASE RecvIncoming
  <2>1. {Msg.p} \subseteq Peers
    BY <1>0, <1>10, HeadTyped DEF RecvIncoming, ToPage
  <2>2. LinkFor({Msg.p}) /\ (\E L : SetState(L, "relay")) /\ direct' = direct
    BY <1>10 DEF RecvIncoming
  <2>3. \A p \in Peers : badge'[p] = "direct" => badge[p] = "direct"
    BY <1>b, <2>2
  <2> QED
    BY <1>t, <2>1, <2>2, <2>3, NewLinks
<1>11. CASE RecvReady
  <2>1. (badge' = badge \/ \E L : SetState(L, "relay")) /\ UNCHANGED <<made, linked, direct>>
    BY <1>11 DEF RecvReady
  <2>2. \A p \in Peers : badge'[p] = "direct" => badge[p] = "direct"
    BY <1>b, <2>1
  <2> QED
    BY <1>a, <2>1, <2>2
<1>12. CASE RecvError \/ RecvClose
  BY <1>12, <1>a DEF RecvError, RecvClose, pageVars
<1>13. CASE Drops \/ Reconnects \/ UNCHANGED vars
  BY <1>13, <1>a DEF Drops, Reconnects, vars, linkVars, pageVars
<1> QED
  BY <1>1, <1>2, <1>3, <1>4, <1>5, <1>6, <1>7, <1>8, <1>9, <1>10, <1>11, <1>12, <1>13
     DEF Next, Handles, Timers

(* A tile says Direct only while its own link has, or had, a channel: not  *)
(* on account of a link that was disposed of (app.js:156-205, 251-257).    *)
THEOREM TilesTellTheirOwn == Spec => []DirectIsOwn
<1>1. Init => LinkTypes /\ DirectInv
  <2>1. Init => DirectInv
    BY DEF Init, DirectInv
  <2> QED
    BY <2>1, TypesInit
<1>2. LinkTypes /\ DirectInv /\ [Next]_vars => LinkTypes' /\ DirectInv'
  BY TypesStep, DirectStep
<1>3. DirectInv => DirectIsOwn
  BY DEF DirectInv, DirectIsOwn
<1> QED
  BY <1>1, <1>2, <1>3, PTL DEF Spec

----------------------------------------------------------------------------
(* The roster.                                                             *)

(* What a message does to the peers known.                                 *)
LEMMA RosterRule ==
    ASSUME NEW m \in ToPage, NEW a \in SUBSET Peers, NEW b \in SUBSET Peers
    PROVE  <<m, a, b>> \in Roster <=> Rolls(m, a, b)
  BY DEF Roster

(* Every step keeps what the queue leads to.                               *)
LEMMA RosterStep ==
    ASSUME LinkTypes, RosterInv, [Next]_vars
    PROVE  RosterInv'
<1>0. /\ WireTypes /\ ServerTypes /\ PageTypes /\ toPage \in Seq(ToPage) /\ present \in SUBSET Peers
      /\ badge \in [Peers -> Badges] /\ linked \subseteq Peers
  BY DEF LinkTypes, WireTypes, ServerTypes, PageTypes
<1>p. present' \in SUBSET Peers /\ drops' \in Nat /\ badge' \in [Peers -> Badges]
  BY ServerTyped, WireTyped, PageTyped DEF ServerTypes, WireTypes, PageTypes
<1> SUFFICES ASSUME drops' = 0
             PROVE  online' /\ linked' = shown' /\ Leads(SUBSET Peers, Roster, toPage', shown', present')
  BY DEF RosterInv
<1> DEFINE Goal == online' /\ linked' = shown' /\ Leads(SUBSET Peers, Roster, toPage', shown', present')
<1>a. ASSUME UNCHANGED <<wireVars, pageVars, present>> PROVE Goal
  <2>1. drops = 0
    BY <1>a DEF wireVars
  <2> QED
    BY <1>a, <2>1 DEF RosterInv, wireVars, pageVars, shown
<1>b. ASSUME NEW m \in ToPage, Tells(<<m>>), Rolls(m, present, present'),
             UNCHANGED <<online, drops, pageVars>>
      PROVE  Goal
  <2>1. online /\ linked = shown /\ Leads(SUBSET Peers, Roster, toPage, shown, present)
    BY <1>b DEF RosterInv
  <2>2. toPage' = Append(toPage, m)
    BY <1>0, <1>b, <2>1 DEF Tells
  <2>3. <<m, present, present'>> \in Roster
    BY <1>0, <1>b, <1>p, RosterRule
  <2>5. Leads(SUBSET Peers, Roster, toPage', shown, present')
    BY <1>0, <1>p, <2>1, <2>2, <2>3, LeadsAppend
  <2>4. shown' = shown /\ linked' = linked /\ online' = online
    BY <1>b DEF pageVars, shown
  <2> QED
    BY <2>1, <2>4, <2>5
<1>s. ASSUME NEW L, NEW v \in Badges, v # "none", SetState(L, v) PROVE shown' = shown
  BY <1>s DEF SetState, shown
<1>t. ASSUME NEW kinds, Gets(kinds), Taken, UNCHANGED present,
             \A c \in SUBSET Peers : linked = shown /\ Rolls(Msg, shown, c) => linked' = c /\ shown' = c
      PROVE  Goal
  <2>1. drops = 0 /\ online' = online /\ toPage' = Tail(toPage) /\ toPage # <<>> /\ Msg = Head(toPage)
    BY <1>t DEF Taken, Gets, Msg
  <2>2. online /\ linked = shown /\ Leads(SUBSET Peers, Roster, toPage, shown, present)
    BY <2>1 DEF RosterInv
  <2>3. PICK c \in SUBSET Peers : Rolls(Msg, shown, c) /\ Leads(SUBSET Peers, Roster, Tail(toPage), c, present)
    <3>1. PICK c \in SUBSET Peers :
            <<Msg, shown, c>> \in Roster /\ Leads(SUBSET Peers, Roster, Tail(toPage), c, present)
      BY <1>0, <2>1, <2>2, LeadsTail
    <3> QED
      BY <3>1 DEF Roster
  <2>4. linked' = c /\ shown' = c
    BY <1>t, <2>2, <2>3
  <2> QED
    BY <1>t, <2>1, <2>2, <2>3, <2>4
<1>1. ASSUME NEW p \in Peers, PeerComes(p)
      PROVE  Goal
  <2> DEFINE m == [t |-> "peer-join", p |-> p]
  <2>1. m \in ToPage
    BY DEF ToPage
  <2>2. Rolls(m, present, present')
    BY <1>1 DEF Rolls, PeerComes
  <2> QED
    BY <1>1, <1>b, <2>1, <2>2 DEF PeerComes
<1>2. ASSUME NEW p \in Peers, PeerGoes(p)
      PROVE  Goal
  <2> DEFINE m == [t |-> "peer-leave", p |-> p]
  <2>1. PICK q \in Bijection(1..Cardinality(SessionsOf(p)), SessionsOf(p)) :
          Tells(Append(Closes(q), m))
    BY <1>2 DEF PeerGoes
  <2>2. p \in present /\ present' = present \ {p} /\ UNCHANGED <<online, drops, pageVars>>
    BY <1>2 DEF PeerGoes
  <2>3. SessionsOf(p) \subseteq Sess
    BY DEF SessionsOf
  <2>4. Closes(q) \in Seq(ToPage) /\ \A i \in 1..Len(Closes(q)) : Closes(q)[i].t = "relay-close"
    <3> DEFINE S == SessionsOf(p)
    <3>1. S \subseteq Sess /\ q \in Bijection(1..Cardinality(S), S)
      BY <2>3
    <3> HIDE DEF S
    <3>2. /\ Closes(q) \in Seq(ToPage) /\ DOMAIN q = 1..Len(Closes(q))
          /\ \A i \in 1..Len(Closes(q)) :
               q[i] \in S /\ Closes(q)[i] = [t |-> "relay-close", s |-> q[i]]
          /\ \A s \in S : \E i \in 1..Len(Closes(q)) : q[i] = s
      BY <3>1, ClosesTyped
    <3>3. ASSUME NEW i \in 1..Len(Closes(q)) PROVE Closes(q)[i].t = "relay-close"
      <4>1. Closes(q)[i] = [t |-> "relay-close", s |-> q[i]]
        BY <3>2
      <4> QED
        BY <4>1
    <3> QED
      BY <3>2, <3>3
  <2>5. Leads(SUBSET Peers, Roster, Closes(q), present, present)
    <3>1. ASSUME NEW i \in 1..Len(Closes(q)) PROVE <<Closes(q)[i], present, present>> \in Roster
      <4>1. Closes(q)[i] \in ToPage /\ Rolls(Closes(q)[i], present, present)
        BY <2>4 DEF Rolls
      <4> QED
        BY <1>0, <4>1, RosterRule
    <3> QED
      BY <1>0, <2>4, <3>1, LeadsStill
  <2>6. online /\ linked = shown /\ Leads(SUBSET Peers, Roster, toPage, shown, present)
    BY <2>2 DEF RosterInv
  <2>7. Leads(SUBSET Peers, Roster, toPage \o Closes(q), shown, present)
    BY <1>0, <2>4, <2>5, <2>6, LeadsConcat
  <2>8. m \in ToPage /\ Rolls(m, present, present')
    BY <2>2 DEF ToPage, Rolls
  <2> HIDE DEF m
  <2>9. toPage \o Closes(q) \in Seq(ToPage)
    BY <1>0, <2>4, ConcatProperties
  <2>10. Leads(SUBSET Peers, Roster, Append(toPage \o Closes(q), m), shown, present')
    <3>1. <<m, present, present'>> \in Roster
      BY <1>0, <1>p, <2>8, RosterRule
    <3> QED
      BY <1>0, <1>p, <2>7, <2>8, <2>9, <3>1, LeadsAppend
  <2>11. toPage' = toPage \o Append(Closes(q), m)
    BY <2>1, <2>6 DEF Tells
  <2>12. toPage \o Append(Closes(q), m) = Append(toPage \o Closes(q), m)
    BY <1>0, <2>4, <2>8
  <2>13. shown' = shown /\ linked' = linked /\ online' = online
    BY <2>2 DEF pageVars, shown
  <2> QED
    BY <2>6, <2>10, <2>11, <2>12, <2>13
<1>3. ASSUME NEW p \in Peers, PeerOpens(p)
      PROVE  Goal
  <2> DEFINE m == [t |-> "relay-incoming", p |-> p, s |-> lastSess']
  <2>1. m \in ToPage
    BY <1>0, <1>3, LinkAssumption DEF ToPage, PeerOpens, ServerTypes, Sess
  <2>2. Rolls(m, present, present')
    BY <1>3 DEF Rolls, PeerOpens
  <2> QED
    BY <1>3, <1>b, <2>1, <2>2 DEF PeerOpens
<1>4. ASSUME NEW p \in Peers, PeerSignals(p)
      PROVE  Goal
  <2> DEFINE m == [t |-> "signal", p |-> p]
  <2>1. m \in ToPage
    BY DEF ToPage
  <2>2. Rolls(m, present, present')
    BY <1>4 DEF Rolls, PeerSignals, serverVars
  <2> QED
    BY <1>4, <1>b, <2>1, <2>2 DEF PeerSignals
<1>5. ASSUME NEW s \in Sess, PeerCloses(s)
      PROVE  Goal
  <2> DEFINE m == [t |-> "relay-close", s |-> s]
  <2>1. m \in ToPage
    BY DEF ToPage
  <2>2. Rolls(m, present, present')
    BY <1>5 DEF Rolls, PeerCloses
  <2> QED
    BY <1>5, <1>b, <2>1, <2>2 DEF PeerCloses
<1>6. ASSUME NEW l \in Links, ConnectResumes(l) \/ SignalRefused(l)
      PROVE  Goal
  <2> DEFINE m == [t |-> "error"]
             r == [t |-> "relay-ready", p |-> Peer(l), s |-> lastSess']
  <2>1. UNCHANGED <<online, drops, pageVars, present>>
    BY <1>6 DEF ConnectResumes, SignalRefused, serverVars
  <2>2. CASE UNCHANGED toPage
    BY <1>a, <2>1, <2>2 DEF wireVars
  <2>3. CASE Tells(<<m>>)
    <3>1. m \in ToPage /\ Rolls(m, present, present')
      BY <2>1 DEF ToPage, Rolls
    <3> QED
      BY <1>b, <2>1, <2>3, <3>1
  <2>4. CASE Tells(<<r>>) /\ Peer(l) \in present /\ lastSess < MaxSess /\ lastSess' = lastSess + 1
    <3>1. lastSess' \in Sess /\ Peer(l) \in Peers
      BY <1>0, <2>4, LinkAssumption DEF ServerTypes, Sess
    <3>2. r \in ToPage /\ Rolls(r, present, present')
      BY <2>1, <2>4, <3>1 DEF ToPage, Rolls
    <3> QED
      BY <1>b, <2>1, <2>4, <3>2
  <2> QED
    BY <1>6, <2>2, <2>3, <2>4 DEF ConnectResumes, SignalRefused
<1>7. ASSUME NEW l \in Links, DirectOpens(l) \/ DirectFails(l) \/ DirectDeadline(l)
      PROVE  Goal
  <2>1. UNCHANGED <<wireVars, linked, present>>
    BY <1>7 DEF DirectOpens, DirectFails, DirectDeadline, serverVars
  <2>2. \E L : SetState(L, "direct") \/ SetState(L, "relay")
    BY <1>7 DEF DirectOpens, DirectFails, DirectDeadline, SettleNull
  <2>3. shown' = shown
    BY <1>s, <2>2 DEF Badges
  <2>4. drops = 0
    BY <2>1 DEF wireVars
  <2> QED
    BY <2>1, <2>3, <2>4 DEF RosterInv, wireVars
<1>8. ASSUME NEW p \in Peers, Acquire(p)
      PROVE  Goal
  <2>1. UNCHANGED <<wireVars, linked, present>>
    BY <1>8 DEF Acquire, serverVars
  <2>2. \E L : SetState(L, "connecting")
    BY <1>8 DEF Acquire
  <2>3. shown' = shown
    BY <1>s, <2>2 DEF Badges
  <2>4. drops = 0
    BY <2>1 DEF wireVars
  <2> QED
    BY <2>1, <2>3, <2>4 DEF RosterInv, wireVars
<1>9. ASSUME NEW l \in Links, RelayTimesOut(l)
      PROVE  Goal
  BY <1>9, <1>a DEF RelayTimesOut, serverVars
<1>10. CASE RecvPeers
  <2>1. Msg.t \in {"welcome", "peer-join"} /\ Taken /\ UNCHANGED present
    BY <1>10 DEF RecvPeers, Gets, Msg, serverVars
  <2> DEFINE S == IF Msg.t = "welcome" THEN Msg.peers ELSE {Msg.p}
             Warms(l) == Peer(l) \in S /\ l[2] = made'[Peer(l)] /\ direct[l] = "none"
  <2>2. linked' = linked \cup S
    BY <1>10 DEF RecvPeers, LinkFor
  <2>3. badge' = [p \in Peers |->
                IF \E l \in Links : Peer(l) = p /\ Warms(l) THEN "connecting"
                ELSE IF p \in S \ shown THEN "idle" ELSE badge[p]]
    BY <1>10 DEF RecvPeers
  <2>4. ASSUME NEW p \in Peers
        PROVE  badge'[p] # "none" <=> p \in S \/ p \in shown
    <3> HIDE DEF S
    <3> QED
      BY <2>3 DEF shown
  <2>5. shown' = shown \cup (S \cap Peers)
    BY <2>4 DEF shown
  <2>6. ASSUME NEW c \in SUBSET Peers, linked = shown, Rolls(Msg, shown, c)
        PROVE  linked' = c /\ shown' = c
    <3>1. Msg.t = "peer-join" /\ c = shown \cup {Msg.p}
      BY <2>1, <2>6 DEF Rolls
    <3>2. S = {Msg.p}
      BY <3>1
    <3> QED
      BY <2>2, <2>5, <2>6, <3>1, <3>2
  <2> QED
    BY <1>10, <1>t, <2>1, <2>6 DEF RecvPeers
<1>11. CASE RecvLeave
  <2>1. Gets({"peer-leave"}) /\ Msg.t = "peer-leave" /\ Taken /\ UNCHANGED present
    BY <1>11 DEF RecvLeave, Gets, Msg
  <2>2. badge' = [badge EXCEPT ![Msg.p] = "none"] /\ linked' = linked \ {Msg.p}
    BY <1>11 DEF RecvLeave
  <2>3. shown' = shown \ {Msg.p}
    BY <1>0, <2>2 DEF shown
  <2>4. \A c \in SUBSET Peers : linked = shown /\ Rolls(Msg, shown, c) => linked' = c /\ shown' = c
    BY <2>1, <2>2, <2>3 DEF Rolls
  <2> QED
    BY <1>t, <2>1, <2>4
<1>12. CASE RecvSignal \/ RecvIncoming
  <2> DEFINE kinds == {"signal", "relay-incoming"}
  <2>1. Gets(kinds) /\ Msg.t \in kinds /\ Taken /\ UNCHANGED present /\ linked' = linked \cup {Msg.p}
    BY <1>12 DEF RecvSignal, RecvIncoming, LinkFor, Gets, Msg, serverVars
  <2>2. shown' = shown
    <3>1. badge' = badge \/ \E L : SetState(L, "relay")
      BY <1>12 DEF RecvSignal, RecvIncoming
    <3> QED
      BY <1>s, <3>1 DEF Badges, shown
  <2>3. \A c \in SUBSET Peers : linked = shown /\ Rolls(Msg, shown, c) => linked' = c /\ shown' = c
    BY <2>1, <2>2 DEF Rolls
  <2> QED
    BY <1>t, <2>1, <2>3
<1>13. CASE RecvReady \/ RecvError \/ RecvClose
  <2> DEFINE kinds == {"relay-ready", "error", "relay-close"}
  <2>1. Gets(kinds) /\ Msg.t \in kinds /\ Taken /\ UNCHANGED present /\ linked' = linked
    BY <1>13 DEF RecvReady, RecvError, RecvClose, Gets, Msg, serverVars, pageVars
  <2>2. shown' = shown
    <3>1. badge' = badge \/ \E L : SetState(L, "relay")
      BY <1>13 DEF RecvReady, RecvError, RecvClose, pageVars
    <3> QED
      BY <1>s, <3>1 DEF Badges, shown
  <2>3. \A c \in SUBSET Peers : linked = shown /\ Rolls(Msg, shown, c) => linked' = c /\ shown' = c
    BY <2>1, <2>2 DEF Rolls
  <2> QED
    BY <1>t, <2>1, <2>3
<1>14. CASE Drops
  BY <1>0, <1>14 DEF Drops, WireTypes
<1>15. CASE Reconnects
  BY <1>15 DEF Reconnects, RosterInv
<1>16. CASE UNCHANGED vars
  BY <1>16, <1>a DEF vars, serverVars
<1> QED
  BY <1>1, <1>2, <1>3, <1>4, <1>5, <1>6, <1>7, <1>8, <1>9, <1>10, <1>11, <1>12, <1>13, <1>14,
     <1>15, <1>16 DEF Next, Handles, Timers

(* At first nobody is there.                                               *)
LEMMA RosterInit == Init => RosterInv
<1> SUFFICES ASSUME Init PROVE RosterInv
  OBVIOUS
<1>1. shown = {} /\ linked = {} /\ present = {} /\ toPage = <<>> /\ online
  BY DEF Init, shown
<1>2. Leads(SUBSET Peers, Roster, toPage, shown, present)
  BY <1>1, LeadsNowhere
<1> QED
  BY <1>1, <1>2 DEF RosterInv

(* As long as the connection lasts, a page that has taken in everything    *)
(* shows exactly the peers that are there and has a link to each, however  *)
(* often they come and go (app.js:83-97).                                  *)
THEOREM RosterFollows == Spec => []RosterAgrees
<1>1. Init => LinkTypes /\ RosterInv
  BY TypesInit, RosterInit
<1>2. LinkTypes /\ RosterInv /\ [Next]_vars => LinkTypes' /\ RosterInv'
  BY TypesStep, RosterStep
<1>3. LinkTypes /\ RosterInv => RosterAgrees
  BY LeadsNowhere DEF RosterInv, RosterAgrees, Quiet
<1> QED
  BY <1>1, <1>2, <1>3, PTL DEF Spec

----------------------------------------------------------------------------
(* The relay sessions.                                                     *)

(* The three states of a session are different.                            *)
LEMMA StatusDiffer ==
    /\ NewS \in Status /\ OverS \in Status /\ NewS # OverS
    /\ \A p \in Peers : OpenS(p) \in Status /\ OpenS(p) # NewS /\ OpenS(p) # OverS
    /\ \A p \in Peers, r \in Peers : OpenS(p) = OpenS(r) => p = r
    /\ \A v \in Status : v = NewS \/ v = OverS \/ \E p \in Peers : v = OpenS(p)
  BY DEF NewS, OverS, OpenS, Status

(* What a message does to a session.                                       *)
LEMMA TurnRule ==
    ASSUME NEW s \in Sess, NEW m \in ToPage, NEW a \in Status, NEW b \in Status
    PROVE  /\ Opening(m, s) => (<<m, a, b>> \in Turns(s) <=> a = NewS /\ b = OpenS(m.p))
           /\ Closing(m, s) => (<<m, a, b>> \in Turns(s) <=> a # NewS /\ b = OverS)
           /\ ~Opening(m, s) /\ ~Closing(m, s) => (<<m, a, b>> \in Turns(s) <=> b = a)
<1>1. <<m, a, b>> \in ToPage \X Status \X Status
  OBVIOUS
<1>2. <<m, a, b>> \in Turns(s) <=>
        IF Opening(m, s) THEN a = NewS /\ b = OpenS(m.p)
        ELSE IF Closing(m, s) THEN a # NewS /\ b = OverS ELSE b = a
  BY <1>1 DEF Turns
<1> QED
  BY <1>2 DEF Opening, Closing

(* A session that was opened is never new again, and one that is over      *)
(* stays over.                                                             *)
LEMMA NeverNew ==
    ASSUME NEW s \in Sess, NEW q \in Seq(ToPage), NEW a \in Status, NEW b, a # NewS,
           Leads(Status, Turns(s), q, a, b)
    PROVE  b # NewS /\ Leads(Status, Turns(s), q, OverS, OverS)
<1> DEFINE n == Len(q)
<1>1. n \in Nat /\ \A i \in 1..n : q[i] \in ToPage
  BY LenProperties
<1>2. PICK h \in [0..n -> Status] :
        h[0] = a /\ h[n] = b /\ \A i \in 1..n : <<q[i], h[i - 1], h[i]>> \in Turns(s)
  BY DEF Leads
<1> HIDE DEF n
<1>3. \A i \in 0..n : h[i] # NewS
  <2> DEFINE T == {i \in 0..n : h[i] = NewS}
  <2>1. SUFFICES ASSUME T # {} PROVE FALSE
    OBVIOUS
  <2>2. PICK m \in T : \A k \in T : m <= k
    <3>1. T \subseteq Nat
      BY <1>1
    <3> HIDE DEF T
    <3> QED
      BY <2>1, <3>1, LeastNatural
  <2>3. m \in 1..n /\ h[m] = NewS /\ m - 1 \in 0..n /\ h[m - 1] # NewS
    BY <1>1, <1>2, <2>2
  <2>4. q[m] \in ToPage /\ h[m - 1] \in Status /\ h[m] \in Status /\ <<q[m], h[m - 1], h[m]>> \in Turns(s)
    BY <1>1, <1>2, <2>3
  <2>5. h[m] = OverS \/ h[m] = h[m - 1]
    BY <2>3, <2>4, TurnRule
  <2> QED
    BY <2>3, <2>5, StatusDiffer
<1>4. ASSUME NEW i \in 1..n
      PROVE  <<q[i], OverS, OverS>> \in Turns(s)
  <2>1. i - 1 \in 0..n /\ h[i - 1] # NewS /\ h[i - 1] \in Status /\ h[i] \in Status
    BY <1>1, <1>2, <1>3
  <2>2. q[i] \in ToPage /\ <<q[i], h[i - 1], h[i]>> \in Turns(s)
    BY <1>1, <1>2
  <2>3. ~Opening(q[i], s)
    BY <2>1, <2>2, TurnRule
  <2> QED
    BY <2>2, <2>3, TurnRule, StatusDiffer
<1>5. b # NewS
  BY <1>1, <1>2, <1>3
<1> QED
  BY <1>4, <1>5, LeadsStill, StatusDiffer DEF n

(* What a page is told of a peer that leaves.                              *)
LEMMA GoodbyeTyped ==
    ASSUME NEW p \in Peers, NEW q \in Bijection(1..Cardinality(SessionsOf(p)), SessionsOf(p)),
           NEW u, u = Append(Closes(q), [t |-> "peer-leave", p |-> p])
    PROVE  /\ u \in Seq(ToPage)
           /\ \A i \in 1..Len(u) : \/ u[i].t = "peer-leave"
                                   \/ u[i].t = "relay-close" /\ u[i].s \in SessionsOf(p)
           /\ \A s \in SessionsOf(p) : \E i \in 1..Len(u) : Closing(u[i], s)
<1> DEFINE S == SessionsOf(p)
           c == Closes(q)
           m == [t |-> "peer-leave", p |-> p]
<1>1. S \subseteq Sess /\ q \in Bijection(1..Cardinality(S), S)
  BY DEF SessionsOf
<1>2. m \in ToPage /\ m.t = "peer-leave"
  BY DEF ToPage
<1> HIDE DEF S
<1>3. /\ c \in Seq(ToPage) /\ DOMAIN q = 1..Len(c)
      /\ \A i \in 1..Len(c) : q[i] \in S /\ c[i] = [t |-> "relay-close", s |-> q[i]]
      /\ \A s \in S : \E i \in 1..Len(c) : q[i] = s
  BY <1>1, ClosesTyped
<1>4. ASSUME NEW i \in 1..Len(c)
      PROVE  c[i].t = "relay-close" /\ c[i].s = q[i] /\ q[i] \in S
  <2>1. c[i] = [t |-> "relay-close", s |-> q[i]] /\ q[i] \in S
    BY <1>3
  <2> QED
    BY <2>1
<1> HIDE DEF c, m
<1>5. /\ u \in Seq(ToPage) /\ Len(c) \in Nat /\ Len(u) = Len(c) + 1 /\ u[Len(c) + 1] = m
      /\ \A i \in 1..Len(c) : u[i] = c[i]
  BY <1>2, <1>3, AppendProperties, LenProperties DEF c, m
<1>6. ASSUME NEW i \in 1..Len(u)
      PROVE  u[i].t = "peer-leave" \/ (u[i].t = "relay-close" /\ u[i].s \in S)
  <2>1. i \in 1..Len(c) \/ i = Len(c) + 1
    BY <1>5
  <2> QED
    BY <1>2, <1>4, <1>5, <2>1
<1>7. ASSUME NEW s \in S PROVE \E i \in 1..Len(u) : Closing(u[i], s)
  <2>1. PICK i \in 1..Len(c) : q[i] = s
    BY <1>3
  <2>2. i \in 1..Len(u) /\ u[i] = c[i]
    BY <1>5
  <2>3. Closing(u[i], s)
    BY <1>4, <2>1, <2>2 DEF Closing
  <2> QED
    BY <2>2, <2>3
<1> QED
  BY <1>5, <1>6, <1>7 DEF S

(* A run that is undisturbed has been, and its connection is up.           *)
LEMMA StillUndisturbed ==
    ASSUME LinkTypes, RosterInv, [Next]_vars, Undisturbed'
    PROVE  Undisturbed /\ online /\ UNCHANGED <<online, drops, gaveUp>>
<1>0. drops' = 0 /\ gaveUp' = FALSE /\ \A p \in Peers : joins'[p] <= 1
  <2>1. gaveUp' \in BOOLEAN
    BY PageTyped DEF PageTypes
  <2> QED
    BY <2>1 DEF Undisturbed
<1>1. drops \in Nat /\ gaveUp \in BOOLEAN /\ joins \in [Peers -> 0..MaxJoins] /\ MaxJoins \in Nat
  BY LinkAssumption DEF LinkTypes, WireTypes, PageTypes, ServerTypes
<1>2. UNCHANGED <<online, drops>> \/ Drops \/ Reconnects
  BY DEF Next, vars, wireVars, PeerComes, PeerGoes, PeerOpens, PeerSignals, Acquire, PeerCloses,
         DirectOpens, DirectFails, SignalRefused, Timers, DirectDeadline, RelayTimesOut,
         ConnectResumes, Handles, RecvPeers, RecvLeave, RecvSignal, RecvIncoming, RecvReady,
         RecvError, RecvClose, Taken
<1>3. drops = 0
  BY <1>0, <1>1, <1>2 DEF Drops, Reconnects
<1>4. online
  BY <1>3 DEF RosterInv
<1>5. online' = online
  <2>1. ~Reconnects
    BY <1>4 DEF Reconnects
  <2>2. ~Drops
    BY <1>0, <1>3 DEF Drops
  <2> QED
    BY <1>2, <2>1, <2>2
<1>6. gaveUp => gaveUp'
  BY DEF Next, vars, linkVars, PeerComes, PeerGoes, PeerOpens, PeerSignals, Acquire, PeerCloses,
         DirectOpens, DirectFails, SignalRefused, Timers, DirectDeadline, RelayTimesOut,
         ConnectResumes, Handles, RecvPeers, RecvLeave, RecvSignal, RecvIncoming, RecvReady,
         RecvError, RecvClose, Drops, Reconnects
<1>7. gaveUp = FALSE
  BY <1>0, <1>1, <1>6
<1>8. joins' = joins \/ \E p \in Peers : joins' = [joins EXCEPT ![p] = joins[p] + 1]
  <2>1. CASE \E p \in Peers : PeerComes(p)
    BY <2>1 DEF PeerComes
  <2>2. CASE ~\E p \in Peers : PeerComes(p)
    BY <2>2
       DEF Next, vars, serverVars, PeerGoes, PeerOpens, PeerSignals, Acquire, PeerCloses,
           DirectOpens, DirectFails, SignalRefused, Timers, DirectDeadline, RelayTimesOut,
           ConnectResumes, Handles, RecvPeers, RecvLeave, RecvSignal, RecvIncoming, RecvReady,
           RecvError, RecvClose, Drops, Reconnects
  <2> QED
    BY <2>1, <2>2
<1>9. \A p \in Peers : joins[p] <= 1
  BY <1>0, <1>1, <1>8
<1> QED
  BY <1>0, <1>3, <1>4, <1>5, <1>7, <1>9 DEF Undisturbed

(* While the connection lasts, what is taken from the queue is about peers *)
(* that are known, or that have just come.                                 *)
LEMMA HeadKnown ==
    ASSUME LinkTypes, RosterInv, drops = 0, NEW kinds, Gets(kinds)
    PROVE  /\ Msg \in ToPage /\ Msg.t \in kinds /\ Msg = Head(toPage) /\ toPage # <<>>
           /\ Msg.t # "welcome"
           /\ Msg.t = "peer-join" => Msg.p \notin linked
           /\ Msg.t \in {"peer-leave", "signal", "relay-incoming", "relay-ready"} => Msg.p \in linked
<1>1. WireTypes /\ toPage \in Seq(ToPage)
  BY DEF LinkTypes, WireTypes
<1>2. Msg \in ToPage /\ Msg.t \in kinds
  BY <1>1, HeadTyped
<1>3. Msg = Head(toPage) /\ toPage # <<>>
  BY DEF Gets, Msg
<1>4. linked = shown /\ Leads(SUBSET Peers, Roster, toPage, shown, present)
  BY DEF RosterInv
<1>5. PICK c \in SUBSET Peers : <<Msg, shown, c>> \in Roster
  BY <1>1, <1>3, <1>4, LeadsTail
<1>6. Rolls(Msg, shown, c)
  BY <1>5 DEF Roster
<1> QED
  BY <1>2, <1>3, <1>4, <1>6 DEF Rolls

(* Each peer comes once, and has one link.                                 *)
LEMMA OnceStep ==
    ASSUME LinkTypes, RosterInv, Undisturbed, drops = 0, Once, [Next]_vars, Undisturbed'
    PROVE  Once'
<1> DEFINE M == {p \in Peers : made[p] = 1}
           J == {p \in Peers : joins[p] = 1}
<1>0. /\ toPage \in Seq(ToPage) /\ linked \subseteq Peers /\ made \in [Peers -> Nat]
      /\ joins \in [Peers -> 0..MaxJoins] /\ M \in SUBSET Peers /\ J \in SUBSET Peers
      /\ connect \in [Links -> {"idle", "direct", "relay"}] /\ WireTypes
  BY DEF LinkTypes, WireTypes, PageTypes, ServerTypes
<1>1. /\ \A p \in Peers : made[p] \in {0, 1} /\ (p \in linked => made[p] = 1)
      /\ \A p \in present : joins[p] = 1
      /\ \A l \in Links : connect[l] # "idle" => l[2] = 1
      /\ Leads(SUBSET Peers, Meets, toPage, M, J)
  BY DEF Once
<1>2. online /\ UNCHANGED <<online, drops>>
  BY StillUndisturbed
<1>n. ~Drops /\ ~Reconnects
  BY <1>2, <1>0 DEF Drops, Reconnects, WireTypes
<1>3. ASSUME NEW p \in Peers, PeerComes(p)
      PROVE  joins[p] = 0 /\ joins' = [joins EXCEPT ![p] = 1] /\ p \notin J /\ J' = J \cup {p}
  <2>1. joins' = [joins EXCEPT ![p] = joins[p] + 1]
    BY <1>3 DEF PeerComes
  <2>2. joins'[p] <= 1
    BY DEF Undisturbed
  <2>3. joins[p] = 0
    BY <1>0, <2>1, <2>2, LinkAssumption
  <2>4. joins' = [joins EXCEPT ![p] = 1]
    BY <2>1, <2>3
  <2>5. \A r \in Peers : joins'[r] = IF r = p THEN 1 ELSE joins[r]
    BY <1>0, <2>4
  <2> QED
    BY <2>3, <2>4, <2>5
<1>4. \A p \in present' : joins'[p] = 1
  <2>1. CASE \E p \in Peers : PeerComes(p)
    <3>1. PICK p \in Peers : PeerComes(p)
      BY <2>1
    <3>2. present' = present \cup {p} /\ joins' = [joins EXCEPT ![p] = 1]
      BY <1>3, <3>1 DEF PeerComes
    <3> QED
      BY <1>0, <1>1, <3>2
  <2>2. CASE \E p \in Peers : PeerGoes(p)
    BY <1>1, <2>2 DEF PeerGoes
  <2>3. CASE ~(\E p \in Peers : PeerComes(p)) /\ ~(\E p \in Peers : PeerGoes(p))
    <3>1. UNCHANGED <<present, joins>>
      BY <1>n, <2>3
         DEF Next, vars, serverVars, PeerOpens, PeerSignals, Acquire, PeerCloses,
             DirectOpens, DirectFails, SignalRefused, Timers, DirectDeadline, RelayTimesOut,
             ConnectResumes, Handles, RecvPeers, RecvLeave, RecvSignal, RecvIncoming, RecvReady,
             RecvError, RecvClose
    <3> QED
      BY <1>1, <3>1
  <2> QED
    BY <2>1, <2>2, <2>3
<1>5. \A l \in Links : connect'[l] # "idle" => l[2] = 1
  <2>1. ASSUME NEW p \in Peers, Acquire(p)
        PROVE  \A l \in Links : connect'[l] # "idle" => l[2] = 1
    <3>1. Current(p)[2] = 1 /\ connect' = [connect EXCEPT ![Current(p)] = "direct"]
      BY <1>1, <2>1 DEF Acquire, Current
    <3> QED
      BY <1>0, <1>1, <3>1
  <2>2. ASSUME NEW l \in Links, ConnectResumes(l) \/ RelayTimesOut(l)
        PROVE  \A k \in Links : connect'[k] # "idle" => k[2] = 1
    <3>1. connect[l] # "idle" /\ \E v : connect' = [connect EXCEPT ![l] = v]
      BY <2>2 DEF ConnectResumes, RelayTimesOut
    <3> QED
      BY <1>0, <1>1, <3>1
  <2>3. ASSUME RecvReady \/ RecvError
        PROVE  \A k \in Links : connect'[k] # "idle" => k[2] = 1
    <3>1. \A k \in Links : connect'[k] = connect[k] \/ connect'[k] = "idle"
      BY <2>3 DEF RecvReady, RecvError
    <3> QED
      BY <1>1, <3>1
  <2>4. CASE ~(\E p \in Peers : Acquire(p)) /\ ~RecvReady /\ ~RecvError
             /\ ~(\E l \in Links : ConnectResumes(l) \/ RelayTimesOut(l))
    <3>1. UNCHANGED connect
      BY <1>n, <2>4
         DEF Next, vars, linkVars, PeerComes, PeerGoes, PeerOpens, PeerSignals, PeerCloses,
             DirectOpens, DirectFails, SignalRefused, Timers, DirectDeadline,
             Handles, RecvPeers, RecvLeave, RecvSignal, RecvIncoming, RecvClose
    <3> QED
      BY <1>1, <3>1
  <2> QED
    BY <2>1, <2>2, <2>3, <2>4
<1> DEFINE Goal == /\ \A p \in Peers : made'[p] \in {0, 1} /\ (p \in linked' => made'[p] = 1)
                   /\ Leads(SUBSET Peers, Meets, toPage', M', J')
<1>a. ASSUME NEW u \in Seq(ToPage), toPage' = toPage \o u, UNCHANGED <<made, linked>>,
             Leads(SUBSET Peers, Meets, u, J, J')
      PROVE  Goal
  <2>1. M' = M
    BY <1>a
  <2>2. Leads(SUBSET Peers, Meets, toPage \o u, M, J')
    BY <1>0, <1>1, <1>a, LeadsConcat
  <2> QED
    BY <1>1, <1>a, <2>1, <2>2
<1>b. ASSUME NEW u \in Seq(ToPage), toPage' = toPage \o u, UNCHANGED <<made, linked, joins>>,
             \A i \in 1..Len(u) : u[i].t # "peer-join"
      PROVE  Goal
  <2>1. J' = J
    BY <1>b
  <2>2. \A i \in 1..Len(u) : u[i] \in ToPage
    BY LenProperties
  <2>3. \A i \in 1..Len(u) : <<u[i], J, J>> \in Meets
    <3> HIDE DEF J
    <3> QED
      BY <1>0, <1>b, <2>2 DEF Meets
  <2>4. Leads(SUBSET Peers, Meets, u, J, J)
    <3> HIDE DEF J
    <3> QED
      BY <1>0, <2>3, LeadsStill
  <2> QED
    BY <1>a, <1>b, <2>1, <2>4
<1>c. ASSUME NEW m \in ToPage, Tells(<<m>>), UNCHANGED <<made, linked, joins>>, m.t # "peer-join"
      PROVE  Goal
  <2>1. <<m>> \in Seq(ToPage) /\ toPage' = toPage \o <<m>> /\ \A i \in 1..Len(<<m>>) : (<<m>>)[i].t # "peer-join"
    BY <1>2, <1>c, OneTyped DEF Tells
  <2> QED
    BY <1>b, <1>c, <2>1
<1>d. ASSUME UNCHANGED <<toPage, made, linked, joins>>
      PROVE  Goal
  <2>1. M' = M /\ J' = J
    BY <1>d
  <2> QED
    BY <1>1, <1>d, <2>1
<1>t. ASSUME NEW kinds, Gets(kinds), Taken, UNCHANGED joins,
             \A p \in Peers : made'[p] = (IF Msg.t = "peer-join" /\ p = Msg.p THEN 1 ELSE made[p]),
             linked' \subseteq (IF Msg.t = "peer-join" THEN linked \cup {Msg.p} ELSE linked)
      PROVE  Goal
  <2>1. toPage # <<>> /\ Msg = Head(toPage) /\ toPage' = Tail(toPage) /\ J' = J
    BY <1>t DEF Gets, Msg, Taken
  <2>2. PICK c \in SUBSET Peers : <<Msg, M, c>> \in Meets /\ Leads(SUBSET Peers, Meets, Tail(toPage), c, J)
    BY <1>0, <1>1, <2>1, LeadsTail
  <2>3. c = IF Msg.t = "peer-join" THEN M \cup {Msg.p} ELSE M
    <3> HIDE DEF M
    <3> QED
      BY <2>2 DEF Meets
  <2>4. M' = c
    BY <1>0, <1>t, <2>2, <2>3
  <2>5. \A p \in Peers : made'[p] \in {0, 1} /\ (p \in linked' => made'[p] = 1)
    BY <1>1, <1>t
  <2> QED
    BY <2>1, <2>2, <2>4, <2>5
<1>6. ASSUME NEW p \in Peers, PeerComes(p)
      PROVE  Goal
  <2> DEFINE m == [t |-> "peer-join", p |-> p]
             h == [i \in 0..1 |-> IF i = 0 THEN J ELSE J \cup {p}]
  <2>1. m \in ToPage /\ m.t = "peer-join" /\ m.p = p
    BY DEF ToPage
  <2>2. toPage' = toPage \o <<m>> /\ UNCHANGED <<made, linked>>
    BY <1>2, <1>6 DEF PeerComes, Tells, pageVars
  <2>3. p \notin J /\ J' = J \cup {p} /\ J' \in SUBSET Peers
    BY <1>0, <1>3, <1>6
  <2> DEFINE K == J'
  <2> HIDE DEF J, K, M, m
  <2>4. <<m, J, K>> \in Meets
    BY <1>0, <2>1, <2>3 DEF Meets, K
  <2>5. Leads(SUBSET Peers, Meets, Append(toPage, m), M, K)
    BY <1>0, <1>1, <2>1, <2>3, <2>4, LeadsAppend DEF K
  <2>6. toPage' = Append(toPage, m)
    BY <1>0, <2>1, <2>2
  <2>7. M' = M
    BY <2>2 DEF M
  <2> QED
    BY <1>1, <2>2, <2>5, <2>6, <2>7 DEF K
<1>7. ASSUME NEW p \in Peers, PeerGoes(p)
      PROVE  Goal
  <2>1. PICK q \in Bijection(1..Cardinality(SessionsOf(p)), SessionsOf(p)) :
          Tells(Append(Closes(q), [t |-> "peer-leave", p |-> p]))
    BY <1>7 DEF PeerGoes
  <2> DEFINE u == Append(Closes(q), [t |-> "peer-leave", p |-> p])
  <2>2. u \in Seq(ToPage) /\ \A i \in 1..Len(u) : u[i].t \in {"peer-leave", "relay-close"}
    BY <2>1, GoodbyeTyped
  <2>3. toPage' = toPage \o u /\ UNCHANGED <<made, linked, joins>>
    BY <1>2, <1>7, <2>1 DEF Tells, PeerGoes, pageVars
  <2> HIDE DEF u
  <2> QED
    BY <1>b, <2>2, <2>3
<1>8. ASSUME NEW p \in Peers, PeerOpens(p) \/ PeerSignals(p)
      PROVE  Goal
  <2>1. UNCHANGED <<made, linked, joins>>
    BY <1>8 DEF PeerOpens, PeerSignals, serverVars, pageVars
  <2>2. \E m \in ToPage : Tells(<<m>>) /\ m.t # "peer-join"
    <3>1. CASE PeerSignals(p)
      <4>1. [t |-> "signal", p |-> p] \in ToPage
        BY DEF ToPage
      <4> QED
        BY <3>1, <4>1 DEF PeerSignals
    <3>2. CASE PeerOpens(p)
      <4>1. [t |-> "relay-incoming", p |-> p, s |-> lastSess'] \in ToPage
        BY <3>2, LinkAssumption DEF ToPage, PeerOpens, LinkTypes, ServerTypes, Sess
      <4> QED
        BY <3>2, <4>1 DEF PeerOpens
    <3> QED
      BY <1>8, <3>1, <3>2
  <2> QED
    BY <1>c, <2>1, <2>2
<1>9. ASSUME NEW s \in Sess, PeerCloses(s)
      PROVE  Goal
  <2>1. UNCHANGED <<made, linked, joins>> /\ Tells(<<[t |-> "relay-close", s |-> s]>>)
    BY <1>9 DEF PeerCloses, pageVars
  <2>2. [t |-> "relay-close", s |-> s] \in ToPage
    BY DEF ToPage
  <2> QED
    BY <1>c, <2>1, <2>2
<1>10. ASSUME NEW l \in Links, ConnectResumes(l) \/ SignalRefused(l)
       PROVE  Goal
  <2> DEFINE e == [t |-> "error"]
             r == [t |-> "relay-ready", p |-> Peer(l), s |-> lastSess']
  <2>1. UNCHANGED <<made, linked, joins>>
    BY <1>10 DEF ConnectResumes, SignalRefused, serverVars, pageVars
  <2>2. CASE UNCHANGED toPage
    BY <1>d, <2>1, <2>2
  <2>3. CASE Tells(<<e>>)
    <3>1. e \in ToPage
      BY DEF ToPage
    <3> QED
      BY <1>c, <2>1, <2>3, <3>1
  <2>4. CASE Tells(<<r>>) /\ lastSess < MaxSess /\ lastSess' = lastSess + 1
    <3>1. lastSess' \in Sess /\ Peer(l) \in Peers
      BY <2>4, LinkAssumption DEF LinkTypes, ServerTypes, Sess, Links, Peer
    <3>2. r \in ToPage
      BY <3>1 DEF ToPage
    <3> QED
      BY <1>c, <2>1, <2>4, <3>2
  <2> QED
    BY <1>10, <2>2, <2>3, <2>4 DEF ConnectResumes, SignalRefused
<1>11. ASSUME NEW l \in Links, DirectOpens(l) \/ DirectFails(l) \/ Timers(l)
       PROVE  Goal
  BY <1>11, <1>d DEF DirectOpens, DirectFails, Timers, DirectDeadline, RelayTimesOut, serverVars,
                     wireVars, pageVars
<1>12. ASSUME NEW p \in Peers, Acquire(p)
       PROVE  Goal
  BY <1>12, <1>d DEF Acquire, serverVars, wireVars
<1>13. ASSUME RecvPeers PROVE Goal
  <2>1. /\ Msg \in ToPage /\ Msg.t = "peer-join" /\ Msg.p \notin linked /\ Taken /\ UNCHANGED joins
        /\ LinkFor({Msg.p}) /\ Msg.p \in Peers
    <3>1. Gets({"welcome", "peer-join"}) /\ Taken /\ UNCHANGED joins
      BY <1>13 DEF RecvPeers, serverVars
    <3>2. Msg \in ToPage /\ Msg.t = "peer-join" /\ Msg.p \notin linked
      BY <3>1, HeadKnown
    <3>3. LinkFor({Msg.p})
      BY <1>13, <3>2 DEF RecvPeers
    <3> QED
      BY <3>1, <3>2, <3>3 DEF ToPage
  <2>2. made[Msg.p] = 0
    <3>1. Leads(SUBSET Peers, Meets, toPage, M, J) /\ toPage # <<>> /\ Msg = Head(toPage)
      BY <1>1, <1>13 DEF RecvPeers, Gets, Msg
    <3>2. PICK c \in SUBSET Peers : <<Msg, M, c>> \in Meets
      BY <1>0, <3>1, LeadsTail
    <3>3. Msg.p \notin M
      <4> HIDE DEF M
      <4> QED
        BY <2>1, <3>2 DEF Meets
    <3> QED
      BY <1>1, <2>1, <3>3
  <2>3. \A p \in Peers : made'[p] = IF p = Msg.p THEN 1 ELSE made[p]
    BY <2>1, <2>2 DEF LinkFor
  <2>4. linked' = linked \cup {Msg.p}
    BY <2>1 DEF LinkFor
  <2>5. Gets({"welcome", "peer-join"})
    BY <1>13 DEF RecvPeers
  <2> QED
    BY <1>t, <2>1, <2>3, <2>4, <2>5
<1>14. ASSUME RecvSignal \/ RecvIncoming PROVE Goal
  <2> DEFINE kinds == {"signal", "relay-incoming"}
  <2>1. Gets(kinds) /\ Taken /\ UNCHANGED joins /\ LinkFor({Msg.p})
    BY <1>14 DEF RecvSignal, RecvIncoming, serverVars, Gets
  <2>2. Msg.t \in kinds /\ Msg.p \in linked
    BY <2>1, HeadKnown
  <2>3. linked' = linked /\ \A p \in Peers : made'[p] = made[p]
    BY <2>1, <2>2 DEF LinkFor
  <2> QED
    BY <1>t, <2>1, <2>2, <2>3
<1>15. ASSUME RecvLeave \/ RecvReady \/ RecvError \/ RecvClose PROVE Goal
  <2> DEFINE kinds == {"peer-leave", "relay-ready", "error", "relay-close"}
  <2>1. Gets(kinds) /\ Taken /\ UNCHANGED <<joins, made>> /\ linked' \subseteq linked
    BY <1>15 DEF RecvLeave, RecvReady, RecvError, RecvClose, serverVars, pageVars, Gets
  <2>2. Msg.t \in kinds
    BY <2>1, HeadKnown
  <2> QED
    BY <1>t, <2>1, <2>2
<1>16. ASSUME UNCHANGED vars PROVE Goal
  BY <1>16, <1>d DEF vars, serverVars, wireVars, pageVars
<1>17. Goal
  <2> HIDE DEF Goal
  <2> QED
    BY <1>n, <1>6, <1>7, <1>8, <1>9, <1>10, <1>11, <1>12, <1>13, <1>14, <1>15, <1>16
       DEF Next, Handles
<1> QED
  BY <1>4, <1>5, <1>17 DEF Once

(* An answer that is under way is the only one for its peer, and is waited *)
(* for.                                                                    *)
LEMMA AskedStep ==
    ASSUME LinkTypes, RosterInv, Undisturbed, drops = 0, Once, Asked, [Next]_vars, Undisturbed'
    PROVE  Asked'
<1>0. /\ toPage \in Seq(ToPage) /\ WireTypes
      /\ connect \in [Links -> {"idle", "direct", "relay"}]
      /\ \A p \in Peers : <<p, 1>> \in Links
      /\ \A l \in Links : Peer(l) \in Peers /\ (connect[l] # "idle" => l = <<Peer(l), 1>>)
  <2>1. \A p \in Peers : <<p, 1>> \in Links
    BY LinkAssumption DEF Links
  <2>2. \A l \in Links : Peer(l) \in Peers /\ (connect[l] # "idle" => l = <<Peer(l), 1>>)
    BY DEF Once, Links, Peer
  <2> QED
    BY <2>1, <2>2 DEF LinkTypes, WireTypes, PageTypes
<1>1. online /\ UNCHANGED <<online, drops, gaveUp>> /\ gaveUp = FALSE
  BY StillUndisturbed DEF Undisturbed, LinkTypes, PageTypes
<1>n. ~Drops /\ ~Reconnects
  BY <1>1, <1>0 DEF Drops, Reconnects, WireTypes
<1> DEFINE Ready(q, i, p) == q[i].t = "relay-ready" /\ q[i].p = p
           Due(q, c) == \A p \in Peers : \A i \in 1..Len(q) : Ready(q, i, p) =>
                            c[<<p, 1>>] = "relay" /\ \A k \in 1..Len(q) : Ready(q, k, p) => k = i
<1>2. Due(toPage, connect)
  BY DEF Asked, IsReady
<1>3. SUFFICES Due(toPage', connect')
  BY DEF Asked, IsReady
<1> DEFINE Goal == Due(toPage', connect')
<1>a. ASSUME UNCHANGED toPage, \A p \in Peers : connect[<<p, 1>>] = "relay" => connect'[<<p, 1>>] = "relay"
      PROVE  Goal
  BY <1>2, <1>a
<1>b. ASSUME NEW u \in Seq(ToPage), toPage' = toPage \o u, UNCHANGED connect,
             \A i \in 1..Len(u) : u[i].t # "relay-ready"
      PROVE  Goal
  <2> DEFINE q == toPage'
  <2>1. /\ Len(toPage) \in Nat /\ Len(u) \in Nat /\ Len(q) = Len(toPage) + Len(u)
        /\ \A i \in 1..Len(q) : q[i] = IF i <= Len(toPage) THEN toPage[i] ELSE u[i - Len(toPage)]
    BY <1>0, <1>b, ConcatProperties, LenProperties
  <2>2. \A i \in 1..Len(q) : q[i].t = "relay-ready" => i \in 1..Len(toPage) /\ q[i] = toPage[i]
    BY <1>b, <2>1
  <2> HIDE DEF q
  <2>3. Due(q, connect)
    BY <1>2, <2>1, <2>2, SMTT(30)
  <2> QED
    BY <1>b, <2>3 DEF q
<1>c. ASSUME NEW m \in ToPage, Tells(<<m>>), UNCHANGED connect, m.t # "relay-ready"
      PROVE  Goal
  <2>1. <<m>> \in Seq(ToPage) /\ toPage' = toPage \o <<m>> /\ \A i \in 1..Len(<<m>>) : (<<m>>)[i].t # "relay-ready"
    BY <1>1, <1>c, OneTyped DEF Tells
  <2> QED
    BY <1>b, <1>c, <2>1
<1>t. ASSUME NEW kinds, Gets(kinds), Taken,
             \A p \in Peers : connect[<<p, 1>>] = "relay" /\ ~(Msg.t = "relay-ready" /\ Msg.p = p)
                                => connect'[<<p, 1>>] = "relay"
      PROVE  Goal
  <2>1. toPage # <<>> /\ Msg = Head(toPage) /\ toPage' = Tail(toPage)
    BY <1>t DEF Gets, Msg, Taken
  <2> DEFINE q == Tail(toPage)
             n == Len(q)
  <2>2. /\ n \in Nat /\ Len(toPage) = n + 1 /\ Msg = toPage[1]
        /\ \A i \in 1..n : q[i] = toPage[i + 1]
    BY <1>0, <2>1, HeadTailProperties, EmptySeq
  <2> HIDE DEF q, n
  <2>3. ASSUME NEW p \in Peers, NEW i \in 1..n, Ready(q, i, p)
        PROVE  connect'[<<p, 1>>] = "relay" /\ \A k \in 1..n : Ready(q, k, p) => k = i
    <3>1. i + 1 \in 1..Len(toPage) /\ Ready(toPage, i + 1, p)
      BY <2>2, <2>3
    <3>2. connect[<<p, 1>>] = "relay" /\ \A k \in 1..Len(toPage) : Ready(toPage, k, p) => k = i + 1
      BY <1>2, <3>1
    <3>3. ~(Msg.t = "relay-ready" /\ Msg.p = p)
      BY <2>2, <3>2
    <3>4. ASSUME NEW k \in 1..n, Ready(q, k, p) PROVE k = i
      <4>1. k + 1 \in 1..Len(toPage) /\ Ready(toPage, k + 1, p)
        BY <2>2, <3>4
      <4> QED
        BY <2>2, <3>2, <4>1
    <3> QED
      BY <1>t, <3>2, <3>3, <3>4
  <2> QED
    BY <2>1, <2>3 DEF q, n
<1>4. ASSUME NEW p \in Peers, PeerComes(p) \/ PeerOpens(p) \/ PeerSignals(p)
      PROVE  Goal
  <2>1. UNCHANGED connect
    BY <1>4 DEF PeerComes, PeerOpens, PeerSignals, linkVars
  <2>2. \E m \in ToPage : Tells(<<m>>) /\ m.t # "relay-ready"
    <3>1. CASE PeerComes(p)
      <4>1. [t |-> "peer-join", p |-> p] \in ToPage
        BY DEF ToPage
      <4> QED
        BY <3>1, <4>1 DEF PeerComes
    <3>2. CASE PeerSignals(p)
      <4>1. [t |-> "signal", p |-> p] \in ToPage
        BY DEF ToPage
      <4> QED
        BY <3>2, <4>1 DEF PeerSignals
    <3>3. CASE PeerOpens(p)
      <4>1. [t |-> "relay-incoming", p |-> p, s |-> lastSess'] \in ToPage
        BY <3>3, LinkAssumption DEF ToPage, PeerOpens, LinkTypes, ServerTypes, Sess
      <4> QED
        BY <3>3, <4>1 DEF PeerOpens
    <3> QED
      BY <1>4, <3>1, <3>2, <3>3
  <2> HIDE DEF Goal
  <2> QED
    BY <1>c, <2>1, <2>2
<1>5. ASSUME NEW p \in Peers, PeerGoes(p)
      PROVE  Goal
  <2>1. PICK q \in Bijection(1..Cardinality(SessionsOf(p)), SessionsOf(p)) :
          Tells(Append(Closes(q), [t |-> "peer-leave", p |-> p]))
    BY <1>5 DEF PeerGoes
  <2> DEFINE u == Append(Closes(q), [t |-> "peer-leave", p |-> p])
  <2>2. u \in Seq(ToPage) /\ \A i \in 1..Len(u) : u[i].t \in {"peer-leave", "relay-close"}
    BY <2>1, GoodbyeTyped
  <2>3. toPage' = toPage \o u /\ UNCHANGED connect
    BY <1>1, <1>5, <2>1 DEF Tells, PeerGoes, linkVars
  <2> HIDE DEF u, Goal
  <2> QED
    BY <1>b, <2>2, <2>3
<1>6. ASSUME NEW s \in Sess, PeerCloses(s)
      PROVE  Goal
  <2>1. UNCHANGED connect /\ Tells(<<[t |-> "relay-close", s |-> s]>>)
    BY <1>6 DEF PeerCloses, linkVars
  <2>2. [t |-> "relay-close", s |-> s] \in ToPage
    BY DEF ToPage
  <2> HIDE DEF Goal
  <2> QED
    BY <1>c, <2>1, <2>2
<1>7. ASSUME NEW l \in Links, SignalRefused(l)
      PROVE  Goal
  <2>1. UNCHANGED connect /\ Tells(<<[t |-> "error"]>>)
    BY <1>7 DEF SignalRefused, linkVars
  <2>2. [t |-> "error"] \in ToPage
    BY DEF ToPage
  <2> HIDE DEF Goal
  <2> QED
    BY <1>c, <2>1, <2>2
<1>8. ASSUME NEW p \in Peers, Acquire(p)
      PROVE  Goal
  <2>1. connect[Current(p)] = "idle" /\ connect' = [connect EXCEPT ![Current(p)] = "direct"] /\ UNCHANGED toPage
    BY <1>8 DEF Acquire, wireVars
  <2>2. \A r \in Peers : connect[<<r, 1>>] = "relay" => connect'[<<r, 1>>] = "relay"
    BY <1>0, <2>1
  <2> QED
    BY <1>a, <2>1, <2>2
<1>9. ASSUME NEW l \in Links, ConnectResumes(l)
      PROVE  Goal
  <2>1. connect[l] = "direct" /\ l = <<Peer(l), 1>> /\ Peer(l) \in Peers
    BY <1>0, <1>9 DEF ConnectResumes
  <2> DEFINE p == Peer(l)
             m == [t |-> "relay-ready", p |-> p, s |-> lastSess']
             e == [t |-> "error"]
  <2>2. \A i \in 1..Len(toPage) : ~Ready(toPage, i, p)
    BY <1>2, <2>1
  <2>3. \/ connect' = [connect EXCEPT ![l] = "idle"] /\ UNCHANGED toPage
        \/ connect' = [connect EXCEPT ![l] = "relay"] /\ UNCHANGED toPage
        \/ connect' = [connect EXCEPT ![l] = "relay"] /\ Tells(<<e>>)
        \/ /\ connect' = [connect EXCEPT ![l] = "relay"] /\ Tells(<<m>>)
           /\ lastSess < MaxSess /\ lastSess' = lastSess + 1
    BY <1>9 DEF ConnectResumes
  <2>4. CASE UNCHANGED toPage
    <3>1. \E v : connect' = [connect EXCEPT ![l] = v]
      BY <2>3
    <3>2. \A r \in Peers : connect[<<r, 1>>] = "relay" => connect'[<<r, 1>>] = "relay"
      BY <1>0, <2>1, <3>1
    <3> QED
      BY <1>a, <2>4, <3>2
  <2>5. ASSUME NEW x \in ToPage, Tells(<<x>>), connect' = [connect EXCEPT ![l] = "relay"],
               x.t = "relay-ready" => x.p = p
        PROVE  Goal
    <3> DEFINE q == Append(toPage, x)
               n == Len(toPage)
    <3>1. toPage' = q
      BY <1>0, <1>1, <2>5 DEF Tells
    <3>2. n \in Nat /\ Len(q) = n + 1 /\ q[n + 1] = x /\ \A i \in 1..n : q[i] = toPage[i]
      BY <1>0, <2>5, AppendProperties, LenProperties
    <3> HIDE DEF q
    <3>3. \A r \in Peers : connect'[<<r, 1>>] = IF r = p THEN "relay" ELSE connect[<<r, 1>>]
      BY <1>0, <2>1, <2>5
    <3>4. ASSUME NEW r \in Peers, NEW i \in 1..(n + 1), Ready(q, i, r)
          PROVE  connect'[<<r, 1>>] = "relay" /\ \A k \in 1..(n + 1) : Ready(q, k, r) => k = i
      <4>1. CASE r = p
        <5>1. \A k \in 1..(n + 1) : Ready(q, k, r) => k = n + 1
          BY <2>2, <3>2, <4>1
        <5> QED
          BY <3>3, <3>4, <4>1, <5>1
      <4>2. CASE r # p
        <5>1. \A k \in 1..(n + 1) : Ready(q, k, r) => k \in 1..n /\ Ready(toPage, k, r)
          BY <2>5, <3>2, <4>2
        <5> QED
          BY <1>2, <3>3, <3>4, <4>2, <5>1
      <4> QED
        BY <4>1, <4>2
    <3> QED
      BY <3>1, <3>2, <3>4
  <2>6. e \in ToPage /\ e.t # "relay-ready"
    BY DEF ToPage
  <2>7. ASSUME lastSess < MaxSess, lastSess' = lastSess + 1 PROVE m \in ToPage /\ m.p = p
    <3>1. lastSess' \in Sess
      BY <2>7, LinkAssumption DEF LinkTypes, ServerTypes, Sess
    <3> QED
      BY <2>1, <3>1 DEF ToPage
  <2> HIDE DEF Goal, p, m, e
  <2> QED
    BY <2>3, <2>4, <2>5, <2>6, <2>7
<1>10. ASSUME NEW l \in Links, DirectOpens(l) \/ DirectFails(l) \/ DirectDeadline(l)
       PROVE  Goal
  BY <1>10, <1>a DEF DirectOpens, DirectFails, DirectDeadline, wireVars
<1>11. ASSUME NEW l \in Links, RelayTimesOut(l)
       PROVE  Goal
  BY <1>1, <1>11 DEF RelayTimesOut
<1>12. ASSUME RecvPeers \/ RecvLeave \/ RecvSignal \/ RecvIncoming \/ RecvClose
       PROVE  Goal
  <2> DEFINE kinds == {"welcome", "peer-join", "peer-leave", "signal", "relay-incoming", "relay-close"}
  <2>1. Gets(kinds) /\ Taken
    BY <1>12 DEF RecvPeers, RecvLeave, RecvSignal, RecvIncoming, RecvClose, Gets
  <2>2. connect' = connect
    BY <1>12 DEF RecvPeers, RecvLeave, RecvSignal, RecvIncoming, RecvClose, linkVars
  <2> HIDE DEF Goal
  <2> QED
    BY <1>t, <2>1, <2>2
<1>13. ASSUME RecvReady
       PROVE  Goal
  <2>1. Gets({"relay-ready"}) /\ Taken /\ Msg.t = "relay-ready"
    BY <1>13 DEF RecvReady, Gets, Msg
  <2>2. \A l \in Links : connect'[l] = connect[l] \/ Peer(l) = Msg.p
    BY <1>13 DEF RecvReady, Waiting
  <2>3. \A p \in Peers : connect[<<p, 1>>] = "relay" /\ ~(Msg.t = "relay-ready" /\ Msg.p = p)
                           => connect'[<<p, 1>>] = "relay"
    BY <1>0, <2>1, <2>2 DEF Peer
  <2> HIDE DEF Goal
  <2> QED
    BY <1>t, <2>1, <2>3
<1>14. ASSUME RecvError
       PROVE  Goal
  <2>1. Gets({"error"}) /\ Taken
    BY <1>14 DEF RecvError
  <2>2. \A l \in Links : connect[l] # "relay"
    BY <1>1, <1>14 DEF RecvError
  <2> HIDE DEF Goal
  <2> QED
    BY <1>0, <1>t, <2>1, <2>2
<1>15. ASSUME UNCHANGED vars
       PROVE  Goal
  BY <1>15, <1>a DEF vars, wireVars, linkVars
<1> QED
  <2> HIDE DEF Goal
  <2>1. Goal
    BY <1>n, <1>4, <1>5, <1>6, <1>7, <1>8, <1>9, <1>10, <1>11, <1>12, <1>13, <1>14, <1>15
       DEF Next, Handles, Timers
  <2> QED
    BY <2>1 DEF Goal

(* A transport that one link builds.                                       *)
LEMMA BuildsOne ==
    ASSUME LinkTypes, NEW l \in Links, NEW s \in Sess, Build({l}, s)
    PROVE  /\ \A k \in Links, r \in Sess :
                transport'[k][r] = IF k = l /\ r = s THEN "open" ELSE transport[k][r]
           /\ \A r \in Sess : active'[r] = IF r = s THEN l ELSE active[r]
<1>1. transport \in [Links -> [Sess -> {"none", "open", "closed"}]] /\ DOMAIN active = Sess
  BY DEF LinkTypes, RelayTypes
<1>2. transport' = [k \in Links |-> IF k \in {l} THEN [transport[k] EXCEPT ![s] = "open"] ELSE transport[k]]
  BY DEF Build
<1>3. active' = [active EXCEPT ![s] = l]
  <2>1. (CHOOSE k \in {l} : TRUE) = l
    OBVIOUS
  <2> QED
    BY <2>1 DEF Build
<1>4. ASSUME NEW k \in Links, NEW r \in Sess
      PROVE  transport'[k][r] = IF k = l /\ r = s THEN "open" ELSE transport[k][r]
  <2>1. DOMAIN transport[k] = Sess
    BY <1>1
  <2> QED
    BY <1>2, <2>1
<1> QED
  BY <1>1, <1>3, <1>4

(* A transport that is closed.                                             *)
LEMMA ClosesOne ==
    ASSUME LinkTypes, NEW l, NEW s \in Sess, MarkClosed(l, s)
    PROVE  /\ \A k \in Links, r \in Sess :
                transport'[k][r] = IF k = l /\ r = s THEN "closed" ELSE transport[k][r]
           /\ \A r \in Sess : active'[r] = IF r = s THEN NoLink ELSE active[r]
<1>1. transport \in [Links -> [Sess -> {"none", "open", "closed"}]] /\ DOMAIN active = Sess
  BY DEF LinkTypes, RelayTypes
<1>2. transport' = [transport EXCEPT ![l][s] = "closed"] /\ active' = [active EXCEPT ![s] = NoLink]
  BY DEF MarkClosed
<1>3. \A k \in Links : DOMAIN transport[k] = Sess
  BY <1>1
<1> QED
  BY <1>1, <1>2, <1>3

(* What the page and the server have of a session stays what the queue     *)
(* says.                                                                   *)
LEMMA TrackedStep ==
    ASSUME LinkTypes, RosterInv, Undisturbed, drops = 0, Once, Asked, NEW s \in Sess, Tracked(s),
           [Next]_vars, Undisturbed'
    PROVE  Tracked(s)'
<1>0. /\ toPage \in Seq(ToPage) /\ WireTypes /\ Has(s) \in Status
      /\ session \in [Sess -> Peers \cup {Nobody}] /\ lastSess \in 0..MaxSess /\ s \in Nat
      /\ transport \in [Links -> [Sess -> {"none", "open", "closed"}]]
      /\ active \in [Sess -> (Peers \X Nat) \cup {NoLink}]
  <2>1. session[s] \in Peers \cup {Nobody}
    BY DEF LinkTypes, ServerTypes
  <2> QED
    BY <2>1, StatusDiffer, LinkAssumption DEF LinkTypes, WireTypes, ServerTypes, RelayTypes, Has, Sess
<1>1. online /\ UNCHANGED <<online, drops, gaveUp>>
  BY StillUndisturbed
<1>n. ~Drops /\ ~Reconnects
  BY <1>0, <1>1 DEF Drops, Reconnects, WireTypes
<1>2. s > lastSess => session[s] = Nobody
  BY DEF Tracked
<1>3. PICK v \in Status : Shows(s, v) /\ Leads(Status, Turns(s), toPage, v, Has(s))
  BY DEF Tracked
<1> DEFINE Page == \A k \in Links : transport'[k][s] = transport[k][s]
           Same == Page /\ active'[s] = active[s]
<1>s. ASSUME Same, NEW w \in Status, Shows(s, w) PROVE Shows(s, w)'
  <2>1. \A k \in Links : Serves(k, s)' <=> Serves(k, s)
    BY <1>s DEF Serves
  <2> QED
    BY <1>s, <2>1 DEF Shows
<1>w. ASSUME (s > lastSess => session[s] = Nobody)',
             NEW w \in Status, Shows(s, w)', Leads(Status, Turns(s), toPage', w, Has(s)')
      PROVE  Tracked(s)'
  BY <1>w DEF Tracked
<1>h. ASSUME lastSess' = lastSess, session'[s] = session[s]
      PROVE  Has(s)' = Has(s) /\ (s > lastSess => session[s] = Nobody)'
  BY <1>2, <1>h DEF Has
<1>a. ASSUME UNCHANGED <<toPage, session, lastSess>>, Same
      PROVE  Tracked(s)'
  BY <1>3, <1>a, <1>h, <1>s, <1>w
<1>b. ASSUME NEW u \in Seq(ToPage), toPage' = toPage \o u, Same, (s > lastSess => session[s] = Nobody)',
             Leads(Status, Turns(s), u, Has(s), Has(s)')
      PROVE  Tracked(s)'
  <2>1. Leads(Status, Turns(s), toPage \o u, v, Has(s)')
    BY <1>0, <1>3, <1>b, LeadsConcat
  <2> QED
    BY <1>3, <1>b, <1>s, <1>w, <2>1
<1>c. ASSUME NEW m \in ToPage, Tells(<<m>>), Same, (s > lastSess => session[s] = Nobody)',
             Has(s)' \in Status, <<m, Has(s), Has(s)'>> \in Turns(s)
      PROVE  Tracked(s)'
  <2>1. toPage' = Append(toPage, m)
    BY <1>0, <1>1, <1>c DEF Tells
  <2>2. Leads(Status, Turns(s), Append(toPage, m), v, Has(s)')
    BY <1>0, <1>3, <1>c, LeadsAppend
  <2> QED
    BY <1>3, <1>c, <1>s, <1>w, <2>1, <2>2
<1>d. ASSUME NEW m \in ToPage, Tells(<<m>>), Same, lastSess' = lastSess, session'[s] = session[s],
             ~Opening(m, s), ~Closing(m, s)
      PROVE  Tracked(s)'
  <2>1. Has(s)' = Has(s) /\ (s > lastSess => session[s] = Nobody)'
    BY <1>d, <1>h
  <2>2. <<m, Has(s), Has(s)>> \in Turns(s)
    BY <1>0, <1>d, TurnRule
  <2> QED
    BY <1>0, <1>c, <1>d, <2>1, <2>2
<1>o. ASSUME NEW m \in ToPage, Tells(<<m>>), Same, m.t \in {"relay-incoming", "relay-ready"},
             lastSess < MaxSess, lastSess' = lastSess + 1, m.s = lastSess', m.p \in Peers,
             session' = [session EXCEPT ![lastSess'] = m.p]
      PROVE  Tracked(s)'
  <2>1. ~Closing(m, s) /\ (Opening(m, s) <=> s = lastSess + 1)
    BY <1>0, <1>o DEF Closing, Opening
  <2>2. CASE s = lastSess + 1
    <3>1. Has(s) = NewS
      BY <1>0, <2>2 DEF Has
    <3>2. session'[s] = m.p /\ m.p # Nobody /\ ~(s > lastSess')
      BY <1>0, <1>o, <2>2, LinkAssumption
    <3>3. Has(s)' = OpenS(m.p)
      BY <3>2 DEF Has, OpenS
    <3>4. Opening(m, s) /\ OpenS(m.p) \in Status /\ NewS \in Status
      BY <1>o, <2>1, <2>2, StatusDiffer
    <3>5. <<m, Has(s), Has(s)'>> \in Turns(s)
      BY <3>1, <3>3, <3>4, TurnRule
    <3> QED
      BY <1>c, <1>o, <3>2, <3>3, <3>4, <3>5
  <2>3. CASE s # lastSess + 1
    <3>1. session'[s] = session[s] /\ (s > lastSess' <=> s > lastSess)
      BY <1>0, <1>o, <2>3
    <3>2. Has(s)' = Has(s) /\ (s > lastSess => session[s] = Nobody)'
      BY <1>2, <3>1 DEF Has
    <3>3. ~Closing(m, s) /\ ~Opening(m, s)
      BY <2>1, <2>3
    <3>4. <<m, Has(s), Has(s)>> \in Turns(s)
      BY <1>0, <3>3, TurnRule
    <3> QED
      BY <1>0, <1>c, <1>o, <3>2, <3>4
  <2> QED
    BY <2>2, <2>3
<1>t. ASSUME NEW kinds, Gets(kinds), Taken, UNCHANGED <<session, lastSess>>,
             \A c \in Status : <<Msg, v, c>> \in Turns(s) => Shows(s, c)'
      PROVE  Tracked(s)'
  <2>1. toPage # <<>> /\ Msg = Head(toPage) /\ toPage' = Tail(toPage)
    BY <1>t DEF Gets, Msg, Taken
  <2>2. PICK c \in Status : <<Msg, v, c>> \in Turns(s) /\ Leads(Status, Turns(s), Tail(toPage), c, Has(s))
    BY <1>0, <1>3, <2>1, LeadsTail
  <2>3. Has(s)' = Has(s) /\ (s > lastSess => session[s] = Nobody)'
    BY <1>h, <1>t
  <2>4. Shows(s, c)'
    BY <1>t, <2>2
  <2> QED
    BY <1>w, <2>1, <2>2, <2>3, <2>4
<1>q. ASSUME NEW kinds, Gets(kinds), Taken, UNCHANGED <<session, lastSess>>, Same,
             Msg \in ToPage, ~Opening(Msg, s), ~Closing(Msg, s)
      PROVE  Tracked(s)'
  <2>1. \A c \in Status : <<Msg, v, c>> \in Turns(s) => Shows(s, c)'
    BY <1>3, <1>q, <1>s, TurnRule
  <2> QED
    BY <1>q, <1>t, <2>1
<1>4. ASSUME NEW p \in Peers, PeerComes(p) \/ PeerSignals(p)
      PROVE  Tracked(s)'
  <2> DEFINE m == [t |-> IF PeerComes(p) THEN "peer-join" ELSE "signal", p |-> p]
  <2>1. m \in ToPage /\ ~Opening(m, s) /\ ~Closing(m, s)
    BY DEF ToPage, Opening, Closing
  <2>2. Tells(<<m>>)
    BY <1>4 DEF PeerComes, PeerSignals
  <2>3. lastSess' = lastSess /\ session' = session /\ Same
    BY <1>4 DEF PeerComes, PeerSignals, serverVars, linkVars
  <2> HIDE DEF m
  <2> QED
    BY <1>d, <2>1, <2>2, <2>3
<1>5. ASSUME NEW p \in Peers, PeerGoes(p)
      PROVE  Tracked(s)'
  <2>1. PICK q \in Bijection(1..Cardinality(SessionsOf(p)), SessionsOf(p)) :
          Tells(Append(Closes(q), [t |-> "peer-leave", p |-> p]))
    BY <1>5 DEF PeerGoes
  <2> DEFINE u == Append(Closes(q), [t |-> "peer-leave", p |-> p])
  <2>2. /\ u \in Seq(ToPage)
        /\ \A i \in 1..Len(u) : \/ u[i].t = "peer-leave"
                                \/ u[i].t = "relay-close" /\ u[i].s \in SessionsOf(p)
        /\ \A r \in SessionsOf(p) : \E i \in 1..Len(u) : Closing(u[i], r)
    BY <2>1, GoodbyeTyped
  <2>3. /\ toPage' = toPage \o u /\ Same /\ lastSess' = lastSess
        /\ session' = [r \in Sess |-> IF session[r] = p THEN Nobody ELSE session[r]]
    BY <1>1, <1>5, <2>1 DEF Tells, PeerGoes, linkVars
  <2> HIDE DEF u
  <2>4. Len(u) \in Nat /\ \A i \in 1..Len(u) : u[i] \in ToPage /\ ~Opening(u[i], s)
    BY <2>2, LenProperties DEF Opening
  <2>5. CASE session[s] # p
    <3>1. session'[s] = session[s]
      BY <2>3, <2>5
    <3>2. Has(s)' = Has(s) /\ (s > lastSess => session[s] = Nobody)'
      BY <1>h, <2>3, <3>1
    <3>3. ASSUME NEW i \in 1..Len(u) PROVE <<u[i], Has(s), Has(s)>> \in Turns(s)
      <4>1. ~Closing(u[i], s)
        BY <2>2, <2>5 DEF Closing, SessionsOf
      <4> QED
        BY <1>0, <2>4, <4>1, TurnRule
    <3>4. Leads(Status, Turns(s), u, Has(s), Has(s))
      BY <1>0, <2>2, <3>3, LeadsStill
    <3> QED
      BY <1>b, <2>2, <2>3, <3>2, <3>4
  <2>6. CASE session[s] = p
    <3>1. session[s] # Nobody /\ ~(s > lastSess) /\ session'[s] = Nobody /\ s \in SessionsOf(p)
      BY <1>2, <2>3, <2>6, LinkAssumption DEF SessionsOf
    <3>2. Has(s) = OpenS(p) /\ Has(s)' = OverS /\ (s > lastSess => session[s] = Nobody)'
      BY <2>3, <2>6, <3>1 DEF Has
    <3> DEFINE Done(i) == \E k \in 1..i : Closing(u[k], s)
               h == [i \in 0..Len(u) |-> IF Done(i) THEN OverS ELSE OpenS(p)]
    <3>3. h \in [0..Len(u) -> Status]
      <4> HIDE DEF Done
      <4> QED
        BY StatusDiffer
    <3>4. h[0] = OpenS(p) /\ h[Len(u)] = OverS
      <4>1. ~Done(0) /\ Done(Len(u))
        BY <2>2, <3>1
      <4> HIDE DEF Done
      <4> QED
        BY <2>4, <4>1
    <3>5. ASSUME NEW i \in 1..Len(u) PROVE <<u[i], h[i - 1], h[i]>> \in Turns(s)
      <4>1. i - 1 \in 0..Len(u) /\ i \in 0..Len(u) /\ (Done(i) <=> Done(i - 1) \/ Closing(u[i], s))
        BY <2>4
      <4> HIDE DEF Done
      <4>2. h[i - 1] \in Status /\ h[i] \in Status /\ h[i - 1] # NewS
        BY <3>3, <4>1, StatusDiffer
      <4>3. Closing(u[i], s) => h[i] = OverS
        BY <4>1
      <4>4. ~Closing(u[i], s) => h[i] = h[i - 1]
        BY <4>1
      <4> HIDE DEF h
      <4> QED
        BY <2>4, <4>2, <4>3, <4>4, TurnRule
    <3> HIDE DEF h
    <3>6. Leads(Status, Turns(s), u, Has(s), Has(s)')
      BY <3>2, <3>3, <3>4, <3>5 DEF Leads
    <3> QED
      BY <1>b, <2>2, <2>3, <3>2, <3>6
  <2> QED
    BY <2>5, <2>6
<1>6. ASSUME NEW p \in Peers, PeerOpens(p)
      PROVE  Tracked(s)'
  <2> DEFINE m == [t |-> "relay-incoming", p |-> p, s |-> lastSess']
  <2>1. /\ Tells(<<m>>) /\ Same /\ lastSess < MaxSess /\ lastSess' = lastSess + 1
        /\ session' = [session EXCEPT ![lastSess'] = p]
    BY <1>6 DEF PeerOpens, linkVars
  <2>2. m \in ToPage /\ m.t = "relay-incoming" /\ m.s = lastSess' /\ m.p = p
    BY <1>0, <2>1, LinkAssumption DEF ToPage, Sess
  <2> HIDE DEF m
  <2> QED
    BY <1>o, <2>1, <2>2
<1>7. ASSUME NEW r \in Sess, PeerCloses(r)
      PROVE  Tracked(s)'
  <2> DEFINE m == [t |-> "relay-close", s |-> r]
  <2>1. /\ Tells(<<m>>) /\ Same /\ lastSess' = lastSess /\ session[r] # Nobody
        /\ session' = [session EXCEPT ![r] = Nobody]
    BY <1>7 DEF PeerCloses, linkVars
  <2>2. m \in ToPage /\ ~Opening(m, s) /\ (Closing(m, s) <=> r = s)
    BY DEF ToPage, Opening, Closing
  <2> HIDE DEF m
  <2>3. CASE r # s
    <3>1. session'[s] = session[s]
      BY <1>0, <2>1, <2>3
    <3> QED
      BY <1>d, <2>1, <2>2, <2>3, <3>1
  <2>4. CASE r = s
    <3>1. session'[s] = Nobody /\ ~(s > lastSess)
      BY <1>0, <1>2, <2>1, <2>4
    <3>2. Has(s)' = OverS /\ (s > lastSess => session[s] = Nobody)'
      BY <2>1, <3>1 DEF Has
    <3>3. session[s] \in Peers /\ Has(s) = OpenS(session[s])
      BY <1>0, <2>1, <2>4, <3>1 DEF Has
    <3>4. <<m, Has(s), Has(s)'>> \in Turns(s)
      BY <1>0, <2>2, <2>4, <3>2, <3>3, TurnRule, StatusDiffer
    <3> QED
      BY <1>c, <2>1, <2>2, <3>2, <3>4, StatusDiffer
  <2> QED
    BY <2>3, <2>4
<1>8. ASSUME NEW l \in Links, SignalRefused(l) \/ ConnectResumes(l)
      PROVE  Tracked(s)'
  <2> DEFINE e == [t |-> "error"]
             m == [t |-> "relay-ready", p |-> Peer(l), s |-> lastSess']
  <2>1. Same
    BY <1>8 DEF SignalRefused, ConnectResumes, linkVars
  <2>2. \/ UNCHANGED <<session, lastSess, toPage>>
        \/ UNCHANGED <<session, lastSess>> /\ Tells(<<e>>)
        \/ /\ lastSess < MaxSess /\ lastSess' = lastSess + 1 /\ Tells(<<m>>)
           /\ session' = [session EXCEPT ![lastSess'] = Peer(l)]
    BY <1>8 DEF SignalRefused, ConnectResumes, serverVars
  <2>3. CASE UNCHANGED <<session, lastSess, toPage>>
    BY <1>a, <2>1, <2>3
  <2>4. CASE UNCHANGED <<session, lastSess>> /\ Tells(<<e>>)
    <3>1. e \in ToPage /\ ~Opening(e, s) /\ ~Closing(e, s)
      BY DEF ToPage, Opening, Closing
    <3> HIDE DEF e
    <3> QED
      BY <1>d, <2>1, <2>4, <3>1
  <2>5. CASE /\ lastSess < MaxSess /\ lastSess' = lastSess + 1 /\ Tells(<<m>>)
             /\ session' = [session EXCEPT ![lastSess'] = Peer(l)]
    <3>1. lastSess' \in Sess /\ Peer(l) \in Peers
      BY <1>0, <2>5, LinkAssumption DEF Sess, Links, Peer
    <3>2. m \in ToPage /\ m.t = "relay-ready" /\ m.s = lastSess' /\ m.p = Peer(l)
      BY <3>1 DEF ToPage
    <3> HIDE DEF m
    <3> QED
      BY <1>o, <2>1, <2>5, <3>1, <3>2
  <2> QED
    BY <2>2, <2>3, <2>4, <2>5
<1>9. ASSUME NEW l \in Links, DirectOpens(l) \/ DirectFails(l) \/ Timers(l)
      PROVE  Tracked(s)'
  BY <1>9, <1>a DEF DirectOpens, DirectFails, Timers, DirectDeadline, RelayTimesOut, serverVars, wireVars
<1>10. ASSUME NEW p \in Peers, Acquire(p)
       PROVE  Tracked(s)'
  BY <1>10, <1>a DEF Acquire, serverVars, wireVars
<1>11. CASE UNCHANGED vars
  BY <1>11, <1>a DEF vars, serverVars, wireVars, linkVars
<1>12. CASE RecvPeers \/ RecvSignal \/ RecvError
  <2> DEFINE kinds == {"welcome", "peer-join", "signal", "error"}
  <2>1. Gets(kinds) /\ Taken /\ UNCHANGED <<session, lastSess>> /\ Same
    BY <1>12 DEF RecvPeers, RecvSignal, RecvError, serverVars, Gets
  <2>2. Msg \in ToPage /\ Msg.t \in kinds
    BY <2>1, HeadKnown
  <2>3. ~Opening(Msg, s) /\ ~Closing(Msg, s)
    BY <2>2 DEF Opening, Closing
  <2> QED
    BY <1>q, <2>1, <2>2, <2>3
(* A session that is opened: the link of its peer builds a transport, and  *)
(* there was none.                                                         *)
<1>g. ASSUME NEW kinds, Gets(kinds), Taken, UNCHANGED <<session, lastSess>>, Msg \in ToPage,
             Msg.t \in {"relay-incoming", "relay-ready"}, NEW l \in Links, Peer(l) = Msg.p,
             Build({l}, Msg.s)
      PROVE  Tracked(s)'
  <2>1. Msg.s \in Sess /\ Msg.p \in Peers
    BY <1>g DEF ToPage
  <2>2. /\ \A k \in Links : transport'[k][s] = IF k = l /\ s = Msg.s THEN "open" ELSE transport[k][s]
        /\ active'[s] = IF s = Msg.s THEN l ELSE active[s]
    <3> DEFINE x == Msg.s
    <3>1. x \in Sess /\ Build({l}, x)
      BY <1>g, <2>1
    <3> HIDE DEF x
    <3>2. /\ \A k \in Links, r \in Sess :
               transport'[k][r] = IF k = l /\ r = x THEN "open" ELSE transport[k][r]
          /\ \A r \in Sess : active'[r] = IF r = x THEN l ELSE active[r]
      BY <3>1, BuildsOne
    <3> QED
      BY <3>2 DEF x
  <2>3. CASE s # Msg.s
    <3>1. Same /\ ~Opening(Msg, s) /\ ~Closing(Msg, s)
      BY <1>g, <2>2, <2>3 DEF Opening, Closing
    <3> QED
      BY <1>g, <1>q, <3>1
  <2>4. CASE s = Msg.s
    <3>1. Opening(Msg, s)
      BY <1>g, <2>4 DEF Opening
    <3>2. ASSUME NEW c \in Status, <<Msg, v, c>> \in Turns(s) PROVE Shows(s, c)'
      <4>1. v = NewS /\ c = OpenS(Msg.p)
        BY <1>g, <3>1, <3>2, TurnRule
      <4>2. \A k \in Links : transport[k][s] = "none"
        BY <1>3, <4>1 DEF Shows
      <4>3. Peer(l) = Msg.p /\ Serves(l, s)' /\ \A k \in Links : transport'[k][s] = "open" => k = l
        BY <1>g, <2>2, <2>4, <4>2 DEF Serves
      <4>4. c # NewS /\ c # OverS /\ \A p \in Peers : c = OpenS(p) => p = Msg.p
        BY <2>1, <4>1, StatusDiffer
      <4> QED
        BY <4>3, <4>4 DEF Shows
    <3> QED
      BY <1>g, <1>t, <3>2
  <2> QED
    BY <2>3, <2>4
<1>13. CASE RecvIncoming
  <2>1. Gets({"relay-incoming"}) /\ Taken /\ UNCHANGED <<session, lastSess>> /\ LinkFor({Msg.p})
        /\ Build({<<Msg.p, made'[Msg.p]>>}, Msg.s)
    BY <1>13 DEF RecvIncoming, serverVars
  <2>2. Msg \in ToPage /\ Msg.t = "relay-incoming" /\ Msg.p \in linked /\ Msg.p \in Peers
    BY <2>1, HeadKnown DEF LinkTypes, PageTypes
  <2>3. made'[Msg.p] = 1
    BY <2>1, <2>2 DEF LinkFor, Once
  <2>4. <<Msg.p, 1>> \in Links /\ Peer(<<Msg.p, 1>>) = Msg.p
    BY <2>2, LinkAssumption DEF Links, Peer
  <2> QED
    BY <1>g, <2>1, <2>2, <2>3, <2>4
<1>14. CASE RecvReady
  <2>1. Gets({"relay-ready"}) /\ Taken /\ UNCHANGED <<session, lastSess>>
    BY <1>14 DEF RecvReady, serverVars
  <2>2. Msg \in ToPage /\ Msg.t = "relay-ready" /\ Msg.p \in Peers /\ Msg = Head(toPage) /\ toPage # <<>>
    BY <2>1, HeadKnown DEF ToPage
  <2> DEFINE l == <<Msg.p, 1>>
  <2>3. l \in Links /\ Peer(l) = Msg.p
    BY <2>2, LinkAssumption DEF Links, Peer
  <2>4. connect[l] = "relay"
    <3>1. 1 \in 1..Len(toPage) /\ toPage[1] = Msg
      BY <1>0, <2>2, HeadTailProperties, EmptySeq
    <3>2. IsReady(1, Msg.p)
      BY <2>2, <3>1 DEF IsReady
    <3> QED
      BY <2>2, <3>1, <3>2 DEF Asked
  <2>5. Waiting(Msg.p) = {l}
    <3>1. \A k \in Links : Peer(k) = Msg.p /\ connect[k] = "relay" => k = l
      BY DEF Once, Links, Peer
    <3> QED
      BY <2>3, <2>4, <3>1 DEF Waiting
  <2>6. Build({l}, Msg.s)
    BY <1>14, <2>5 DEF RecvReady
  <2> HIDE DEF l
  <2> QED
    BY <1>g, <2>1, <2>2, <2>3, <2>6
<1>15. CASE RecvClose
  <2> DEFINE l == active[Msg.s]
  <2>1. Gets({"relay-close"}) /\ Taken /\ UNCHANGED <<session, lastSess>>
        /\ IF l # NoLink THEN MarkClosed(l, Msg.s) ELSE UNCHANGED <<transport, active>>
    BY <1>15 DEF RecvClose, serverVars
  <2>2. Msg \in ToPage /\ Msg.t = "relay-close" /\ Msg.s \in Sess
    BY <2>1, HeadKnown DEF ToPage
  <2>3. CASE s # Msg.s
    <3>1. Same
      BY <2>1, <2>2, <2>3, ClosesOne
    <3>2. ~Opening(Msg, s) /\ ~Closing(Msg, s)
      BY <2>2, <2>3 DEF Opening, Closing
    <3> QED
      BY <1>q, <2>1, <2>2, <3>1, <3>2
  <2>4. CASE s = Msg.s
    <3>1. Closing(Msg, s)
      BY <2>2, <2>4 DEF Closing
    <3>2. ASSUME NEW c \in Status, <<Msg, v, c>> \in Turns(s) PROVE Shows(s, c)'
      <4>1. v # NewS /\ c = OverS
        BY <2>2, <3>1, <3>2, TurnRule
      <4>2. \A k \in Links : transport'[k][s] # "open"
        <5>1. CASE v = OverS
          <6>1. \A k \in Links : transport[k][s] # "open"
            BY <1>3, <5>1 DEF Shows
          <6> QED
            BY <2>1, <2>2, <6>1, ClosesOne
        <5>2. CASE v # OverS
          <6>1. PICK p \in Peers : v = OpenS(p)
            BY <4>1, <5>2, StatusDiffer
          <6>2. PICK k \in Links : Serves(k, s) /\ \A j \in Links : transport[j][s] = "open" => j = k
            BY <1>3, <6>1 DEF Shows
          <6>3. l = k /\ l # NoLink
            BY <2>4, <6>2, LinkAssumption DEF Serves, NoLink, Links
          <6>4. \A j \in Links : transport'[j][s] = IF j = l THEN "closed" ELSE transport[j][s]
            BY <2>1, <2>2, <2>4, <6>3, ClosesOne
          <6> QED
            BY <6>2, <6>3, <6>4
        <5> QED
          BY <5>1, <5>2
      <4>3. c # NewS /\ \A p \in Peers : c # OpenS(p)
        BY <4>1, StatusDiffer
      <4> QED
        BY <4>2, <4>3 DEF Shows
    <3> QED
      BY <1>t, <2>1, <3>2
  <2> QED
    BY <2>3, <2>4
<1>16. CASE RecvLeave
  <2> DEFINE l == Current(Msg.p)
             r == relay[l]
  <2>1. Gets({"peer-leave"}) /\ Taken /\ lastSess' = lastSess
    BY <1>16 DEF RecvLeave
  <2>2. Msg \in ToPage /\ Msg.t = "peer-leave" /\ Msg.p \in Peers /\ Msg.p \in linked
        /\ Msg = Head(toPage) /\ toPage # <<>>
    BY <2>1, HeadKnown DEF ToPage
  <2>3. l \in Links
    BY <2>2, LinkAssumption DEF Current, Once, Links
  <2>4. IF r # 0 /\ transport[l][r] = "open"
        THEN MarkClosed(l, r) /\ session' = [session EXCEPT ![r] = Nobody]
        ELSE UNCHANGED <<transport, active, session>>
    BY <1>16, <2>2 DEF RecvLeave
  <2>5. r \in 0..MaxSess
    BY <2>3 DEF LinkTypes, RelayTypes
  <2> HIDE DEF l, r
  <2>6. ~Opening(Msg, s) /\ ~Closing(Msg, s)
    BY <2>2 DEF Opening, Closing
  <2>7. CASE ~(r # 0 /\ transport[l][r] = "open" /\ s = r)
    <3>1. Same /\ session'[s] = session[s]
      <4>1. CASE r # 0 /\ transport[l][r] = "open"
        <5>1. r \in Sess /\ r # s /\ MarkClosed(l, r)
          BY <2>4, <2>5, <2>7, <4>1, LinkAssumption DEF Sess
        <5>2. Same
          BY <5>1, ClosesOne
        <5>3. session'[s] = session[s]
          BY <1>0, <2>4, <4>1, <5>1
        <5> QED
          BY <5>2, <5>3
      <4>2. CASE ~(r # 0 /\ transport[l][r] = "open")
        BY <2>4, <4>2
      <4> QED
        BY <4>1, <4>2
    <3>2. PICK c \in Status : <<Msg, v, c>> \in Turns(s) /\ Leads(Status, Turns(s), Tail(toPage), c, Has(s))
      BY <1>0, <1>3, <2>2, LeadsTail
    <3>3. c = v
      BY <2>2, <2>6, <3>2, TurnRule
    <3>4. Has(s)' = Has(s) /\ (s > lastSess => session[s] = Nobody)'
      BY <1>h, <2>1, <3>1
    <3>5. toPage' = Tail(toPage) /\ Shows(s, v)'
      BY <1>3, <1>s, <2>1, <3>1 DEF Taken
    <3> QED
      BY <1>3, <1>w, <3>2, <3>3, <3>4, <3>5
  <2>8. CASE r # 0 /\ transport[l][r] = "open" /\ s = r
    <3>1. /\ \A k \in Links : transport'[k][s] = IF k = l THEN "closed" ELSE transport[k][s]
          /\ session'[s] = Nobody
      BY <1>0, <2>4, <2>8, ClosesOne
    <3>2. transport[l][s] = "open" /\ v # NewS
      BY <1>3, <2>3, <2>8 DEF Shows
    <3>3. \A k \in Links : transport[k][s] = "open" => k = l
      <4>1. v # OverS
        BY <1>3, <2>3, <3>2 DEF Shows
      <4>2. PICK p \in Peers : v = OpenS(p)
        BY <3>2, <4>1, StatusDiffer
      <4> QED
        BY <1>3, <2>3, <3>2, <4>2 DEF Shows
    <3>4. \A k \in Links : transport'[k][s] # "open"
      BY <3>1, <3>3
    <3>5. PICK c \in Status : <<Msg, v, c>> \in Turns(s) /\ Leads(Status, Turns(s), Tail(toPage), c, Has(s))
      BY <1>0, <1>3, <2>2, LeadsTail
    <3>6. c = v
      BY <2>2, <2>6, <3>5, TurnRule
    <3>7. Tail(toPage) \in Seq(ToPage)
      BY <1>0, <2>2, HeadTailProperties
    <3>8. Has(s) # NewS /\ Leads(Status, Turns(s), Tail(toPage), OverS, OverS)
      BY <3>2, <3>5, <3>6, <3>7, NeverNew
    <3>9. ~(s > lastSess)
      BY <3>8 DEF Has
    <3>10. Has(s)' = OverS /\ (s > lastSess => session[s] = Nobody)'
      BY <2>1, <3>1, <3>9 DEF Has
    <3>11. toPage' = Tail(toPage) /\ Shows(s, OverS)'
      BY <2>1, <3>4, StatusDiffer DEF Taken, Shows
    <3> QED
      BY <1>w, <3>8, <3>10, <3>11, StatusDiffer
  <2> QED
    BY <2>7, <2>8
<1> QED
  BY <1>n, <1>4, <1>5, <1>6, <1>7, <1>8, <1>9, <1>10, <1>11, <1>12, <1>13, <1>14, <1>15, <1>16
     DEF Next, Handles

(* As long as the connection lasts, no attempt was given up before its     *)
(* answer came and no device has come back, page and server agree, once    *)
(* nothing is under way, which relay sessions exist: each has one          *)
(* transport that is told of its close, and none outlives its session      *)
(* (relay.js:29-72, app.js:212-217).                                       *)
THEOREM SessionsFollow == Spec => []SessionsAgree
<1>1. Init => LinkTypes /\ RosterInv /\ SessionInv
  <2> SUFFICES ASSUME Init PROVE LinkTypes /\ RosterInv /\ SessionInv
    OBVIOUS
  <2>1. LinkTypes /\ RosterInv
    BY TypesInit, RosterInit
  <2>2. Once
    <3> DEFINE M == {p \in Peers : made[p] = 1}
               J == {p \in Peers : joins[p] = 1}
    <3>1. M = {} /\ J = {} /\ toPage = <<>>
      BY DEF Init
    <3>2. Leads(SUBSET Peers, Meets, <<>>, {}, {})
      BY LeadsNowhere
    <3>3. Leads(SUBSET Peers, Meets, toPage, M, J)
      BY <3>1, <3>2
    <3> QED
      BY <3>3 DEF Init, Once
  <2>3. Asked
    BY DEF Init, Asked
  <2>4. ASSUME NEW s \in Sess PROVE Tracked(s)
    <3>1. s > lastSess /\ toPage = <<>> /\ session[s] = Nobody
      BY <2>4 DEF Init, Sess
    <3>2. Has(s) = NewS
      BY <3>1 DEF Has
    <3>3. Shows(s, NewS)
      BY StatusDiffer DEF Init, Shows
    <3>4. Leads(Status, Turns(s), toPage, NewS, Has(s))
      BY <3>1, <3>2, LeadsNowhere, StatusDiffer
    <3> QED
      BY <3>1, <3>3, <3>4, StatusDiffer DEF Tracked
  <2> QED
    BY <2>1, <2>2, <2>3, <2>4 DEF SessionInv
<1>2. LinkTypes /\ RosterInv /\ SessionInv /\ [Next]_vars => LinkTypes' /\ RosterInv' /\ SessionInv'
  <2> SUFFICES ASSUME LinkTypes, RosterInv, SessionInv, [Next]_vars
               PROVE  LinkTypes' /\ RosterInv' /\ SessionInv'
    OBVIOUS
  <2>1. LinkTypes' /\ RosterInv'
    BY TypesStep, RosterStep
  <2>2. ASSUME Undisturbed' PROVE Once' /\ Asked' /\ \A s \in Sess : Tracked(s)'
    <3>1. Undisturbed /\ drops = 0
      BY <2>2, StillUndisturbed DEF Undisturbed
    <3>2. Once /\ Asked /\ \A s \in Sess : Tracked(s)
      BY <3>1 DEF SessionInv
    <3> QED
      BY <2>2, <3>1, <3>2, OnceStep, AskedStep, TrackedStep
  <2>3. SessionInv'
    BY <2>2 DEF SessionInv
  <2> QED
    BY <2>1, <2>3
<1>3. LinkTypes /\ RosterInv /\ SessionInv => SessionsAgree
  <2> SUFFICES ASSUME LinkTypes, SessionInv, Quiet, Undisturbed, NEW s \in Sess
               PROVE  /\ \A l \in Links : transport[l][s] = "open" => session[s] = Peer(l) /\ active[s] = l
                      /\ session[s] # Nobody => \E l \in Links : Peer(l) = session[s] /\ Serves(l, s)
    BY DEF SessionsAgree
  <2>1. PICK v \in Status : Shows(s, v) /\ Leads(Status, Turns(s), toPage, v, Has(s))
    BY DEF SessionInv, Tracked
  <2>2. v = Has(s) /\ (s > lastSess => session[s] = Nobody) /\ session[s] \in Peers \cup {Nobody}
    BY <2>1, LeadsNowhere DEF Quiet, SessionInv, Tracked, LinkTypes, ServerTypes
  <2>3. CASE session[s] = Nobody
    <3>1. v = NewS \/ v = OverS
      BY <2>2, <2>3 DEF Has
    <3>2. \A l \in Links : transport[l][s] # "open"
      BY <2>1, <3>1 DEF Shows
    <3> QED
      BY <2>3, <3>2
  <2>4. CASE session[s] # Nobody
    <3>1. session[s] \in Peers /\ v = OpenS(session[s])
      BY <2>2, <2>4 DEF Has
    <3>2. PICK l \in Links : /\ Peer(l) = session[s] /\ Serves(l, s)
                             /\ \A k \in Links : transport[k][s] = "open" => k = l
      BY <2>1, <3>1 DEF Shows
    <3> QED
      BY <3>2 DEF Serves
  <2> QED
    BY <2>3, <2>4
<1> QED
  BY <1>1, <1>2, <1>3, PTL DEF Spec
=============================================================================
