-------------------------- MODULE NegotiationProofs --------------------------
(***************************************************************************)
(* Proofs about the negotiation of two pages, for any number of candidates *)
(* and of losses.                                                          *)
(***************************************************************************)
EXTENDS Negotiation, SequenceTheorems, TLAPS

(* What a page describes, signals and asks of its browser.                 *)
OffersOf(p)  == {Offer(p, n) : n \in 1..(MaxLosses + 1)}
AnswersOf(p) == {Answer(p, n, o) : n \in 1..(MaxLosses + 1), o \in OffersOf(Other(p))}
DescsOf(p)   == OffersOf(p) \cup AnswersOf(p)
CandsOf(p)   == [of : DescsOf(p), n : 1..Candidates]

SignalsOf(p) == [k : {"description"}, d : DescsOf(p)] \cup [k : {"candidate"}, d : CandsOf(p)]
FromServer   == [k : {"welcome"}, peers : SUBSET Page] \cup [k : {"peer-join", "peer-leave"}]
ToPage(p)    == FromServer \cup SignalsOf(Other(p))

OpsOf(p) == {SetLocal("needed"), SetLocal("signal")}
            \cup {SetRemote(d) : d \in DescsOf(Other(p))}
            \cup {AddCandidate(d) : d \in CandsOf(Other(p))}

(* The types, page by page.                                                *)
Shapes ==
    /\ up = [p \in Page |-> up[p]] /\ dn = [p \in Page |-> dn[p]]
    /\ born = [p \in Page |-> born[p]] /\ sig = [p \in Page |-> sig[p]]
    /\ ops = [p \in Page |-> ops[p]]
    /\ loc = [p \in Page |-> loc[p]] /\ rem = [p \in Page |-> rem[p]]
    /\ making = [p \in Page |-> making[p]] /\ ignoring = [p \in Page |-> ignoring[p]]
    /\ gathered = [p \in Page |-> gathered[p]] /\ added = [p \in Page |-> added[p]]

ServerTypes ==
    /\ online \subseteq Page /\ losses \in 0..MaxLosses /\ clean \in BOOLEAN

WireTypes(p) ==
    /\ up[p] \in Seq(SignalsOf(p)) /\ dn[p] \in Seq(ToPage(p))
    /\ p \notin online => dn[p] = <<>>

(* An offer is being made exactly while its operation is the first.        *)
Needs(p, i) == ops[p][i] = SetLocal("needed")

ChainTypes(p) ==
    /\ ops[p] \in Seq(OpsOf(p)) /\ born[p] \in Nat /\ sig[p] \in States
    /\ sig[p] = "none" => ops[p] = <<>>
    /\ sig[p] # "none" => born[p] # 0
    /\ \A i \in 1..Len(ops[p]) : Needs(p, i) => i = 1

Flags(p) ==
    /\ making[p] \in BOOLEAN /\ ignoring[p] \in BOOLEAN
    /\ making[p] <=> ops[p] # <<>> /\ Needs(p, 1)

DescTypes(p) ==
    /\ loc[p] \in DescsOf(p) \cup {NoDesc}
    /\ rem[p] \in DescsOf(Other(p)) \cup {NoDesc}
    /\ sig[p] = "have-local-offer" => loc[p] \in OffersOf(p)
    /\ sig[p] = "have-remote-offer" => rem[p] \in OffersOf(Other(p))
    /\ loc[p] \in AnswersOf(p) => rem[p] \in OffersOf(Other(p))
    /\ gathered[p] \in 0..Candidates /\ added[p] \subseteq 1..Candidates

(* The losses a page has been or will be told of are no more than there    *)
(* were: h counts them before and after each message.                      *)
Counts(s, n, h) ==
    /\ h \in [0..Len(s) -> 0..n]
    /\ \A i \in 1..Len(s) :
         IF s[i].k = "peer-leave" THEN h[i - 1] < h[i] ELSE h[i - 1] <= h[i]

Lived(p, a) == born[p] <= IF sig[p] = "none" THEN a ELSE a + 1

Bounded(p) == \E h \in [0..Len(dn[p]) -> 0..losses] :
    Counts(dn[p], losses, h) /\ Lived(p, h[0])

PageInv(p) == WireTypes(p) /\ ChainTypes(p) /\ Flags(p) /\ DescTypes(p) /\ Bounded(p)

TypeInv == Shapes /\ ServerTypes /\ \A p \in Page : PageInv(p)

----------------------------------------------------------------------------
(* There are two pages, one polite and one not.                            *)
LEMMA Pair ==
    ASSUME NEW p \in Page
    PROVE  /\ Other(p) \in Page /\ Other(p) # p /\ Other(Other(p)) = p
           /\ polite(Other(p)) <=> ~polite(p)
           /\ \A q \in Page : q = p \/ q = Other(p)
  BY DEF Page, Other, polite

LEMMA Twins ==
    ASSUME NEW p \in Page, NEW q \in Page, q # p
    PROVE  q = Other(p)
  BY DEF Page, Other

(* Queues, entry by entry.                                                 *)
LEMMA TailAt ==
    ASSUME NEW S, NEW s \in Seq(S), s # <<>>
    PROVE  /\ Tail(s) \in Seq(S) /\ Len(Tail(s)) = Len(s) - 1 /\ Len(s) \in Nat \ {0}
           /\ Head(s) = s[1] /\ Head(s) \in S
           /\ \A i \in 1..Len(Tail(s)) : i + 1 \in 1..Len(s) /\ Tail(s)[i] = s[i + 1]
  OBVIOUS

LEMMA AppendAt ==
    ASSUME NEW S, NEW s \in Seq(S), NEW m \in S
    PROVE  /\ Append(s, m) \in Seq(S) /\ Len(Append(s, m)) = Len(s) + 1 /\ Len(s) \in Nat
           /\ Append(s, m) # <<>>
           /\ \A i \in 1..Len(s) : Append(s, m)[i] = s[i]
           /\ Append(s, m)[Len(s) + 1] = m
  BY AppendProperties

LEMMA OneAt ==
    ASSUME NEW S, NEW m \in S
    PROVE  /\ <<m>> \in Seq(S) /\ Len(<<m>>) = 1 /\ <<m>>[1] = m /\ <<m>> # <<>>
  OBVIOUS

LEMMA ElementsTyped ==
    ASSUME NEW S, NEW s \in Seq(S)
    PROVE  Len(s) \in Nat /\ (s = <<>> <=> Len(s) = 0) /\ \A i \in 1..Len(s) : s[i] \in S
  BY EmptySeq

(* The kinds of descriptions.                                              *)
LEMMA Described ==
    ASSUME NEW p \in Page, NEW d \in DescsOf(p)
    PROVE  /\ d.by = p /\ d # NoDesc
           /\ d.type = "offer" <=> d \in OffersOf(p)
           /\ d.type = "answer" <=> d \in AnswersOf(p)
  BY DEF DescsOf, OffersOf, AnswersOf, Offer, Answer, NoDesc

LEMMA NotDescribed ==
    ASSUME NEW p \in Page
    PROVE  NoDesc \notin DescsOf(p) /\ NoDesc.type = "none"
  BY Described DEF NoDesc

(* The kinds of messages and operations.                                   *)
LEMMA Messages ==
    ASSUME NEW p \in Page, NEW m \in ToPage(p)
    PROVE  /\ m.k \in {"welcome", "peer-join", "peer-leave", "description", "candidate"}
           /\ m.k = "description" => m.d \in DescsOf(Other(p)) /\ m = [k |-> "description", d |-> m.d]
           /\ m.k = "candidate" => m.d \in CandsOf(Other(p)) /\ m = [k |-> "candidate", d |-> m.d]
  BY DEF ToPage, FromServer, SignalsOf

LEMMA Signals ==
    ASSUME NEW p \in Page, NEW m \in SignalsOf(p)
    PROVE  m.k \in {"description", "candidate"} /\ m \in ToPage(Other(p))
  BY Pair DEF ToPage, SignalsOf

LEMMA Operations ==
    ASSUME NEW p \in Page, NEW o \in OpsOf(p)
    PROVE  /\ o.op \in {"local", "remote", "candidate"}
           /\ o.op = "local" => o \in {SetLocal("needed"), SetLocal("signal")}
           /\ o.op = "local" => (o = SetLocal("needed") <=> o.caller = "needed")
           /\ o.op = "remote" => o.d \in DescsOf(Other(p)) /\ o = SetRemote(o.d)
           /\ o.op = "candidate" => o.d \in CandsOf(Other(p)) /\ o = AddCandidate(o.d)
           /\ o = SetLocal("needed") => o.op = "local"
  BY DEF OpsOf, SetLocal, SetRemote, AddCandidate

(* A state function of the pages, changed at one page.                     *)
LEMMA Updated ==
    ASSUME NEW f, f = [x \in Page |-> f[x]], NEW p \in Page, NEW v
    PROVE  /\ [f EXCEPT ![p] = v] = [x \in Page |-> [f EXCEPT ![p] = v][x]]
           /\ [f EXCEPT ![p] = v][p] = v
           /\ [f EXCEPT ![p] = v][Other(p)] = f[Other(p)]
  BY Pair

----------------------------------------------------------------------------
(* What each step does, page by page.                                      *)
Same(q) ==
    /\ born'[q] = born[q] /\ sig'[q] = sig[q] /\ ops'[q] = ops[q]
    /\ loc'[q] = loc[q] /\ rem'[q] = rem[q]
    /\ making'[q] = making[q] /\ ignoring'[q] = ignoring[q]
    /\ gathered'[q] = gathered[q] /\ added'[q] = added[q]

Join(p) == [k |-> "welcome", peers |-> online]

LEMMA ComesDoes ==
    ASSUME Shapes, NEW p \in Page, Comes(p)
    PROVE  /\ Shapes' /\ p \notin online /\ online' = online \cup {p}
           /\ losses' = losses /\ clean' = clean
           /\ \A x \in Page : Same(x) /\ up'[x] = up[x]
           /\ dn'[p] = <<Join(p)>>
           /\ dn'[Other(p)] = IF Other(p) \in online
                             THEN Append(dn[Other(p)], [k |-> "peer-join"]) ELSE dn[Other(p)]
  BY Pair DEF Comes, Shapes, Same, Join, pcVars, linkVars

LEMMA ForwardsDoes ==
    ASSUME Shapes, NEW p \in Page, Forwards(p)
    PROVE  /\ Shapes' /\ up[p] # <<>> /\ UNCHANGED serverVars
           /\ \A x \in Page : Same(x)
           /\ up'[p] = Tail(up[p]) /\ up'[Other(p)] = up[Other(p)]
           /\ dn'[p] = dn[p]
           /\ dn'[Other(p)] = IF Other(p) \in online
                             THEN Append(dn[Other(p)], Head(up[p])) ELSE dn[Other(p)]
  BY Pair DEF Forwards, Shapes, Same, pcVars, linkVars, serverVars

LEMMA GoneDoes ==
    ASSUME Shapes, NEW p \in Page, Gone(p)
    PROVE  /\ up' = [x \in Page |-> up'[x]] /\ dn' = [x \in Page |-> dn'[x]]
           /\ p \in online /\ online' = online \ {p} /\ losses' = losses + 1 /\ losses < MaxLosses
           /\ up'[p] = <<>> /\ dn'[p] = <<>> /\ up'[Other(p)] = up[Other(p)]
           /\ dn'[Other(p)] = IF Other(p) \in online
                             THEN Append(dn[Other(p)], [k |-> "peer-leave"]) ELSE dn[Other(p)]
  BY Pair DEF Gone, Shapes

LEMMA DisposeDoes ==
    ASSUME Shapes, NEW p \in Page, Dispose(p)
    PROVE  /\ born' = born /\ Same(Other(p))
           /\ sig' = [x \in Page |-> sig'[x]] /\ ops' = [x \in Page |-> ops'[x]]
           /\ loc' = [x \in Page |-> loc'[x]] /\ rem' = [x \in Page |-> rem'[x]]
           /\ making' = [x \in Page |-> making'[x]] /\ ignoring' = [x \in Page |-> ignoring'[x]]
           /\ gathered' = [x \in Page |-> gathered'[x]] /\ added' = [x \in Page |-> added'[x]]
           /\ sig'[p] = "none" /\ ops'[p] = <<>> /\ loc'[p] = NoDesc /\ rem'[p] = NoDesc
           /\ making'[p] = FALSE /\ ignoring'[p] = FALSE /\ gathered'[p] = 0 /\ added'[p] = {}
  BY Pair DEF Dispose, Shapes, Same

LEMMA DropsDoes ==
    ASSUME Shapes, NEW p \in Page, Drops(p)
    PROVE  Shapes' /\ Gone(p) /\ (\A x \in Page : Same(x)) /\ clean' = FALSE
  BY GoneDoes DEF Drops, Shapes, Same, pcVars, linkVars

LEMMA ReloadsDoes ==
    ASSUME Shapes, NEW p \in Page, Reloads(p)
    PROVE  Shapes' /\ Gone(p) /\ Dispose(p) /\ clean' = (clean /\ Settled)
  BY GoneDoes, DisposeDoes DEF Reloads, Shapes

(* A page that has no connection yet starts one.                           *)
Begins(p) ==
    /\ sig'[p] = IF sig[p] = "none" THEN "stable" ELSE sig[p]
    /\ born'[p] = IF sig[p] = "none" THEN born[p] + 1 ELSE born[p]

Held(p) ==
    /\ loc'[p] = loc[p] /\ rem'[p] = rem[p]
    /\ gathered'[p] = gathered[p] /\ added'[p] = added[p]

Reads(p) ==
    /\ dn[p] # <<>> /\ dn'[p] = Tail(dn[p]) /\ dn'[Other(p)] = dn[Other(p)]
    /\ up' = up /\ UNCHANGED serverVars

LEMMA TookDoes ==
    ASSUME Shapes, NEW p \in Page, Took(p), dn[p] # <<>>
    PROVE  Reads(p) /\ dn' = [x \in Page |-> dn'[x]] /\ up' = [x \in Page |-> up'[x]]
  BY Pair DEF Took, Shapes, Reads, serverVars

LEMMA RecvPeerDoes ==
    ASSUME Shapes, NEW p \in Page, RecvPeer(p)
    PROVE  /\ Shapes' /\ Reads(p) /\ Same(Other(p)) /\ Head(dn[p]).k \in {"welcome", "peer-join"}
           /\ IF Head(dn[p]).k = "welcome" /\ Other(p) \notin Head(dn[p]).peers
              THEN Same(p)
              ELSE /\ Begins(p) /\ Held(p) /\ ops'[p] = ops[p]
                   /\ making'[p] = making[p] /\ ignoring'[p] = ignoring[p]
<1>1. Gets(p, {"welcome", "peer-join"}) /\ Took(p)
  BY DEF RecvPeer
<1>2. Reads(p) /\ dn' = [x \in Page |-> dn'[x]] /\ up' = [x \in Page |-> up'[x]]
  BY <1>1, TookDoes DEF Gets
<1>3. CASE Head(dn[p]).k = "welcome" /\ Other(p) \notin Head(dn[p]).peers
  <2>1. UNCHANGED <<pcVars, linkVars>>
    BY <1>3 DEF RecvPeer
  <2> QED BY <1>1, <1>2, <1>3, <2>1, Pair DEF pcVars, linkVars, Same, Shapes, Gets
<1>4. CASE ~(Head(dn[p]).k = "welcome" /\ Other(p) \notin Head(dn[p]).peers)
  <2>1. Start(p)
    BY <1>4 DEF RecvPeer
  <2> QED BY <1>1, <1>2, <1>4, <2>1, Pair DEF Start, Started, linkVars, Same, Shapes, Gets, Begins, Held
<1> QED BY <1>3, <1>4

LEMMA RecvLeaveDoes ==
    ASSUME Shapes, NEW p \in Page, RecvLeave(p)
    PROVE  Shapes' /\ Reads(p) /\ Dispose(p) /\ Same(Other(p)) /\ Head(dn[p]).k = "peer-leave"
<1>1. Dispose(p) /\ Took(p) /\ dn[p] # <<>> /\ Head(dn[p]).k = "peer-leave"
  BY DEF RecvLeave, Gets
<1>2. Reads(p) /\ dn' = [x \in Page |-> dn'[x]] /\ up' = [x \in Page |-> up'[x]]
  BY <1>1, TookDoes
<1> QED BY <1>1, <1>2, DisposeDoes DEF Shapes

LEMMA RecvDescriptionDoes ==
    ASSUME Shapes, NEW p \in Page, RecvDescription(p)
    PROVE  /\ Shapes' /\ Reads(p) /\ Same(Other(p)) /\ Head(dn[p]).k = "description"
           /\ Begins(p) /\ Held(p) /\ making'[p] = making[p]
           /\ ignoring'[p] = ignoreOffer(p, Head(dn[p]).d)
           /\ ops'[p] = IF ignoreOffer(p, Head(dn[p]).d) THEN ops[p]
                        ELSE Append(ops[p], SetRemote(Head(dn[p]).d))
<1>1. Gets(p, {"description"}) /\ Took(p)
  BY DEF RecvDescription
<1>2. Reads(p) /\ dn' = [x \in Page |-> dn'[x]] /\ up' = [x \in Page |-> up'[x]]
  BY <1>1, TookDoes DEF Gets
<1>3. ops' = IF ignoreOffer(p, Head(dn[p]).d) THEN ops
             ELSE [ops EXCEPT ![p] = Append(ops[p], SetRemote(Head(dn[p]).d))]
  BY DEF RecvDescription, Queue
<1>4. /\ ops' = [x \in Page |-> ops'[x]] /\ ops'[Other(p)] = ops[Other(p)]
      /\ ops'[p] = IF ignoreOffer(p, Head(dn[p]).d) THEN ops[p]
                   ELSE Append(ops[p], SetRemote(Head(dn[p]).d))
  BY <1>3, Pair DEF Shapes
<1>5. /\ ignoring' = [ignoring EXCEPT ![p] = ignoreOffer(p, Head(dn[p]).d)]
      /\ Started(p) /\ sig' = [sig EXCEPT ![p] = IF sig[p] = "none" THEN "stable" ELSE sig[p]]
      /\ UNCHANGED <<loc, rem, gathered, added, making>>
  BY DEF RecvDescription
<1>6. /\ ignoring' = [x \in Page |-> ignoring'[x]] /\ ignoring'[Other(p)] = ignoring[Other(p)]
      /\ ignoring'[p] = ignoreOffer(p, Head(dn[p]).d)
  BY <1>5, Updated DEF Shapes
<1>7. /\ born' = [x \in Page |-> born'[x]] /\ born'[Other(p)] = born[Other(p)]
      /\ sig' = [x \in Page |-> sig'[x]] /\ sig'[Other(p)] = sig[Other(p)] /\ Begins(p)
  BY <1>5, Pair DEF Shapes, Started, Begins
<1> QED BY <1>1, <1>2, <1>4, <1>5, <1>6, <1>7 DEF Shapes, Gets, Same, Held

LEMMA RecvCandidateDoes ==
    ASSUME Shapes, NEW p \in Page, RecvCandidate(p)
    PROVE  /\ Shapes' /\ Reads(p) /\ Same(Other(p)) /\ Head(dn[p]).k = "candidate"
           /\ Begins(p) /\ Held(p) /\ making'[p] = making[p] /\ ignoring'[p] = ignoring[p]
           /\ ops'[p] = Append(ops[p], AddCandidate(Head(dn[p]).d))
<1>1. Gets(p, {"candidate"}) /\ Took(p)
  BY DEF RecvCandidate
<1>2. Reads(p) /\ dn' = [x \in Page |-> dn'[x]] /\ up' = [x \in Page |-> up'[x]]
  BY <1>1, TookDoes DEF Gets
<1>3. /\ ops' = [x \in Page |-> ops'[x]] /\ ops'[Other(p)] = ops[Other(p)]
      /\ ops'[p] = Append(ops[p], AddCandidate(Head(dn[p]).d))
  BY Pair DEF RecvCandidate, Queue, Shapes
<1>5. /\ Started(p) /\ sig' = [sig EXCEPT ![p] = IF sig[p] = "none" THEN "stable" ELSE sig[p]]
      /\ UNCHANGED <<loc, rem, gathered, added, making, ignoring>>
  BY DEF RecvCandidate, linkVars
<1>7. /\ born' = [x \in Page |-> born'[x]] /\ born'[Other(p)] = born[Other(p)]
      /\ sig' = [x \in Page |-> sig'[x]] /\ sig'[Other(p)] = sig[Other(p)] /\ Begins(p)
  BY <1>5, Pair DEF Shapes, Started, Begins
<1> QED BY <1>1, <1>2, <1>3, <1>5, <1>7 DEF Shapes, Gets, Same, Held

(* A signal is sent when the socket is open.                               *)
Sends(p, m) ==
    /\ up'[p] = IF p \in online THEN Append(up[p], m) ELSE up[p]
    /\ up'[Other(p)] = up[Other(p)]
    /\ dn' = dn /\ UNCHANGED serverVars

Quiet == up' = up /\ dn' = dn /\ UNCHANGED serverVars

LEMMA SignalDoes ==
    ASSUME Shapes, NEW p \in Page, NEW m, signal(p, m), dn' = dn, UNCHANGED serverVars
    PROVE  Sends(p, m) /\ up' = [x \in Page |-> up'[x]]
<1>1. CASE p \in online
  BY <1>1, Updated DEF signal, Shapes, Sends
<1>2. CASE p \notin online
  BY <1>2 DEF signal, Shapes, Sends
<1> QED BY <1>1, <1>2

LEMMA NeededDoes ==
    ASSUME Shapes, NEW p \in Page, onnegotiationneeded(p)
    PROVE  /\ Shapes' /\ Quiet /\ Same(Other(p)) /\ Held(p)
           /\ sig[p] = "stable" /\ sig'[p] = sig[p] /\ born'[p] = born[p]
           /\ ops[p] = <<>> /\ loc[p] = NoDesc /\ ops'[p] = <<SetLocal("needed")>>
           /\ making'[p] = TRUE /\ ignoring'[p] = ignoring[p]
  BY Pair DEF onnegotiationneeded, Shapes, Quiet, Same, Held, wireVars

Made(p) == IF sig[p] = "have-remote-offer" THEN Answer(p, born[p], rem[p]) ELSE Offer(p, born[p])

LEMMA LocalSetDoes ==
    ASSUME Shapes, NEW p \in Page, LocalSet(p)
    PROVE  /\ Shapes' /\ Same(Other(p)) /\ Sends(p, [k |-> "description", d |-> Made(p)])
           /\ ops[p] # <<>> /\ Head(ops[p]).op = "local" /\ ops'[p] = Tail(ops[p])
           /\ sig'[p] = IF sig[p] = "have-remote-offer" THEN "stable" ELSE "have-local-offer"
           /\ born'[p] = born[p] /\ loc'[p] = Made(p) /\ rem'[p] = rem[p]
           /\ making'[p] = (making[p] /\ Head(ops[p]).caller # "needed")
           /\ ignoring'[p] = ignoring[p] /\ gathered'[p] = 0 /\ added'[p] = added[p]
<1>1. /\ loc' = [loc EXCEPT ![p] = Made(p)]
      /\ sig' = [sig EXCEPT ![p] = IF sig[p] = "have-remote-offer" THEN "stable" ELSE "have-local-offer"]
      /\ signal(p, [k |-> "description", d |-> Made(p)])
  BY DEF LocalSet, Made
<1>2. Sends(p, [k |-> "description", d |-> Made(p)]) /\ up' = [x \in Page |-> up'[x]]
  BY <1>1, SignalDoes DEF LocalSet
<1>3. /\ making' = [x \in Page |-> making'[x]] /\ making'[Other(p)] = making[Other(p)]
      /\ making'[p] = (making[p] /\ Head(ops[p]).caller # "needed")
  BY Updated DEF Shapes, LocalSet, OfferMade
<1>4. /\ loc' = [x \in Page |-> loc'[x]] /\ sig' = [x \in Page |-> sig'[x]]
      /\ loc'[p] = Made(p) /\ loc'[Other(p)] = loc[Other(p)] /\ sig'[Other(p)] = sig[Other(p)]
      /\ sig'[p] = IF sig[p] = "have-remote-offer" THEN "stable" ELSE "have-local-offer"
  <2>1. /\ loc' = [x \in Page |-> loc'[x]] /\ loc'[p] = Made(p) /\ loc'[Other(p)] = loc[Other(p)]
    BY <1>1, Updated DEF Shapes
  <2> DEFINE new == IF sig[p] = "have-remote-offer" THEN "stable" ELSE "have-local-offer"
  <2>2. sig' = [sig EXCEPT ![p] = new]
    BY <1>1
  <2>3. sig' = [x \in Page |-> sig'[x]] /\ sig'[p] = new /\ sig'[Other(p)] = sig[Other(p)]
    <3> HIDE DEF new
    <3> QED BY <2>2, Updated DEF Shapes
  <2> QED BY <2>1, <2>3
<1>5. /\ ops' = [ops EXCEPT ![p] = Tail(ops[p])] /\ gathered' = [gathered EXCEPT ![p] = 0]
      /\ UNCHANGED <<dn, born, rem, added, ignoring>> /\ ops[p] # <<>> /\ Head(ops[p]).op = "local"
  BY DEF LocalSet
<1>6. /\ ops' = [x \in Page |-> ops'[x]] /\ gathered' = [x \in Page |-> gathered'[x]]
      /\ ops'[p] = Tail(ops[p]) /\ gathered'[p] = 0
      /\ ops'[Other(p)] = ops[Other(p)] /\ gathered'[Other(p)] = gathered[Other(p)]
  BY <1>5, Updated DEF Shapes
<1> QED BY <1>2, <1>3, <1>4, <1>5, <1>6 DEF Shapes, Same

(* The remote description takes effect, or an answer nobody waits for is   *)
(* an error.                                                               *)
TakesOffer(p, d) ==
    /\ sig'[p] = "have-remote-offer" /\ rem'[p] = d /\ added'[p] = {}
    /\ loc'[p] = IF sig[p] = "have-local-offer" THEN NoDesc ELSE loc[p]
    /\ ops'[p] = Append(Tail(ops[p]), SetLocal("signal"))

TakesAnswer(p, d) ==
    /\ sig[p] = "have-local-offer" /\ sig'[p] = "stable" /\ rem'[p] = d /\ added'[p] = {}
    /\ loc'[p] = loc[p] /\ ops'[p] = Tail(ops[p])

Rejects(p) ==
    /\ sig[p] # "have-local-offer" /\ sig'[p] = sig[p] /\ rem'[p] = rem[p] /\ added'[p] = added[p]
    /\ loc'[p] = loc[p] /\ ops'[p] = Tail(ops[p])

LEMMA RemoteSetDoes ==
    ASSUME Shapes, NEW p \in Page, RemoteSet(p)
    PROVE  /\ Shapes' /\ Quiet /\ Same(Other(p))
           /\ ops[p] # <<>> /\ Head(ops[p]).op = "remote"
           /\ born'[p] = born[p] /\ gathered'[p] = gathered[p]
           /\ making'[p] = making[p] /\ ignoring'[p] = ignoring[p]
           /\ IF Head(ops[p]).d.type = "offer" THEN TakesOffer(p, Head(ops[p]).d)
              ELSE TakesAnswer(p, Head(ops[p]).d) \/ Rejects(p)
<1>1. ops[p] # <<>> /\ Head(ops[p]).op = "remote" /\ Quiet /\ UNCHANGED <<born, gathered, making, ignoring>>
  BY DEF RemoteSet, Quiet, wireVars, linkVars
<1>2. CASE Head(ops[p]).d.type = "offer"
  <2>1. /\ sig' = [sig EXCEPT ![p] = "have-remote-offer"]
        /\ rem' = [rem EXCEPT ![p] = Head(ops[p]).d] /\ added' = [added EXCEPT ![p] = {}]
        /\ loc' = [loc EXCEPT ![p] = IF sig[p] = "have-local-offer" THEN NoDesc ELSE loc[p]]
        /\ ops' = [ops EXCEPT ![p] = Append(Tail(ops[p]), SetLocal("signal"))]
    BY <1>2 DEF RemoteSet
  <2>2. /\ sig' = [x \in Page |-> sig'[x]] /\ sig'[Other(p)] = sig[Other(p)]
        /\ sig'[p] = "have-remote-offer"
    BY <2>1, Updated DEF Shapes
  <2>3. /\ rem' = [x \in Page |-> rem'[x]] /\ rem'[Other(p)] = rem[Other(p)]
        /\ rem'[p] = Head(ops[p]).d
    BY <2>1, Updated DEF Shapes
  <2>4. /\ added' = [x \in Page |-> added'[x]] /\ added'[Other(p)] = added[Other(p)]
        /\ added'[p] = {}
    BY <2>1, Updated DEF Shapes
  <2> DEFINE new == IF sig[p] = "have-local-offer" THEN NoDesc ELSE loc[p]
  <2>5. loc' = [loc EXCEPT ![p] = new]
    BY <2>1
  <2>6. loc' = [x \in Page |-> loc'[x]] /\ loc'[Other(p)] = loc[Other(p)] /\ loc'[p] = new
    <3> HIDE DEF new
    <3> QED BY <2>5, Updated DEF Shapes
  <2>7. /\ ops' = [x \in Page |-> ops'[x]] /\ ops'[Other(p)] = ops[Other(p)]
        /\ ops'[p] = Append(Tail(ops[p]), SetLocal("signal"))
    BY <2>1, Updated DEF Shapes
  <2> QED BY <1>1, <1>2, <2>2, <2>3, <2>4, <2>6, <2>7 DEF Shapes, Same, TakesOffer, Quiet
<1>3. CASE Head(ops[p]).d.type # "offer" /\ sig[p] = "have-local-offer"
  <2>1. /\ sig' = [sig EXCEPT ![p] = "stable"]
        /\ rem' = [rem EXCEPT ![p] = Head(ops[p]).d] /\ added' = [added EXCEPT ![p] = {}]
        /\ loc' = loc /\ ops' = [ops EXCEPT ![p] = Tail(ops[p])]
    BY <1>3 DEF RemoteSet
  <2> QED BY <1>1, <1>3, <2>1, Updated DEF Shapes, Same, TakesAnswer, Quiet
<1>4. CASE Head(ops[p]).d.type # "offer" /\ sig[p] # "have-local-offer"
  <2>1. UNCHANGED <<sig, rem, added, loc>> /\ ops' = [ops EXCEPT ![p] = Tail(ops[p])]
    BY <1>4 DEF RemoteSet
  <2> QED BY <1>1, <1>4, <2>1, Updated DEF Shapes, Same, Rejects, Quiet
<1> QED BY <1>2, <1>3, <1>4

LEMMA CandidateAddedDoes ==
    ASSUME Shapes, NEW p \in Page, CandidateAdded(p)
    PROVE  /\ Shapes' /\ Quiet /\ Same(Other(p))
           /\ ops[p] # <<>> /\ Head(ops[p]).op = "candidate" /\ ops'[p] = Tail(ops[p])
           /\ born'[p] = born[p] /\ sig'[p] = sig[p] /\ loc'[p] = loc[p] /\ rem'[p] = rem[p]
           /\ making'[p] = making[p] /\ ignoring'[p] = ignoring[p] /\ gathered'[p] = gathered[p]
           /\ added'[p] = IF rem[p] = Head(ops[p]).d.of THEN added[p] \cup {Head(ops[p]).d.n}
                          ELSE added[p]
<1>1. /\ ops' = [ops EXCEPT ![p] = Tail(ops[p])] /\ Quiet
      /\ added' = [added EXCEPT ![p] = IF rem[p] = Head(ops[p]).d.of
                                       THEN added[p] \cup {Head(ops[p]).d.n} ELSE added[p]]
      /\ UNCHANGED <<born, sig, loc, rem, gathered, making, ignoring>>
      /\ ops[p] # <<>> /\ Head(ops[p]).op = "candidate"
  BY DEF CandidateAdded, Quiet, wireVars, linkVars
<1>2. /\ ops' = [x \in Page |-> ops'[x]] /\ ops'[Other(p)] = ops[Other(p)]
      /\ ops'[p] = Tail(ops[p])
  BY <1>1, Updated DEF Shapes
<1> DEFINE new == IF rem[p] = Head(ops[p]).d.of THEN added[p] \cup {Head(ops[p]).d.n} ELSE added[p]
<1>3. added' = [added EXCEPT ![p] = new]
  BY <1>1
<1>4. /\ added' = [x \in Page |-> added'[x]] /\ added'[Other(p)] = added[Other(p)] /\ added'[p] = new
  <2> HIDE DEF new
  <2> QED BY <1>3, Updated DEF Shapes
<1> QED BY <1>1, <1>2, <1>4 DEF Shapes, Same, Quiet

LEMMA IceDoes ==
    ASSUME Shapes, NEW p \in Page, onicecandidate(p)
    PROVE  /\ Shapes' /\ Same(Other(p)) /\ loc[p] # NoDesc /\ gathered[p] < Candidates
           /\ Sends(p, [k |-> "candidate", d |-> [of |-> loc[p], n |-> gathered[p] + 1]])
           /\ born'[p] = born[p] /\ sig'[p] = sig[p] /\ ops'[p] = ops[p]
           /\ loc'[p] = loc[p] /\ rem'[p] = rem[p] /\ added'[p] = added[p]
           /\ making'[p] = making[p] /\ ignoring'[p] = ignoring[p] /\ gathered'[p] = gathered[p] + 1
<1>1. /\ gathered' = [gathered EXCEPT ![p] = gathered[p] + 1]
      /\ signal(p, [k |-> "candidate", d |-> [of |-> loc[p], n |-> gathered'[p]]])
      /\ UNCHANGED <<serverVars, dn, born, sig, ops, loc, rem, added, making, ignoring>>
      /\ loc[p] # NoDesc /\ gathered[p] < Candidates
  BY DEF onicecandidate, linkVars
<1>2. /\ gathered' = [x \in Page |-> gathered'[x]] /\ gathered'[p] = gathered[p] + 1
      /\ gathered'[Other(p)] = gathered[Other(p)]
  BY <1>1, Updated DEF Shapes
<1>3. /\ Sends(p, [k |-> "candidate", d |-> [of |-> loc[p], n |-> gathered[p] + 1]])
      /\ up' = [x \in Page |-> up'[x]]
  BY <1>1, <1>2, SignalDoes
<1> QED BY <1>1, <1>2, <1>3 DEF Shapes, Same

----------------------------------------------------------------------------
(* The losses a page is told of, as its queue grows and shrinks.           *)
LEMMA CountsAppend ==
    ASSUME NEW S, NEW s \in Seq(S), NEW m \in S, NEW n \in Nat, NEW n2 \in {n, n + 1},
           NEW h \in [0..Len(s) -> 0..n], Counts(s, n, h), m.k = "peer-leave" => n2 = n + 1
    PROVE  \E g \in [0..Len(Append(s, m)) -> 0..n2] : Counts(Append(s, m), n2, g) /\ g[0] = h[0]
<1> DEFINE l == Len(s)
           t == Append(s, m)
           top == IF m.k = "peer-leave" THEN n2 ELSE h[l]
           g == [i \in 0..(l + 1) |-> IF i <= l THEN h[i] ELSE top]
<1>1. l \in Nat /\ Len(t) = l + 1 /\ (\A i \in 1..l : t[i] = s[i]) /\ t[l + 1] = m
  BY AppendAt
<1>2. h[l] \in 0..n /\ top \in 0..n2
  BY <1>1
<1>3. g \in [0..Len(t) -> 0..n2]
  BY <1>1, <1>2
<1>4. ASSUME NEW i \in 1..Len(t)
      PROVE  IF t[i].k = "peer-leave" THEN g[i - 1] < g[i] ELSE g[i - 1] <= g[i]
  <2>1. CASE i <= l
    <3>1. t[i] = s[i] /\ g[i] = h[i] /\ g[i - 1] = h[i - 1] /\ i \in 1..Len(s)
      BY <1>1, <2>1
    <3> QED BY <3>1 DEF Counts
  <2>2. CASE i = l + 1
    <3>1. t[i] = m /\ g[i] = top /\ g[i - 1] = h[l]
      BY <1>1, <2>2
    <3> QED BY <1>2, <3>1
  <2> QED BY <1>1, <2>1, <2>2
<1>5. g[0] = h[0]
  BY <1>1
<1> HIDE DEF g
<1> QED BY <1>3, <1>4, <1>5 DEF Counts

LEMMA CountsTail ==
    ASSUME NEW S, NEW s \in Seq(S), s # <<>>, NEW n \in Nat,
           NEW h \in [0..Len(s) -> 0..n], Counts(s, n, h)
    PROVE  /\ h[0] <= h[1] /\ (Head(s).k = "peer-leave" => h[0] < h[1])
           /\ \E g \in [0..Len(Tail(s)) -> 0..n] : Counts(Tail(s), n, g) /\ g[0] = h[1]
<1> DEFINE l == Len(s)
           t == Tail(s)
           g == [i \in 0..(l - 1) |-> h[i + 1]]
<1>1. /\ l \in Nat \ {0} /\ Len(t) = l - 1 /\ Head(s) = s[1]
      /\ \A i \in 1..Len(t) : i + 1 \in 1..l /\ t[i] = s[i + 1]
  BY TailAt
<1>2. g \in [0..Len(t) -> 0..n]
  BY <1>1
<1>3. ASSUME NEW i \in 1..Len(t)
      PROVE  IF t[i].k = "peer-leave" THEN g[i - 1] < g[i] ELSE g[i - 1] <= g[i]
  <2>1. t[i] = s[i + 1] /\ g[i] = h[i + 1] /\ g[i - 1] = h[(i + 1) - 1] /\ i + 1 \in 1..Len(s)
    BY <1>1
  <2> QED BY <2>1 DEF Counts
<1>4. g[0] = h[1]
  BY <1>1
<1>5. 1 \in 1..Len(s) /\ h[0] \in 0..n /\ h[1] \in 0..n
  BY <1>1
<1>6. IF s[1].k = "peer-leave" THEN h[1 - 1] < h[1] ELSE h[1 - 1] <= h[1]
  BY <1>5 DEF Counts
<1>7. h[0] <= h[1] /\ (Head(s).k = "peer-leave" => h[0] < h[1])
  BY <1>1, <1>5, <1>6
<1> HIDE DEF g
<1>8. Counts(t, n, g)
  BY <1>2, <1>3 DEF Counts
<1> QED BY <1>2, <1>4, <1>7, <1>8

(* The local part of a page's types depends on the page only.              *)
LocalInv(p) == ChainTypes(p) /\ Flags(p) /\ DescTypes(p)

LEMMA SameLocal ==
    ASSUME NEW p \in Page, LocalInv(p), Same(p)
    PROVE  LocalInv(p)'
  BY DEF LocalInv, ChainTypes, Flags, DescTypes, Same, Needs

LEMMA BoundedStill ==
    ASSUME NEW p \in Page, ServerTypes, Bounded(p), dn'[p] = dn[p], losses' = losses,
           \A a \in Nat : Lived(p, a) => Lived(p, a)'
    PROVE  Bounded(p)'
<1>1. PICK h \in [0..Len(dn[p]) -> 0..losses] : Counts(dn[p], losses, h) /\ Lived(p, h[0])
  BY DEF Bounded
<1>2. h \in [0..Len(dn'[p]) -> 0..losses'] /\ Counts(dn'[p], losses', h)
  BY <1>1
<1>3. CASE 0 \in 0..Len(dn[p])
  <2>1. h[0] \in Nat
    BY <1>1, <1>3 DEF ServerTypes
  <2>2. Lived(p, h[0])'
    BY <1>1, <2>1
  <2> QED BY <1>2, <2>2 DEF Bounded
<1> QED BY <1>3, <1>1

LEMMA BoundedTold ==
    ASSUME NEW p \in Page, ServerTypes, WireTypes(p), Bounded(p), Same(p),
           NEW m \in ToPage(p), dn'[p] = Append(dn[p], m), losses' \in {losses, losses + 1},
           m.k = "peer-leave" => losses' = losses + 1
    PROVE  Bounded(p)'
<1>1. PICK h \in [0..Len(dn[p]) -> 0..losses] : Counts(dn[p], losses, h) /\ Lived(p, h[0])
  BY DEF Bounded
<1>2. losses \in Nat /\ dn[p] \in Seq(ToPage(p))
  BY DEF ServerTypes, WireTypes
<1>3. PICK n \in {losses, losses + 1} : n = losses'
  OBVIOUS
<1>4. \E g \in [0..Len(Append(dn[p], m)) -> 0..n] : Counts(Append(dn[p], m), n, g) /\ g[0] = h[0]
  BY <1>1, <1>2, <1>3, CountsAppend
<1>5. PICK g \in [0..Len(dn'[p]) -> 0..losses'] : Counts(dn'[p], losses', g) /\ g[0] = h[0]
  BY <1>3, <1>4
<1>6. Lived(p, g[0])'
  BY <1>1, <1>5 DEF Lived, Same
<1> QED BY <1>5, <1>6 DEF Bounded

LEMMA BoundedReads ==
    ASSUME NEW p \in Page, ServerTypes, WireTypes(p), Bounded(p), Reads(p),
           \A a \in Nat : Lived(p, a) =>
             IF Head(dn[p]).k = "peer-leave" THEN Lived(p, a + 1)' ELSE Lived(p, a)',
           born'[p] \in Nat
    PROVE  Bounded(p)'
<1>1. PICK h \in [0..Len(dn[p]) -> 0..losses] : Counts(dn[p], losses, h) /\ Lived(p, h[0])
  BY DEF Bounded
<1>2. losses \in Nat /\ dn[p] \in Seq(ToPage(p)) /\ dn[p] # <<>> /\ losses' = losses
  BY DEF ServerTypes, WireTypes, Reads, serverVars
<1>3. /\ h[0] <= h[1] /\ (Head(dn[p]).k = "peer-leave" => h[0] < h[1])
      /\ \E g \in [0..Len(Tail(dn[p])) -> 0..losses] : Counts(Tail(dn[p]), losses, g) /\ g[0] = h[1]
  BY <1>1, <1>2, CountsTail
<1>4. PICK g \in [0..Len(dn'[p]) -> 0..losses'] : Counts(dn'[p], losses', g) /\ g[0] = h[1]
  BY <1>2, <1>3 DEF Reads
<1>5. h[0] \in Nat /\ h[1] \in Nat
  BY <1>1, <1>2, TailAt
<1>6. Lived(p, h[1])'
  <2>1. CASE Head(dn[p]).k = "peer-leave"
    <3>1. Lived(p, h[0] + 1)' /\ h[0] + 1 <= h[1]
      BY <1>1, <1>3, <1>5, <2>1
    <3> QED BY <1>5, <3>1 DEF Lived
  <2>2. CASE Head(dn[p]).k # "peer-leave"
    <3>1. Lived(p, h[0])' /\ h[0] <= h[1]
      BY <1>1, <1>3, <1>5, <2>2
    <3> QED BY <1>5, <3>1 DEF Lived
  <2> QED BY <2>1, <2>2
<1>7. Lived(p, g[0])'
  BY <1>4, <1>6
<1> QED BY <1>4, <1>7 DEF Bounded

LEMMA BoundedLost ==
    ASSUME NEW p \in Page, ServerTypes, WireTypes(p), Bounded(p), ChainTypes(p), dn'[p] = <<>>,
           losses' = losses + 1, born'[p] = born[p]
    PROVE  Bounded(p)'
<1>1. PICK h \in [0..Len(dn[p]) -> 0..losses] : Counts(dn[p], losses, h) /\ Lived(p, h[0])
  BY DEF Bounded
<1>0. losses \in Nat /\ Len(dn'[p]) = 0
  BY DEF ServerTypes
<1>2. PICK n \in Nat : n = losses'
  BY <1>0
<1> DEFINE g == [i \in 0..0 |-> n]
<1>3. g \in [0..Len(dn'[p]) -> 0..losses'] /\ g[0] = n
  BY <1>0, <1>2
<1>4. h[0] \in 0..losses
  <2>1. CASE 0 \in 0..Len(dn[p])
    BY <1>1, <2>1
  <2>2. Len(dn[p]) \in Nat
    BY ElementsTyped DEF WireTypes
  <2> QED BY <2>1, <2>2
<1>5. Lived(p, g[0])'
  <2>1. born[p] \in Nat /\ born[p] <= n
    BY <1>0, <1>1, <1>2, <1>4 DEF Lived, ChainTypes
  <2> QED BY <1>2, <1>3, <2>1 DEF Lived
<1>6. Counts(dn'[p], losses', g)
  BY <1>0, <1>2, <1>3 DEF Counts
<1> HIDE DEF g
<1> QED BY <1>3, <1>5, <1>6 DEF Bounded

----------------------------------------------------------------------------
(* Type correctness, step by step.                                         *)
LEMMA BothPages ==
    ASSUME Shapes', ServerTypes', NEW p \in Page, PageInv(p)', PageInv(Other(p))'
    PROVE  TypeInv'
<1>1. \A x \in Page : PageInv(x)'
  <2> TAKE x \in Page
  <2>1. CASE x = p
    BY <2>1
  <2>2. CASE x # p
    <3>1. x = Other(p)
      BY <2>2, Twins
    <3> QED BY <3>1
  <2> QED BY <2>1, <2>2
<1> QED BY <1>1 DEF TypeInv

LEMMA PageTyped ==
    ASSUME TypeInv, NEW p \in Page
    PROVE  /\ Shapes /\ ServerTypes /\ PageInv(p) /\ LocalInv(p) /\ WireTypes(p) /\ Bounded(p)
           /\ ChainTypes(p) /\ Flags(p) /\ DescTypes(p)
           /\ born[p] <= MaxLosses + 1
<1>1. Shapes /\ ServerTypes /\ PageInv(p) /\ LocalInv(p) /\ WireTypes(p) /\ Bounded(p)
  BY DEF TypeInv, PageInv, LocalInv
<1>2. born[p] <= MaxLosses + 1
  <2>1. PICK h \in [0..Len(dn[p]) -> 0..losses] : Counts(dn[p], losses, h) /\ Lived(p, h[0])
    BY <1>1 DEF Bounded
  <2>2. Len(dn[p]) \in Nat
    BY <1>1, ElementsTyped DEF WireTypes
  <2>3. h[0] \in 0..losses
    BY <2>1, <2>2
  <2> QED BY <1>1, <2>1, <2>3, NegotiationAssumption DEF ServerTypes, Lived, PageInv, ChainTypes
<1> QED BY <1>1, <1>2 DEF PageInv

LEMMA InitTyped == Init => TypeInv
<1> SUFFICES ASSUME Init PROVE TypeInv
  OBVIOUS
<1>1. Shapes /\ ServerTypes
  BY NegotiationAssumption DEF Init, Shapes, ServerTypes
<1>2. ASSUME NEW p \in Page
      PROVE  PageInv(p)
  <2>1. /\ up[p] = <<>> /\ dn[p] = <<>> /\ born[p] = 0 /\ sig[p] = "none" /\ ops[p] = <<>>
        /\ loc[p] = NoDesc /\ rem[p] = NoDesc /\ making[p] = FALSE /\ ignoring[p] = FALSE
        /\ gathered[p] = 0 /\ added[p] = {} /\ losses = 0
    BY DEF Init
  <2>2. WireTypes(p) /\ ChainTypes(p)
    BY <2>1 DEF WireTypes, ChainTypes, States
  <2>3. Flags(p)
    BY <2>1 DEF Flags
  <2>4. DescTypes(p)
    <3>1. NoDesc \notin AnswersOf(p)
      BY NotDescribed DEF DescsOf
    <3> QED BY <2>1, <3>1, NegotiationAssumption DEF DescTypes
  <2>5. Bounded(p)
    <3> DEFINE h == [i \in 0..0 |-> 0]
    <3>1. h \in [0..Len(dn[p]) -> 0..losses] /\ h[0] = 0
      BY <2>1
    <3>2. Counts(dn[p], losses, h) /\ Lived(p, h[0])
      BY <2>1, <3>1 DEF Counts, Lived
    <3> HIDE DEF h
    <3> QED BY <3>1, <3>2 DEF Bounded
  <2> QED BY <2>2, <2>3, <2>4, <2>5 DEF PageInv
<1> QED BY <1>1, <1>2 DEF TypeInv

LEMMA ComesTyped ==
    ASSUME TypeInv, NEW p \in Page, Comes(p)
    PROVE  TypeInv'
<1>1. /\ Shapes' /\ p \notin online /\ online' = online \cup {p}
      /\ losses' = losses /\ clean' = clean
      /\ \A x \in Page : Same(x) /\ up'[x] = up[x]
      /\ dn'[p] = <<Join(p)>>
      /\ dn'[Other(p)] = IF Other(p) \in online
                         THEN Append(dn[Other(p)], [k |-> "peer-join"]) ELSE dn[Other(p)]
  BY ComesDoes, PageTyped
<1>2. Shapes' /\ ServerTypes' /\ Other(p) \in Page
  BY <1>1, Pair, PageTyped DEF ServerTypes
<1>3. ASSUME NEW x \in Page
      PROVE  LocalInv(x)'
  BY <1>1, SameLocal, PageTyped
<1>4. Join(p) \in ToPage(p) /\ [k |-> "peer-join"] \in ToPage(Other(p))
  BY PageTyped DEF Join, ToPage, FromServer, ServerTypes
<1>5. WireTypes(p)' /\ Bounded(p)'
  <2>1. dn[p] = <<>> /\ dn'[p] = Append(dn[p], Join(p)) /\ Join(p).k # "peer-leave"
    BY <1>1, PageTyped DEF WireTypes, Join
  <2>2. Bounded(p)'
    BY <1>1, <1>4, <2>1, BoundedTold, PageTyped
  <2> QED BY <1>1, <1>4, <2>1, <2>2, PageTyped DEF WireTypes
<1>6. WireTypes(Other(p))' /\ Bounded(Other(p))'
  <2>1. CASE Other(p) \in online
    <3>1. dn'[Other(p)] \in Seq(ToPage(Other(p)))
      BY <1>1, <1>2, <1>4, <2>1, AppendAt, PageTyped DEF WireTypes
    <3>2. Bounded(Other(p))'
      BY <1>1, <1>2, <1>4, <2>1, BoundedTold, PageTyped
    <3> QED BY <1>1, <1>2, <2>1, <3>1, <3>2, PageTyped DEF WireTypes
  <2>2. CASE Other(p) \notin online
    <3>1. Bounded(Other(p))'
      BY <1>1, <1>2, <2>2, BoundedStill, PageTyped DEF Lived, Same
    <3> QED BY <1>1, <1>2, <2>2, <3>1, PageTyped DEF WireTypes
  <2> QED BY <2>1, <2>2
<1> QED BY <1>1, <1>2, <1>3, <1>5, <1>6, BothPages DEF PageInv, LocalInv

LEMMA ForwardsTyped ==
    ASSUME TypeInv, NEW p \in Page, Forwards(p)
    PROVE  TypeInv'
<1>1. /\ Shapes' /\ up[p] # <<>> /\ UNCHANGED serverVars
      /\ \A x \in Page : Same(x)
      /\ up'[p] = Tail(up[p]) /\ up'[Other(p)] = up[Other(p)]
      /\ dn'[p] = dn[p]
      /\ dn'[Other(p)] = IF Other(p) \in online
                         THEN Append(dn[Other(p)], Head(up[p])) ELSE dn[Other(p)]
  BY ForwardsDoes, PageTyped
<1>2. /\ Shapes' /\ ServerTypes' /\ Other(p) \in Page
      /\ online' = online /\ losses' = losses
  BY <1>1, Pair, PageTyped DEF ServerTypes, serverVars
<1>3. ASSUME NEW x \in Page
      PROVE  LocalInv(x)'
  BY <1>1, SameLocal, PageTyped
<1>4. /\ Head(up[p]) \in SignalsOf(p) /\ up'[p] \in Seq(SignalsOf(p))
  BY <1>1, TailAt, PageTyped DEF WireTypes
<1>5. Head(up[p]) \in ToPage(Other(p)) /\ Head(up[p]).k # "peer-leave"
  BY <1>4, Signals
<1>6. WireTypes(p)' /\ Bounded(p)'
  <2>1. Bounded(p)'
    BY <1>1, <1>2, BoundedStill, PageTyped DEF Lived, Same
  <2> QED BY <1>1, <1>2, <1>4, <2>1, PageTyped DEF WireTypes
<1>7. WireTypes(Other(p))' /\ Bounded(Other(p))'
  <2>1. CASE Other(p) \in online
    <3>1. dn'[Other(p)] \in Seq(ToPage(Other(p)))
      BY <1>1, <1>2, <1>5, <2>1, AppendAt, PageTyped DEF WireTypes
    <3>2. Bounded(Other(p))'
      BY <1>1, <1>2, <1>5, <2>1, BoundedTold, PageTyped
    <3> QED BY <1>1, <1>2, <2>1, <3>1, <3>2, PageTyped DEF WireTypes
  <2>2. CASE Other(p) \notin online
    <3>1. Bounded(Other(p))'
      BY <1>1, <1>2, <2>2, BoundedStill, PageTyped DEF Lived, Same
    <3> QED BY <1>1, <1>2, <2>2, <3>1, PageTyped DEF WireTypes
  <2> QED BY <2>1, <2>2
<1> QED BY <1>1, <1>2, <1>3, <1>6, <1>7, BothPages DEF PageInv, LocalInv

(* A page that is lost: its queues go, the other page is told.             *)
LEMMA GoneTyped ==
    ASSUME TypeInv, NEW p \in Page, Gone(p), born'[p] = born[p], Same(Other(p))
    PROVE  /\ WireTypes(p)' /\ Bounded(p)' /\ WireTypes(Other(p))' /\ Bounded(Other(p))'
           /\ online' \subseteq Page /\ losses' \in 0..MaxLosses
<1>1. /\ p \in online /\ online' = online \ {p} /\ losses' = losses + 1 /\ losses < MaxLosses
      /\ up'[p] = <<>> /\ dn'[p] = <<>> /\ up'[Other(p)] = up[Other(p)]
      /\ dn'[Other(p)] = IF Other(p) \in online
                         THEN Append(dn[Other(p)], [k |-> "peer-leave"]) ELSE dn[Other(p)]
      /\ Other(p) \in Page /\ Other(p) # p
  BY GoneDoes, PageTyped, Pair
<1>2. online' \subseteq Page /\ losses' \in 0..MaxLosses
  BY <1>1, PageTyped, NegotiationAssumption DEF ServerTypes
<1>3. WireTypes(p)' /\ Bounded(p)'
  <2>1. Bounded(p)'
    BY <1>1, BoundedLost, PageTyped
  <2> QED BY <1>1, <2>1 DEF WireTypes
<1>4. [k |-> "peer-leave"] \in ToPage(Other(p))
  BY DEF ToPage, FromServer
<1>5. WireTypes(Other(p))' /\ Bounded(Other(p))'
  <2>1. CASE Other(p) \in online
    <3>1. dn'[Other(p)] \in Seq(ToPage(Other(p)))
      BY <1>1, <1>4, <2>1, AppendAt, PageTyped DEF WireTypes
    <3>2. Bounded(Other(p))'
      BY <1>1, <1>4, <2>1, BoundedTold, PageTyped
    <3>3. Other(p) \in online' /\ up'[Other(p)] \in Seq(SignalsOf(Other(p)))
      BY <1>1, <2>1, PageTyped DEF WireTypes
    <3> QED BY <3>1, <3>2, <3>3 DEF WireTypes
  <2>2. CASE Other(p) \notin online
    <3>1. dn'[Other(p)] = <<>> /\ born'[Other(p)] = born[Other(p)]
      BY <1>1, <2>2, PageTyped DEF WireTypes, Same
    <3>2. Bounded(Other(p))'
      BY <1>1, <3>1, BoundedLost, PageTyped
    <3>3. up'[Other(p)] \in Seq(SignalsOf(Other(p)))
      BY <1>1, PageTyped DEF WireTypes
    <3>4. dn'[Other(p)] \in Seq(ToPage(Other(p)))
      BY <3>1
    <3> QED BY <3>1, <3>2, <3>3, <3>4 DEF WireTypes
  <2> QED BY <2>1, <2>2
<1> QED BY <1>2, <1>3, <1>5

LEMMA DropsTyped ==
    ASSUME TypeInv, NEW p \in Page, Drops(p)
    PROVE  TypeInv'
<1>1. Shapes' /\ Gone(p) /\ (\A x \in Page : Same(x)) /\ clean' = FALSE /\ Other(p) \in Page
  BY DropsDoes, PageTyped, Pair
<1>2. ASSUME NEW x \in Page
      PROVE  LocalInv(x)'
  BY <1>1, SameLocal, PageTyped
<1>3. /\ WireTypes(p)' /\ Bounded(p)' /\ WireTypes(Other(p))' /\ Bounded(Other(p))'
      /\ online' \subseteq Page /\ losses' \in 0..MaxLosses
  BY <1>1, GoneTyped DEF Same
<1>4. ServerTypes'
  BY <1>1, <1>3 DEF ServerTypes
<1> QED BY <1>1, <1>2, <1>3, <1>4, BothPages DEF PageInv, LocalInv

LEMMA DisposedLocal ==
    ASSUME TypeInv, NEW p \in Page, Dispose(p)
    PROVE  LocalInv(p)' /\ LocalInv(Other(p))' /\ born' = born /\ Same(Other(p)) /\ sig'[p] = "none"
<1>1. /\ born' = born /\ Same(Other(p)) /\ Other(p) \in Page
      /\ sig'[p] = "none" /\ ops'[p] = <<>> /\ loc'[p] = NoDesc /\ rem'[p] = NoDesc
      /\ making'[p] = FALSE /\ ignoring'[p] = FALSE /\ gathered'[p] = 0 /\ added'[p] = {}
  BY DisposeDoes, PageTyped, Pair
<1>2. LocalInv(Other(p))'
  BY <1>1, SameLocal, PageTyped
<1>3. ChainTypes(p)'
  BY <1>1, PageTyped DEF ChainTypes, States
<1>4. Flags(p)'
  BY <1>1 DEF Flags
<1>5. DescTypes(p)'
  <2>1. NoDesc \notin AnswersOf(p)
    BY NotDescribed DEF DescsOf
  <2> QED BY <1>1, <2>1, NegotiationAssumption DEF DescTypes
<1> QED BY <1>1, <1>2, <1>3, <1>4, <1>5 DEF LocalInv

LEMMA ReloadsTyped ==
    ASSUME TypeInv, NEW p \in Page, Reloads(p)
    PROVE  TypeInv'
<1>1. Shapes' /\ Gone(p) /\ Dispose(p) /\ clean' = (clean /\ Settled)
  BY ReloadsDoes, PageTyped
<1>2. LocalInv(p)' /\ LocalInv(Other(p))' /\ born' = born /\ Same(Other(p))
  BY <1>1, DisposedLocal
<1>3. /\ WireTypes(p)' /\ Bounded(p)' /\ WireTypes(Other(p))' /\ Bounded(Other(p))'
      /\ online' \subseteq Page /\ losses' \in 0..MaxLosses
  BY <1>1, <1>2, GoneTyped
<1>4. ServerTypes'
  BY <1>1, <1>3 DEF ServerTypes
<1> QED BY <1>1, <1>2, <1>3, <1>4, BothPages DEF PageInv, LocalInv

(* What a page reads goes off its queue, and touches no other wire.        *)
LEMMA ReadsWires ==
    ASSUME TypeInv, NEW p \in Page, Reads(p)
    PROVE  /\ WireTypes(p)' /\ WireTypes(Other(p))' /\ ServerTypes'
           /\ Head(dn[p]) \in ToPage(p) /\ Other(p) \in Page
           /\ Same(Other(p)) => PageInv(Other(p))'
<1>1. /\ dn[p] # <<>> /\ dn'[p] = Tail(dn[p]) /\ dn'[Other(p)] = dn[Other(p)]
      /\ up' = up /\ online' = online /\ losses' = losses /\ clean' = clean /\ Other(p) \in Page
  BY Pair DEF Reads, serverVars
<1>2. Tail(dn[p]) \in Seq(ToPage(p)) /\ Head(dn[p]) \in ToPage(p)
  BY <1>1, TailAt, PageTyped DEF WireTypes
<1>3. WireTypes(p)' /\ WireTypes(Other(p))'
  BY <1>1, <1>2, PageTyped DEF WireTypes
<1>4. ASSUME Same(Other(p))
      PROVE  PageInv(Other(p))'
  <2>1. Bounded(Other(p))'
    BY <1>1, <1>4, BoundedStill, PageTyped DEF Lived, Same
  <2>2. LocalInv(Other(p))'
    BY <1>1, <1>4, SameLocal, PageTyped
  <2> QED BY <1>3, <2>1, <2>2 DEF PageInv, LocalInv
<1> QED BY <1>1, <1>2, <1>3, <1>4, PageTyped DEF ServerTypes

LEMMA ReadsTyped ==
    ASSUME TypeInv, NEW p \in Page, Shapes', Reads(p), Same(Other(p)), Bounded(p)', LocalInv(p)'
    PROVE  TypeInv'
  BY ReadsWires, BothPages DEF PageInv, LocalInv

(* Starting changes what a connection is, not what it has.                 *)
LEMMA BeginsChain ==
    ASSUME TypeInv, NEW p \in Page, Begins(p), Held(p)
    PROVE  /\ born'[p] \in Nat /\ sig'[p] \in States /\ sig'[p] # "none" /\ born'[p] # 0
           /\ DescTypes(p)'
           /\ \A a \in Nat : Lived(p, a) => Lived(p, a)'
<1>1. ChainTypes(p) /\ DescTypes(p)
  BY PageTyped
<1>2. born'[p] \in Nat /\ sig'[p] \in States /\ sig'[p] # "none" /\ born'[p] # 0
  BY <1>1 DEF ChainTypes, Begins, States
<1>3. DescTypes(p)'
  BY <1>1 DEF DescTypes, Begins, Held
<1>4. \A a \in Nat : Lived(p, a) => Lived(p, a)'
  BY <1>1, <1>2 DEF Lived, Begins, ChainTypes
<1> QED BY <1>2, <1>3, <1>4

LEMMA RecvPeerTyped ==
    ASSUME TypeInv, NEW p \in Page, RecvPeer(p)
    PROVE  TypeInv'
<1>1. /\ Shapes' /\ Reads(p) /\ Same(Other(p)) /\ Head(dn[p]).k \in {"welcome", "peer-join"}
      /\ IF Head(dn[p]).k = "welcome" /\ Other(p) \notin Head(dn[p]).peers
         THEN Same(p)
         ELSE /\ Begins(p) /\ Held(p) /\ ops'[p] = ops[p]
              /\ making'[p] = making[p] /\ ignoring'[p] = ignoring[p]
  BY RecvPeerDoes, PageTyped
<1>2. CASE Same(p)
  <2>1. LocalInv(p)' /\ born'[p] \in Nat
    BY <1>2, SameLocal, PageTyped DEF LocalInv, ChainTypes
  <2>2. \A a \in Nat : Lived(p, a) => Lived(p, a)'
    BY <1>2 DEF Lived, Same
  <2>3. Bounded(p)'
    BY <1>1, <2>1, <2>2, BoundedReads, PageTyped
  <2> QED BY <1>1, <2>1, <2>3, ReadsTyped
<1>3. CASE Begins(p) /\ Held(p) /\ ops'[p] = ops[p]
           /\ making'[p] = making[p] /\ ignoring'[p] = ignoring[p]
  <2>1. /\ born'[p] \in Nat /\ sig'[p] \in States /\ sig'[p] # "none" /\ born'[p] # 0
        /\ DescTypes(p)'
        /\ \A a \in Nat : Lived(p, a) => Lived(p, a)'
    BY <1>3, BeginsChain
  <2>2. ChainTypes(p)'
    BY <1>3, <2>1, PageTyped DEF ChainTypes, Needs
  <2>3. Flags(p)'
    BY <1>3, PageTyped DEF Flags, Needs
  <2>4. Bounded(p)'
    BY <1>1, <2>1, BoundedReads, PageTyped
  <2> QED BY <1>1, <2>1, <2>2, <2>3, <2>4, ReadsTyped DEF LocalInv
<1> QED BY <1>1, <1>2, <1>3

LEMMA RecvLeaveTyped ==
    ASSUME TypeInv, NEW p \in Page, RecvLeave(p)
    PROVE  TypeInv'
<1>1. Shapes' /\ Reads(p) /\ Dispose(p) /\ Same(Other(p)) /\ Head(dn[p]).k = "peer-leave"
  BY RecvLeaveDoes, PageTyped
<1>2. LocalInv(p)' /\ born' = born /\ sig'[p] = "none"
  BY <1>1, DisposedLocal
<1>3. born[p] \in Nat
  BY PageTyped DEF ChainTypes
<1>4. \A a \in Nat : Lived(p, a) => Lived(p, a + 1)'
  BY <1>2, <1>3 DEF Lived
<1>5. Bounded(p)'
  BY <1>1, <1>2, <1>3, <1>4, BoundedReads, PageTyped
<1> QED BY <1>1, <1>2, <1>5, ReadsTyped

(* A new operation goes last: it is not that of an offer to be made.       *)
LEMMA Queues ==
    ASSUME TypeInv, NEW p \in Page, NEW o \in OpsOf(p), o # SetLocal("needed"),
           ops'[p] = Append(ops[p], o), making'[p] = making[p], ignoring'[p] \in BOOLEAN
    PROVE  /\ ops'[p] \in Seq(OpsOf(p)) /\ (\A i \in 1..Len(ops'[p]) : Needs(p, i)' => i = 1)
           /\ Flags(p)'
<1>1. ops[p] \in Seq(OpsOf(p)) /\ ChainTypes(p) /\ Flags(p)
  BY PageTyped DEF ChainTypes
<1>2. /\ ops'[p] \in Seq(OpsOf(p)) /\ Len(ops'[p]) = Len(ops[p]) + 1 /\ Len(ops[p]) \in Nat
      /\ ops'[p] # <<>> /\ ops'[p][Len(ops[p]) + 1] = o
      /\ \A i \in 1..Len(ops[p]) : ops'[p][i] = ops[p][i]
  BY <1>1, AppendAt
<1>3. \A i \in 1..Len(ops'[p]) : Needs(p, i)' => i = 1
  BY <1>1, <1>2 DEF ChainTypes, Needs
<1>4. Needs(p, 1)' <=> ops[p] # <<>> /\ Needs(p, 1)
  <2>1. CASE ops[p] = <<>>
    <3>1. Len(ops[p]) = 0
      BY <2>1
    <3> QED BY <1>2, <2>1, <3>1 DEF Needs
  <2>2. CASE ops[p] # <<>>
    <3>1. 1 \in 1..Len(ops[p])
      BY <1>1, <2>2, TailAt
    <3> QED BY <1>2, <2>2, <3>1 DEF Needs
  <2> QED BY <2>1, <2>2
<1>5. Flags(p)'
  BY <1>1, <1>2, <1>4 DEF Flags
<1> QED BY <1>2, <1>3, <1>5

LEMMA RecvDescriptionTyped ==
    ASSUME TypeInv, NEW p \in Page, RecvDescription(p)
    PROVE  TypeInv'
<1> DEFINE d == Head(dn[p]).d
<1>1. /\ Shapes' /\ Reads(p) /\ Same(Other(p)) /\ Head(dn[p]).k = "description"
      /\ Begins(p) /\ Held(p) /\ making'[p] = making[p]
      /\ ignoring'[p] = ignoreOffer(p, d)
      /\ ops'[p] = IF ignoreOffer(p, d) THEN ops[p] ELSE Append(ops[p], SetRemote(d))
  BY RecvDescriptionDoes, PageTyped
<1>2. d \in DescsOf(Other(p))
  BY <1>1, ReadsWires, Messages
<1>3. SetRemote(d) \in OpsOf(p) /\ SetRemote(d) # SetLocal("needed")
  BY <1>2 DEF OpsOf, SetRemote, SetLocal
<1> HIDE DEF d
<1>4. ignoreOffer(p, d) \in BOOLEAN
  BY DEF ignoreOffer
<1>5. /\ born'[p] \in Nat /\ sig'[p] \in States /\ sig'[p] # "none" /\ born'[p] # 0
      /\ DescTypes(p)'
      /\ \A a \in Nat : Lived(p, a) => Lived(p, a)'
  BY <1>1, BeginsChain
<1>6. Bounded(p)'
  BY <1>1, <1>5, BoundedReads, PageTyped
<1>7. ChainTypes(p)' /\ Flags(p)'
  <2>1. CASE ignoreOffer(p, d)
    <3>1. ops'[p] = ops[p] /\ ignoring'[p] \in BOOLEAN
      BY <1>1, <1>4, <2>1
    <3>2. ChainTypes(p)'
      BY <1>5, <3>1, PageTyped DEF ChainTypes, Needs
    <3>3. Flags(p)'
      BY <1>1, <3>1, PageTyped DEF Flags, Needs
    <3> QED BY <3>2, <3>3
  <2>2. CASE ~ignoreOffer(p, d)
    <3>1. ops'[p] = Append(ops[p], SetRemote(d)) /\ ignoring'[p] \in BOOLEAN
      BY <1>1, <1>4, <2>2
    <3>2. /\ ops'[p] \in Seq(OpsOf(p)) /\ (\A i \in 1..Len(ops'[p]) : Needs(p, i)' => i = 1)
          /\ Flags(p)'
      BY <1>1, <1>3, <3>1, Queues
    <3> QED BY <1>5, <3>2 DEF ChainTypes
  <2> QED BY <2>1, <2>2
<1> QED BY <1>1, <1>5, <1>6, <1>7, ReadsTyped DEF LocalInv

LEMMA RecvCandidateTyped ==
    ASSUME TypeInv, NEW p \in Page, RecvCandidate(p)
    PROVE  TypeInv'
<1> DEFINE d == Head(dn[p]).d
<1>1. /\ Shapes' /\ Reads(p) /\ Same(Other(p)) /\ Head(dn[p]).k = "candidate"
      /\ Begins(p) /\ Held(p) /\ making'[p] = making[p] /\ ignoring'[p] = ignoring[p]
      /\ ops'[p] = Append(ops[p], AddCandidate(d))
  BY RecvCandidateDoes, PageTyped
<1>2. d \in CandsOf(Other(p))
  BY <1>1, ReadsWires, Messages
<1>3. AddCandidate(d) \in OpsOf(p) /\ AddCandidate(d) # SetLocal("needed")
  BY <1>2 DEF OpsOf, AddCandidate, SetLocal
<1> HIDE DEF d
<1>5. /\ born'[p] \in Nat /\ sig'[p] \in States /\ sig'[p] # "none" /\ born'[p] # 0
      /\ DescTypes(p)'
      /\ \A a \in Nat : Lived(p, a) => Lived(p, a)'
  BY <1>1, BeginsChain
<1>6. Bounded(p)'
  BY <1>1, <1>5, BoundedReads, PageTyped
<1>7. ignoring'[p] \in BOOLEAN
  BY <1>1, PageTyped DEF Flags
<1>8. /\ ops'[p] \in Seq(OpsOf(p)) /\ (\A i \in 1..Len(ops'[p]) : Needs(p, i)' => i = 1)
      /\ Flags(p)'
  BY <1>1, <1>3, <1>7, Queues
<1>9. ChainTypes(p)'
  BY <1>5, <1>8 DEF ChainTypes
<1> QED BY <1>1, <1>5, <1>6, <1>8, <1>9, ReadsTyped DEF LocalInv

(* What a page does on its own leaves the other as it is.                  *)
LEMMA SendsWires ==
    ASSUME TypeInv, NEW p \in Page, NEW m \in SignalsOf(p), Sends(p, m), Same(Other(p))
    PROVE  WireTypes(p)' /\ PageInv(Other(p))' /\ ServerTypes'
<1>1. /\ up'[p] = IF p \in online THEN Append(up[p], m) ELSE up[p]
      /\ up'[Other(p)] = up[Other(p)] /\ dn' = dn /\ Other(p) \in Page
      /\ online' = online /\ losses' = losses /\ clean' = clean
  BY Pair DEF Sends, serverVars
<1>2. up'[p] \in Seq(SignalsOf(p))
  BY <1>1, AppendAt, PageTyped DEF WireTypes
<1>3. WireTypes(p)' /\ WireTypes(Other(p))'
  BY <1>1, <1>2, PageTyped DEF WireTypes
<1>4. Bounded(Other(p))'
  BY <1>1, BoundedStill, PageTyped DEF Lived, Same
<1>5. LocalInv(Other(p))'
  BY <1>1, SameLocal, PageTyped
<1> QED BY <1>1, <1>3, <1>4, <1>5, PageTyped DEF ServerTypes, PageInv, LocalInv

LEMMA QuietWires ==
    ASSUME TypeInv, NEW p \in Page, Quiet, Same(Other(p))
    PROVE  WireTypes(p)' /\ PageInv(Other(p))' /\ ServerTypes'
<1>1. up' = up /\ dn' = dn /\ online' = online /\ losses' = losses /\ clean' = clean /\ Other(p) \in Page
  BY Pair DEF Quiet, serverVars
<1>3. WireTypes(p)' /\ WireTypes(Other(p))'
  BY <1>1, PageTyped DEF WireTypes
<1>4. Bounded(Other(p))'
  BY <1>1, BoundedStill, PageTyped DEF Lived, Same
<1>5. LocalInv(Other(p))'
  BY <1>1, SameLocal, PageTyped
<1> QED BY <1>1, <1>3, <1>4, <1>5, PageTyped DEF ServerTypes, PageInv, LocalInv

(* A step of the browser, of a connection that stays.                      *)
LEMMA StaysBounded ==
    ASSUME TypeInv, NEW p \in Page, dn' = dn, losses' = losses,
           born'[p] = born[p], sig[p] # "none", sig'[p] # "none"
    PROVE  Bounded(p)'
  BY BoundedStill, PageTyped DEF Lived

(* The first operation is done: the others move up.                        *)
LEMMA Shifts ==
    ASSUME TypeInv, NEW p \in Page, ops[p] # <<>>
    PROVE  /\ Tail(ops[p]) \in Seq(OpsOf(p)) /\ Head(ops[p]) = ops[p][1] /\ Head(ops[p]) \in OpsOf(p)
           /\ Len(Tail(ops[p])) = Len(ops[p]) - 1 /\ Len(ops[p]) \in Nat
           /\ \A i \in 1..Len(Tail(ops[p])) : Tail(ops[p])[i] # SetLocal("needed")
           /\ sig[p] # "none" /\ born[p] # 0
<1>1. /\ ops[p] \in Seq(OpsOf(p)) /\ \A i \in 1..Len(ops[p]) : Needs(p, i) => i = 1
  BY PageTyped DEF ChainTypes
<1>2. /\ Tail(ops[p]) \in Seq(OpsOf(p)) /\ Len(Tail(ops[p])) = Len(ops[p]) - 1
      /\ Len(ops[p]) \in Nat \ {0}
      /\ Head(ops[p]) = ops[p][1] /\ Head(ops[p]) \in OpsOf(p)
      /\ \A i \in 1..Len(Tail(ops[p])) : i + 1 \in 1..Len(ops[p]) /\ Tail(ops[p])[i] = ops[p][i + 1]
  BY <1>1, TailAt
<1>3. ASSUME NEW i \in 1..Len(Tail(ops[p]))
      PROVE  Tail(ops[p])[i] # SetLocal("needed")
  BY <1>1, <1>2 DEF Needs
<1>4. sig[p] # "none" /\ born[p] # 0
  BY PageTyped DEF ChainTypes
<1> QED BY <1>2, <1>3, <1>4

LEMMA NoOffer ==
    ASSUME NEW p \in Page, ops'[p] \in Seq(OpsOf(p)),
           \A i \in 1..Len(ops'[p]) : ops'[p][i] # SetLocal("needed")
    PROVE  ~(ops'[p] # <<>> /\ Needs(p, 1)') /\ \A i \in 1..Len(ops'[p]) : Needs(p, i)' => i = 1
<1>1. ops'[p] # <<>> => 1 \in 1..Len(ops'[p])
  BY TailAt
<1> QED BY <1>1 DEF Needs

LEMMA NeededTyped ==
    ASSUME TypeInv, NEW p \in Page, onnegotiationneeded(p)
    PROVE  TypeInv'
<1>1. /\ Shapes' /\ Quiet /\ Same(Other(p)) /\ Held(p)
      /\ sig[p] = "stable" /\ sig'[p] = sig[p] /\ born'[p] = born[p]
      /\ ops'[p] = <<SetLocal("needed")>>
      /\ making'[p] = TRUE /\ ignoring'[p] = ignoring[p]
  BY NeededDoes, PageTyped
<1>2. WireTypes(p)' /\ PageInv(Other(p))' /\ ServerTypes' /\ dn' = dn /\ losses' = losses
  BY <1>1, QuietWires DEF Quiet, serverVars
<1>3. SetLocal("needed") \in OpsOf(p)
  BY DEF OpsOf
<1>4. /\ ops'[p] \in Seq(OpsOf(p)) /\ Len(ops'[p]) = 1 /\ ops'[p][1] = SetLocal("needed")
      /\ ops'[p] # <<>>
  BY <1>1, <1>3, OneAt
<1>5. ChainTypes(p)'
  BY <1>1, <1>4, PageTyped DEF ChainTypes, Needs
<1>6. Flags(p)'
  BY <1>1, <1>4, PageTyped DEF Flags, Needs
<1>7. DescTypes(p)'
  BY <1>1, PageTyped DEF DescTypes, Held
<1>8. Bounded(p)'
  BY <1>1, <1>2, StaysBounded
<1> QED BY <1>1, <1>2, <1>5, <1>6, <1>7, <1>8, BothPages DEF PageInv

(* What a page makes of its own is a description of it.                    *)
LEMMA MadeTyped ==
    ASSUME TypeInv, NEW p \in Page, sig[p] # "none"
    PROVE  /\ Made(p) \in DescsOf(p)
           /\ IF sig[p] = "have-remote-offer" THEN Made(p) \in AnswersOf(p) /\ rem[p] \in OffersOf(Other(p))
              ELSE Made(p) \in OffersOf(p)
<1>1. born[p] \in 1..(MaxLosses + 1)
  BY PageTyped, NegotiationAssumption DEF ChainTypes
<1>2. sig[p] = "have-remote-offer" => rem[p] \in OffersOf(Other(p))
  BY PageTyped DEF DescTypes
<1> QED BY <1>1, <1>2 DEF Made, DescsOf, AnswersOf, OffersOf

LEMMA NoneBoth ==
    ASSUME NEW p \in Page
    PROVE  OffersOf(p) \cap AnswersOf(p) = {} /\ NoDesc \notin OffersOf(p) \cup AnswersOf(p)
<1>1. \A d \in OffersOf(p) : d \in DescsOf(p) /\ d.type = "offer"
  BY Described DEF DescsOf
<1>2. \A d \in AnswersOf(p) : d \in DescsOf(p) /\ d.type = "answer"
  BY Described DEF DescsOf
<1> QED BY <1>1, <1>2, NotDescribed DEF DescsOf

LEMMA LocalSetTyped ==
    ASSUME TypeInv, NEW p \in Page, LocalSet(p)
    PROVE  TypeInv'
<1>1. /\ Shapes' /\ Same(Other(p)) /\ Sends(p, [k |-> "description", d |-> Made(p)])
      /\ ops[p] # <<>> /\ Head(ops[p]).op = "local" /\ ops'[p] = Tail(ops[p])
      /\ sig'[p] = IF sig[p] = "have-remote-offer" THEN "stable" ELSE "have-local-offer"
      /\ born'[p] = born[p] /\ loc'[p] = Made(p) /\ rem'[p] = rem[p]
      /\ making'[p] = (making[p] /\ Head(ops[p]).caller # "needed")
      /\ ignoring'[p] = ignoring[p] /\ gathered'[p] = 0 /\ added'[p] = added[p]
  BY LocalSetDoes, PageTyped
<1>2. /\ Tail(ops[p]) \in Seq(OpsOf(p)) /\ Head(ops[p]) = ops[p][1] /\ Head(ops[p]) \in OpsOf(p)
      /\ \A i \in 1..Len(Tail(ops[p])) : Tail(ops[p])[i] # SetLocal("needed")
      /\ sig[p] # "none" /\ born[p] # 0
  BY <1>1, Shifts
<1>3. /\ Made(p) \in DescsOf(p)
      /\ IF sig[p] = "have-remote-offer" THEN Made(p) \in AnswersOf(p) /\ rem[p] \in OffersOf(Other(p))
         ELSE Made(p) \in OffersOf(p)
  BY <1>2, MadeTyped
<1>4. [k |-> "description", d |-> Made(p)] \in SignalsOf(p)
  BY <1>3 DEF SignalsOf
<1>5. /\ WireTypes(p)' /\ PageInv(Other(p))' /\ ServerTypes' /\ dn' = dn /\ losses' = losses
  BY <1>1, <1>4, SendsWires DEF Sends, serverVars
<1>6. /\ ~(ops'[p] # <<>> /\ Needs(p, 1)') /\ \A i \in 1..Len(ops'[p]) : Needs(p, i)' => i = 1
  BY <1>1, <1>2, NoOffer
<1>7. ChainTypes(p)'
  BY <1>1, <1>2, <1>6, PageTyped DEF ChainTypes, States
<1>8. Flags(p)'
  <2>1. making[p] => Head(ops[p]).caller = "needed"
    BY <1>2, PageTyped, Operations DEF Flags, Needs
  <2>2. making'[p] = FALSE
    <3>1. CASE making[p]
      BY <1>1, <2>1, <3>1
    <3>2. CASE ~making[p]
      BY <1>1, <3>2
    <3> QED BY <3>1, <3>2
  <2> QED BY <1>1, <1>6, <2>2, PageTyped DEF Flags
<1>9. DescTypes(p)'
  BY <1>1, <1>3, NoneBoth, PageTyped, NegotiationAssumption DEF DescTypes, DescsOf
<1>10. Bounded(p)'
  BY <1>1, <1>2, <1>5, StaysBounded
<1> QED BY <1>1, <1>5, <1>7, <1>8, <1>9, <1>10, BothPages DEF PageInv

LEMMA RemoteSetTyped ==
    ASSUME TypeInv, NEW p \in Page, RemoteSet(p)
    PROVE  TypeInv'
<1> DEFINE d == Head(ops[p]).d
<1>1. /\ Shapes' /\ Quiet /\ Same(Other(p))
      /\ ops[p] # <<>> /\ Head(ops[p]).op = "remote"
      /\ born'[p] = born[p] /\ gathered'[p] = gathered[p]
      /\ making'[p] = making[p] /\ ignoring'[p] = ignoring[p]
      /\ IF d.type = "offer" THEN TakesOffer(p, d) ELSE TakesAnswer(p, d) \/ Rejects(p)
  BY RemoteSetDoes, PageTyped
<1>2. /\ Tail(ops[p]) \in Seq(OpsOf(p)) /\ Head(ops[p]) = ops[p][1] /\ Head(ops[p]) \in OpsOf(p)
      /\ \A i \in 1..Len(Tail(ops[p])) : Tail(ops[p])[i] # SetLocal("needed")
      /\ sig[p] # "none" /\ born[p] # 0 /\ Len(Tail(ops[p])) \in Nat
  BY <1>1, Shifts, ElementsTyped
<1>3. d \in DescsOf(Other(p)) /\ Other(p) \in Page
  BY <1>1, <1>2, Operations, Pair
<1> HIDE DEF d
<1>4. (d.type = "offer" <=> d \in OffersOf(Other(p)))
  BY <1>3, Described
<1>5. WireTypes(p)' /\ PageInv(Other(p))' /\ ServerTypes' /\ dn' = dn /\ losses' = losses
  BY <1>1, QuietWires DEF Quiet, serverVars
<1>6. ~making[p]
  <2>1. Head(ops[p]) # SetLocal("needed")
    BY <1>1 DEF SetLocal
  <2> QED BY <1>2, <2>1, PageTyped DEF Flags, Needs
<1>7. /\ ops'[p] \in Seq(OpsOf(p)) /\ \A i \in 1..Len(ops'[p]) : ops'[p][i] # SetLocal("needed")
  <2>1. CASE ops'[p] = Tail(ops[p])
    BY <1>2, <2>1
  <2>2. CASE ops'[p] = Append(Tail(ops[p]), SetLocal("signal"))
    <3>1. SetLocal("signal") \in OpsOf(p) /\ SetLocal("signal") # SetLocal("needed")
      BY DEF OpsOf, SetLocal
    <3>2. /\ ops'[p] \in Seq(OpsOf(p)) /\ Len(ops'[p]) = Len(Tail(ops[p])) + 1
          /\ \A i \in 1..Len(Tail(ops[p])) : ops'[p][i] = Tail(ops[p])[i]
          /\ ops'[p][Len(Tail(ops[p])) + 1] = SetLocal("signal")
      BY <1>2, <2>2, <3>1, AppendAt
    <3> QED BY <1>2, <3>1, <3>2
  <2> QED BY <1>1, <2>1, <2>2 DEF TakesOffer, TakesAnswer, Rejects
<1>8. /\ ~(ops'[p] # <<>> /\ Needs(p, 1)') /\ \A i \in 1..Len(ops'[p]) : Needs(p, i)' => i = 1
  BY <1>7, NoOffer
<1>9. sig'[p] \in States /\ sig'[p] # "none"
  BY <1>1, <1>2, PageTyped DEF TakesOffer, TakesAnswer, Rejects, States, ChainTypes
<1>10. ChainTypes(p)'
  BY <1>1, <1>2, <1>7, <1>8, <1>9, PageTyped DEF ChainTypes
<1>11. Flags(p)'
  BY <1>1, <1>6, <1>8, PageTyped DEF Flags
<1>12. DescTypes(p)'
  <2>1. CASE TakesOffer(p, d) /\ d.type = "offer"
    BY <1>1, <1>3, <1>4, <2>1, NoneBoth, PageTyped DEF DescTypes, DescsOf, TakesOffer
  <2>2. CASE TakesAnswer(p, d) /\ d.type # "offer"
    <3>1. loc[p] \in OffersOf(p)
      BY <2>2, PageTyped DEF DescTypes, TakesAnswer
    <3> QED BY <1>1, <1>3, <2>2, <3>1, NoneBoth, PageTyped DEF DescTypes, TakesAnswer
  <2>3. CASE Rejects(p)
    BY <1>1, <2>3, PageTyped DEF DescTypes, Rejects
  <2> QED BY <1>1, <2>1, <2>2, <2>3
<1>13. Bounded(p)'
  BY <1>1, <1>2, <1>5, <1>9, StaysBounded
<1> QED BY <1>1, <1>5, <1>10, <1>11, <1>12, <1>13, BothPages DEF PageInv

LEMMA CandidateAddedTyped ==
    ASSUME TypeInv, NEW p \in Page, CandidateAdded(p)
    PROVE  TypeInv'
<1> DEFINE d == Head(ops[p]).d
<1>1. /\ Shapes' /\ Quiet /\ Same(Other(p))
      /\ ops[p] # <<>> /\ Head(ops[p]).op = "candidate" /\ ops'[p] = Tail(ops[p])
      /\ born'[p] = born[p] /\ sig'[p] = sig[p] /\ loc'[p] = loc[p] /\ rem'[p] = rem[p]
      /\ making'[p] = making[p] /\ ignoring'[p] = ignoring[p] /\ gathered'[p] = gathered[p]
      /\ added'[p] = IF rem[p] = d.of THEN added[p] \cup {d.n} ELSE added[p]
  BY CandidateAddedDoes, PageTyped
<1>2. /\ Tail(ops[p]) \in Seq(OpsOf(p)) /\ Head(ops[p]) = ops[p][1] /\ Head(ops[p]) \in OpsOf(p)
      /\ \A i \in 1..Len(Tail(ops[p])) : Tail(ops[p])[i] # SetLocal("needed")
      /\ sig[p] # "none" /\ born[p] # 0
  BY <1>1, Shifts
<1>3. d \in CandsOf(Other(p)) /\ d.n \in 1..Candidates
  BY <1>1, <1>2, Operations DEF CandsOf
<1> HIDE DEF d
<1>4. WireTypes(p)' /\ PageInv(Other(p))' /\ ServerTypes' /\ dn' = dn /\ losses' = losses
  BY <1>1, QuietWires DEF Quiet, serverVars
<1>5. ~making[p]
  <2>1. Head(ops[p]) # SetLocal("needed")
    BY <1>1 DEF SetLocal
  <2> QED BY <1>2, <2>1, PageTyped DEF Flags, Needs
<1>6. /\ ~(ops'[p] # <<>> /\ Needs(p, 1)') /\ \A i \in 1..Len(ops'[p]) : Needs(p, i)' => i = 1
  BY <1>1, <1>2, NoOffer
<1>7. ChainTypes(p)'
  BY <1>1, <1>2, <1>6, PageTyped DEF ChainTypes
<1>8. Flags(p)'
  BY <1>1, <1>5, <1>6, PageTyped DEF Flags
<1>9. DescTypes(p)'
  <2>1. added'[p] \subseteq 1..Candidates
    BY <1>1, <1>3, PageTyped DEF DescTypes
  <2> QED BY <1>1, <2>1, PageTyped DEF DescTypes
<1>10. Bounded(p)'
  BY <1>1, <1>2, <1>4, StaysBounded
<1> QED BY <1>1, <1>4, <1>7, <1>8, <1>9, <1>10, BothPages DEF PageInv

LEMMA IceTyped ==
    ASSUME TypeInv, NEW p \in Page, onicecandidate(p)
    PROVE  TypeInv'
<1>1. /\ Shapes' /\ Same(Other(p)) /\ loc[p] # NoDesc /\ gathered[p] < Candidates
      /\ Sends(p, [k |-> "candidate", d |-> [of |-> loc[p], n |-> gathered[p] + 1]])
      /\ born'[p] = born[p] /\ sig'[p] = sig[p] /\ ops'[p] = ops[p]
      /\ loc'[p] = loc[p] /\ rem'[p] = rem[p] /\ added'[p] = added[p]
      /\ making'[p] = making[p] /\ ignoring'[p] = ignoring[p] /\ gathered'[p] = gathered[p] + 1
  BY IceDoes, PageTyped
<1>2. loc[p] \in DescsOf(p) /\ gathered[p] + 1 \in 1..Candidates
  BY <1>1, PageTyped, NegotiationAssumption DEF DescTypes
<1>3. [k |-> "candidate", d |-> [of |-> loc[p], n |-> gathered[p] + 1]] \in SignalsOf(p)
  BY <1>2 DEF SignalsOf, CandsOf
<1>4. WireTypes(p)' /\ PageInv(Other(p))' /\ ServerTypes' /\ dn' = dn /\ losses' = losses
  BY <1>1, <1>3, SendsWires DEF Sends, serverVars
<1>5. ChainTypes(p)'
  BY <1>1, PageTyped DEF ChainTypes, Needs
<1>6. Flags(p)'
  BY <1>1, PageTyped DEF Flags, Needs
<1>7. DescTypes(p)'
  BY <1>1, <1>2, PageTyped DEF DescTypes
<1>8. Bounded(p)'
  BY <1>1, <1>4, BoundedStill, PageTyped DEF Lived
<1> QED BY <1>1, <1>4, <1>5, <1>6, <1>7, <1>8, BothPages DEF PageInv

LEMMA StepTyped == TypeInv /\ [Next]_vars => TypeInv'
<1> SUFFICES ASSUME TypeInv, [Next]_vars PROVE TypeInv'
  OBVIOUS
<1>1. CASE UNCHANGED vars
  <2>1. UNCHANGED <<online, losses, clean, up, dn, born, sig, ops, loc, rem, gathered, added,
                    making, ignoring>>
    BY <1>1 DEF vars, serverVars, wireVars, pcVars, linkVars
  <2> QED BY <2>1 DEF TypeInv, Shapes, ServerTypes, PageInv, WireTypes, ChainTypes, Flags, Needs,
               DescTypes, Bounded, Lived
<1>2. CASE Next
  <2>1. PICK p \in Page : \/ Comes(p) \/ Drops(p) \/ Reloads(p) \/ Forwards(p)
                          \/ Handles(p) \/ Completes(p) \/ Fires(p)
    BY <1>2 DEF Next
  <2> QED BY <2>1, ComesTyped, DropsTyped, ReloadsTyped, ForwardsTyped, RecvPeerTyped, RecvLeaveTyped,
             RecvDescriptionTyped, RecvCandidateTyped, LocalSetTyped, RemoteSetTyped,
             CandidateAddedTyped, NeededTyped, IceTyped DEF Handles, Completes, Fires
<1> QED BY <1>1, <1>2

LEMMA InvTypes == TypeInv => TypeOK
<1> SUFFICES ASSUME TypeInv PROVE TypeOK
  OBVIOUS
<1>1. /\ online \subseteq Page /\ losses \in 0..MaxLosses /\ clean \in BOOLEAN
      /\ born \in [Page -> Nat] /\ sig \in [Page -> States]
      /\ making \in [Page -> BOOLEAN] /\ ignoring \in [Page -> BOOLEAN]
      /\ gathered \in [Page -> 0..Candidates] /\ added \in [Page -> SUBSET (1..Candidates)]
  <2>1. \A p \in Page : /\ born[p] \in Nat /\ sig[p] \in States
                        /\ making[p] \in BOOLEAN /\ ignoring[p] \in BOOLEAN
                        /\ gathered[p] \in 0..Candidates /\ added[p] \in SUBSET (1..Candidates)
    BY PageTyped DEF ChainTypes, Flags, DescTypes
  <2>2. Shapes /\ ServerTypes
    BY DEF TypeInv
  <2> QED BY <2>1, <2>2 DEF Shapes, ServerTypes
<1>2. ASSUME NEW p \in Page
      PROVE  /\ loc[p] # NoDesc => loc[p].by = p
             /\ rem[p] # NoDesc => rem[p].by = Other(p)
             /\ making[p] <=> SetLocal("needed") \in {ops[p][i] : i \in 1..Len(ops[p])}
  <2>1. /\ loc[p] # NoDesc => loc[p].by = p
        /\ rem[p] # NoDesc => rem[p].by = Other(p)
    BY PageTyped, Described, Pair DEF DescTypes
  <2>2. (ops[p] # <<>> /\ Needs(p, 1)) <=> SetLocal("needed") \in {ops[p][i] : i \in 1..Len(ops[p])}
    <3>1. ops[p] # <<>> => 1 \in 1..Len(ops[p])
      BY TailAt, PageTyped DEF ChainTypes
    <3>2. \A i \in 1..Len(ops[p]) : Needs(p, i) => i = 1 /\ ops[p] # <<>>
      BY PageTyped DEF ChainTypes
    <3> QED BY <3>1, <3>2 DEF Needs
  <2> QED BY <2>1, <2>2, PageTyped DEF Flags
<1> QED BY <1>1, <1>2 DEF TypeOK

(* Every variable of the negotiation keeps its type, a page makes at most  *)
(* one offer at a time, and #makingOffer says exactly when (peer.js:104-   *)
(* 120): also with pages lost and reloaded at any time.                    *)
THEOREM TypeCorrect == Spec => []TypeOK
<1>1. Spec => []TypeInv
  BY InitTyped, StepTyped, PTL DEF Spec
<1>2. TypeInv => TypeOK
  BY InvTypes
<1> QED BY <1>1, <1>2, PTL

----------------------------------------------------------------------------
(***************************************************************************)
(* The exchange, as long as every page that was reloaded had a session     *)
(* that stood.  Each page is at some stage of it; of a page that will yet  *)
(* hear that the other left, what it still has does not count.             *)
(***************************************************************************)
Stages == {"rest", "fresh", "asked", "answering", "answered", "done"}

Wire(p) == dn[Other(p)] \o up[p]                       \* from p to the other
Ofr(p)  == Offer(p, born[p])
Ans(p)  == Answer(p, born[p], Ofr(Other(p)))

Old(p)  == dn[p] # <<>> /\ dn[p][1].k = "peer-leave"
Left(p) == /\ sig[p] = "stable" /\ ops[p] = <<>> /\ loc[p] # NoDesc
           /\ gathered[p] = Candidates /\ ~making[p]
Blank(p) == /\ sig[p] = "none" /\ ops[p] = <<>> /\ loc[p] = NoDesc /\ rem[p] = NoDesc
            /\ ~making[p]

At(p, s) ==
    /\ s \in Stages /\ (Old(p) => s = "rest")
    /\ s = "rest" => IF Old(p) THEN Left(p) ELSE Blank(p)
    /\ s = "fresh" => sig[p] = "stable" /\ loc[p] = NoDesc /\ rem[p] = NoDesc
    /\ s = "asked" => sig[p] = "have-local-offer" /\ loc[p] = Ofr(p) /\ rem[p] = NoDesc
    /\ s = "answering" => sig[p] = "have-remote-offer" /\ loc[p] = NoDesc /\ rem[p] = Ofr(Other(p))
    /\ s = "answered" => sig[p] = "stable" /\ loc[p] = Ans(p) /\ rem[p] = Ofr(Other(p))
    /\ s = "done" => sig[p] = "stable" /\ loc[p] = Ofr(p) /\ rem[p] = Ans(Other(p))

(* Both pages are there once one has begun; one that has not will start,   *)
(* and is told of the other's departure before anything else.              *)
Starts(p, m) == m.k = "peer-join" \/ (m.k = "welcome" /\ Other(p) \in m.peers)

Present(st, p) ==
    /\ online # Page => st[p] = "rest" /\ \A i \in 1..Len(dn[p]) : ~Starts(p, dn[p][i])
    /\ st[p] = "rest" => up[p] = <<>>
    /\ online = Page /\ st[p] = "rest" => \E i \in 1..Len(dn[p]) : Starts(p, dn[p][i])
    /\ \A i \in 1..Len(dn[p]) : dn[p][i].k = "peer-leave" => i = 1 /\ losses > 0

(* Its own operations.                                                     *)
Chain(st, p) ==
    /\ \A i \in 1..Len(ops[p]) : ops[p][i].op = "local" =>
         /\ ops[p][i].caller = "needed" => st[p] = "fresh"
         /\ ops[p][i].caller = "signal" => st[p] = "answering"
    /\ \A i, j \in 1..Len(ops[p]) : ops[p][i].op = "local" /\ ops[p][j].op = "local" => i = j
    /\ st[p] = "answering" => \E i \in 1..Len(ops[p]) : ops[p][i].op = "local"

(* The impolite page has begun to offer: it will ignore an offer.          *)
Insists(st, p) == ~polite(p) /\ (making[p] \/ st[p] \in {"asked", "done"})

(* What p has described and the other has not taken yet.                   *)
Wrote(st, p, d) ==
    \/ /\ d = Ofr(p)
       /\ st[p] = "asked" \/ (polite(p) /\ st[p] \in {"answering", "answered"})
    \/ d = Ans(p) /\ st[p] = "answered"

Awaits(st, p, d) ==
    \/ /\ d = Ofr(p) /\ st[p] = "asked" /\ ~Insists(st, Other(p))
       /\ st[Other(p)] \in {"fresh", "asked"}
    \/ d = Ans(p) /\ st[p] = "answered" /\ st[Other(p)] = "asked"

Describes(p, i) == i \in 1..Len(Wire(p)) /\ Wire(p)[i].k = "description"
Takes(p, i)     == i \in 1..Len(ops[p]) /\ ops[p][i].op = "remote"

OnWire(st, p) == \A i \in 1..Len(Wire(p)) : Describes(p, i) => Wrote(st, p, Wire(p)[i].d)
Queued(st, p) == \A i \in 1..Len(ops[Other(p)]) : Takes(Other(p), i) => Awaits(st, p, ops[Other(p)][i].d)

InOrder(p) ==
    /\ \A i, j \in 1..Len(Wire(p)) : Describes(p, i) /\ Describes(p, j) /\ i < j =>
         Wire(p)[i].d = Ofr(p) /\ Wire(p)[j].d = Ans(p)
    /\ \A i, j \in 1..Len(ops[Other(p)]) : Takes(Other(p), i) /\ Takes(Other(p), j) => i = j
    /\ \A i \in 1..Len(ops[Other(p)]) : Takes(Other(p), i) =>
         \A j \in 1..Len(Wire(p)) : ~Describes(p, j)

Heard(st, p) == st[Other(p)] \in {"answering", "answered", "done"} =>
    /\ \A j \in 1..Len(Wire(p)) : ~Describes(p, j)
    /\ \A i \in 1..Len(ops[Other(p)]) : ~Takes(Other(p), i)

Matches(st, p) ==
    /\ st[Other(p)] = "answering" => st[p] = "asked"
    /\ st[Other(p)] = "answered" => st[p] \in {"asked", "done"}
    /\ st[Other(p)] = "done" => st[p] = "answered"

Coming(p, d) ==
    \/ \E i \in 1..Len(Wire(p)) : Describes(p, i) /\ Wire(p)[i].d = d
    \/ \E i \in 1..Len(ops[Other(p)]) : Takes(Other(p), i) /\ ops[Other(p)][i].d = d

Lands(st, p) ==
    /\ st[p] = "asked" =>
         Coming(p, Ofr(p)) \/ st[Other(p)] \in {"answering", "answered"} \/ Insists(st, Other(p))
    /\ st[p] = "answered" => Coming(p, Ans(p)) \/ st[Other(p)] = "done"

Talk(st, p) ==
    /\ OnWire(st, p) /\ Queued(st, p) /\ InOrder(p)
    /\ Heard(st, p) /\ Matches(st, p) /\ Lands(st, p)

(* Its candidates: those of the description it has follow it.              *)
Of(p, n) == [of |-> loc[p], n |-> n]
IceOnWire(p, n, j) == /\ j \in 1..Len(Wire(p))
                      /\ Wire(p)[j].k = "candidate" /\ Wire(p)[j].d = Of(p, n)
IceQueued(p, n, j) == /\ j \in 1..Len(ops[Other(p)])
                      /\ ops[Other(p)][j].op = "candidate" /\ ops[Other(p)][j].d = Of(p, n)

Known(st, p, d) ==
    /\ (d.of = Ofr(p) /\ st[p] \notin {"rest", "fresh"}) \/ (d.of = Ans(p) /\ st[p] = "answered")
    /\ d.of = loc[p] => d.n \in 1..gathered[p]

IceKnown(st, p) ==
    /\ \A i \in 1..Len(Wire(p)) : Wire(p)[i].k = "candidate" => Known(st, p, Wire(p)[i].d)
    /\ \A i \in 1..Len(ops[Other(p)]) : ops[Other(p)][i].op = "candidate" =>
         Known(st, p, ops[Other(p)][i].d)

Follows(p, n) ==
    \/ \E j \in 1..Len(ops[Other(p)]) : IceQueued(p, n, j)
    \/ \E j \in 1..Len(Wire(p)) : IceOnWire(p, n, j)

HasLoc(st, p) == st[p] \in {"asked", "answered", "done"}

IceTaken(st, p) == HasLoc(st, p) /\ st[Other(p)] # "rest" /\ rem[Other(p)] = loc[p] =>
    /\ added[Other(p)] \subseteq 1..gathered[p]
    /\ \A n \in 1..gathered[p] : n \in added[Other(p)] \/ Follows(p, n)

IceBehindQueued(st, p) == HasLoc(st, p) => \A i \in 1..Len(ops[Other(p)]) :
    Takes(Other(p), i) /\ ops[Other(p)][i].d = loc[p] => \A n \in 1..gathered[p] :
        \/ \E j \in 1..Len(ops[Other(p)]) : j > i /\ IceQueued(p, n, j)
        \/ \E j \in 1..Len(Wire(p)) : IceOnWire(p, n, j)

IceBehindSent(st, p) == HasLoc(st, p) => \A i \in 1..Len(Wire(p)) :
    Describes(p, i) /\ Wire(p)[i].d = loc[p] => \A n \in 1..gathered[p] :
        \E j \in 1..Len(Wire(p)) : j > i /\ IceOnWire(p, n, j)

Ice(st, p) ==
    IceKnown(st, p) /\ IceTaken(st, p) /\ IceBehindQueued(st, p) /\ IceBehindSent(st, p)

Sound(st) == \A p \in Page :
    At(p, st[p]) /\ Present(st, p) /\ Chain(st, p) /\ Talk(st, p) /\ Ice(st, p)

CleanInv == clean => \E st \in [Page -> Stages] : Sound(st)

----------------------------------------------------------------------------
(* A wire is what the server still holds for the other page, then what the *)
(* page still has to hand to the server.                                   *)
LEMMA WireTyped ==
    ASSUME TypeInv, NEW p \in Page
    PROVE  /\ up[p] \in Seq(ToPage(Other(p))) /\ dn[Other(p)] \in Seq(ToPage(Other(p)))
           /\ Wire(p) \in Seq(ToPage(Other(p)))
<1>1. up[p] \in Seq(SignalsOf(p)) /\ dn[Other(p)] \in Seq(ToPage(Other(p)))
  BY Pair, PageTyped DEF WireTypes
<1>2. SignalsOf(p) \subseteq ToPage(Other(p))
  BY Signals
<1>3. up[p] \in Seq(ToPage(Other(p)))
  BY <1>1, <1>2
<1> QED BY <1>1, <1>3, ConcatProperties DEF Wire

LEMMA ConcatTail ==
    ASSUME NEW S, NEW s \in Seq(S), NEW t \in Seq(S), s # <<>>
    PROVE  s \o t # <<>> /\ Tail(s) \o t = Tail(s \o t) /\ Head(s \o t) = Head(s)
<1>1. Len(s) \in Nat \ {0} /\ Len(t) \in Nat
  BY EmptySeq
<1> QED BY <1>1

LEMMA ConcatAppend ==
    ASSUME NEW S, NEW s \in Seq(S), NEW t \in Seq(S), NEW m \in S
    PROVE  s \o Append(t, m) = Append(s \o t, m)
<1>1. Len(s) \in Nat /\ Len(t) \in Nat
  OBVIOUS
<1> QED BY <1>1

LEMMA ConcatMove ==
    ASSUME NEW S, NEW s \in Seq(S), NEW t \in Seq(S), t # <<>>
    PROVE  Append(s, Head(t)) \o Tail(t) = s \o t
<1>1. Len(s) \in Nat /\ Len(t) \in Nat \ {0}
  BY EmptySeq
<1> QED BY <1>1

(* The wires of both pages, as messages move.                              *)
LEMMA WiresRead ==
    ASSUME TypeInv, NEW x \in Page, Reads(x)
    PROVE  /\ Wire(x)' = Wire(x)
           /\ Wire(Other(x)) # <<>> /\ Wire(Other(x))' = Tail(Wire(Other(x)))
           /\ Wire(Other(x))[1] = dn[x][1] /\ Head(dn[x]) = dn[x][1]
<1>1. Wire(x)' = Wire(x)
  BY DEF Wire, Reads
<1>2. /\ Wire(Other(x)) = dn[x] \o up[Other(x)]
      /\ Wire(Other(x))' = Tail(dn[x]) \o up[Other(x)] /\ dn[x] # <<>>
  BY Pair DEF Wire, Reads
<1>3. /\ dn[x] \in Seq(ToPage(x)) /\ up[Other(x)] \in Seq(ToPage(x))
      /\ Wire(Other(x)) \in Seq(ToPage(x))
  BY WireTyped, Pair
<1>4. /\ Wire(Other(x)) # <<>> /\ Wire(Other(x))' = Tail(Wire(Other(x)))
      /\ Head(Wire(Other(x))) = Head(dn[x])
  <2>1. /\ dn[x] \o up[Other(x)] # <<>> /\ Tail(dn[x]) \o up[Other(x)] = Tail(dn[x] \o up[Other(x)])
        /\ Head(dn[x] \o up[Other(x)]) = Head(dn[x])
    BY <1>2, <1>3, ConcatTail
  <2> QED BY <1>2, <2>1
<1>5. Head(Wire(Other(x))) = Wire(Other(x))[1] /\ Head(dn[x]) = dn[x][1]
  BY <1>2, <1>3, <1>4, TailAt
<1> QED BY <1>1, <1>4, <1>5

LEMMA WiresSend ==
    ASSUME TypeInv, NEW x \in Page, NEW m \in SignalsOf(x), Sends(x, m), x \in online
    PROVE  /\ Wire(x)' = Append(Wire(x), m) /\ Wire(Other(x))' = Wire(Other(x))
           /\ m \in ToPage(Other(x))
<1>1. /\ Wire(Other(x))' = Wire(Other(x))
      /\ Wire(x) = dn[Other(x)] \o up[x] /\ Wire(x)' = dn[Other(x)] \o Append(up[x], m)
  BY Pair DEF Wire, Sends
<1>2. m \in ToPage(Other(x))
  BY Signals
<1>3. dn[Other(x)] \o Append(up[x], m) = Append(dn[Other(x)] \o up[x], m)
  <2>1. up[x] \in Seq(ToPage(Other(x))) /\ dn[Other(x)] \in Seq(ToPage(Other(x)))
    BY WireTyped
  <2>2. \A s, t \in Seq(ToPage(Other(x))) : s \o Append(t, m) = Append(s \o t, m)
    BY <1>2, ConcatAppend
  <2> QED BY <2>1, <2>2, Zenon
<1> QED BY <1>1, <1>2, <1>3

LEMMA WiresQuiet ==
    ASSUME NEW x \in Page, Quiet
    PROVE  Wire(x)' = Wire(x)
  BY DEF Wire, Quiet

LEMMA WiresForward ==
    ASSUME TypeInv, NEW x \in Page, Forwards(x), Other(x) \in online
    PROVE  Wire(x)' = Wire(x) /\ Wire(Other(x))' = Wire(Other(x))
<1>1. /\ Wire(Other(x))' = Wire(Other(x)) /\ up[x] # <<>>
      /\ Wire(x)' = Append(dn[Other(x)], Head(up[x])) \o Tail(up[x])
  BY ForwardsDoes, Pair DEF Wire, TypeInv
<1>2. Append(dn[Other(x)], Head(up[x])) \o Tail(up[x]) = dn[Other(x)] \o up[x]
  <2>1. up[x] \in Seq(ToPage(Other(x))) /\ dn[Other(x)] \in Seq(ToPage(Other(x)))
    BY WireTyped
  <2>2. \A s, t \in Seq(ToPage(Other(x))) : t # <<>> => Append(s, Head(t)) \o Tail(t) = s \o t
    BY ConcatMove
  <2> QED BY <1>1, <2>1, <2>2, Zenon
<1> QED BY <1>1, <1>2 DEF Wire

(* A queue entry by entry, once its first one is gone.                     *)
LEMMA Shifted ==
    ASSUME NEW S, NEW s \in Seq(S), s # <<>>, NEW t, t = Tail(s)
    PROVE  /\ \A i \in 1..Len(t) : i + 1 \in 1..Len(s) /\ t[i] = s[i + 1]
           /\ \A j \in 1..Len(s) : j # 1 => j - 1 \in 1..Len(t) /\ t[j - 1] = s[j]
           /\ 1 \in 1..Len(s) /\ t \in Seq(S) /\ Head(s) = s[1]
  OBVIOUS

LEMMA Grown ==
    ASSUME NEW S, NEW s \in Seq(S), NEW m \in S, NEW t, t = Append(s, m)
    PROVE  /\ \A i \in 1..Len(s) : i \in 1..Len(t) /\ t[i] = s[i]
           /\ \A j \in 1..Len(t) : j # Len(s) + 1 => j \in 1..Len(s) /\ t[j] = s[j]
           /\ Len(s) + 1 \in 1..Len(t) /\ t[Len(s) + 1] = m /\ t \in Seq(S)
           /\ Len(s) \in Nat /\ t # <<>>
  BY AppendAt

(* Descriptions are told apart by their kind.                              *)
LEMMA Kinds ==
    ASSUME NEW p \in Page, NEW q \in Page
    PROVE  /\ Ofr(p) # Ans(q) /\ Ofr(p) # NoDesc /\ Ans(p) # NoDesc
           /\ Ofr(p).type = "offer" /\ Ans(p).type = "answer"
  BY DEF Ofr, Ans, Offer, Answer, NoDesc

(* One that is at rest or has not offered has said nothing.                *)
NoWord(p) ==
    /\ \A i \in 1..Len(Wire(p)) : Wire(p)[i].k \notin {"description", "candidate"}
    /\ \A i \in 1..Len(ops[Other(p)]) : ops[Other(p)][i].op = "local"

LEMMA Silent ==
    ASSUME TypeInv, NEW st \in [Page -> Stages], Sound(st), NEW p \in Page, st[p] \in {"rest", "fresh"}
    PROVE  NoWord(p) /\ st[Other(p)] \in {"rest", "fresh", "asked"}
<1> DEFINE y == Other(p)
<1>1. Talk(st, p) /\ Ice(st, p)
  BY DEF Sound
<1>2. \A i \in 1..Len(Wire(p)) : Wire(p)[i].k \notin {"description", "candidate"}
  BY <1>1 DEF Talk, Ice, OnWire, Describes, Wrote, IceKnown, Known
<1>3. \A i \in 1..Len(ops[y]) : ops[y][i].op = "local"
  <2>1. \A i \in 1..Len(ops[y]) : ops[y][i].op \in {"local", "remote", "candidate"}
    BY Operations, Pair, PageTyped, ElementsTyped DEF ChainTypes
  <2> QED BY <1>1, <2>1 DEF Talk, Ice, Queued, Takes, Awaits, IceKnown, Known
<1>4. st[y] \in {"rest", "fresh", "asked"}
  <2>1. st[y] \in Stages
    BY Pair
  <2> QED BY <1>1, <2>1 DEF Talk, Matches, Stages
<1> QED BY <1>2, <1>3, <1>4 DEF NoWord

LEMMA Untold ==
    ASSUME NEW st, NEW p \in Page, NoWord(p)', st[p] \in {"rest", "fresh"},
           st[Other(p)] \in {"rest", "fresh", "asked"}
    PROVE  Talk(st, p)' /\ Ice(st, p)'
<1>1. OnWire(st, p)' /\ Queued(st, p)' /\ InOrder(p)'
  BY DEF NoWord, OnWire, Queued, InOrder, Describes, Takes
<1>2. Heard(st, p)' /\ Matches(st, p)' /\ Lands(st, p)'
  BY DEF Heard, Matches, Lands
<1>3. IceKnown(st, p)'
  BY DEF IceKnown, NoWord
<1>4. IceTaken(st, p)' /\ IceBehindQueued(st, p)' /\ IceBehindSent(st, p)'
  BY DEF IceTaken, IceBehindQueued, IceBehindSent, HasLoc
<1> QED BY <1>1, <1>2, <1>3, <1>4 DEF Talk, Ice

(* What holds of a page that does nothing.                                 *)
LEMMA AtSame ==
    ASSUME NEW p \in Page, NEW s, At(p, s), Same(p), Old(p)' <=> Old(p),
           born'[Other(p)] = born[Other(p)] \/ s \in {"rest", "fresh", "asked"}
    PROVE  At(p, s)'
<1>1. (Blank(p)' <=> Blank(p)) /\ (Left(p)' <=> Left(p)) /\ Ofr(p)' = Ofr(p)
  BY DEF Same, Blank, Left, Ofr
<1>2. CASE s \in {"rest", "fresh", "asked"}
  BY <1>1, <1>2 DEF At, Same
<1>3. CASE born'[Other(p)] = born[Other(p)]
  <2>1. Ofr(Other(p))' = Ofr(Other(p))
    BY <1>3 DEF Ofr
  <2>2. Ans(p)' = Ans(p)
    BY <2>1 DEF Ans, Same
  <2>3. Ans(Other(p))' = Ans(Other(p))
    BY <1>1, <1>3, Pair DEF Ans
  <2> QED BY <1>1, <2>1, <2>2, <2>3 DEF At, Same
<1> QED BY <1>2, <1>3

LEMMA ChainSame ==
    ASSUME NEW st, NEW p \in Page, NEW s2, Chain(st, p), s2[p] = st[p], ops'[p] = ops[p]
    PROVE  Chain(s2, p)'
  BY DEF Chain

LEMMA SoundBoth ==
    ASSUME NEW st, NEW x \in Page,
           At(x, st[x])', Present(st, x)', Chain(st, x)', Talk(st, x)', Ice(st, x)',
           At(Other(x), st[Other(x)])', Present(st, Other(x))', Chain(st, Other(x))',
           Talk(st, Other(x))', Ice(st, Other(x))'
    PROVE  Sound(st)'
<1> SUFFICES ASSUME NEW p \in Page
             PROVE  At(p, st[p])' /\ Present(st, p)' /\ Chain(st, p)' /\ Talk(st, p)' /\ Ice(st, p)'
  BY DEF Sound
<1> QED BY Twins

(* While a page is away, neither has begun.                                *)
LEMMA Away ==
    ASSUME TypeInv, NEW st \in [Page -> Stages], Sound(st), NEW x \in Page, st[x] = "rest",
           st[Other(x)] = "rest"
    PROVE  /\ \A p \in Page : /\ NoWord(p) /\ st[p] = "rest" /\ up[p] = <<>> /\ ops[p] = <<>>
                              /\ Wire(p) = dn[Other(p)]
<1>1. \A p \in Page : st[p] = "rest"
  BY Twins
<1> SUFFICES ASSUME NEW p \in Page
             PROVE  NoWord(p) /\ up[p] = <<>> /\ ops[p] = <<>> /\ Wire(p) = dn[Other(p)]
  BY <1>1
<1>2. NoWord(p)
  BY <1>1, Silent
<1>3. up[p] = <<>> /\ ops[p] = <<>>
  BY <1>1 DEF Sound, Present, At, Left, Blank
<1>4. Wire(p) = dn[Other(p)]
  BY <1>3, WireTyped, ConcatEmptySeq DEF Wire
<1> QED BY <1>2, <1>3, <1>4

LEMMA ComesSound ==
    ASSUME TypeInv, NEW st \in [Page -> Stages], Sound(st), NEW x \in Page, Comes(x)
    PROVE  Sound(st)'
<1> DEFINE y == Other(x)
           J == Join(x)
           pj == [k |-> "peer-join"]
<1>1. /\ x \notin online /\ online' = online \cup {x} /\ losses' = losses
      /\ \A p \in Page : Same(p) /\ up'[p] = up[p]
      /\ dn'[x] = <<J>>
      /\ dn'[y] = IF y \in online THEN Append(dn[y], pj) ELSE dn[y]
  BY ComesDoes DEF TypeInv
<1>2. /\ y \in Page /\ y # x /\ Other(y) = x /\ \A q \in Page : q = x \/ q = y
      /\ online \subseteq Page
  BY Pair, PageTyped DEF ServerTypes
<1>3. /\ \A p \in Page : At(p, st[p]) /\ Present(st, p) /\ Chain(st, p)
      /\ st[x] = "rest" /\ st[y] = "rest"
  BY <1>1, <1>2 DEF Sound, Present
<1>4. \A p \in Page : /\ NoWord(p) /\ up[p] = <<>> /\ ops[p] = <<>> /\ Wire(p) = dn[Other(p)]
                      /\ dn[p] \in Seq(ToPage(p)) /\ (p \notin online => dn[p] = <<>>)
  BY <1>3, Away, PageTyped DEF WireTypes
<1>5. /\ J.k = "welcome" /\ J.peers = online /\ pj.k = "peer-join" /\ pj \in ToPage(y) /\ J \in ToPage(x)
  BY <1>2 DEF Join, ToPage, FromServer
<1>6. /\ Len(dn'[x]) = 1 /\ dn'[x][1] = J /\ dn'[x] # <<>> /\ dn'[x] \in Seq(ToPage(x))
  BY <1>1, <1>5, OneAt
<1>7. y \in online =>
        /\ \A i \in 1..Len(dn[y]) : i \in 1..Len(dn'[y]) /\ dn'[y][i] = dn[y][i]
        /\ \A j \in 1..Len(dn'[y]) : j # Len(dn[y]) + 1 => j \in 1..Len(dn[y]) /\ dn'[y][j] = dn[y][j]
        /\ Len(dn[y]) + 1 \in 1..Len(dn'[y]) /\ dn'[y][Len(dn[y]) + 1] = pj /\ Len(dn[y]) \in Nat
        /\ dn'[y] \in Seq(ToPage(y)) /\ dn'[y] # <<>>
  BY <1>1, <1>2, <1>4, <1>5, Grown
<1>8. dn'[y] \in Seq(ToPage(y))
  BY <1>1, <1>2, <1>4, <1>7
<1>9. Wire(x)' = dn'[y] /\ Wire(y)' = dn'[x]
  <2>1. Wire(x)' = dn'[y] \o <<>> /\ Wire(y)' = dn'[x] \o <<>>
    BY <1>1, <1>2, <1>4 DEF Wire
  <2> QED BY <1>6, <1>8, <2>1, ConcatEmptySeq
<1>10. NoWord(x)' /\ NoWord(y)'
  <2>1. \A i \in 1..Len(dn[y]) : dn[y][i].k \notin {"description", "candidate"}
    BY <1>2, <1>4 DEF NoWord
  <2>2. \A i \in 1..Len(dn'[y]) : dn'[y][i].k \notin {"description", "candidate"}
    BY <1>1, <1>5, <1>7, <2>1
  <2>3. ops'[x] = <<>> /\ ops'[y] = <<>>
    BY <1>1, <1>2, <1>4 DEF Same
  <2> QED BY <1>2, <1>5, <1>6, <1>9, <2>2, <2>3 DEF NoWord
<1>11. Talk(st, x)' /\ Ice(st, x)' /\ Talk(st, y)' /\ Ice(st, y)'
  BY <1>2, <1>3, <1>10, Untold
<1>12. (Old(x)' <=> Old(x)) /\ (Old(y)' <=> Old(y))
  <2>1. ~Old(x)' /\ ~Old(x)
    BY <1>1, <1>4, <1>5, <1>6 DEF Old
  <2>2. Old(y)' <=> Old(y)
    <3>1. CASE y \in online
      <4>1. dn[y] # <<>> => 1 \in 1..Len(dn[y])
        BY <1>2, <1>4, TailAt
      <4>2. dn[y] = <<>> => Len(dn[y]) = 0
        OBVIOUS
      <4> QED BY <1>5, <1>7, <3>1, <4>1, <4>2 DEF Old
    <3>2. CASE y \notin online
      BY <1>1, <3>2 DEF Old
    <3> QED BY <3>1, <3>2
  <2> QED BY <2>1, <2>2
<1>13. At(x, st[x])' /\ At(y, st[y])'
  BY <1>1, <1>2, <1>3, <1>12, AtSame
<1>14. Chain(st, x)' /\ Chain(st, y)'
  BY <1>1, <1>2, <1>3, ChainSame DEF Same
<1>15. Present(st, x)'
  <2>1. up'[x] = <<>>
    BY <1>1, <1>4
  <2>2. Starts(x, J) <=> y \in online
    BY <1>5 DEF Starts
  <2>3. y \in online <=> online' = Page
    BY <1>1, <1>2
  <2> QED BY <1>3, <1>5, <1>6, <2>1, <2>2, <2>3 DEF Present, Starts
<1>16. Present(st, y)'
  <2>1. up'[y] = <<>> /\ (y \in online <=> online' = Page) /\ (y \notin online => dn'[y] = <<>>)
    BY <1>1, <1>2, <1>4
  <2>2. Starts(y, pj) /\ ~(pj.k = "peer-leave")
    BY <1>5 DEF Starts
  <2>3. \A i \in 1..Len(dn'[y]) : dn'[y][i].k = "peer-leave" => i = 1 /\ losses' > 0
    BY <1>1, <1>2, <1>3, <1>7, <2>2 DEF Present
  <2>4. CASE y \in online
    BY <1>3, <1>7, <2>1, <2>2, <2>3, <2>4 DEF Present
  <2>5. CASE y \notin online
    BY <1>3, <2>1, <2>3, <2>5 DEF Present
  <2> QED BY <2>4, <2>5
<1> QED BY <1>11, <1>13, <1>14, <1>15, <1>16, SoundBoth

(* Once all is quiet, one page has answered and the other has its answer.  *)
LEMMA SettledEnds ==
    ASSUME TypeInv, NEW st \in [Page -> Stages], Sound(st), Settled
    PROVE  /\ \A p \in Page : st[p] \in {"answered", "done"}
           /\ \A p \in Page : st[p] = "done" <=> st[Other(p)] = "answered"
<1>1. online = Page /\ \A p \in Page :
        /\ up[p] = <<>> /\ dn[p] = <<>> /\ ops[p] = <<>>
        /\ loc[p] = NoDesc => sig[p] # "stable"
  BY DEF Settled
<1>2. \A p \in Page : At(p, st[p]) /\ Present(st, p) /\ Chain(st, p) /\ Talk(st, p) /\ st[p] \in Stages
  BY DEF Sound
<1>3. \A p \in Page : Len(dn[p]) = 0 /\ Len(ops[p]) = 0 /\ Len(Wire(p)) = 0 /\ Other(p) \in Page
  <2>1. \A p \in Page : Wire(p) = <<>> \o <<>> /\ Other(p) \in Page
    BY <1>1, Pair DEF Wire
  <2> QED BY <1>1, <2>1
<1>4. ASSUME NEW p \in Page
      PROVE  st[p] \in {"asked", "answered", "done"}
  <2>1. st[p] # "rest"
    BY <1>1, <1>2, <1>3 DEF Present
  <2>2. st[p] # "fresh"
    BY <1>1, <1>2 DEF At
  <2>3. st[p] # "answering"
    BY <1>2, <1>3 DEF Chain
  <2> QED BY <1>2, <2>1, <2>2, <2>3 DEF Stages
<1>5. ASSUME NEW p \in Page
      PROVE  /\ ~making[p]
             /\ st[p] = "asked" => st[Other(p)] = "answered" \/ Insists(st, Other(p))
             /\ st[p] = "answered" => st[Other(p)] = "done"
  <2>1. ~making[p]
    BY <1>1, PageTyped DEF Flags
  <2>2. \A d : ~Coming(p, d)
    BY <1>3 DEF Coming
  <2>3. Lands(st, p) /\ st[Other(p)] # "answering"
    BY <1>2, <1>3, <1>4 DEF Talk
  <2> QED BY <2>1, <2>2, <2>3 DEF Lands
<1>6. \A p \in Page : st[Other(p)] = "done" => st[p] = "answered"
  BY <1>2 DEF Talk, Matches
<1>7. ASSUME NEW p \in Page
      PROVE  st[p] # "asked"
  <2> SUFFICES ASSUME st[p] = "asked" PROVE FALSE
    OBVIOUS
  <2>1. Other(p) \in Page /\ Other(Other(p)) = p /\ (polite(Other(p)) <=> ~polite(p))
    BY Pair
  <2>2. st[Other(p)] # "answered"
    BY <1>5, <2>1
  <2>3. ~polite(Other(p)) /\ st[Other(p)] \in {"asked", "done"}
    BY <1>5, <2>1, <2>2 DEF Insists
  <2>4. st[Other(p)] = "asked"
    BY <1>6, <2>3
  <2>5. Insists(st, p)
    BY <1>5, <2>1, <2>4
  <2> QED BY <2>1, <2>3, <2>5 DEF Insists
<1> QED BY <1>4, <1>5, <1>6, <1>7, Pair

LEMMA ReloadsSound ==
    ASSUME TypeInv, NEW st \in [Page -> Stages], Sound(st), NEW x \in Page, Reloads(x), clean'
    PROVE  \E s2 \in [Page -> Stages] : Sound(s2)'
<1> DEFINE y == Other(x)
           s2 == [p \in Page |-> "rest"]
           pl == [k |-> "peer-leave"]
<1>1. Gone(x) /\ Dispose(x) /\ Settled
  BY ReloadsDoes DEF TypeInv
<1>2. /\ y \in Page /\ y # x /\ Other(y) = x /\ x \in online /\ online' = online \ {x}
      /\ losses' = losses + 1 /\ losses \in Nat
      /\ up'[x] = <<>> /\ dn'[x] = <<>> /\ up'[y] = up[y]
      /\ dn'[y] = IF y \in online THEN Append(dn[y], pl) ELSE dn[y]
  BY <1>1, GoneDoes, Pair, PageTyped DEF TypeInv, ServerTypes
<1>3. /\ \A p \in Page : up[p] = <<>> /\ dn[p] = <<>> /\ ops[p] = <<>>
      /\ online = Page /\ (loc[y] # NoDesc => gathered[y] = Candidates)
  BY <1>1, <1>2 DEF Settled
<1>4. /\ dn'[y] = <<pl>> /\ up'[y] = <<>> /\ Len(dn'[y]) = 1 /\ dn'[y][1] = pl /\ dn'[y] # <<>>
      /\ pl.k = "peer-leave"
  <2>1. dn'[y] = <<pl>>
    <3>1. dn'[y] = Append(<<>>, pl)
      BY <1>2, <1>3
    <3>2. Append(<<>>, pl) = <<pl>>
      OBVIOUS
    <3> QED BY <3>1, <3>2
  <2>2. /\ Len(<<pl>>) = 1 /\ <<pl>>[1] = pl /\ <<pl>> # <<>>
        /\ pl.k = "peer-leave"
    OBVIOUS
  <2>3. up'[y] = <<>>
    BY <1>2, <1>3
  <2> HIDE DEF pl
  <2> QED BY <2>1, <2>2, <2>3
<1>5. /\ Same(y) /\ sig'[x] = "none" /\ ops'[x] = <<>> /\ loc'[x] = NoDesc /\ rem'[x] = NoDesc
      /\ making'[x] = FALSE
  BY <1>1, DisposeDoes DEF TypeInv
<1>6. Wire(x)' = dn'[y] /\ Wire(y)' = dn'[x]
  <2>1. Wire(x)' = <<pl>> \o <<>> /\ Wire(y)' = <<>> \o <<>>
    BY <1>2, <1>4 DEF Wire
  <2> QED BY <1>2, <1>4, <2>1
<1>7. ops'[y] = <<>> /\ ops'[x] = <<>>
  BY <1>2, <1>3, <1>5 DEF Same
<1>8. NoWord(x)' /\ NoWord(y)'
  BY <1>2, <1>4, <1>6, <1>7 DEF NoWord
<1>9. s2 \in [Page -> Stages] /\ s2[x] = "rest" /\ s2[y] = "rest"
  BY <1>2 DEF Stages
<1>10. Talk(s2, x)' /\ Ice(s2, x)' /\ Talk(s2, y)' /\ Ice(s2, y)'
  <2> HIDE DEF s2
  <2> QED BY <1>2, <1>8, <1>9, Untold
<1>11. Left(y)
  <2>1. st[y] \in {"answered", "done"} /\ At(y, st[y])
    BY <1>1, <1>2, SettledEnds DEF Sound
  <2>2. sig[y] = "stable" /\ loc[y] # NoDesc
    BY <1>2, <2>1, Kinds DEF At
  <2>3. ~making[y]
    BY <1>2, <1>3, PageTyped DEF Flags
  <2> QED BY <1>2, <1>3, <2>2, <2>3 DEF Left
<1>12. Left(y)' /\ Old(y)'
  BY <1>4, <1>5, <1>11 DEF Left, Same, Old
<1>13. Blank(x)' /\ ~Old(x)'
  BY <1>2, <1>5 DEF Blank, Old
<1> HIDE DEF s2
<1>14. At(x, s2[x])' /\ At(y, s2[y])'
  BY <1>9, <1>12, <1>13 DEF At, Stages
<1>15. Chain(s2, x)' /\ Chain(s2, y)'
  BY <1>7, <1>9 DEF Chain
<1>16. Present(s2, x)' /\ Present(s2, y)'
  <2>1. online' # Page /\ losses' > 0 /\ Len(dn'[x]) = 0
    BY <1>2
  <2> QED BY <1>2, <1>4, <1>9, <2>1 DEF Present, Starts
<1>17. Sound(s2)'
  BY <1>10, <1>14, <1>15, <1>16, SoundBoth
<1> QED BY <1>9, <1>17

(* What a page has said, when neither it nor the other speaks.             *)
LEMMA TalkSame ==
    ASSUME NEW st, NEW s2, NEW p \in Page, Talk(st, p),
           s2[p] = st[p], s2[Other(p)] = st[Other(p)],
           Wire(p)' = Wire(p), ops'[Other(p)] = ops[Other(p)],
           born'[p] = born[p], born'[Other(p)] = born[Other(p)],
           making'[Other(p)] = making[Other(p)]
    PROVE  Talk(s2, p)'
<1>1. Ofr(p)' = Ofr(p) /\ Ofr(Other(p))' = Ofr(Other(p)) /\ Ans(p)' = Ans(p)
  BY DEF Ofr, Ans
<1>2. (Insists(s2, Other(p)))' <=> Insists(st, Other(p))
  BY DEF Insists
<1>3. OnWire(s2, p)' /\ Queued(s2, p)'
  BY <1>1, <1>2 DEF Talk, OnWire, Queued, Wrote, Awaits, Describes, Takes
<1>4. InOrder(p)' /\ Heard(s2, p)' /\ Matches(s2, p)'
  BY <1>1 DEF Talk, InOrder, Heard, Matches, Describes, Takes
<1>5. Lands(s2, p)'
  BY <1>1, <1>2 DEF Talk, Lands, Coming, Describes, Takes
<1> QED BY <1>3, <1>4, <1>5 DEF Talk

LEMMA IceSame ==
    ASSUME NEW st, NEW s2, NEW p \in Page, Ice(st, p),
           s2[p] = st[p] \/ (st[p] = "asked" /\ s2[p] = "done"), s2[Other(p)] = st[Other(p)],
           Wire(p)' = Wire(p), ops'[Other(p)] = ops[Other(p)],
           born'[p] = born[p], born'[Other(p)] = born[Other(p)],
           loc'[p] = loc[p], gathered'[p] = gathered[p],
           rem'[Other(p)] = rem[Other(p)], added'[Other(p)] = added[Other(p)]
    PROVE  Ice(s2, p)'
<1>1. Ofr(p)' = Ofr(p) /\ Ans(p)' = Ans(p) /\ (HasLoc(s2, p) <=> HasLoc(st, p))
  BY DEF Ofr, Ans, HasLoc
<1>2. IceKnown(s2, p)'
  BY <1>1 DEF Ice, IceKnown, Known
<1>3. /\ \A n, j : IceOnWire(p, n, j)' <=> IceOnWire(p, n, j)
      /\ \A n, j : IceQueued(p, n, j)' <=> IceQueued(p, n, j)
      /\ \A i : (Describes(p, i)' <=> Describes(p, i)) /\ (Takes(Other(p), i)' <=> Takes(Other(p), i))
  BY DEF IceOnWire, IceQueued, Of, Describes, Takes
<1>4. IceTaken(s2, p)'
  BY <1>1, <1>3 DEF Ice, IceTaken, Follows
<1>5. IceBehindQueued(s2, p)' /\ IceBehindSent(s2, p)'
  BY <1>1, <1>3 DEF Ice, IceBehindQueued, IceBehindSent
<1> QED BY <1>2, <1>4, <1>5 DEF Ice

(* A page that reads a message has one less on its wire, and may have      *)
(* begun; what it does not handle at once it asks of its browser.          *)
Moved(x) ==
    \/ ops'[x] = ops[x] /\ dn[x][1].k # "candidate"
    \/ \E o \in OpsOf(x) : /\ ops'[x] = Append(ops[x], o) /\ o.d = dn[x][1].d
                           /\ \/ o.op = "remote" /\ dn[x][1].k = "description"
                              \/ o.op = "candidate" /\ dn[x][1].k = "candidate"

Keeps(x) == \A i \in 1..Len(ops[x]) : i \in 1..Len(ops'[x]) /\ ops'[x][i] = ops[x][i]

LEMMA MovedAt ==
    ASSUME TypeInv, NEW x \in Page, Moved(x)
    PROVE  /\ Keeps(x)
           /\ \A i \in 1..Len(ops'[x]) :
                \/ i \in 1..Len(ops[x])
                \/ /\ i = Len(ops[x]) + 1 /\ ops'[x][i].d = dn[x][1].d
                   /\ \/ ops'[x][i].op = "remote" /\ dn[x][1].k = "description"
                      \/ ops'[x][i].op = "candidate" /\ dn[x][1].k = "candidate"
           /\ dn[x][1].k = "candidate" => \E i \in 1..Len(ops'[x]) :
                i = Len(ops[x]) + 1 /\ ops'[x][i].op = "candidate" /\ ops'[x][i].d = dn[x][1].d
           /\ Len(ops[x]) \in Nat
<1>1. ops[x] \in Seq(OpsOf(x)) /\ Len(ops[x]) \in Nat
  BY PageTyped DEF ChainTypes
<1>2. CASE ops'[x] = ops[x] /\ dn[x][1].k # "candidate"
  BY <1>1, <1>2 DEF Keeps
<1>3. ASSUME NEW o \in OpsOf(x), ops'[x] = Append(ops[x], o), o.d = dn[x][1].d,
             \/ o.op = "remote" /\ dn[x][1].k = "description"
             \/ o.op = "candidate" /\ dn[x][1].k = "candidate"
      PROVE  /\ Keeps(x)
             /\ \A i \in 1..Len(ops'[x]) : i \in 1..Len(ops[x]) \/ (i = Len(ops[x]) + 1 /\ ops'[x][i] = o)
             /\ Len(ops[x]) + 1 \in 1..Len(ops'[x]) /\ ops'[x][Len(ops[x]) + 1] = o
  BY <1>1, <1>3, Grown DEF Keeps
<1> QED BY <1>1, <1>2, <1>3 DEF Moved

(* Stages a page can go through by reading.                                *)
Reached(s, t) == t = s \/ (s = "rest" /\ t = "fresh")

(* Candidates are only moved, from behind what they follow.                *)
LEMMA IceRead ==
    ASSUME TypeInv, NEW st \in [Page -> Stages], Sound(st), NEW x \in Page, NEW s2,
           Reads(x), Moved(x), Same(Other(x)),
           (rem'[x] = rem[x] /\ added'[x] = added[x]) \/ s2[x] = "rest",
           s2[Other(x)] = st[Other(x)], Reached(st[x], s2[x]), s2[x] = "fresh" => rem[x] = NoDesc,
           born'[x] = born[x] \/ st[x] = "rest"
    PROVE  Ice(s2, Other(x))'
<1> DEFINE y == Other(x)
           w == Wire(y)
<1>len. PICK l \in Nat : l = Len(ops[x])
  BY MovedAt
<1>0. /\ Keeps(x)
      /\ \A i \in 1..Len(ops'[x]) :
           \/ i \in 1..Len(ops[x])
           \/ /\ i = l + 1 /\ ops'[x][i].d = dn[x][1].d
              /\ \/ ops'[x][i].op = "remote" /\ dn[x][1].k = "description"
                 \/ ops'[x][i].op = "candidate" /\ dn[x][1].k = "candidate"
      /\ dn[x][1].k = "candidate" => \E i \in 1..Len(ops'[x]) :
           i = l + 1 /\ ops'[x][i].op = "candidate" /\ ops'[x][i].d = dn[x][1].d
      /\ l = Len(ops[x]) /\ l \in Nat
  BY <1>len, MovedAt
<1>1. y \in Page /\ Other(y) = x
  BY Pair
<1>2. /\ w # <<>> /\ Wire(y)' = Tail(w) /\ w[1] = dn[x][1]
      /\ w \in Seq(ToPage(x)) /\ Len(w) \in Nat \ {0}
  <2>1. w \in Seq(ToPage(x))
    BY <1>1, WireTyped
  <2>2. w # <<>> /\ Wire(y)' = Tail(w) /\ w[1] = dn[x][1]
    BY WiresRead
  <2> QED BY <2>1, <2>2, TailAt
<1>3. /\ \A i \in 1..Len(Wire(y)') : i + 1 \in 1..Len(w) /\ Wire(y)'[i] = w[i + 1]
      /\ \A j \in 1..Len(w) : j # 1 => j - 1 \in 1..Len(Wire(y)') /\ Wire(y)'[j - 1] = w[j]
      /\ 1 \in 1..Len(w)
  <2> HIDE DEF w
  <2> QED BY <1>2, Shifted
<1>4. Ice(st, y) /\ At(y, st[y]) /\ st[y] \in Stages /\ At(x, st[x])
  BY <1>1 DEF Sound
<1>5. /\ loc'[y] = loc[y] /\ gathered'[y] = gathered[y] /\ born'[y] = born[y]
      /\ HasLoc(s2, y) <=> HasLoc(st, y)
      /\ HasLoc(st, y) => loc[y] # NoDesc
  BY <1>1, <1>4, Kinds DEF Same, HasLoc, At
<1>6. \A d : Known(st, y, d) => Known(s2, y, d)'
  <2>1. Ofr(y)' = Ofr(y)
    BY <1>5 DEF Ofr
  <2>2. st[y] = "answered" => Ans(y)' = Ans(y)
    <3>1. CASE born'[x] = born[x]
      BY <1>1, <1>5, <3>1 DEF Ans, Ofr
    <3>2. CASE st[x] = "rest"
      BY <3>2, Silent
    <3> QED BY <3>1, <3>2
  <2> QED BY <1>5, <2>1, <2>2 DEF Known
<1>7. IceKnown(s2, y)'
  <2>1. \A i \in 1..Len(w) : \A d : w[i].k = "candidate" /\ d = w[i].d => Known(s2, y, d)'
    BY <1>4, <1>6 DEF Ice, IceKnown
  <2>2. \A i \in 1..Len(ops[x]) : \A d : ops[x][i].op = "candidate" /\ d = ops[x][i].d => Known(s2, y, d)'
    BY <1>1, <1>4, <1>6 DEF Ice, IceKnown
  <2>3. \A i \in 1..Len(Wire(y)') : \A d :
          Wire(y)'[i].k = "candidate" /\ d = Wire(y)'[i].d => Known(s2, y, d)'
    BY <1>3, <2>1
  <2>4. \A i \in 1..Len(ops'[x]) : \A d :
          ops'[x][i].op = "candidate" /\ d = ops'[x][i].d => Known(s2, y, d)'
    <3>1. ASSUME NEW i \in 1..Len(ops[x]), NEW d, ops'[x][i].op = "candidate", d = ops'[x][i].d
          PROVE  Known(s2, y, d)'
      BY <1>0, <2>2, <3>1 DEF Keeps
    <3>2. ASSUME NEW d, dn[x][1].k = "candidate", d = dn[x][1].d
          PROVE  Known(s2, y, d)'
      BY <1>2, <1>3, <2>1, <3>2
    <3> QED BY <1>0, <3>1, <3>2
  <2> QED BY <1>1, <2>3, <2>4 DEF IceKnown
<1>8. /\ \A n, j : IceQueued(y, n, j) => IceQueued(y, n, j)'
      /\ \A n, j : IceOnWire(y, n, j) =>
           \/ j # 1 /\ IceOnWire(y, n, j - 1)'
           \/ j = 1 /\ IceQueued(y, n, l + 1)'
  <2>1. \A n : Of(y, n)' = Of(y, n)
    BY <1>5 DEF Of
  <2>2. \A n, j : IceQueued(y, n, j) => IceQueued(y, n, j)'
    BY <1>1, <2>1, <1>0 DEF IceQueued, Keeps
  <2>3. ASSUME NEW n, NEW j, IceOnWire(y, n, j), j # 1
        PROVE  IceOnWire(y, n, j - 1)'
    BY <1>3, <2>1, <2>3 DEF IceOnWire
  <2>4. ASSUME NEW n, NEW j, IceOnWire(y, n, j), j = 1
        PROVE  IceQueued(y, n, l + 1)'
    <3>1. dn[x][1].k = "candidate" /\ dn[x][1].d = Of(y, n)
      BY <1>2, <2>4 DEF IceOnWire
    <3> QED BY <1>1, <2>1, <3>1, <1>0 DEF IceQueued
  <2> QED BY <2>2, <2>3, <2>4
<1>9. \A n, j : IceOnWire(y, n, j) => j \in Nat
  BY DEF IceOnWire
<1>10. IceTaken(s2, y)'
  <2> SUFFICES ASSUME HasLoc(st, y), s2[x] # "rest", rem'[x] = loc'[y]
               PROVE  /\ added'[x] \subseteq 1..gathered'[y]
                      /\ \A n \in 1..gathered'[y] : n \in added'[x] \/ Follows(y, n)'
    BY <1>1, <1>5 DEF IceTaken
  <2>1. st[x] # "rest" /\ rem[x] = loc[y] /\ added'[x] = added[x]
    BY <1>5 DEF Reached
  <2>2. /\ added[x] \subseteq 1..gathered[y]
        /\ \A n \in 1..gathered[y] : n \in added[x] \/ Follows(y, n)
    BY <1>1, <1>4, <2>1 DEF Ice, IceTaken
  <2>3. ASSUME NEW n, Follows(y, n) PROVE Follows(y, n)'
    <3>1. CASE \E j \in 1..Len(ops[x]) : IceQueued(y, n, j)
      BY <1>1, <1>8, <3>1, <1>0 DEF Follows, Keeps
    <3>2. ASSUME NEW j \in 1..Len(w), IceOnWire(y, n, j) PROVE Follows(y, n)'
      <4>1. CASE j # 1
        BY <1>3, <1>8, <3>2, <4>1 DEF Follows
      <4>2. CASE j = 1
        <5>1. IceQueued(y, n, l + 1)'
          BY <1>8, <3>2, <4>2
        <5> QED BY <1>1, <5>1 DEF Follows, IceQueued
      <4> QED BY <4>1, <4>2
    <3> QED BY <1>1, <2>3, <3>1, <3>2 DEF Follows
  <2> QED BY <1>5, <2>1, <2>2, <2>3
<1>11. IceBehindQueued(s2, y)'
  <2> SUFFICES ASSUME HasLoc(st, y), NEW i \in 1..Len(ops'[x]), Takes(x, i)', ops'[x][i].d = loc'[y],
                      NEW n \in 1..gathered'[y]
               PROVE  \/ \E j \in 1..Len(ops'[x]) : j > i /\ IceQueued(y, n, j)'
                      \/ \E j \in 1..Len(Wire(y)') : IceOnWire(y, n, j)'
    BY <1>1, <1>5 DEF IceBehindQueued
  <2>1. CASE i \in 1..Len(ops[x])
    <3>1. Takes(x, i) /\ ops[x][i].d = loc[y]
      BY <1>5, <2>1, <1>0 DEF Takes, Keeps
    <3>2. CASE \E j \in 1..Len(ops[x]) : j > i /\ IceQueued(y, n, j)
      BY <1>8, <3>2, <1>0 DEF Keeps
    <3>3. ASSUME NEW j \in 1..Len(w), IceOnWire(y, n, j), j # 1
          PROVE  \E k \in 1..Len(Wire(y)') : IceOnWire(y, n, k)'
      BY <1>3, <1>8, <3>3
    <3>4. ASSUME NEW j \in 1..Len(w), IceOnWire(y, n, j), j = 1
          PROVE  \E k \in 1..Len(ops'[x]) : k > i /\ IceQueued(y, n, k)'
      <4>1. IceQueued(y, n, l + 1)'
        BY <1>8, <3>4
      <4>2. l + 1 \in 1..Len(ops'[x]) /\ l + 1 > i
        BY <1>1, <2>1, <4>1, <1>0 DEF IceQueued
      <4> QED BY <4>1, <4>2
    <3> QED BY <1>1, <1>4, <1>5, <2>1, <3>1, <3>2, <3>3, <3>4 DEF Ice, IceBehindQueued
  <2>2. CASE i \notin 1..Len(ops[x])
    <3>1. dn[x][1].k = "description" /\ dn[x][1].d = loc[y]
      BY <1>5, <2>2, <1>0 DEF Takes
    <3>2. PICK j \in 1..Len(w) : j > 1 /\ IceOnWire(y, n, j)
      BY <1>2, <1>3, <1>4, <1>5, <3>1 DEF Ice, IceBehindSent, Describes
    <3>3. j # 1
      BY <3>2
    <3>4. j - 1 \in 1..Len(Wire(y)')
      BY <1>3, <3>3
    <3>5. IceOnWire(y, n, j - 1)'
      BY <1>8, <3>2, <3>3
    <3> QED BY <3>4, <3>5
  <2> QED BY <2>1, <2>2
<1>12. IceBehindSent(s2, y)'
  <2> SUFFICES ASSUME HasLoc(st, y), NEW i \in 1..Len(Wire(y)'), Describes(y, i)', Wire(y)'[i].d = loc'[y],
                      NEW n \in 1..gathered'[y]
               PROVE  \E j \in 1..Len(Wire(y)') : j > i /\ IceOnWire(y, n, j)'
    BY <1>5 DEF IceBehindSent
  <2>1. i + 1 \in 1..Len(w) /\ Describes(y, i + 1) /\ w[i + 1].d = loc[y]
    BY <1>3, <1>5 DEF Describes
  <2>2. PICK j \in 1..Len(w) : j > i + 1 /\ IceOnWire(y, n, j)
    BY <1>4, <1>5, <2>1 DEF Ice, IceBehindSent
  <2>3. j # 1 /\ j - 1 > i
    BY <1>2, <2>2
  <2>4. j - 1 \in 1..Len(Wire(y)')
    BY <1>3, <2>3
  <2>5. IceOnWire(y, n, j - 1)'
    BY <1>8, <2>2, <2>3
  <2> QED BY <2>3, <2>4, <2>5
<1> QED BY <1>7, <1>10, <1>11, <1>12 DEF Ice

(* What was said stays said.                                               *)
LEMMA WroteStill ==
    ASSUME NEW st, NEW s2, NEW p \in Page, s2[p] = st[p], born'[p] = born[p],
           born'[Other(p)] = born[Other(p)] \/ st[p] # "answered"
    PROVE  /\ \A d : Wrote(st, p, d) => Wrote(s2, p, d)'
           /\ Ofr(p)' = Ofr(p) /\ (st[p] = "answered" => Ans(p)' = Ans(p))
<1>1. Ofr(p)' = Ofr(p) /\ (st[p] = "answered" => Ans(p)' = Ans(p))
  BY DEF Ofr, Ans
<1> QED BY <1>1 DEF Wrote

(* The wire of y after x has read from it.                                 *)
LEMMA ReadAt ==
    ASSUME TypeInv, NEW x \in Page, Reads(x), NEW w, w = Wire(Other(x))
    PROVE  /\ \A i \in 1..Len(Wire(Other(x))') : i + 1 \in 1..Len(w) /\ Wire(Other(x))'[i] = w[i + 1]
           /\ \A j \in 1..Len(w) : j # 1 =>
                j - 1 \in 1..Len(Wire(Other(x))') /\ Wire(Other(x))'[j - 1] = w[j]
           /\ 1 \in 1..Len(w) /\ w[1] = dn[x][1] /\ Len(w) \in Nat
<1>1. w \in Seq(ToPage(x)) /\ Other(x) \in Page
  BY WireTyped, Pair
<1>2. w # <<>> /\ Wire(Other(x))' = Tail(w) /\ w[1] = dn[x][1]
  BY WiresRead
<1>3. Len(w) \in Nat
  BY <1>1
<1> QED BY <1>1, <1>2, <1>3, Shifted

(* A message that describes nothing leaves what was described.             *)
LEMMA TalkRead ==
    ASSUME TypeInv, NEW st \in [Page -> Stages], Sound(st), NEW x \in Page, NEW s2,
           Reads(x), Moved(x), Same(Other(x)), dn[x][1].k # "description",
           s2[Other(x)] = st[Other(x)], Reached(st[x], s2[x]),
           making'[x] = making[x] \/ (~making[x] /\ ~making'[x]),
           born'[x] = born[x] \/ st[x] = "rest"
    PROVE  Talk(s2, Other(x))'
<1> DEFINE y == Other(x)
<1>0. PICK w : w = Wire(y)
  OBVIOUS
<1>1. y \in Page /\ Other(y) = x
  BY Pair
<1>2. Talk(st, y) /\ st[y] \in Stages /\ st[x] \in Stages
  BY <1>1 DEF Sound
<1>3. /\ \A i \in 1..Len(Wire(y)') : i + 1 \in 1..Len(w) /\ Wire(y)'[i] = w[i + 1]
      /\ \A j \in 1..Len(w) : j # 1 => j - 1 \in 1..Len(Wire(y)') /\ Wire(y)'[j - 1] = w[j]
      /\ 1 \in 1..Len(w) /\ w[1] = dn[x][1] /\ Len(w) \in Nat
  BY <1>0, ReadAt
<1>4. /\ \A d : Wrote(st, y, d) => Wrote(s2, y, d)'
      /\ Ofr(y)' = Ofr(y) /\ (st[y] = "answered" => Ans(y)' = Ans(y))
  <2>1. born'[x] = born[x] \/ st[y] # "answered"
    BY Silent
  <2> QED BY <1>1, <2>1, WroteStill DEF Same
<1>5. /\ \A i : Describes(y, i)' => Describes(y, i + 1) /\ Wire(y)'[i] = w[i + 1]
      /\ \A j : Describes(y, j) => j # 1 /\ Describes(y, j - 1)' /\ Wire(y)'[j - 1] = w[j]
  BY <1>0, <1>3 DEF Describes
<1>6. /\ \A i : Takes(x, i)' => Takes(x, i) /\ ops'[x][i] = ops[x][i]
      /\ \A i : Takes(x, i) => Takes(x, i)' /\ ops'[x][i] = ops[x][i]
  <2>1. Keeps(x) /\ \A i \in 1..Len(ops'[x]) : i \in 1..Len(ops[x]) \/ ops'[x][i].op # "remote"
    BY MovedAt
  <2> QED BY <2>1 DEF Takes, Keeps
<1>7. Insists(s2, x)' <=> Insists(st, x)
  BY DEF Insists, Reached
<1>8. OnWire(s2, y)'
  <2>1. \A i : Describes(y, i) => Wrote(st, y, w[i].d)
    BY <1>0, <1>2 DEF Talk, OnWire, Describes
  <2>2. \A i, d : Describes(y, i)' /\ d = Wire(y)'[i].d => Wrote(s2, y, d)'
    BY <1>4, <1>5, <2>1
  <2> QED BY <2>2 DEF OnWire
<1>9. Queued(s2, y)'
  <2>1. \A d : Awaits(st, y, d) => Awaits(s2, y, d)'
    BY <1>1, <1>4, <1>7 DEF Awaits, Reached
  <2>2. \A i, d : Takes(x, i)' /\ d = ops'[x][i].d => Awaits(s2, y, d)'
    BY <1>1, <1>2, <1>6, <2>1 DEF Talk, Queued, Takes
  <2> QED BY <1>1, <2>2 DEF Queued
<1>10. InOrder(y)'
  <2>1. ASSUME NEW i, NEW j, Describes(y, i)', Describes(y, j)', i < j
        PROVE  Wire(y)'[i].d = Ofr(y)' /\ Wire(y)'[j].d = Ans(y)'
    <3>0. i + 1 < j + 1
      <4>1. i \in Int /\ j \in Int
        BY <2>1 DEF Describes
      <4> QED BY <2>1, <4>1
    <3>1. Describes(y, i + 1) /\ Describes(y, j + 1) /\ i + 1 < j + 1
      BY <1>5, <2>1, <3>0
    <3>2. w[i + 1].d = Ofr(y) /\ w[j + 1].d = Ans(y)
      BY <1>0, <1>2, <3>1 DEF Talk, InOrder, Describes
    <3>3. Wrote(st, y, Ans(y))
      BY <1>0, <1>2, <3>1, <3>2 DEF Talk, OnWire, Describes
    <3>4. st[y] = "answered"
      BY <1>1, <3>3, Kinds DEF Wrote
    <3> QED BY <1>4, <1>5, <2>1, <3>2, <3>4
  <2>2. \A i, j : Takes(x, i)' /\ Takes(x, j)' => i = j
    BY <1>1, <1>2, <1>6 DEF Talk, InOrder, Takes
  <2>3. \A i, j : Takes(x, i)' => ~Describes(y, j)'
    <3>1. \A i, j : Takes(x, i) => ~Describes(y, j)
      BY <1>1, <1>2 DEF Talk, InOrder, Takes, Describes
    <3> QED BY <1>5, <1>6, <3>1
  <2> QED BY <1>1, <2>1, <2>2, <2>3 DEF InOrder
<1>11. Heard(s2, y)'
  <2>1. s2[x] \in {"answering", "answered", "done"} => st[x] \in {"answering", "answered", "done"}
    BY DEF Reached
  <2>2. st[x] \in {"answering", "answered", "done"} => \A j : ~Describes(y, j) /\ ~Takes(x, j)
    BY <1>1, <1>2 DEF Talk, Heard, Describes, Takes
  <2> QED BY <1>1, <1>5, <1>6, <2>1, <2>2 DEF Heard
<1>12. Matches(s2, y)'
  BY <1>1, <1>2 DEF Talk, Matches, Reached
<1>13. Lands(s2, y)'
  <2>1. \A d : Coming(y, d) => Coming(y, d)'
    <3>1. \A i, d : Describes(y, i) /\ w[i].d = d => \E j \in 1..Len(Wire(y)') : Describes(y, j)' /\ Wire(y)'[j].d = d
      BY <1>5 DEF Describes
    <3>2. \A i, d : Takes(x, i) /\ ops[x][i].d = d => \E j \in 1..Len(ops'[x]) : Takes(x, j)' /\ ops'[x][j].d = d
      BY <1>6 DEF Takes
    <3> QED BY <1>0, <1>1, <3>1, <3>2 DEF Coming
  <2>2. Coming(y, Ofr(y)) => Coming(y, Ofr(y))'
    <3>1. PICK d : d = Ofr(y)
      OBVIOUS
    <3>2. Coming(y, d) => Coming(y, d)'
      BY <2>1
    <3> QED BY <1>4, <3>1, <3>2 DEF Coming
  <2>3. st[y] = "answered" => (Coming(y, Ans(y)) => Coming(y, Ans(y))')
    <3>1. PICK d : d = Ans(y)
      OBVIOUS
    <3>2. Coming(y, d) => Coming(y, d)'
      BY <2>1
    <3> QED BY <1>4, <3>1, <3>2 DEF Coming
  <2> QED BY <1>1, <1>2, <1>7, <2>2, <2>3 DEF Talk, Lands, Reached
<1> QED BY <1>8, <1>9, <1>10, <1>11, <1>12, <1>13 DEF Talk

(* A description read is the offer of a page that asked, of which the      *)
(* impolite page lets go when it asked as well, or the answer to its own.  *)
LEMMA DescriptionRead ==
    ASSUME TypeInv, NEW st \in [Page -> Stages], Sound(st), NEW x \in Page, dn[x] # <<>>,
           dn[x][1].k = "description", NEW d, d = dn[x][1].d
    PROVE  /\ d \in DescsOf(Other(x)) /\ Describes(Other(x), 1) /\ Wire(Other(x))[1].d = d
           /\ \A i : ~Takes(x, i)
           /\ \/ /\ d = Ofr(Other(x)) /\ st[Other(x)] = "asked" /\ st[x] \in {"rest", "fresh", "asked"}
                 /\ ignoreOffer(x, d) <=> Insists(st, x)
                 /\ \A j : Describes(Other(x), j) => j = 1
              \/ /\ d = Ofr(Other(x)) /\ st[Other(x)] \in {"answering", "answered"} /\ st[x] = "asked"
                 /\ ignoreOffer(x, d)
              \/ /\ d = Ans(Other(x)) /\ st[Other(x)] = "answered" /\ st[x] = "asked"
                 /\ ~ignoreOffer(x, d) /\ \A j : Describes(Other(x), j) => j = 1
<1> DEFINE y == Other(x)
<1>0. PICK w : w = Wire(y)
  OBVIOUS
<1>1. /\ y \in Page /\ Other(y) = x /\ (polite(y) <=> ~polite(x)) /\ y # x
      /\ Talk(st, y) /\ At(x, st[x]) /\ st[x] \in Stages /\ st[y] \in Stages
  BY Pair DEF Sound
<1>2. /\ dn[x] \in Seq(ToPage(x)) /\ up[y] \in Seq(ToPage(x)) /\ w \in Seq(ToPage(x))
      /\ w = dn[x] \o up[y]
  BY <1>0, <1>1, WireTyped DEF Wire
<1>3. Len(w) \in Nat /\ 1 \in 1..Len(w) /\ w[1] = dn[x][1] /\ w[1] \in ToPage(x)
  <2>1. w # <<>> /\ Head(w) = Head(dn[x])
    BY <1>2, ConcatTail
  <2>2. Head(w) = w[1] /\ Head(dn[x]) = dn[x][1] /\ Len(w) \in Nat \ {0} /\ Head(w) \in ToPage(x)
    BY <1>2, <2>1, TailAt
  <2> QED BY <2>1, <2>2
<1>4. d \in DescsOf(y) /\ Describes(y, 1) /\ w[1].d = d
  BY <1>0, <1>3, Messages DEF Describes
<1>5. Wrote(st, y, d)
  BY <1>0, <1>1, <1>4 DEF Talk, OnWire, Describes
<1>6. st[x] \in {"rest", "fresh", "asked"}
  <2>1. st[x] \notin {"answering", "answered", "done"}
    BY <1>1, <1>4 DEF Talk, Heard, Describes
  <2> QED BY <1>1, <2>1 DEF Stages
<1>7. \A i : ~Takes(x, i)
  BY <1>1, <1>4 DEF Talk, InOrder, Takes, Describes
<1>8. ASSUME NEW j, Describes(y, j), j # 1
      PROVE  d = Ofr(y) /\ Wrote(st, y, Ans(y))
  <2>1. 1 < j /\ j \in 1..Len(w)
    BY <1>0, <1>3, <1>8 DEF Describes
  <2>2. w[1].d = Ofr(y) /\ w[j].d = Ans(y)
    BY <1>0, <1>1, <1>3, <1>4, <1>8, <2>1 DEF Talk, InOrder
  <2>3. Wrote(st, y, w[j].d)
    BY <1>0, <1>1, <1>8 DEF Talk, OnWire, Describes
  <2> QED BY <1>4, <2>2, <2>3
<1>9. \A j : Describes(y, j) => j = 1 \/ (d = Ofr(y) /\ st[y] = "answered")
  BY <1>1, <1>8, Kinds DEF Wrote
<1>10. /\ sig[x] \notin {"none", "stable"} <=> st[x] = "asked"
  <2>1. st[x] = "rest" => sig[x] \in {"none", "stable"}
    BY <1>1 DEF At, Left, Blank
  <2> QED BY <1>1, <1>6, <2>1 DEF At
<1>11. d.type = "offer" <=> d = Ofr(y)
  BY <1>1, <1>5, Kinds DEF Wrote
<1>12. CASE d = Ofr(y) /\ st[y] = "asked"
  <2>1. ignoreOffer(x, d) <=> Insists(st, x)
    BY <1>6, <1>10, <1>11, <1>12 DEF ignoreOffer, collision, Insists
  <2> QED BY <1>0, <1>4, <1>6, <1>7, <1>9, <1>12, <2>1
<1>13. CASE d = Ofr(y) /\ st[y] # "asked"
  <2>1. polite(y) /\ st[y] \in {"answering", "answered"}
    BY <1>1, <1>5, <1>13, Kinds DEF Wrote
  <2>2. st[x] = "asked"
    <3>1. st[y] = "answering" => st[x] = "asked"
      BY <1>1, Pair DEF Sound, Talk, Matches
    <3>2. st[y] = "answered" => st[x] \in {"asked", "done"}
      BY <1>1, Pair DEF Sound, Talk, Matches
    <3> QED BY <1>6, <2>1, <3>1, <3>2
  <2>3. ignoreOffer(x, d)
    BY <1>1, <1>10, <1>11, <1>13, <2>1, <2>2 DEF ignoreOffer, collision
  <2> QED BY <1>0, <1>4, <1>7, <1>13, <2>1, <2>2, <2>3
<1>14. CASE d # Ofr(y)
  <2>1. d = Ans(y) /\ st[y] = "answered"
    BY <1>5, <1>14 DEF Wrote
  <2>2. st[x] = "asked"
    <3>2. st[y] = "answered" => st[x] \in {"asked", "done"}
      BY <1>1, Pair DEF Sound, Talk, Matches
    <3> QED BY <1>6, <2>1, <3>2
  <2>3. ~ignoreOffer(x, d)
    BY <1>11, <1>14 DEF ignoreOffer, collision
  <2> QED BY <1>0, <1>4, <1>7, <1>9, <1>14, <2>1, <2>2, <2>3
<1> QED BY <1>12, <1>13, <1>14

LEMMA TalkDescription ==
    ASSUME TypeInv, NEW st \in [Page -> Stages], Sound(st), NEW x \in Page, RecvDescription(x), NEW s2,
           s2[Other(x)] = st[Other(x)],
           (s2[x] = st[x] /\ st[x] # "rest") \/ (st[x] = "rest" /\ s2[x] = "fresh"),
           born'[x] = born[x] \/ st[x] = "rest"
    PROVE  Talk(s2, Other(x))'
<1> DEFINE y == Other(x)
<1>a. /\ Reads(x) /\ Same(y) /\ Head(dn[x]).k = "description" /\ making'[x] = making[x]
      /\ ops'[x] = IF ignoreOffer(x, Head(dn[x]).d) THEN ops[x]
                   ELSE Append(ops[x], SetRemote(Head(dn[x]).d))
  BY RecvDescriptionDoes DEF TypeInv
<1>b. PICK w : w = Wire(y)
  OBVIOUS
<1>c. PICK d : d = dn[x][1].d
  OBVIOUS
<1>d. Head(dn[x]) = dn[x][1] /\ dn[x] # <<>>
  BY <1>a, WiresRead DEF Reads
<1>e. /\ ops[x] \in Seq(OpsOf(x)) /\ Len(ops[x]) \in Nat
  BY PageTyped DEF ChainTypes
<1>f. PICK l \in Nat : l = Len(ops[x])
  BY <1>e
<1>1. y \in Page /\ Other(y) = x /\ (polite(y) <=> ~polite(x))
  BY Pair
<1>2. Talk(st, y) /\ st[y] \in Stages /\ st[x] \in Stages
  BY <1>1 DEF Sound
<1>3. /\ \A i \in 1..Len(Wire(y)') : i + 1 \in 1..Len(w) /\ Wire(y)'[i] = w[i + 1]
      /\ \A j \in 1..Len(w) : j # 1 => j - 1 \in 1..Len(Wire(y)') /\ Wire(y)'[j - 1] = w[j]
      /\ 1 \in 1..Len(w) /\ w[1] = dn[x][1] /\ Len(w) \in Nat
  BY <1>a, <1>b, ReadAt
<1>4. /\ \A e : Wrote(st, y, e) => Wrote(s2, y, e)'
      /\ Ofr(y)' = Ofr(y) /\ (st[y] = "answered" => Ans(y)' = Ans(y))
  <2>1. born'[x] = born[x] \/ st[y] # "answered"
    BY Silent
  <2> QED BY <1>a, <1>1, <2>1, WroteStill DEF Same
<1>5. /\ \A i : Describes(y, i)' => Describes(y, i + 1) /\ Wire(y)'[i] = w[i + 1] /\ i + 1 # 1
      /\ \A j : Describes(y, j) /\ j # 1 => Describes(y, j - 1)' /\ Wire(y)'[j - 1] = w[j]
  <2>1. \A i \in 1..Len(Wire(y)') : i + 1 # 1
    <3>1. \A i \in Int : i >= 1 => i + 1 # 1
      OBVIOUS
    <3> QED BY <3>1
  <2> QED BY <1>b, <1>3, <2>1 DEF Describes
<1>6. Insists(s2, x)' <=> Insists(st, x)
  BY <1>a DEF Insists
<1>7. OnWire(s2, y)'
  <2>1. \A i : Describes(y, i) => Wrote(st, y, w[i].d)
    BY <1>b, <1>2 DEF Talk, OnWire, Describes
  <2>2. \A i, e : Describes(y, i)' /\ e = Wire(y)'[i].d => Wrote(s2, y, e)'
    BY <1>4, <1>5, <2>1
  <2> QED BY <2>2 DEF OnWire
<1>8. /\ d \in DescsOf(y) /\ Describes(y, 1) /\ w[1].d = d /\ \A i : ~Takes(x, i)
      /\ \/ /\ d = Ofr(y) /\ st[y] = "asked" /\ st[x] \in {"rest", "fresh", "asked"}
            /\ ignoreOffer(x, d) <=> Insists(st, x)
            /\ \A j : Describes(y, j) => j = 1
         \/ /\ d = Ofr(y) /\ st[y] \in {"answering", "answered"} /\ st[x] = "asked"
            /\ ignoreOffer(x, d)
         \/ /\ d = Ans(y) /\ st[y] = "answered" /\ st[x] = "asked"
            /\ ~ignoreOffer(x, d) /\ \A j : Describes(y, j) => j = 1
  BY <1>a, <1>b, <1>c, <1>d, DescriptionRead
<1>9. Heard(s2, y)' /\ Matches(s2, y)'
  <2>1. s2[x] \in {"fresh", "asked"}
    BY <1>8
  <2> QED BY <1>1, <2>1 DEF Heard, Matches
<1>10. CASE ignoreOffer(x, d)
  <2>1. ops'[x] = ops[x]
    BY <1>a, <1>c, <1>d, <1>10
  <2>2. \A i : ~Takes(x, i)'
    BY <1>8, <2>1 DEF Takes
  <2>3. Queued(s2, y)'
    BY <1>1, <2>2 DEF Queued
  <2>4. InOrder(y)'
    <3>1. ASSUME NEW i, NEW j, Describes(y, i)', Describes(y, j)', i < j PROVE FALSE
      <4>0. i + 1 < j + 1
        <5>1. i \in Int /\ j \in Int
          BY <3>1 DEF Describes
        <5> QED BY <3>1, <5>1
      <4>1. Describes(y, i + 1) /\ Describes(y, j + 1) /\ i + 1 # 1 /\ j + 1 # 1
        BY <1>5, <3>1
      <4>2. w[i + 1].d = Ofr(y) /\ w[j + 1].d = Ans(y)
        BY <1>b, <1>2, <4>0, <4>1 DEF Talk, InOrder, Describes
      <4>3. 1 < i + 1
        <5>1. i \in Int /\ i >= 1
          BY <3>1 DEF Describes
        <5> QED BY <5>1
      <4>4. w[i + 1].d = Ans(y)
        BY <1>b, <1>2, <1>8, <4>1, <4>3 DEF Talk, InOrder, Describes
      <4> QED BY <1>1, <4>2, <4>4, Kinds
    <3> QED BY <1>1, <2>2, <3>1 DEF InOrder
  <2>5. Lands(s2, y)'
    <3>1. st[y] = "asked" => Insists(st, x)
      BY <1>8, <1>10
    <3>2. st[y] = "answered" => Coming(y, Ans(y))'
      <4> SUFFICES ASSUME st[y] = "answered" PROVE Coming(y, Ans(y))'
        OBVIOUS
      <4>1. d = Ofr(y) /\ st[x] = "asked"
        BY <1>8, <1>10
      <4>2. Coming(y, Ans(y))
        BY <1>1, <1>2, <4>1 DEF Talk, Lands
      <4>3. PICK j : Describes(y, j) /\ w[j].d = Ans(y)
        BY <1>b, <1>1, <1>8, <4>2 DEF Coming
      <4>4. j # 1
        BY <1>1, <1>8, <4>1, <4>3, Kinds
      <4>5. Describes(y, j - 1)' /\ Wire(y)'[j - 1].d = Ans(y)'
        BY <1>4, <1>5, <4>3, <4>4
      <4>6. PICK k : k = j - 1
        OBVIOUS
      <4>7. k \in 1..Len(Wire(y)') /\ Describes(y, k)' /\ Wire(y)'[k].d = Ans(y)'
        BY <4>5, <4>6 DEF Describes
      <4> QED BY <4>7 DEF Coming
    <3> QED BY <1>1, <1>2, <1>6, <3>1, <3>2 DEF Lands
  <2> QED BY <1>7, <1>9, <2>3, <2>4, <2>5 DEF Talk
<1>11. CASE ~ignoreOffer(x, d)
  <2>1. ops'[x] = Append(ops[x], SetRemote(d))
    BY <1>a, <1>c, <1>d, <1>11
  <2>2. SetRemote(d) \in OpsOf(x) /\ SetRemote(d).op = "remote" /\ SetRemote(d).d = d
    BY <1>8 DEF OpsOf, SetRemote
  <2>3. /\ \A i \in 1..Len(ops'[x]) : i # l + 1 => i \in 1..Len(ops[x]) /\ ops'[x][i] = ops[x][i]
        /\ l + 1 \in 1..Len(ops'[x]) /\ ops'[x][l + 1] = SetRemote(d)
    BY <1>e, <1>f, <2>1, <2>2, Grown
  <2>4. /\ \A i : Takes(x, i)' => i = l + 1
        /\ Takes(x, l + 1)' /\ ops'[x][l + 1].d = d
    BY <1>8, <2>2, <2>3 DEF Takes
  <2>5. \A j : ~Describes(y, j)'
    BY <1>5, <1>8, <1>11
  <2>6. InOrder(y)'
    BY <1>1, <2>4, <2>5 DEF InOrder
  <2>7. Awaits(s2, y, d)'
    <3>1. CASE d = Ofr(y) /\ st[y] = "asked"
      <4>1. ~Insists(s2, x)' /\ s2[x] \in {"fresh", "asked"}
        BY <1>1, <1>6, <1>8, <1>11, <3>1, Kinds
      <4> QED BY <1>1, <1>4, <3>1, <4>1 DEF Awaits
    <3>2. CASE d = Ans(y) /\ st[y] = "answered" /\ st[x] = "asked"
      BY <1>1, <1>4, <3>2 DEF Awaits
    <3> QED BY <1>8, <1>11, <3>1, <3>2
  <2>8. Queued(s2, y)'
    <3>1. \A i, e : Takes(x, i)' /\ e = ops'[x][i].d => Awaits(s2, y, e)'
      BY <2>4, <2>7
    <3> QED BY <1>1, <3>1 DEF Queued
  <2>9. Lands(s2, y)'
    <3>1. Coming(y, d)'
      BY <1>1, <2>4 DEF Coming, Takes
    <3>2. (d = Ofr(y)' /\ st[y] = "asked") \/ (d = Ans(y)' /\ st[y] = "answered")
      BY <1>4, <1>8, <1>11
    <3>3. st[y] = "asked" => Coming(y, Ofr(y))'
      BY <3>1, <3>2 DEF Coming
    <3>4. st[y] = "answered" => Coming(y, Ans(y))'
      BY <3>1, <3>2 DEF Coming
    <3> QED BY <3>3, <3>4 DEF Lands
  <2> QED BY <1>7, <1>9, <2>6, <2>8, <2>9 DEF Talk
<1> QED BY <1>10, <1>11

(* A page that reads becomes present, or stays so.                         *)
LEMMA PresentRead ==
    ASSUME TypeInv, NEW st \in [Page -> Stages], Sound(st), NEW x \in Page, Reads(x), NEW s2,
           s2[Other(x)] = st[Other(x)],
           \/ s2[x] # "rest" /\ online = Page
           \/ s2[x] = st[x] /\ ~Starts(x, dn[x][1])
    PROVE  Present(s2, x)' /\ Present(s2, Other(x))' /\ ~Old(x)' /\ (Old(Other(x))' <=> Old(Other(x)))
<1>1. /\ dn[x] # <<>> /\ dn'[x] = Tail(dn[x]) /\ dn'[Other(x)] = dn[Other(x)]
      /\ up' = up /\ online' = online /\ losses' = losses
  BY DEF Reads, serverVars
<1>2. dn[x] \in Seq(ToPage(x))
  BY PageTyped DEF WireTypes
<1>3. /\ \A i \in 1..Len(dn'[x]) : i + 1 \in 1..Len(dn[x]) /\ dn'[x][i] = dn[x][i + 1]
      /\ \A j \in 1..Len(dn[x]) : j # 1 => j - 1 \in 1..Len(dn'[x]) /\ dn'[x][j - 1] = dn[x][j]
      /\ 1 \in 1..Len(dn[x]) /\ dn'[x] \in Seq(ToPage(x))
  BY <1>1, <1>2, Shifted
<1>4. /\ Present(st, x) /\ Present(st, Other(x)) /\ Other(x) \in Page
  BY Pair DEF Sound
<1>5. \A i \in 1..Len(dn'[x]) : dn'[x][i].k # "peer-leave"
  <2> SUFFICES ASSUME NEW i \in 1..Len(dn'[x]), dn'[x][i].k = "peer-leave" PROVE FALSE
    OBVIOUS
  <2>1. i + 1 \in 1..Len(dn[x]) /\ dn[x][i + 1].k = "peer-leave"
    BY <1>3
  <2>2. i + 1 = 1
    BY <1>4, <2>1 DEF Present
  <2> QED BY <2>2
<1>6. ~Old(x)'
  <2>1. dn'[x] # <<>> => 1 \in 1..Len(dn'[x])
    BY <1>3, TailAt
  <2> QED BY <1>5, <2>1 DEF Old
<1>7. Old(Other(x))' <=> Old(Other(x))
  BY <1>1 DEF Old
<1>8. Present(s2, Other(x))'
  BY <1>1, <1>4 DEF Present
<1>9. Present(s2, x)'
  <2>1. CASE s2[x] # "rest" /\ online = Page
    BY <1>1, <1>5, <2>1 DEF Present
  <2>2. CASE s2[x] = st[x] /\ ~Starts(x, dn[x][1])
    <3>1. online' # Page => s2[x] = "rest" /\ \A i \in 1..Len(dn'[x]) : ~Starts(x, dn'[x][i])
      BY <1>1, <1>3, <1>4, <2>2 DEF Present
    <3>2. s2[x] = "rest" => up'[x] = <<>>
      BY <1>1, <1>4, <2>2 DEF Present
    <3>3. online' = Page /\ s2[x] = "rest" => \E i \in 1..Len(dn'[x]) : Starts(x, dn'[x][i])
      <4> SUFFICES ASSUME online = Page, st[x] = "rest"
                   PROVE  \E i \in 1..Len(dn'[x]) : Starts(x, dn'[x][i])
        BY <1>1, <2>2
      <4>1. PICK j \in 1..Len(dn[x]) : Starts(x, dn[x][j])
        BY <1>4 DEF Present
      <4>2. j # 1
        BY <2>2, <4>1
      <4> QED BY <1>3, <4>1, <4>2
    <3> QED BY <1>5, <3>1, <3>2, <3>3 DEF Present
  <2> QED BY <2>1, <2>2
<1> QED BY <1>6, <1>7, <1>8, <1>9

(* What a page at a stage is like.                                         *)
LEMMA Begun ==
    ASSUME TypeInv, NEW st \in [Page -> Stages], Sound(st), NEW x \in Page, ~Old(x)
    PROVE  /\ st[x] = "rest" <=> sig[x] = "none"
           /\ st[x] = "rest" => Blank(x)
<1>1. At(x, st[x]) /\ st[x] \in Stages
  BY DEF Sound
<1> QED BY <1>1 DEF At, Blank, Stages

(* A message of the other page shows that it is there.                     *)
LEMMA Spoken ==
    ASSUME TypeInv, NEW st \in [Page -> Stages], Sound(st), NEW x \in Page, Reads(x),
           dn[x][1].k \in {"description", "candidate"}
    PROVE  online = Page
<1>1. st[Other(x)] # "rest"
  <2> SUFFICES ASSUME st[Other(x)] = "rest" PROVE FALSE
    OBVIOUS
  <2>1. NoWord(Other(x))
    BY Silent, Pair
  <2>2. PICK w : w = Wire(Other(x))
    OBVIOUS
  <2>3. 1 \in 1..Len(w) /\ w[1] = dn[x][1]
    BY <2>2, ReadAt
  <2> QED BY <2>1, <2>2, <2>3 DEF NoWord
<1>2. Present(st, Other(x))
  BY Pair DEF Sound
<1> QED BY <1>1, <1>2 DEF Present

(* The steps of a page that handles a message and has, then, begun.        *)
LEMMA ReadsSound ==
    ASSUME TypeInv, NEW st \in [Page -> Stages], Sound(st), NEW x \in Page,
           Reads(x), Same(Other(x)), Begins(x), Held(x), making'[x] = making[x],
           ~Old(x), Moved(x), online = Page,
           NEW s2, s2 = [st EXCEPT ![x] = IF st[x] = "rest" THEN "fresh" ELSE st[x]],
           Talk(s2, Other(x))'
    PROVE  Sound(s2)'
<1> DEFINE y == Other(x)
<1>1. /\ y \in Page /\ Other(y) = x /\ y # x
      /\ s2[y] = st[y] /\ s2[x] = (IF st[x] = "rest" THEN "fresh" ELSE st[x])
      /\ s2[x] # "rest" /\ Reached(st[x], s2[x]) /\ s2[x] \in Stages
  BY Pair DEF Reached, Stages
<1>2. /\ \A p \in Page : At(p, st[p]) /\ Chain(st, p) /\ Talk(st, p) /\ Ice(st, p)
      /\ (st[x] = "rest" <=> sig[x] = "none") /\ (st[x] = "rest" => Blank(x))
  BY Begun DEF Sound
<1>3. Present(s2, x)' /\ Present(s2, y)' /\ ~Old(x)' /\ (Old(y)' <=> Old(y))
  BY <1>1, PresentRead
<1>4. born'[x] = born[x] \/ st[x] = "rest"
  BY <1>2 DEF Begins
<1>5. /\ loc'[x] = loc[x] /\ rem'[x] = rem[x] /\ gathered'[x] = gathered[x] /\ added'[x] = added[x]
      /\ sig'[x] = IF sig[x] = "none" THEN "stable" ELSE sig[x]
  BY DEF Held, Begins
<1>6. At(x, s2[x])'
  <2>1. CASE st[x] = "rest"
    BY <1>1, <1>2, <1>3, <1>5, <2>1 DEF At, Blank
  <2>2. CASE st[x] # "rest"
    <3>1. sig'[x] = sig[x] /\ born'[x] = born[x] /\ born'[y] = born[y] /\ s2[x] = st[x]
      BY <1>1, <1>2, <1>4, <1>5, <2>2 DEF Same
    <3>2. Ofr(x)' = Ofr(x) /\ Ofr(y)' = Ofr(y)
      BY <3>1 DEF Ofr
    <3>3. Ans(x)' = Ans(x) /\ Ans(y)' = Ans(y)
      BY <1>1, <3>1, <3>2 DEF Ans
    <3> QED BY <1>1, <1>2, <1>3, <1>5, <2>2, <3>1, <3>2, <3>3 DEF At
  <2> QED BY <2>1, <2>2
<1>7. At(y, s2[y])'
  <2>1. born'[x] = born[x] \/ st[y] \in {"rest", "fresh", "asked"}
    BY <1>4, Silent
  <2> QED BY <1>1, <1>2, <1>3, <2>1, AtSame
<1>8. Chain(s2, x)'
  <2>1. \A i \in 1..Len(ops'[x]) : ops'[x][i].op = "local" => i \in 1..Len(ops[x]) /\ ops'[x][i] = ops[x][i]
    BY MovedAt DEF Keeps
  <2>2. \A i \in 1..Len(ops[x]) : i \in 1..Len(ops'[x]) /\ ops'[x][i] = ops[x][i]
    BY MovedAt DEF Keeps
  <2>3. st[x] = "rest" => Len(ops[x]) = 0
    BY <1>2 DEF Blank
  <2>4. Chain(st, x)
    BY <1>2
  <2> QED BY <1>1, <2>1, <2>2, <2>3, <2>4 DEF Chain
<1>9. Chain(s2, y)'
  BY <1>1, <1>2, ChainSame DEF Same
<1>10. Wire(x)' = Wire(x)
  BY WiresRead
<1>11. Talk(s2, x)' /\ Ice(s2, x)'
  <2>1. CASE st[x] = "rest"
    <3>1. NoWord(x) /\ st[y] \in {"rest", "fresh", "asked"}
      BY <2>1, Silent
    <3>2. NoWord(x)'
      BY <1>10, <3>1 DEF NoWord, Same
    <3> QED BY <1>1, <2>1, <3>1, <3>2, Untold
  <2>2. CASE st[x] # "rest"
    <3>1. Talk(s2, x)'
      BY <1>1, <1>2, <1>4, <1>10, <2>2, TalkSame DEF Same
    <3>2. Ice(s2, x)'
      BY <1>1, <1>2, <1>4, <1>5, <1>10, <2>2, IceSame DEF Same
    <3> QED BY <3>1, <3>2
  <2> QED BY <2>1, <2>2
<1>12. Ice(s2, y)'
  <2>1. s2[x] = "fresh" => rem[x] = NoDesc
    BY <1>1, <1>2 DEF At, Blank
  <2> QED BY <1>1, <1>4, <1>5, <2>1, IceRead
<1> QED BY <1>3, <1>6, <1>7, <1>8, <1>9, <1>11, <1>12, SoundBoth

LEMMA StageRead ==
    ASSUME NEW st \in [Page -> Stages], NEW x \in Page
    PROVE  /\ [st EXCEPT ![x] = IF st[x] = "rest" THEN "fresh" ELSE st[x]] \in [Page -> Stages]
           /\ \A s \in Stages : [st EXCEPT ![x] = s] \in [Page -> Stages]
  BY DEF Stages

LEMMA RecvPeerSound ==
    ASSUME TypeInv, NEW st \in [Page -> Stages], Sound(st), NEW x \in Page, RecvPeer(x)
    PROVE  \E s2 \in [Page -> Stages] : Sound(s2)'
<1> DEFINE y == Other(x)
<1>1. /\ Reads(x) /\ Same(y) /\ Head(dn[x]).k \in {"welcome", "peer-join"}
      /\ IF Head(dn[x]).k = "welcome" /\ y \notin Head(dn[x]).peers
         THEN Same(x)
         ELSE /\ Begins(x) /\ Held(x) /\ ops'[x] = ops[x]
              /\ making'[x] = making[x] /\ ignoring'[x] = ignoring[x]
  BY RecvPeerDoes DEF TypeInv
<1>2. Head(dn[x]) = dn[x][1] /\ dn[x][1].k \in {"welcome", "peer-join"}
  BY <1>1, WiresRead
<1>3. ~Old(x) /\ (ops'[x] = ops[x] => Moved(x))
  BY <1>2 DEF Old, Moved
<1>4. y \in Page /\ Other(y) = x /\ y # x
  BY Pair
<1>5. \A p \in Page : At(p, st[p]) /\ Present(st, p) /\ Chain(st, p) /\ Talk(st, p) /\ Ice(st, p)
  BY DEF Sound
<1>6. CASE ~Starts(x, dn[x][1])
  <2>1. Same(x)
    BY <1>1, <1>2, <1>6 DEF Starts
  <2>2. Present(st, x)' /\ Present(st, y)' /\ ~Old(x)' /\ (Old(y)' <=> Old(y))
    BY <1>1, <1>6, PresentRead
  <2>3. At(x, st[x])' /\ At(y, st[y])'
    BY <1>1, <1>3, <1>4, <1>5, <2>1, <2>2, AtSame DEF Same
  <2>4. Chain(st, x)' /\ Chain(st, y)'
    BY <1>1, <1>4, <1>5, <2>1, ChainSame DEF Same
  <2>5. Wire(x)' = Wire(x) /\ Reached(st[x], st[x]) /\ Moved(x)
    BY <1>1, <1>3, <2>1, WiresRead DEF Reached, Same
  <2>6. Talk(st, x)' /\ Ice(st, x)'
    <3>1. Talk(st, x)'
      BY <1>1, <1>4, <1>5, <2>1, <2>5, TalkSame DEF Same
    <3>2. Ice(st, x)'
      BY <1>1, <1>4, <1>5, <2>1, <2>5, IceSame DEF Same
    <3> QED BY <3>1, <3>2
  <2>7. Talk(st, y)'
    BY <1>1, <1>2, <2>1, <2>5, TalkRead DEF Same
  <2>8. Ice(st, y)'
    <3>1. st[x] = "fresh" => rem[x] = NoDesc
      BY <1>5 DEF At
    <3> QED BY <1>1, <2>1, <2>5, <3>1, IceRead DEF Same
  <2> QED BY <2>2, <2>3, <2>4, <2>6, <2>7, <2>8, SoundBoth
<1>7. CASE Starts(x, dn[x][1])
  <2>1. Begins(x) /\ Held(x) /\ ops'[x] = ops[x] /\ making'[x] = making[x]
    BY <1>1, <1>2, <1>7 DEF Starts
  <2>2. online = Page
    <3>1. 1 \in 1..Len(dn[x])
      <4>1. dn[x] \in Seq(ToPage(x)) /\ dn[x] # <<>>
        BY <1>1, PageTyped DEF WireTypes, Reads
      <4> QED BY <4>1, TailAt
    <3> QED BY <1>5, <1>7, <3>1 DEF Present
  <2>3. PICK s2 \in [Page -> Stages] : s2 = [st EXCEPT ![x] = IF st[x] = "rest" THEN "fresh" ELSE st[x]]
    BY StageRead
  <2>4. s2[y] = st[y] /\ Reached(st[x], s2[x])
    BY <1>4, <2>3 DEF Reached
  <2>5. born'[x] = born[x] \/ st[x] = "rest"
    BY <1>3, <2>1, Begun DEF Begins
  <2>6. Moved(x)
    BY <1>3, <2>1
  <2>7. Talk(s2, y)'
    BY <1>1, <1>2, <2>1, <2>4, <2>5, <2>6, TalkRead
  <2>8. Sound(s2)'
    BY <1>1, <1>3, <2>1, <2>2, <2>3, <2>6, <2>7, ReadsSound
  <2> QED BY <2>8
<1> QED BY <1>6, <1>7

LEMMA RecvLeaveSound ==
    ASSUME TypeInv, NEW st \in [Page -> Stages], Sound(st), NEW x \in Page, RecvLeave(x)
    PROVE  Sound(st)'
<1> DEFINE y == Other(x)
<1>1. Reads(x) /\ Dispose(x) /\ Same(y) /\ Head(dn[x]).k = "peer-leave"
  BY RecvLeaveDoes DEF TypeInv
<1>2. Head(dn[x]) = dn[x][1] /\ dn[x][1].k = "peer-leave" /\ Wire(x)' = Wire(x)
  BY <1>1, WiresRead
<1>3. /\ born' = born /\ sig'[x] = "none" /\ ops'[x] = <<>> /\ loc'[x] = NoDesc /\ rem'[x] = NoDesc
      /\ making'[x] = FALSE
  BY <1>1, DisposeDoes DEF TypeInv
<1>4. y \in Page /\ Other(y) = x /\ y # x
  BY Pair
<1>5. \A p \in Page : At(p, st[p]) /\ Present(st, p) /\ Chain(st, p) /\ Talk(st, p) /\ Ice(st, p)
  BY DEF Sound
<1>6. Old(x) /\ st[x] = "rest" /\ Left(x)
  BY <1>1, <1>2, <1>5 DEF Old, Reads, At
<1>7. ops'[x] = ops[x] /\ ~making[x] /\ ~making'[x] /\ Moved(x)
  BY <1>2, <1>3, <1>6 DEF Left, Moved
<1>8. Present(st, x)' /\ Present(st, y)' /\ ~Old(x)' /\ (Old(y)' <=> Old(y))
  <2>1. ~Starts(x, dn[x][1])
    BY <1>2 DEF Starts
  <2> QED BY <1>1, <2>1, PresentRead
<1>9. At(x, st[x])'
  BY <1>3, <1>6, <1>8 DEF At, Blank, Stages
<1>10. At(y, st[y])'
  BY <1>1, <1>3, <1>4, <1>5, <1>8, AtSame
<1>11. Chain(st, x)' /\ Chain(st, y)'
  BY <1>1, <1>4, <1>5, <1>7, ChainSame DEF Same
<1>12. Talk(st, x)' /\ Ice(st, x)'
  <2>1. NoWord(x) /\ st[y] \in {"rest", "fresh", "asked"}
    BY <1>6, Silent
  <2>2. NoWord(x)'
    BY <1>1, <1>2, <2>1 DEF NoWord, Same
  <2> QED BY <1>6, <2>1, <2>2, Untold
<1>13. Reached(st[x], st[x])
  BY DEF Reached
<1>14. Talk(st, y)'
  BY <1>1, <1>2, <1>3, <1>7, <1>13, TalkRead
<1>15. Ice(st, y)'
  BY <1>1, <1>3, <1>6, <1>7, <1>13, IceRead
<1> QED BY <1>8, <1>9, <1>10, <1>11, <1>12, <1>14, <1>15, SoundBoth

LEMMA RecvDescriptionSound ==
    ASSUME TypeInv, NEW st \in [Page -> Stages], Sound(st), NEW x \in Page, RecvDescription(x)
    PROVE  \E s2 \in [Page -> Stages] : Sound(s2)'
<1> DEFINE y == Other(x)
<1>1. /\ Reads(x) /\ Same(y) /\ Head(dn[x]).k = "description"
      /\ Begins(x) /\ Held(x) /\ making'[x] = making[x]
      /\ ops'[x] = IF ignoreOffer(x, Head(dn[x]).d) THEN ops[x]
                   ELSE Append(ops[x], SetRemote(Head(dn[x]).d))
  BY RecvDescriptionDoes DEF TypeInv
<1>2. Head(dn[x]) = dn[x][1] /\ dn[x][1].k = "description" /\ dn[x] # <<>>
  BY <1>1, WiresRead DEF Reads
<1>3. y \in Page /\ Other(y) = x /\ y # x
  BY Pair
<1>4. ~Old(x) /\ online = Page
  BY <1>1, <1>2, Spoken DEF Old
<1>5. PICK s2 \in [Page -> Stages] : s2 = [st EXCEPT ![x] = IF st[x] = "rest" THEN "fresh" ELSE st[x]]
  BY StageRead
<1>6. /\ s2[y] = st[y]
      /\ (s2[x] = st[x] /\ st[x] # "rest") \/ (st[x] = "rest" /\ s2[x] = "fresh")
  BY <1>3, <1>5
<1>7. born'[x] = born[x] \/ st[x] = "rest"
  BY <1>1, <1>4, Begun DEF Begins
<1>8. Moved(x)
  <2>1. dn[x][1].d \in DescsOf(y)
    BY <1>2, DescriptionRead
  <2>2. PICK o : o = SetRemote(dn[x][1].d)
    OBVIOUS
  <2>3. o \in OpsOf(x) /\ o.op = "remote" /\ o.d = dn[x][1].d
    BY <2>1, <2>2 DEF OpsOf, SetRemote
  <2> QED BY <1>1, <1>2, <2>2, <2>3 DEF Moved
<1>9. Talk(s2, y)'
  BY <1>6, <1>7, TalkDescription
<1>10. Sound(s2)'
  BY <1>1, <1>4, <1>5, <1>8, <1>9, ReadsSound
<1> QED BY <1>10

LEMMA RecvCandidateSound ==
    ASSUME TypeInv, NEW st \in [Page -> Stages], Sound(st), NEW x \in Page, RecvCandidate(x)
    PROVE  \E s2 \in [Page -> Stages] : Sound(s2)'
<1> DEFINE y == Other(x)
<1>1. /\ Reads(x) /\ Same(y) /\ Head(dn[x]).k = "candidate"
      /\ Begins(x) /\ Held(x) /\ making'[x] = making[x]
      /\ ops'[x] = Append(ops[x], AddCandidate(Head(dn[x]).d))
  BY RecvCandidateDoes DEF TypeInv
<1>2. Head(dn[x]) = dn[x][1] /\ dn[x][1].k = "candidate" /\ dn[x] # <<>>
  BY <1>1, WiresRead DEF Reads
<1>3. y \in Page /\ Other(y) = x /\ y # x
  BY Pair
<1>4. ~Old(x) /\ online = Page
  BY <1>1, <1>2, Spoken DEF Old
<1>5. PICK s2 \in [Page -> Stages] : s2 = [st EXCEPT ![x] = IF st[x] = "rest" THEN "fresh" ELSE st[x]]
  BY StageRead
<1>6. s2[y] = st[y] /\ Reached(st[x], s2[x])
  BY <1>3, <1>5 DEF Reached
<1>7. born'[x] = born[x] \/ st[x] = "rest"
  BY <1>1, <1>4, Begun DEF Begins
<1>8. Moved(x)
  <2>1. dn[x][1].d \in CandsOf(y)
    <3>1. dn[x] \in Seq(ToPage(x))
      BY PageTyped DEF WireTypes
    <3>2. dn[x][1] \in ToPage(x)
      BY <1>2, <3>1, TailAt
    <3> QED BY <1>2, <3>2, Messages
  <2>2. PICK o : o = AddCandidate(dn[x][1].d)
    OBVIOUS
  <2>3. o \in OpsOf(x) /\ o.op = "candidate" /\ o.d = dn[x][1].d
    BY <2>1, <2>2 DEF OpsOf, AddCandidate
  <2> QED BY <1>1, <1>2, <2>2, <2>3 DEF Moved
<1>9. Talk(s2, y)'
  BY <1>1, <1>2, <1>6, <1>7, <1>8, TalkRead
<1>10. Sound(s2)'
  BY <1>1, <1>4, <1>5, <1>8, <1>9, ReadsSound
<1> QED BY <1>10

LEMMA ForwardsSound ==
    ASSUME TypeInv, NEW st \in [Page -> Stages], Sound(st), NEW x \in Page, Forwards(x)
    PROVE  Sound(st)'
<1> DEFINE y == Other(x)
<1>0. PICK m : m = Head(up[x])
  OBVIOUS
<1>1. /\ up[x] # <<>> /\ online' = online /\ losses' = losses
      /\ \A p \in Page : Same(p)
      /\ up'[x] = Tail(up[x]) /\ up'[y] = up[y] /\ dn'[x] = dn[x]
      /\ dn'[y] = IF y \in online THEN Append(dn[y], m) ELSE dn[y]
  BY <1>0, ForwardsDoes DEF TypeInv, serverVars
<1>2. y \in Page /\ Other(y) = x /\ y # x
  BY Pair
<1>3. \A p \in Page : At(p, st[p]) /\ Present(st, p) /\ Chain(st, p) /\ Talk(st, p) /\ Ice(st, p)
  BY DEF Sound
<1>4. st[x] # "rest" /\ online = Page
  BY <1>1, <1>3 DEF Present
<1>5. m \in SignalsOf(x) /\ m.k \in {"description", "candidate"} /\ m \in ToPage(y)
  <2>1. up[x] \in Seq(SignalsOf(x))
    BY PageTyped DEF WireTypes
  <2>2. m \in SignalsOf(x)
    BY <1>0, <1>1, <2>1, TailAt
  <2> QED BY <2>2, Signals
<1>6. dn[y] \in Seq(ToPage(y)) /\ dn'[y] = Append(dn[y], m)
  BY <1>1, <1>2, <1>4, PageTyped DEF WireTypes
<1>7. /\ \A i \in 1..Len(dn[y]) : i \in 1..Len(dn'[y]) /\ dn'[y][i] = dn[y][i]
      /\ \A j \in 1..Len(dn'[y]) : j # Len(dn[y]) + 1 => j \in 1..Len(dn[y]) /\ dn'[y][j] = dn[y][j]
      /\ Len(dn[y]) + 1 \in 1..Len(dn'[y]) /\ dn'[y][Len(dn[y]) + 1] = m /\ dn'[y] # <<>>
  BY <1>5, <1>6, Grown
<1>8. (Old(x)' <=> Old(x)) /\ (Old(y)' <=> Old(y))
  <2>1. Old(x)' <=> Old(x)
    BY <1>1 DEF Old
  <2>2. dn[y] # <<>> => 1 \in 1..Len(dn[y])
    BY <1>6, TailAt
  <2>3. dn[y] = <<>> => Len(dn[y]) + 1 = 1
    OBVIOUS
  <2>4. Old(y)' <=> Old(y)
    BY <1>5, <1>7, <2>2, <2>3 DEF Old
  <2> QED BY <2>1, <2>4
<1>9. At(x, st[x])' /\ At(y, st[y])'
  BY <1>1, <1>2, <1>3, <1>8, AtSame DEF Same
<1>10. Chain(st, x)' /\ Chain(st, y)'
  BY <1>1, <1>2, <1>3, ChainSame DEF Same
<1>11. Wire(x)' = Wire(x) /\ Wire(y)' = Wire(y)
  BY <1>2, <1>4, WiresForward
<1>12. Talk(st, x)' /\ Talk(st, y)'
  BY <1>1, <1>2, <1>3, <1>11, TalkSame DEF Same
<1>13. Ice(st, x)' /\ Ice(st, y)'
  BY <1>1, <1>2, <1>3, <1>11, IceSame DEF Same
<1>14. Present(st, x)'
  BY <1>1, <1>3, <1>4 DEF Present
<1>15. Present(st, y)'
  <2>1. \A i \in 1..Len(dn'[y]) : dn'[y][i].k = "peer-leave" => i = 1 /\ losses' > 0
    BY <1>1, <1>2, <1>3, <1>5, <1>7 DEF Present
  <2>2. st[y] = "rest" => up'[y] = <<>> /\ \E i \in 1..Len(dn'[y]) : Starts(y, dn'[y][i])
    BY <1>1, <1>2, <1>3, <1>4, <1>7 DEF Present
  <2> QED BY <1>1, <1>4, <2>1, <2>2 DEF Present
<1> QED BY <1>9, <1>10, <1>12, <1>13, <1>14, <1>15, SoundBoth

(* A page that works is present; the other does not notice.                *)
LEMMA Works ==
    ASSUME TypeInv, NEW st \in [Page -> Stages], Sound(st), NEW x \in Page, st[x] # "rest",
           NEW s2, s2[Other(x)] = st[Other(x)], s2[x] # "rest",
           dn' = dn, UNCHANGED serverVars, up'[Other(x)] = up[Other(x)],
           Same(Other(x)), born'[x] = born[x]
    PROVE  /\ online = Page /\ Present(s2, x)' /\ Present(s2, Other(x))'
           /\ At(Other(x), s2[Other(x)])' /\ Chain(s2, Other(x))' /\ ~Old(x) /\ ~Old(x)'
<1>1. Other(x) \in Page /\ Other(Other(x)) = x
  BY Pair
<1>2. \A p \in Page : At(p, st[p]) /\ Present(st, p) /\ Chain(st, p)
  BY DEF Sound
<1>3. online = Page /\ online' = Page /\ losses' = losses
  BY <1>2 DEF Present, serverVars
<1>4. Present(s2, x)' /\ Present(s2, Other(x))'
  BY <1>1, <1>2, <1>3 DEF Present
<1>5. (Old(Other(x))' <=> Old(Other(x))) /\ (Old(x)' <=> Old(x)) /\ ~Old(x)
  BY <1>2 DEF Old, At
<1>6. At(Other(x), s2[Other(x)])'
  BY <1>1, <1>2, <1>5, AtSame
<1>7. Chain(s2, Other(x))'
  BY <1>1, <1>2, ChainSame DEF Same
<1> QED BY <1>3, <1>4, <1>5, <1>6, <1>7

(* Stages a page can go through by describing what it has.                 *)
Told(s, t) == t = s \/ (s = "fresh" /\ t = "asked") \/ (s = "answering" /\ t = "answered")

(* What the other has said, when no description is taken.                  *)
LEMMA TalkWorked ==
    ASSUME TypeInv, NEW st \in [Page -> Stages], Sound(st), NEW x \in Page,
           NEW s2, s2[Other(x)] = st[Other(x)], Told(st[x], s2[x]),
           Wire(Other(x))' = Wire(Other(x)), born'[x] = born[x], Same(Other(x)),
           NEW c \in Int,
           \A i : Takes(x, i)' => Takes(x, i + c) /\ ops'[x][i] = ops[x][i + c],
           \A j : Takes(x, j) => Takes(x, j - c)' /\ ops'[x][j - c] = ops[x][j],
           Insists(st, x) => Insists(s2, x)',
           Insists(s2, x)' => Insists(st, x) \/ \A i : ~Takes(x, i)
    PROVE  Talk(s2, Other(x))'
<1> DEFINE y == Other(x)
<1>0. PICK w : w = Wire(y)
  OBVIOUS
<1>1. y \in Page /\ Other(y) = x
  BY Pair
<1>2. Talk(st, y) /\ st[y] \in Stages /\ st[x] \in Stages
  BY <1>1 DEF Sound
<1>3. Wire(y)' = w /\ \A i : Describes(y, i)' <=> Describes(y, i)
  BY <1>0 DEF Describes
<1>4. /\ \A d : Wrote(st, y, d) => Wrote(s2, y, d)'
      /\ Ofr(y)' = Ofr(y) /\ Ans(y)' = Ans(y)
  <2>1. Ofr(y)' = Ofr(y) /\ Ofr(x)' = Ofr(x)
    BY DEF Ofr, Same
  <2>2. Ans(y)' = Ans(y)
    BY <1>1, <2>1 DEF Ans, Same
  <2> QED BY <1>1, <2>1, <2>2, WroteStill DEF Same
<1>5. OnWire(s2, y)'
  <2>1. \A i : Describes(y, i) => Wrote(st, y, w[i].d)
    BY <1>0, <1>2 DEF Talk, OnWire, Describes
  <2>2. \A i, d : Describes(y, i)' /\ d = Wire(y)'[i].d => Wrote(s2, y, d)'
    BY <1>3, <1>4, <2>1
  <2> QED BY <2>2 DEF OnWire
<1>6. Queued(s2, y)'
  <2>1. \A d, i : Awaits(st, y, d) /\ Takes(x, i) => Awaits(s2, y, d)'
    BY <1>1, <1>4 DEF Awaits, Told
  <2>2. \A i, d : Takes(x, i)' /\ d = ops'[x][i].d => Awaits(s2, y, d)'
    BY <1>1, <1>2, <2>1 DEF Talk, Queued, Takes
  <2> QED BY <1>1, <2>2 DEF Queued
<1>7. InOrder(y)'
  <2>1. \A i, j \in 1..Len(w) : Describes(y, i)' /\ Describes(y, j)' /\ i < j =>
          w[i].d = Ofr(y)' /\ w[j].d = Ans(y)'
    BY <1>0, <1>2, <1>3, <1>4 DEF Talk, InOrder
  <2>2. \A i, j : Takes(x, i)' /\ Takes(x, j)' => i = j
    <3>1. ASSUME NEW i, NEW j, Takes(x, i)', Takes(x, j)' PROVE i = j
      <4>0. \A k, m : Takes(x, k) /\ Takes(x, m) => k = m
        BY <1>1, <1>2 DEF Talk, InOrder, Takes
      <4>1. i + c = j + c
        BY <3>1, <4>0
      <4>2. i \in Int /\ j \in Int
        BY <3>1 DEF Takes
      <4> QED BY <4>1, <4>2
    <3> QED BY <3>1
  <2>3. \A i, j : Takes(x, i)' => ~Describes(y, j)'
    <3>1. \A i, j : Takes(x, i) => ~Describes(y, j)
      BY <1>1, <1>2 DEF Talk, InOrder, Takes, Describes
    <3> QED BY <1>3, <3>1
  <2> QED BY <1>1, <1>3, <2>1, <2>2, <2>3 DEF InOrder
<1>8. Heard(s2, y)'
  <2>1. s2[x] \in {"answering", "answered", "done"} => st[x] \in {"answering", "answered", "done"}
    BY DEF Told
  <2>2. st[x] \in {"answering", "answered", "done"} => \A j : ~Describes(y, j) /\ ~Takes(x, j)
    BY <1>1, <1>2 DEF Talk, Heard, Describes, Takes
  <2> QED BY <1>1, <1>3, <2>1, <2>2 DEF Heard
<1>9. Matches(s2, y)'
  BY <1>1, <1>2 DEF Talk, Matches, Told
<1>10. Lands(s2, y)'
  <2>1. \A d : Coming(y, d) => Coming(y, d)'
    <3>1. \A i, d : Takes(x, i) /\ ops[x][i].d = d => \E j \in 1..Len(ops'[x]) : Takes(x, j)' /\ ops'[x][j].d = d
      BY DEF Takes
    <3> QED BY <1>0, <1>1, <1>3, <3>1 DEF Coming
  <2>2. PICK d : d = Ofr(y)
    OBVIOUS
  <2>3. PICK e : e = Ans(y)
    OBVIOUS
  <2>4. (Coming(y, Ofr(y)) => Coming(y, Ofr(y))') /\ (Coming(y, Ans(y)) => Coming(y, Ans(y))')
    <3>1. (Coming(y, d) => Coming(y, d)') /\ (Coming(y, e) => Coming(y, e)')
      BY <2>1
    <3> QED BY <1>4, <2>2, <2>3, <3>1 DEF Coming
  <2>5. s2[y] = "asked" => \/ Coming(y, Ofr(y))' \/ s2[x] \in {"answering", "answered"}
                           \/ Insists(s2, x)'
    BY <1>1, <1>2, <2>4 DEF Talk, Lands, Told
  <2>6. s2[y] = "answered" => Coming(y, Ans(y))' \/ s2[x] = "done"
    BY <1>1, <1>2, <2>4 DEF Talk, Lands, Told
  <2> QED BY <1>1, <2>5, <2>6 DEF Lands
<1> QED BY <1>5, <1>6, <1>7, <1>8, <1>9, <1>10 DEF Talk

(* The browser has done the first operation: a candidate of the remote     *)
(* description is taken, a description makes a new beginning.              *)
Worked(x) ==
    /\ ops[x] # <<>>
    /\ ops'[x] = Tail(ops[x]) \/ \E o \in OpsOf(x) : o.op = "local" /\ ops'[x] = Append(Tail(ops[x]), o)

Absorbs(x) ==
    \/ Head(ops[x]).op = "local" /\ rem'[x] = rem[x] /\ added'[x] = added[x]
    \/ Head(ops[x]).op = "remote" /\ rem'[x] = Head(ops[x]).d /\ added'[x] = {}
    \/ /\ Head(ops[x]).op = "candidate" /\ rem'[x] = rem[x]
       /\ added'[x] = IF rem[x] = Head(ops[x]).d.of THEN added[x] \cup {Head(ops[x]).d.n} ELSE added[x]

LEMMA WorkedAt ==
    ASSUME TypeInv, NEW x \in Page, Worked(x)
    PROVE  /\ 1 \in 1..Len(ops[x]) /\ Head(ops[x]) = ops[x][1] /\ Len(ops[x]) \in Nat
           /\ \A i \in 1..Len(ops'[x]) :
                \/ i + 1 \in 1..Len(ops[x]) /\ ops'[x][i] = ops[x][i + 1] /\ i + 1 # 1
                \/ i = Len(ops[x]) /\ ops'[x][i].op = "local" /\ i \notin 1..Len(Tail(ops[x]))
           /\ \A j \in 1..Len(ops[x]) : j # 1 =>
                j - 1 \in 1..Len(ops'[x]) /\ ops'[x][j - 1] = ops[x][j]
<1>1. ops[x] \in Seq(OpsOf(x)) /\ ops[x] # <<>>
  BY PageTyped DEF ChainTypes, Worked
<1>2. PICK t : t = Tail(ops[x])
  OBVIOUS
<1>3. /\ \A i \in 1..Len(t) : i + 1 \in 1..Len(ops[x]) /\ t[i] = ops[x][i + 1]
      /\ \A j \in 1..Len(ops[x]) : j # 1 => j - 1 \in 1..Len(t) /\ t[j - 1] = ops[x][j]
      /\ 1 \in 1..Len(ops[x]) /\ t \in Seq(OpsOf(x)) /\ Head(ops[x]) = ops[x][1]
  BY <1>1, <1>2, Shifted
<1>4. Len(t) = Len(ops[x]) - 1 /\ Len(ops[x]) \in Nat \ {0} /\ Len(t) \in Nat
  BY <1>1, <1>2, <1>3, TailAt
<1>5. \A i \in 1..Len(t) : i + 1 # 1
  BY <1>4
<1>6. CASE ops'[x] = t
  BY <1>2, <1>3, <1>4, <1>5, <1>6
<1>7. ASSUME NEW o \in OpsOf(x), o.op = "local", ops'[x] = Append(t, o)
      PROVE  /\ \A i \in 1..Len(ops'[x]) :
                  \/ i \in 1..Len(t) /\ ops'[x][i] = t[i]
                  \/ i = Len(ops[x]) /\ ops'[x][i].op = "local" /\ i \notin 1..Len(t)
             /\ \A i \in 1..Len(t) : i \in 1..Len(ops'[x]) /\ ops'[x][i] = t[i]
  <2>1. /\ \A i \in 1..Len(t) : i \in 1..Len(ops'[x]) /\ ops'[x][i] = t[i]
        /\ \A j \in 1..Len(ops'[x]) : j # Len(t) + 1 => j \in 1..Len(t) /\ ops'[x][j] = t[j]
        /\ ops'[x][Len(t) + 1] = o
    BY <1>3, <1>7, Grown
  <2>2. Len(t) + 1 = Len(ops[x]) /\ Len(t) + 1 \notin 1..Len(t)
    BY <1>4
  <2> QED BY <1>7, <2>1, <2>2
<1>8. ASSUME NEW o \in OpsOf(x), o.op = "local", ops'[x] = Append(t, o)
      PROVE  /\ \A i \in 1..Len(ops'[x]) :
                \/ i + 1 \in 1..Len(ops[x]) /\ ops'[x][i] = ops[x][i + 1] /\ i + 1 # 1
                \/ i = Len(ops[x]) /\ ops'[x][i].op = "local" /\ i \notin 1..Len(t)
             /\ \A j \in 1..Len(ops[x]) : j # 1 =>
                j - 1 \in 1..Len(ops'[x]) /\ ops'[x][j - 1] = ops[x][j]
  BY <1>3, <1>5, <1>7, <1>8
<1> QED BY <1>2, <1>3, <1>4, <1>6, <1>8 DEF Worked

LEMMA IceWorked ==
    ASSUME TypeInv, NEW st \in [Page -> Stages], Sound(st), NEW x \in Page, st[x] # "rest",
           NEW s2, s2[Other(x)] = st[Other(x)], Worked(x), Absorbs(x),
           Wire(Other(x))' = Wire(Other(x)), born'[x] = born[x], Same(Other(x))
    PROVE  Ice(s2, Other(x))'
<1> DEFINE y == Other(x)
<1>0. PICK w : w = Wire(y)
  OBVIOUS
<1>1. y \in Page /\ Other(y) = x
  BY Pair
<1>2. Ice(st, y) /\ At(y, st[y])
  BY <1>1 DEF Sound
<1>3. /\ 1 \in 1..Len(ops[x]) /\ Head(ops[x]) = ops[x][1] /\ Len(ops[x]) \in Nat
      /\ \A i \in 1..Len(ops'[x]) :
           \/ i + 1 \in 1..Len(ops[x]) /\ ops'[x][i] = ops[x][i + 1] /\ i + 1 # 1
           \/ ops'[x][i].op = "local"
      /\ \A j \in 1..Len(ops[x]) : j # 1 =>
           j - 1 \in 1..Len(ops'[x]) /\ ops'[x][j - 1] = ops[x][j]
  BY WorkedAt
<1>4. /\ loc'[y] = loc[y] /\ gathered'[y] = gathered[y] /\ born'[y] = born[y]
      /\ HasLoc(s2, y) <=> HasLoc(st, y)
      /\ Wire(y)' = w /\ (\A i : Describes(y, i)' <=> Describes(y, i))
  BY <1>0 DEF Same, HasLoc, Describes
<1>5. \A d : Known(st, y, d) => Known(s2, y, d)'
  <2>1. Ofr(y)' = Ofr(y) /\ Ofr(x)' = Ofr(x)
    BY <1>4 DEF Ofr
  <2>2. Ans(y)' = Ans(y)
    BY <1>1, <1>4, <2>1 DEF Ans
  <2> QED BY <1>4, <2>1, <2>2 DEF Known
<1>6. IceKnown(s2, y)'
  <2>1. \A i \in 1..Len(w) : \A d : w[i].k = "candidate" /\ d = w[i].d => Known(s2, y, d)'
    BY <1>0, <1>2, <1>5 DEF Ice, IceKnown
  <2>2. \A i \in 1..Len(ops[x]) : \A d : ops[x][i].op = "candidate" /\ d = ops[x][i].d => Known(s2, y, d)'
    BY <1>1, <1>2, <1>5 DEF Ice, IceKnown
  <2>3. \A i \in 1..Len(ops'[x]) : \A d :
          ops'[x][i].op = "candidate" /\ d = ops'[x][i].d => Known(s2, y, d)'
    BY <1>3, <2>2
  <2> QED BY <1>1, <1>4, <2>1, <2>3 DEF IceKnown
<1>7. \A n : Of(y, n)' = Of(y, n)
  BY <1>4 DEF Of
<1>8. /\ \A n, j : IceQueued(y, n, j) /\ j # 1 => IceQueued(y, n, j - 1)'
      /\ \A n, j : IceOnWire(y, n, j)' <=> IceOnWire(y, n, j)
      /\ \A n : IceQueued(y, n, 1) => Head(ops[x]).op = "candidate" /\ Head(ops[x]).d = Of(y, n)
  <2>1. \A n, j : IceQueued(y, n, j) /\ j # 1 => IceQueued(y, n, j - 1)'
    BY <1>1, <1>3, <1>7 DEF IceQueued
  <2>2. \A n, j : IceOnWire(y, n, j)' <=> IceOnWire(y, n, j)
    BY <1>0, <1>4, <1>7 DEF IceOnWire
  <2>3. \A n : IceQueued(y, n, 1) => Head(ops[x]).op = "candidate" /\ Head(ops[x]).d = Of(y, n)
    BY <1>1, <1>3 DEF IceQueued
  <2> QED BY <2>1, <2>2, <2>3
<1>9. \A n, j, k : IceQueued(y, n, j) /\ k = j - 1 /\ j # 1 => k \in 1..Len(ops'[x]) /\ IceQueued(y, n, k)'
  BY <1>1, <1>8 DEF IceQueued
<1>10. IceTaken(s2, y)'
  <2> SUFFICES ASSUME HasLoc(st, y), rem'[x] = loc[y]
               PROVE  /\ added'[x] \subseteq 1..gathered[y]
                      /\ \A n \in 1..gathered[y] : n \in added'[x] \/ Follows(y, n)'
    BY <1>1, <1>4 DEF IceTaken
  <2>1. CASE rem'[x] = rem[x] /\ Head(ops[x]).op # "remote"
    <3>1. /\ added[x] \subseteq 1..gathered[y]
          /\ \A n \in 1..gathered[y] : n \in added[x] \/ Follows(y, n)
      BY <1>1, <1>2, <2>1 DEF Ice, IceTaken
    <3>2. added[x] \subseteq added'[x]
      BY <2>1 DEF Absorbs
    <3>3. added'[x] \subseteq 1..gathered[y]
      <4>1. CASE Head(ops[x]).op = "candidate" /\ rem[x] = Head(ops[x]).d.of
        <5>1. PICK d : d = ops[x][1].d
          OBVIOUS
        <5>2. Known(st, y, d) /\ d.of = loc[y]
          BY <1>1, <1>2, <1>3, <2>1, <4>1, <5>1 DEF Ice, IceKnown
        <5>3. d.n \in 1..gathered[y]
          BY <5>2 DEF Known
        <5> QED BY <1>3, <3>1, <4>1, <5>1, <5>3 DEF Absorbs
      <4>2. CASE ~(Head(ops[x]).op = "candidate" /\ rem[x] = Head(ops[x]).d.of)
        BY <2>1, <3>1, <4>2 DEF Absorbs
      <4> QED BY <4>1, <4>2
    <3>4. ASSUME NEW n \in 1..gathered[y], n \notin added'[x]
          PROVE  Follows(y, n)'
      <4>1. Follows(y, n)
        BY <3>1, <3>2, <3>4
      <4>2. CASE \E j \in 1..Len(w) : IceOnWire(y, n, j)
        BY <1>4, <1>8, <4>2 DEF Follows
      <4>3. ASSUME NEW j, IceQueued(y, n, j) PROVE Follows(y, n)'
        <5>1. j # 1
          <6> SUFFICES ASSUME j = 1 PROVE FALSE
            OBVIOUS
          <6>1. Head(ops[x]).op = "candidate" /\ Head(ops[x]).d = Of(y, n)
            BY <1>8, <4>3
          <6>2. Head(ops[x]).d.of = loc[y] /\ Head(ops[x]).d.n = n
            BY <6>1 DEF Of
          <6>3. n \in added'[x]
            BY <2>1, <6>1, <6>2 DEF Absorbs
          <6> QED BY <3>4, <6>3
        <5>2. PICK k : k = j - 1
          OBVIOUS
        <5>3. k \in 1..Len(ops'[x]) /\ IceQueued(y, n, k)'
          BY <1>9, <4>3, <5>1, <5>2
        <5> QED BY <1>1, <5>3 DEF Follows
      <4> QED BY <1>0, <4>1, <4>2, <4>3 DEF Follows
    <3> QED BY <3>3, <3>4
  <2>2. CASE Head(ops[x]).op = "remote" /\ rem'[x] = Head(ops[x]).d /\ added'[x] = {}
    <3> SUFFICES ASSUME NEW n \in 1..gathered[y] PROVE Follows(y, n)'
      BY <2>2
    <3>1. Takes(x, 1) /\ ops[x][1].d = loc[y]
      BY <1>3, <2>2 DEF Takes
    <3>2. \/ \E j \in 1..Len(ops[x]) : j > 1 /\ IceQueued(y, n, j)
          \/ \E j \in 1..Len(w) : IceOnWire(y, n, j)
      BY <1>0, <1>1, <1>2, <1>3, <3>1 DEF Ice, IceBehindQueued
    <3>3. CASE \E j \in 1..Len(w) : IceOnWire(y, n, j)
      BY <1>4, <1>8, <3>3 DEF Follows
    <3>4. ASSUME NEW j \in 1..Len(ops[x]), j > 1, IceQueued(y, n, j) PROVE Follows(y, n)'
      <4>1. PICK k : k = j - 1
        OBVIOUS
      <4>2. j # 1
        BY <3>4
      <4>3. k \in 1..Len(ops'[x]) /\ IceQueued(y, n, k)'
        BY <1>9, <3>4, <4>1, <4>2
      <4> QED BY <1>1, <4>3 DEF Follows
    <3> QED BY <3>2, <3>3, <3>4
  <2> QED BY <2>1, <2>2 DEF Absorbs
<1>11. IceBehindQueued(s2, y)'
  <2> SUFFICES ASSUME HasLoc(st, y), NEW i \in 1..Len(ops'[x]), Takes(x, i)', ops'[x][i].d = loc[y],
                      NEW n \in 1..gathered[y]
               PROVE  \/ \E j \in 1..Len(ops'[x]) : j > i /\ IceQueued(y, n, j)'
                      \/ \E j \in 1..Len(w) : IceOnWire(y, n, j)'
    BY <1>1, <1>4 DEF IceBehindQueued
  <2>1. i + 1 \in 1..Len(ops[x]) /\ Takes(x, i + 1) /\ ops[x][i + 1].d = loc[y]
    BY <1>3 DEF Takes
  <2>2. \/ \E j \in 1..Len(ops[x]) : j > i + 1 /\ IceQueued(y, n, j)
        \/ \E j \in 1..Len(w) : IceOnWire(y, n, j)
    BY <1>0, <1>1, <1>2, <2>1 DEF Ice, IceBehindQueued
  <2>3. CASE \E j \in 1..Len(w) : IceOnWire(y, n, j)
    BY <1>8, <2>3
  <2>4. ASSUME NEW j \in 1..Len(ops[x]), j > i + 1, IceQueued(y, n, j)
        PROVE  \E k \in 1..Len(ops'[x]) : k > i /\ IceQueued(y, n, k)'
    <3>1. PICK k : k = j - 1
      OBVIOUS
    <3>2. j # 1 /\ k > i
      BY <2>4, <3>1
    <3>3. k \in 1..Len(ops'[x]) /\ IceQueued(y, n, k)'
      BY <1>9, <2>4, <3>1, <3>2
    <3> QED BY <3>2, <3>3
  <2> QED BY <2>2, <2>3, <2>4
<1>12. IceBehindSent(s2, y)'
  BY <1>0, <1>2, <1>4, <1>8 DEF Ice, IceBehindSent
<1> QED BY <1>6, <1>10, <1>11, <1>12 DEF Ice

LEMMA NeededSound ==
    ASSUME TypeInv, NEW st \in [Page -> Stages], Sound(st), NEW x \in Page, onnegotiationneeded(x)
    PROVE  Sound(st)'
<1> DEFINE y == Other(x)
           o == SetLocal("needed")
<1>1. /\ Quiet /\ Same(y) /\ Held(x) /\ sig[x] = "stable" /\ sig'[x] = sig[x] /\ born'[x] = born[x]
      /\ ops[x] = <<>> /\ loc[x] = NoDesc /\ ops'[x] = <<o>> /\ making'[x] = TRUE
  BY NeededDoes DEF TypeInv
<1>2. y \in Page /\ Other(y) = x /\ y # x
  BY Pair
<1>3. /\ \A p \in Page : At(p, st[p]) /\ Chain(st, p) /\ Talk(st, p) /\ Ice(st, p)
      /\ st[x] \in Stages
  BY DEF Sound
<1>4. st[x] = "fresh"
  <2>1. st[x] # "rest"
    BY <1>1, <1>3 DEF At, Left, Blank
  <2>2. st[x] \notin {"asked", "answering", "answered", "done"}
    BY <1>1, <1>2, <1>3, Kinds DEF At
  <2> QED BY <1>3, <2>1, <2>2 DEF Stages
<1>5. /\ Present(st, x)' /\ Present(st, y)' /\ At(y, st[y])' /\ Chain(st, y)' /\ ~Old(x)'
  BY <1>1, <1>4, Works DEF Quiet
<1>6. At(x, st[x])'
  BY <1>1, <1>3, <1>4, <1>5 DEF At, Held
<1>7. Len(ops[x]) = 0 /\ Len(ops'[x]) = 1 /\ ops'[x][1] = o /\ o.op = "local" /\ o.caller = "needed"
  BY <1>1 DEF SetLocal
<1>8. Chain(st, x)'
  BY <1>4, <1>7 DEF Chain
<1>9. Wire(x)' = Wire(x) /\ Wire(y)' = Wire(y)
  BY <1>1, <1>2, WiresQuiet
<1>10. Talk(st, x)' /\ Ice(st, x)'
  <2>1. Talk(st, x)'
    BY <1>1, <1>3, <1>9, TalkSame DEF Same
  <2>2. Ice(st, x)'
    BY <1>1, <1>3, <1>9, IceSame DEF Same, Held
  <2> QED BY <2>1, <2>2
<1>11. (\A i : ~Takes(x, i)) /\ \A i : ~Takes(x, i)'
  BY <1>7 DEF Takes
<1>12. Talk(st, y)'
  <2>1. Told(st[x], st[x]) /\ 0 \in Int
    BY DEF Told
  <2>2. Insists(st, x) => Insists(st, x)'
    BY <1>1 DEF Insists
  <2> QED BY <1>1, <1>9, <1>11, <2>1, <2>2, TalkWorked
<1>13. Ice(st, y)'
  <2>1. /\ loc'[y] = loc[y] /\ gathered'[y] = gathered[y] /\ born'[y] = born[y]
        /\ rem'[x] = rem[x] /\ added'[x] = added[x] /\ Ofr(y)' = Ofr(y) /\ Ofr(x)' = Ofr(x)
    BY <1>1 DEF Same, Held, Ofr
  <2>2. Ans(y)' = Ans(y) /\ \A n : Of(y, n)' = Of(y, n)
    BY <1>2, <2>1 DEF Ans, Of
  <2>3. Ice(st, y)
    BY <1>2, <1>3
  <2>4. IceKnown(st, y)'
    BY <1>2, <1>7, <1>9, <2>1, <2>2, <2>3 DEF Ice, IceKnown, Known
  <2>5. /\ \A n, j : IceOnWire(y, n, j)' <=> IceOnWire(y, n, j)
        /\ \A n, j : ~IceQueued(y, n, j)
    BY <1>2, <1>7, <1>9, <2>2 DEF IceOnWire, IceQueued
  <2>6. \A n : Follows(y, n) => Follows(y, n)'
    BY <1>9, <2>5 DEF Follows
  <2>7. IceTaken(st, y)'
    BY <1>2, <2>1, <2>3, <2>6 DEF Ice, IceTaken, HasLoc
  <2>8. IceBehindQueued(st, y)'
    BY <1>2, <1>11 DEF IceBehindQueued
  <2>9. IceBehindSent(st, y)'
    BY <1>9, <2>1, <2>3, <2>5 DEF Ice, IceBehindSent, HasLoc, Describes
  <2> QED BY <2>4, <2>7, <2>8, <2>9 DEF Ice
<1> QED BY <1>5, <1>6, <1>8, <1>10, <1>12, <1>13, SoundBoth

(* Of an operation that is not a description, the rest of the chain stays. *)
LEMMA Unasked ==
    ASSUME TypeInv, NEW x \in Page, Worked(x), Head(ops[x]).op # "remote"
    PROVE  /\ \A i : Takes(x, i)' => Takes(x, i + 1) /\ ops'[x][i] = ops[x][i + 1]
           /\ \A j : Takes(x, j) => Takes(x, j - 1)' /\ ops'[x][j - 1] = ops[x][j]
<1>1. /\ 1 \in 1..Len(ops[x]) /\ Head(ops[x]) = ops[x][1]
      /\ \A i \in 1..Len(ops'[x]) :
           \/ i + 1 \in 1..Len(ops[x]) /\ ops'[x][i] = ops[x][i + 1]
           \/ ops'[x][i].op = "local"
      /\ \A j \in 1..Len(ops[x]) : j # 1 =>
           j - 1 \in 1..Len(ops'[x]) /\ ops'[x][j - 1] = ops[x][j]
  BY WorkedAt
<1>2. \A j : Takes(x, j) => j # 1
  BY <1>1 DEF Takes
<1> QED BY <1>1, <1>2 DEF Takes

LEMMA CandidateAddedSound ==
    ASSUME TypeInv, NEW st \in [Page -> Stages], Sound(st), NEW x \in Page, CandidateAdded(x)
    PROVE  Sound(st)'
<1> DEFINE y == Other(x)
<1>1. /\ Quiet /\ Same(y) /\ ops[x] # <<>> /\ Head(ops[x]).op = "candidate" /\ ops'[x] = Tail(ops[x])
      /\ born'[x] = born[x] /\ sig'[x] = sig[x] /\ loc'[x] = loc[x] /\ rem'[x] = rem[x]
      /\ making'[x] = making[x] /\ gathered'[x] = gathered[x]
      /\ added'[x] = IF rem[x] = Head(ops[x]).d.of THEN added[x] \cup {Head(ops[x]).d.n}
                     ELSE added[x]
  BY CandidateAddedDoes DEF TypeInv
<1>2. y \in Page /\ Other(y) = x /\ y # x
  BY Pair
<1>3. /\ \A p \in Page : At(p, st[p]) /\ Chain(st, p) /\ Talk(st, p) /\ Ice(st, p)
      /\ st[x] \in Stages
  BY DEF Sound
<1>4. st[x] # "rest"
  BY <1>1, <1>3 DEF At, Left, Blank
<1>5. /\ Present(st, x)' /\ Present(st, y)' /\ At(y, st[y])' /\ Chain(st, y)' /\ ~Old(x)'
  BY <1>1, <1>4, Works DEF Quiet
<1>6. At(x, st[x])'
  <2>1. Ofr(x)' = Ofr(x) /\ Ofr(y)' = Ofr(y)
    BY <1>1 DEF Ofr, Same
  <2>2. Ans(x)' = Ans(x) /\ Ans(y)' = Ans(y)
    BY <1>1, <1>2, <2>1 DEF Ans, Same
  <2> QED BY <1>1, <1>3, <1>4, <1>5, <2>1, <2>2 DEF At
<1>7. Worked(x) /\ Absorbs(x)
  BY <1>1 DEF Worked, Absorbs
<1>8. Wire(x)' = Wire(x) /\ Wire(y)' = Wire(y)
  BY <1>1, <1>2, WiresQuiet
<1>9. Talk(st, x)' /\ Ice(st, x)'
  <2>1. Talk(st, x)'
    BY <1>1, <1>3, <1>8, TalkSame DEF Same
  <2>2. Ice(st, x)'
    BY <1>1, <1>3, <1>8, IceSame DEF Same
  <2> QED BY <2>1, <2>2
<1>10. Talk(st, y)'
  <2>1. Told(st[x], st[x]) /\ 1 \in Int
    BY DEF Told
  <2>2. Insists(st, x) <=> Insists(st, x)'
    BY <1>1 DEF Insists
  <2>3. /\ \A i : Takes(x, i)' => Takes(x, i + 1) /\ ops'[x][i] = ops[x][i + 1]
        /\ \A j : Takes(x, j) => Takes(x, j - 1)' /\ ops'[x][j - 1] = ops[x][j]
    BY <1>1, <1>7, Unasked
  <2> QED BY <1>1, <1>8, <2>1, <2>2, <2>3, TalkWorked
<1>11. Ice(st, y)'
  BY <1>1, <1>4, <1>7, <1>8, IceWorked
<1>12. Chain(st, x)'
  <2>1. /\ \A i \in 1..Len(ops'[x]) : i + 1 \in 1..Len(ops[x]) /\ ops'[x][i] = ops[x][i + 1]
        /\ \A j \in 1..Len(ops[x]) : j # 1 => j - 1 \in 1..Len(ops'[x]) /\ ops'[x][j - 1] = ops[x][j]
        /\ Head(ops[x]) = ops[x][1]
    <3>1. ops[x] \in Seq(OpsOf(x))
      BY PageTyped DEF ChainTypes
    <3> QED BY <1>1, <3>1, Shifted
  <2>2. Chain(st, x)
    BY <1>3
  <2>3. \A i, j \in 1..Len(ops'[x]) : ops'[x][i].op = "local" /\ ops'[x][j].op = "local" => i = j
    <3>1. ASSUME NEW i \in 1..Len(ops'[x]), NEW j \in 1..Len(ops'[x]),
                 ops'[x][i].op = "local", ops'[x][j].op = "local"
          PROVE  i = j
      <4>1. i + 1 = j + 1
        BY <2>1, <2>2, <3>1 DEF Chain
      <4> QED BY <4>1
    <3> QED BY <3>1
  <2>4. st[x] = "answering" => \E i \in 1..Len(ops'[x]) : ops'[x][i].op = "local"
    <3>1. \A j \in 1..Len(ops[x]) : ops[x][j].op = "local" => j # 1
      BY <1>1, <2>1
    <3> QED BY <2>1, <2>2, <3>1 DEF Chain
  <2> QED BY <2>1, <2>2, <2>3, <2>4 DEF Chain
<1> QED BY <1>5, <1>6, <1>9, <1>10, <1>11, <1>12, SoundBoth

LEMMA RemoteSetSound ==
    ASSUME TypeInv, NEW st \in [Page -> Stages], Sound(st), NEW x \in Page, RemoteSet(x)
    PROVE  \E s2 \in [Page -> Stages] : Sound(s2)'
<1> DEFINE y == Other(x)
<1>0. PICK d : d = Head(ops[x]).d
  OBVIOUS
<1>1. /\ Quiet /\ Same(y) /\ ops[x] # <<>> /\ Head(ops[x]).op = "remote"
      /\ born'[x] = born[x] /\ gathered'[x] = gathered[x] /\ making'[x] = making[x]
      /\ IF d.type = "offer" THEN TakesOffer(x, d) ELSE TakesAnswer(x, d) \/ Rejects(x)
  BY <1>0, RemoteSetDoes DEF TypeInv
<1>2. y \in Page /\ Other(y) = x /\ y # x /\ (polite(y) <=> ~polite(x))
  BY Pair
<1>3. /\ \A p \in Page : At(p, st[p]) /\ Chain(st, p) /\ Talk(st, p) /\ Ice(st, p)
      /\ st[x] \in Stages /\ st[y] \in Stages
  BY <1>2 DEF Sound
<1>4. ops[x] \in Seq(OpsOf(x)) /\ 1 \in 1..Len(ops[x]) /\ Head(ops[x]) = ops[x][1]
  <2>1. ops[x] \in Seq(OpsOf(x))
    BY PageTyped DEF ChainTypes
  <2> QED BY <1>1, <2>1, TailAt
<1>5. Takes(x, 1) /\ ops[x][1].d = d /\ Awaits(st, y, d)
  BY <1>0, <1>1, <1>2, <1>3, <1>4 DEF Takes, Talk, Queued
<1>6. /\ \A i : Takes(x, i) => i = 1
      /\ \A j : ~Describes(y, j)
  <2>1. InOrder(y)
    BY <1>2, <1>3 DEF Talk
  <2> QED BY <1>2, <1>4, <1>5, <2>1 DEF InOrder, Takes, Describes
<1>7. Wire(x)' = Wire(x) /\ Wire(y)' = Wire(y)
  BY <1>1, <1>2, WiresQuiet
<1>8. Ofr(x)' = Ofr(x) /\ Ofr(y)' = Ofr(y) /\ Ans(x)' = Ans(x) /\ Ans(y)' = Ans(y)
  <2>1. Ofr(x)' = Ofr(x) /\ Ofr(y)' = Ofr(y)
    BY <1>1 DEF Ofr, Same
  <2>2. Ans(x)' = Ans(x) /\ Ans(y)' = Ans(y)
    BY <1>1, <1>2, <2>1 DEF Ans, Same
  <2> QED BY <2>1, <2>2
<1>9. SetLocal("signal") \in OpsOf(x) /\ SetLocal("signal").op = "local" /\ SetLocal("signal").caller = "signal"
  BY DEF OpsOf, SetLocal
<1>10. Worked(x) /\ Absorbs(x)
  <2>1. d.type # "offer" => sig[x] = "have-local-offer"
    BY <1>2, <1>3, <1>5, Kinds DEF Awaits, At
  <2>2. rem'[x] = d /\ added'[x] = {}
    BY <1>1, <2>1 DEF TakesOffer, TakesAnswer, Rejects
  <2>3. ops'[x] = Tail(ops[x]) \/ ops'[x] = Append(Tail(ops[x]), SetLocal("signal"))
    BY <1>1 DEF TakesOffer, TakesAnswer, Rejects
  <2> QED BY <1>0, <1>1, <1>9, <2>2, <2>3 DEF Worked, Absorbs
<1>11. /\ \A i : ~Takes(x, i)'
       /\ \A j : ~Describes(y, j)'
  <2>1. \A i : Takes(x, i)' => Takes(x, i + 1) /\ i + 1 # 1
    BY <1>10, WorkedAt DEF Takes
  <2> QED BY <1>6, <1>7, <2>1 DEF Describes
<1>12. st[x] # "rest" /\ (st[x] # "answering" => \A i \in 1..Len(ops[x]) : ops[x][i].op = "local" =>
          st[x] = "fresh" /\ ops[x][i] = SetLocal("needed"))
  <2>1. st[x] # "rest"
    BY <1>1, <1>3 DEF At, Left, Blank
  <2>2. \A i \in 1..Len(ops[x]) : ops[x][i].op = "local" =>
          ops[x][i] \in {SetLocal("needed"), SetLocal("signal")}
    BY <1>4, ElementsTyped, Operations
  <2>3. SetLocal("needed").caller = "needed"
    BY DEF SetLocal
  <2>4. Chain(st, x)
    BY <1>3
  <2> QED BY <1>9, <2>1, <2>2, <2>3, <2>4 DEF Chain
<1>13. \A i \in 1..Len(ops[x]) : ~Needs(x, i)
  <2>1. ~Needs(x, 1)
    BY <1>1, <1>4 DEF Needs, SetLocal
  <2> QED BY <2>1, PageTyped DEF ChainTypes
<1>14. st[x] # "answering" => \A i \in 1..Len(ops[x]) : ops[x][i].op # "local"
  BY <1>12, <1>13 DEF Needs
<1>15. ASSUME NEW s2 \in [Page -> Stages], s2[y] = st[y],
              \/ s2[x] = "answering" /\ st[y] = "asked"
              \/ s2[x] = "done" /\ st[y] = "answered"
       PROVE  /\ Talk(s2, y)' /\ Ice(s2, y)' /\ Present(s2, x)' /\ Present(s2, y)'
              /\ At(y, s2[y])' /\ Chain(s2, y)' /\ ~Old(x)'
  <2>1. OnWire(s2, y)' /\ Queued(s2, y)' /\ InOrder(y)' /\ Heard(s2, y)'
    BY <1>2, <1>11 DEF OnWire, Queued, InOrder, Heard
  <2>2. Matches(s2, y)' /\ Lands(s2, y)'
    BY <1>2, <1>15 DEF Matches, Lands
  <2>3. Ice(s2, y)'
    BY <1>1, <1>7, <1>10, <1>12, <1>15, IceWorked
  <2>4. s2[x] # "rest"
    BY <1>15
  <2>5. dn' = dn /\ up' = up /\ UNCHANGED serverVars
    BY <1>1 DEF Quiet
  <2> QED BY <1>1, <1>12, <1>15, <2>1, <2>2, <2>3, <2>4, <2>5, Works DEF Talk
<1>16. CASE d.type = "offer"
  <2>1. d = Ofr(y) /\ st[y] = "asked" /\ ~Insists(st, x) /\ st[x] \in {"fresh", "asked"}
    BY <1>2, <1>5, <1>16, Kinds DEF Awaits
  <2>2. /\ sig'[x] = "have-remote-offer" /\ rem'[x] = d /\ added'[x] = {}
        /\ loc'[x] = IF sig[x] = "have-local-offer" THEN NoDesc ELSE loc[x]
        /\ ops'[x] = Append(Tail(ops[x]), SetLocal("signal"))
    BY <1>1, <1>16 DEF TakesOffer
  <2>3. loc'[x] = NoDesc
    BY <1>3, <2>1, <2>2 DEF At
  <2>4. PICK s2 \in [Page -> Stages] : s2 = [st EXCEPT ![x] = "answering"]
    BY StageRead DEF Stages
  <2>5. s2[x] = "answering" /\ s2[y] = st[y]
    BY <1>2, <2>4
  <2>6. /\ Talk(s2, y)' /\ Ice(s2, y)' /\ Present(s2, x)' /\ Present(s2, y)'
        /\ At(y, s2[y])' /\ Chain(s2, y)' /\ ~Old(x)'
    BY <1>15, <2>1, <2>5
  <2>7. At(x, s2[x])'
    BY <1>8, <2>1, <2>2, <2>3, <2>5, <2>6 DEF At, Stages
  <2>8. Chain(s2, x)'
    <3>1. PICK t : t = Tail(ops[x])
      OBVIOUS
    <3>2. /\ t \in Seq(OpsOf(x)) /\ \A i \in 1..Len(t) : t[i].op # "local"
      <4>1. /\ t \in Seq(OpsOf(x)) /\ \A i \in 1..Len(t) : i + 1 \in 1..Len(ops[x]) /\ t[i] = ops[x][i + 1]
        BY <1>1, <1>4, <3>1, Shifted
      <4> QED BY <1>14, <2>1, <4>1
    <3>3. /\ \A j \in 1..Len(ops'[x]) : j # Len(t) + 1 => j \in 1..Len(t) /\ ops'[x][j] = t[j]
          /\ Len(t) + 1 \in 1..Len(ops'[x]) /\ ops'[x][Len(t) + 1] = SetLocal("signal")
      BY <1>9, <2>2, <3>1, <3>2, Grown
    <3>4. \A j \in 1..Len(ops'[x]) : ops'[x][j].op = "local" => j = Len(t) + 1 /\ ops'[x][j].caller = "signal"
      BY <1>9, <3>2, <3>3
    <3> QED BY <1>9, <2>5, <3>3, <3>4 DEF Chain
  <2>9. st[x] = "asked" => polite(x) /\ Insists(st, y)
    BY <1>2, <2>1 DEF Insists
  <2>10. \A i : ~Takes(y, i)
    <3>1. \A e : ~Awaits(st, x, e)
      BY <1>2, <2>1, <2>9 DEF Awaits
    <3> QED BY <1>3, <3>1 DEF Talk, Queued, Takes
  <2>11. Talk(s2, x)'
    <3>1. Talk(st, x)
      BY <1>3
    <3>2. \A e : Wrote(st, x, e) => Wrote(s2, x, e)'
      BY <1>8, <2>1, <2>5, <2>9 DEF Wrote
    <3>3. OnWire(s2, x)'
      BY <1>7, <3>1, <3>2 DEF Talk, OnWire, Describes
    <3>4. Queued(s2, x)'
      BY <1>1, <2>10 DEF Queued, Takes, Same
    <3>5. InOrder(x)'
      BY <1>1, <1>7, <1>8, <3>1 DEF Talk, InOrder, Describes, Takes, Same
    <3>6. Heard(s2, x)' /\ Matches(s2, x)' /\ Lands(s2, x)'
      BY <2>1, <2>5 DEF Heard, Matches, Lands
    <3> QED BY <3>3, <3>4, <3>5, <3>6 DEF Talk
  <2>12. Ice(s2, x)'
    <3>1. Ice(st, x)
      BY <1>3
    <3>2. \A e : Known(st, x, e) => Known(s2, x, e)'
      BY <1>2, <1>8, <2>1, <2>3, <2>5, Kinds DEF Known
    <3>3. IceKnown(s2, x)'
      BY <1>1, <1>7, <3>1, <3>2 DEF Ice, IceKnown, Same
    <3>4. ~HasLoc(s2, x)
      BY <2>5 DEF HasLoc
    <3>5. IceTaken(s2, x)' /\ IceBehindQueued(s2, x)' /\ IceBehindSent(s2, x)'
      BY <2>5 DEF HasLoc, IceTaken, IceBehindQueued, IceBehindSent
    <3> QED BY <3>3, <3>5 DEF Ice
  <2>13. Sound(s2)'
    BY <2>6, <2>7, <2>8, <2>11, <2>12, SoundBoth
  <2> QED BY <2>13
<1>17. CASE d.type # "offer"
  <2>1. d = Ans(y) /\ st[y] = "answered" /\ st[x] = "asked"
    BY <1>2, <1>5, <1>17, Kinds DEF Awaits
  <2>2. sig[x] = "have-local-offer" /\ loc[x] = Ofr(x)
    BY <1>3, <2>1 DEF At
  <2>3. /\ sig'[x] = "stable" /\ rem'[x] = d /\ added'[x] = {}
        /\ loc'[x] = loc[x] /\ ops'[x] = Tail(ops[x])
    BY <1>1, <1>17, <2>2 DEF TakesAnswer, Rejects
  <2>4. PICK s2 \in [Page -> Stages] : s2 = [st EXCEPT ![x] = "done"]
    BY StageRead DEF Stages
  <2>5. s2[x] = "done" /\ s2[y] = st[y]
    BY <1>2, <2>4
  <2>6. /\ Talk(s2, y)' /\ Ice(s2, y)' /\ Present(s2, x)' /\ Present(s2, y)'
        /\ At(y, s2[y])' /\ Chain(s2, y)' /\ ~Old(x)'
    BY <1>15, <2>1, <2>5
  <2>7. At(x, s2[x])'
    BY <1>8, <2>1, <2>2, <2>3, <2>5, <2>6 DEF At, Stages
  <2>8. Chain(s2, x)'
    <3>1. \A i \in 1..Len(ops'[x]) : i + 1 \in 1..Len(ops[x]) /\ ops'[x][i] = ops[x][i + 1]
      BY <1>1, <1>4, <2>3, Shifted
    <3>2. \A i \in 1..Len(ops'[x]) : ops'[x][i].op # "local"
      BY <1>14, <2>1, <3>1
    <3> QED BY <2>5, <3>2 DEF Chain
  <2>9. Talk(st, x)
    BY <1>3
  <2>10. (\A j : ~Describes(x, j)) /\ \A i : ~Takes(y, i)
    BY <2>1, <2>9 DEF Talk, Heard, Describes, Takes
  <2>11. (\A j : ~Describes(x, j)') /\ \A i : ~Takes(y, i)'
    BY <1>1, <1>7, <2>10 DEF Describes, Takes, Same
  <2>12. Talk(s2, x)'
    <3>1. OnWire(s2, x)' /\ Queued(s2, x)' /\ InOrder(x)' /\ Heard(s2, x)'
      BY <2>11 DEF OnWire, Queued, InOrder, Heard
    <3>2. Matches(s2, x)' /\ Lands(s2, x)'
      BY <2>1, <2>5 DEF Matches, Lands
    <3> QED BY <3>1, <3>2 DEF Talk
  <2>13. Ice(s2, x)'
    BY <1>1, <1>3, <1>7, <2>1, <2>3, <2>5, IceSame DEF Same
  <2>14. Sound(s2)'
    BY <2>6, <2>7, <2>8, <2>12, <2>13, SoundBoth
  <2> QED BY <2>14
<1> QED BY <1>16, <1>17

LEMMA IceSound ==
    ASSUME TypeInv, NEW st \in [Page -> Stages], Sound(st), NEW x \in Page, onicecandidate(x)
    PROVE  Sound(st)'
<1> DEFINE y == Other(x)
<1>0. PICK m : m = [k |-> "candidate", d |-> [of |-> loc[x], n |-> gathered[x] + 1]]
  OBVIOUS
<1>1. /\ Same(y) /\ loc[x] # NoDesc /\ gathered[x] < Candidates /\ Sends(x, m)
      /\ born'[x] = born[x] /\ sig'[x] = sig[x] /\ ops'[x] = ops[x]
      /\ loc'[x] = loc[x] /\ rem'[x] = rem[x] /\ added'[x] = added[x]
      /\ making'[x] = making[x] /\ gathered'[x] = gathered[x] + 1
  BY <1>0, IceDoes DEF TypeInv
<1>2. y \in Page /\ Other(y) = x /\ y # x
  BY Pair
<1>3. /\ \A p \in Page : At(p, st[p]) /\ Chain(st, p) /\ Talk(st, p) /\ Ice(st, p)
      /\ st[x] \in Stages
  BY DEF Sound
<1>4. st[x] \in {"asked", "answered", "done"} /\ HasLoc(st, x)
  <2>1. Candidates \in Nat /\ gathered[x] # Candidates
    BY <1>1, NegotiationAssumption
  <2>2. st[x] # "rest"
    BY <1>1, <1>3, <2>1 DEF At, Left, Blank
  <2>3. st[x] \notin {"fresh", "answering"}
    BY <1>1, <1>3 DEF At
  <2> QED BY <1>3, <2>2, <2>3 DEF Stages, HasLoc
<1>5. /\ online = Page /\ Present(st, x)' /\ Present(st, y)' /\ At(y, st[y])' /\ Chain(st, y)' /\ ~Old(x)'
  <2>1. st[x] # "rest"
    BY <1>4
  <2> QED BY <1>1, <2>1, Works DEF Sends
<1>6. /\ m \in SignalsOf(x) /\ m.k = "candidate" /\ m.d = Of(x, gathered[x] + 1)
      /\ gathered[x] \in Nat /\ gathered[x] + 1 \in 1..(gathered[x] + 1)
  <2>1. loc[x] \in DescsOf(x) /\ gathered[x] \in Nat /\ gathered[x] + 1 \in 1..Candidates
    BY <1>1, PageTyped, NegotiationAssumption DEF DescTypes
  <2> QED BY <1>0, <2>1 DEF SignalsOf, CandsOf, Of
<1>7. Wire(x)' = Append(Wire(x), m) /\ Wire(y)' = Wire(y) /\ m \in ToPage(y)
  BY <1>1, <1>5, <1>6, WiresSend
<1>8. PICK w : w = Wire(x)
  OBVIOUS
<1>9. /\ \A i \in 1..Len(w) : i \in 1..Len(Wire(x)') /\ Wire(x)'[i] = w[i]
      /\ \A j \in 1..Len(Wire(x)') : j # Len(w) + 1 => j \in 1..Len(w) /\ Wire(x)'[j] = w[j]
      /\ Len(w) + 1 \in 1..Len(Wire(x)') /\ Wire(x)'[Len(w) + 1] = m /\ Len(w) \in Nat
  <2>1. w \in Seq(ToPage(y))
    BY <1>8, WireTyped
  <2> QED BY <1>7, <1>8, <2>1, Grown
<1>10. Ofr(x)' = Ofr(x) /\ Ofr(y)' = Ofr(y) /\ Ans(x)' = Ans(x) /\ Ans(y)' = Ans(y)
  <2>1. Ofr(x)' = Ofr(x) /\ Ofr(y)' = Ofr(y)
    BY <1>1 DEF Ofr, Same
  <2>2. Ans(x)' = Ans(x) /\ Ans(y)' = Ans(y)
    BY <1>1, <1>2, <2>1 DEF Ans, Same
  <2> QED BY <2>1, <2>2
<1>11. At(x, st[x])'
  BY <1>1, <1>3, <1>4, <1>5, <1>10 DEF At
<1>12. Chain(st, x)'
  BY <1>1, <1>3, ChainSame
<1>13. Talk(st, y)'
  BY <1>1, <1>2, <1>3, <1>7, TalkSame DEF Same
<1>14. Ice(st, y)'
  BY <1>1, <1>2, <1>3, <1>7, IceSame DEF Same
<1>15. /\ \A i : Describes(x, i)' <=> Describes(x, i)
       /\ \A i : Describes(x, i) => Wire(x)'[i] = w[i]
       /\ \A i : Takes(y, i)' <=> Takes(y, i)
  BY <1>1, <1>6, <1>8, <1>9 DEF Describes, Takes, Same
<1>16. Talk(st, x)'
  <2>1. Talk(st, x)
    BY <1>3
  <2>2. \A e : (Wrote(st, x, e)' <=> Wrote(st, x, e)) /\ (Awaits(st, x, e)' <=> Awaits(st, x, e))
    BY <1>1, <1>10 DEF Wrote, Awaits, Insists, Same
  <2>3. OnWire(st, x)'
    <3>1. \A i, e : Describes(x, i) /\ e = w[i].d => Wrote(st, x, e)'
      BY <1>8, <2>1, <2>2 DEF Talk, OnWire, Describes
    <3> QED BY <1>15, <3>1 DEF OnWire
  <2>4. Queued(st, x)'
    <3>1. \A i, e : Takes(y, i) /\ e = ops[y][i].d => Awaits(st, x, e)'
      BY <2>1, <2>2 DEF Talk, Queued, Takes
    <3> QED BY <1>1, <1>15, <3>1 DEF Queued, Same
  <2>5. InOrder(x)'
    <3>1. \A i, j : Describes(x, i) /\ Describes(x, j) /\ i < j => w[i].d = Ofr(x) /\ w[j].d = Ans(x)
      BY <1>8, <2>1 DEF Talk, InOrder, Describes
    <3>2. \A i, j : Takes(y, i) /\ Takes(y, j) => i = j
      BY <2>1 DEF Talk, InOrder, Takes
    <3>3. \A i, j : Takes(y, i) => ~Describes(x, j)
      BY <2>1 DEF Talk, InOrder, Takes, Describes
    <3> QED BY <1>10, <1>15, <3>1, <3>2, <3>3 DEF InOrder
  <2>6. Heard(st, x)' /\ Matches(st, x)'
    <3>1. st[y] \in {"answering", "answered", "done"} => (\A j : ~Describes(x, j)) /\ \A i : ~Takes(y, i)
      BY <2>1 DEF Talk, Heard, Describes, Takes
    <3> QED BY <1>15, <2>1, <3>1 DEF Talk, Heard, Matches
  <2>7. Lands(st, x)'
    <3>1. \A e : Coming(x, e) => Coming(x, e)'
      <4>1. \A i, e : Describes(x, i) /\ w[i].d = e =>
              i \in 1..Len(Wire(x)') /\ Describes(x, i)' /\ Wire(x)'[i].d = e
        BY <1>9, <1>15 DEF Describes
      <4> QED BY <1>1, <1>8, <1>15, <4>1 DEF Coming, Same
    <3>2. PICK e : e = Ofr(x)
      OBVIOUS
    <3>3. PICK f : f = Ans(x)
      OBVIOUS
    <3>4. (Coming(x, Ofr(x)) => Coming(x, Ofr(x))') /\ (Coming(x, Ans(x)) => Coming(x, Ans(x))')
      <4>1. (Coming(x, e) => Coming(x, e)') /\ (Coming(x, f) => Coming(x, f)')
        BY <3>1
      <4> QED BY <1>10, <3>2, <3>3, <4>1 DEF Coming
    <3>5. Insists(st, y)' <=> Insists(st, y)
      BY <1>1 DEF Insists, Same
    <3> QED BY <2>1, <3>4, <3>5 DEF Talk, Lands
  <2> QED BY <2>3, <2>4, <2>5, <2>6, <2>7 DEF Talk
<1>17. Ice(st, x)'
  <2> DEFINE g == gathered[x]
  <2>1. Ice(st, x)
    BY <1>3
  <2>2. \A n : Of(x, n)' = Of(x, n)
    BY <1>1 DEF Of
  <2>3. /\ \A n, j : IceOnWire(x, n, j) => IceOnWire(x, n, j)' /\ j \in 1..Len(Wire(x)')
        /\ \A n, j : IceQueued(x, n, j)' <=> IceQueued(x, n, j)
        /\ \A n, j : n = g + 1 /\ j = Len(w) + 1 => IceOnWire(x, n, j)' /\ j \in 1..Len(Wire(x)')
    BY <1>1, <1>6, <1>8, <1>9, <2>2 DEF IceOnWire, IceQueued, Same
  <2>4. \A n \in 1..gathered'[x] : n \in 1..g \/ n = g + 1
    BY <1>1, <1>6
  <2>5. IceKnown(st, x)'
    <3>1. \A e : Known(st, x, e) => Known(st, x, e)'
      BY <1>1, <1>6, <1>10 DEF Known
    <3>2. \A e : e = Of(x, g + 1) => Known(st, x, e)'
      <4>1. (loc[x] = Ofr(x) /\ st[x] \notin {"rest", "fresh"}) \/ (loc[x] = Ans(x) /\ st[x] = "answered")
        BY <1>3, <1>4 DEF At
      <4> QED BY <1>1, <1>6, <1>10, <4>1 DEF Known, Of
    <3>3. \A i \in 1..Len(w) : \A e : w[i].k = "candidate" /\ e = w[i].d => Known(st, x, e)'
      BY <1>8, <2>1, <3>1 DEF Ice, IceKnown
    <3>4. \A i \in 1..Len(Wire(x)') : \A e : Wire(x)'[i].k = "candidate" /\ e = Wire(x)'[i].d => Known(st, x, e)'
      BY <1>6, <1>9, <3>2, <3>3
    <3>5. \A i \in 1..Len(ops[y]) : \A e : ops[y][i].op = "candidate" /\ e = ops[y][i].d => Known(st, x, e)'
      BY <2>1, <3>1 DEF Ice, IceKnown
    <3> QED BY <1>1, <3>4, <3>5 DEF IceKnown, Same
  <2>6. \A n \in 1..gathered'[x] : (n \in 1..g /\ Follows(x, n)) \/ n = g + 1 => Follows(x, n)'
    <3>1. ASSUME NEW n, Follows(x, n) PROVE Follows(x, n)'
      BY <1>1, <1>8, <2>3, <3>1 DEF Follows, Same
    <3>2. ASSUME NEW n, n = g + 1 PROVE Follows(x, n)'
      BY <2>3, <3>2 DEF Follows
    <3> QED BY <3>1, <3>2
  <2>7. IceTaken(st, x)'
    <3> SUFFICES ASSUME st[y] # "rest", rem'[y] = loc'[x]
                 PROVE  /\ added'[y] \subseteq 1..gathered'[x]
                        /\ \A n \in 1..gathered'[x] : n \in added'[y] \/ Follows(x, n)'
      BY DEF IceTaken
    <3>1. /\ added[y] \subseteq 1..g
          /\ \A n \in 1..g : n \in added[y] \/ Follows(x, n)
      BY <1>1, <1>4, <2>1 DEF Ice, IceTaken, Same
    <3>2. added'[y] = added[y] /\ 1..g \subseteq 1..gathered'[x]
      BY <1>1, <1>6 DEF Same
    <3> QED BY <2>4, <2>6, <3>1, <3>2
  <2>8. IceBehindQueued(st, x)'
    <3> SUFFICES ASSUME NEW i \in 1..Len(ops'[y]), Takes(y, i)', ops'[y][i].d = loc'[x],
                        NEW n \in 1..gathered'[x]
                 PROVE  \/ \E j \in 1..Len(ops'[y]) : j > i /\ IceQueued(x, n, j)'
                        \/ \E j \in 1..Len(Wire(x)') : IceOnWire(x, n, j)'
      BY DEF IceBehindQueued
    <3>1. i \in 1..Len(ops[y]) /\ Takes(y, i) /\ ops[y][i].d = loc[x]
      BY <1>1, <1>15 DEF Same
    <3>2. CASE n = g + 1
      BY <2>3, <3>2
    <3>3. CASE n \in 1..g
      <4>1. \/ \E j \in 1..Len(ops[y]) : j > i /\ IceQueued(x, n, j)
            \/ \E j \in 1..Len(w) : IceOnWire(x, n, j)
        BY <1>4, <1>8, <2>1, <3>1, <3>3 DEF Ice, IceBehindQueued
      <4> QED BY <1>1, <2>3, <4>1 DEF Same
    <3> QED BY <2>4, <3>2, <3>3
  <2>9. IceBehindSent(st, x)'
    <3> SUFFICES ASSUME NEW i \in 1..Len(Wire(x)'), Describes(x, i)', Wire(x)'[i].d = loc'[x],
                        NEW n \in 1..gathered'[x]
                 PROVE  \E j \in 1..Len(Wire(x)') : j > i /\ IceOnWire(x, n, j)'
      BY DEF IceBehindSent
    <3>1. i \in 1..Len(w) /\ Describes(x, i) /\ w[i].d = loc[x]
      BY <1>1, <1>8, <1>15 DEF Describes
    <3>2. CASE n = g + 1
      <4>1. Len(w) + 1 > i
        BY <1>9, <3>1
      <4> QED BY <2>3, <3>2, <4>1
    <3>3. CASE n \in 1..g
      <4>1. PICK j \in 1..Len(w) : j > i /\ IceOnWire(x, n, j)
        BY <1>4, <1>8, <2>1, <3>1, <3>3 DEF Ice, IceBehindSent
      <4> QED BY <2>3, <4>1
    <3> QED BY <2>4, <3>2, <3>3
  <2> QED BY <2>5, <2>7, <2>8, <2>9 DEF Ice
<1> QED BY <1>5, <1>11, <1>12, <1>13, <1>14, <1>16, <1>17, SoundBoth

(* A description is made: what the page waits for is said, and nothing it  *)
(* has said before is of that description.                                 *)
LEMMA LocalSetSound ==
    ASSUME TypeInv, NEW st \in [Page -> Stages], Sound(st), NEW x \in Page, LocalSet(x)
    PROVE  \E s2 \in [Page -> Stages] : Sound(s2)'
<1> DEFINE y == Other(x)
<1>0. PICK m : m = [k |-> "description", d |-> Made(x)]
  OBVIOUS
<1>1. /\ Same(y) /\ Sends(x, m)
      /\ ops[x] # <<>> /\ Head(ops[x]).op = "local" /\ ops'[x] = Tail(ops[x])
      /\ sig'[x] = IF sig[x] = "have-remote-offer" THEN "stable" ELSE "have-local-offer"
      /\ born'[x] = born[x] /\ loc'[x] = Made(x) /\ rem'[x] = rem[x]
      /\ making'[x] = (making[x] /\ Head(ops[x]).caller # "needed")
      /\ gathered'[x] = 0 /\ added'[x] = added[x]
  BY <1>0, LocalSetDoes DEF TypeInv
<1>2. y \in Page /\ Other(y) = x /\ y # x /\ (polite(y) <=> ~polite(x))
  BY Pair
<1>3. /\ \A p \in Page : At(p, st[p]) /\ Chain(st, p) /\ Talk(st, p) /\ Ice(st, p)
      /\ st[x] \in Stages /\ st[y] \in Stages
  BY <1>2 DEF Sound
<1>4. /\ ops[x] \in Seq(OpsOf(x)) /\ 1 \in 1..Len(ops[x]) /\ Head(ops[x]) = ops[x][1]
      /\ \A i \in 1..Len(ops'[x]) : i + 1 \in 1..Len(ops[x]) /\ ops'[x][i] = ops[x][i + 1] /\ i + 1 # 1
  <2>1. ops[x] \in Seq(OpsOf(x))
    BY PageTyped DEF ChainTypes
  <2>2. PICK t : t = ops'[x]
    OBVIOUS
  <2>3. /\ 1 \in 1..Len(ops[x]) /\ Head(ops[x]) = ops[x][1]
        /\ \A i \in 1..Len(t) : i + 1 \in 1..Len(ops[x]) /\ t[i] = ops[x][i + 1]
        /\ t \in Seq(OpsOf(x))
    BY <1>1, <2>1, <2>2, Shifted
  <2>4. \A i \in 1..Len(t) : i + 1 # 1
    BY <2>3
  <2> QED BY <2>1, <2>2, <2>3, <2>4
<1>5. \/ /\ ops[x][1] = SetLocal("needed") /\ st[x] = "fresh"
         /\ Head(ops[x]).caller = "needed" /\ making[x]
      \/ /\ ops[x][1] = SetLocal("signal") /\ st[x] = "answering"
         /\ Head(ops[x]).caller # "needed" /\ ~making[x]
  <2>1. ops[x][1] \in {SetLocal("needed"), SetLocal("signal")}
    BY <1>1, <1>4, ElementsTyped, Operations
  <2>2. /\ SetLocal("needed").caller = "needed" /\ SetLocal("signal").caller = "signal"
        /\ SetLocal("needed") # SetLocal("signal")
    BY DEF SetLocal
  <2>3. making[x] <=> Needs(x, 1)
    BY <1>1, PageTyped DEF Flags
  <2>4. Chain(st, x)
    BY <1>3
  <2> QED BY <1>1, <1>4, <2>1, <2>2, <2>3, <2>4 DEF Chain, Needs
<1>6. /\ Worked(x) /\ Absorbs(x) /\ Head(ops[x]).op # "remote"
  BY <1>1 DEF Worked, Absorbs
<1>7. \A i \in 1..Len(ops'[x]) : ops'[x][i].op # "local"
  <2>1. \A i \in 1..Len(ops[x]) : ops[x][i].op = "local" => i = 1
    BY <1>1, <1>3, <1>4 DEF Chain
  <2> QED BY <1>4, <2>1
<1>8. online = Page /\ ~Old(x)
  <2>1. Present(st, x) /\ st[x] # "rest" /\ At(x, st[x])
    BY <1>3, <1>5 DEF Sound
  <2> QED BY <2>1 DEF Present, At
<1>9. m \in SignalsOf(x) /\ m.k = "description" /\ m.d = Made(x)
  <2>1. sig[x] # "none"
    BY <1>1, PageTyped DEF ChainTypes
  <2> QED BY <1>0, <2>1, MadeTyped DEF SignalsOf
<1>10. Wire(x)' = Append(Wire(x), m) /\ Wire(y)' = Wire(y) /\ m \in ToPage(y)
  BY <1>1, <1>8, <1>9, WiresSend
<1>11. PICK w : w = Wire(x)
  OBVIOUS
<1>12. /\ \A i \in 1..Len(w) : i \in 1..Len(Wire(x)') /\ Wire(x)'[i] = w[i]
       /\ \A j \in 1..Len(Wire(x)') : j # Len(w) + 1 => j \in 1..Len(w) /\ Wire(x)'[j] = w[j]
       /\ Len(w) + 1 \in 1..Len(Wire(x)') /\ Wire(x)'[Len(w) + 1] = m /\ Len(w) \in Nat
  <2>1. w \in Seq(ToPage(y))
    BY <1>11, WireTyped
  <2> QED BY <1>10, <1>11, <2>1, Grown
<1>13. Ofr(x)' = Ofr(x) /\ Ofr(y)' = Ofr(y) /\ Ans(x)' = Ans(x) /\ Ans(y)' = Ans(y)
  <2>1. Ofr(x)' = Ofr(x) /\ Ofr(y)' = Ofr(y)
    BY <1>1 DEF Ofr, Same
  <2>2. Ans(x)' = Ans(x) /\ Ans(y)' = Ans(y)
    BY <1>1, <1>2, <2>1 DEF Ans, Same
  <2> QED BY <2>1, <2>2
<1>14. PICK s2 \in [Page -> Stages] :
         s2 = [st EXCEPT ![x] = IF st[x] = "fresh" THEN "asked" ELSE "answered"]
  BY StageRead DEF Stages
<1>15. /\ s2[y] = st[y] /\ Told(st[x], s2[x]) /\ st[x] # "rest" /\ s2[x] # "rest"
       /\ st[x] = "fresh" => s2[x] = "asked"
       /\ st[x] = "answering" => s2[x] = "answered"
  BY <1>2, <1>5, <1>14 DEF Told
<1>16. Insists(st, x) <=> Insists(s2, x)'
  <2>1. making'[x] = FALSE
    BY <1>1, <1>5
  <2> QED BY <1>5, <1>15, <2>1 DEF Insists
<1>17. /\ Present(s2, x)' /\ Present(s2, y)' /\ At(y, s2[y])' /\ Chain(s2, y)' /\ ~Old(x)'
  BY <1>1, <1>15, Works DEF Sends
<1>18. Talk(s2, y)'
  <2>1. 1 \in Int
    OBVIOUS
  <2>2. /\ \A i : Takes(x, i)' => Takes(x, i + 1) /\ ops'[x][i] = ops[x][i + 1]
        /\ \A j : Takes(x, j) => Takes(x, j - 1)' /\ ops'[x][j - 1] = ops[x][j]
    BY <1>6, Unasked
  <2> QED BY <1>1, <1>10, <1>15, <1>16, <2>1, <2>2, TalkWorked
<1>19. Ice(s2, y)'
  BY <1>1, <1>6, <1>10, <1>15, IceWorked
<1>20. Chain(s2, x)'
  BY <1>5, <1>7, <1>15 DEF Chain
<1>21. /\ st[x] = "fresh" => Made(x) = Ofr(x) /\ sig[x] = "stable" /\ rem[x] = NoDesc
       /\ st[x] = "answering" => Made(x) = Ans(x) /\ sig[x] = "have-remote-offer" /\ rem[x] = Ofr(y)
  <2>1. At(x, st[x])
    BY <1>3
  <2> QED BY <2>1 DEF At, Made, Ofr, Ans
<1>22. At(x, s2[x])'
  BY <1>1, <1>5, <1>13, <1>15, <1>17, <1>21 DEF At, Stages
<1>23. \A i : ~Takes(y, i)
  <2>1. \A e : ~Awaits(st, x, e)
    BY <1>5 DEF Awaits
  <2> QED BY <1>3, <2>1 DEF Talk, Queued, Takes
<1>24. \A i : ~Takes(y, i)'
  BY <1>1, <1>23 DEF Takes, Same
<1>25. \A j : Describes(x, j)' => \/ j = Len(w) + 1 /\ Wire(x)'[j].d = Made(x)
                                  \/ /\ Describes(x, j) /\ j \in 1..Len(w) /\ j # Len(w) + 1
                                     /\ Wire(x)'[j] = w[j] /\ w[j].d = Ofr(x)
                                     /\ polite(x) /\ st[x] = "answering"
  <2>1. \A j : Describes(x, j) => j \in 1..Len(w) /\ Wrote(st, x, w[j].d)
    BY <1>3, <1>11 DEF Talk, OnWire, Describes
  <2>2. \A j \in 1..Len(w) : j # Len(w) + 1
    BY <1>12
  <2>3. \A j, e : Describes(x, j) /\ e = w[j].d => e = Ofr(x) /\ polite(x) /\ st[x] = "answering"
    BY <1>5, <2>1 DEF Wrote
  <2>4. \A j : Describes(x, j)' /\ j # Len(w) + 1 => Describes(x, j) /\ Wire(x)'[j] = w[j]
    BY <1>11, <1>12 DEF Describes
  <2> QED BY <1>9, <1>12, <2>1, <2>2, <2>3, <2>4
<1>26. Describes(x, Len(w) + 1)' /\ Wire(x)'[Len(w) + 1].d = Made(x)
  <2>1. PICK l : l = Len(w) + 1
    OBVIOUS
  <2>2. Describes(x, l)'
    BY <1>9, <1>12, <2>1 DEF Describes
  <2> QED BY <1>9, <1>12, <2>1, <2>2 DEF Describes
<1>27. /\ st[x] = "fresh" => st[y] \in {"rest", "fresh", "asked"} /\ NoWord(x)
       /\ st[x] = "answering" => st[y] = "asked"
  <2>1. st[x] = "answering" => st[y] = "asked"
    BY <1>2, <1>3 DEF Talk, Matches
  <2>2. st[x] = "fresh" => st[y] \in {"rest", "fresh", "asked"} /\ NoWord(x)
    BY Silent
  <2> QED BY <2>1, <2>2
<1>28. Talk(s2, x)'
  <2>1. OnWire(s2, x)'
    <3>1. \A j, e : Describes(x, j)' /\ e = Wire(x)'[j].d => Wrote(s2, x, e)'
      BY <1>5, <1>13, <1>15, <1>21, <1>25 DEF Wrote
    <3> QED BY <3>1 DEF OnWire
  <2>2. Queued(s2, x)'
    BY <1>24 DEF Queued
  <2>3. InOrder(x)'
    <3>1. \A i, j : Describes(x, i) /\ Describes(x, j) /\ i < j => w[i].d = Ofr(x) /\ w[j].d = Ans(x)
      BY <1>3, <1>11 DEF Talk, InOrder, Describes
    <3>2. ASSUME NEW i \in 1..Len(Wire(x)'), NEW j \in 1..Len(Wire(x)'),
                 Describes(x, i)', Describes(x, j)', i < j
          PROVE  Wire(x)'[i].d = Ofr(x) /\ Wire(x)'[j].d = Ans(x)
      <4>1. i # Len(w) + 1
        <5>1. j = Len(w) + 1 \/ j \in 1..Len(w)
          BY <1>12
        <5> QED BY <1>12, <3>2, <5>1
      <4>2. /\ Describes(x, i) /\ Wire(x)'[i].d = Ofr(x) /\ st[x] = "answering"
        BY <1>25, <3>2, <4>1
      <4>3. CASE j = Len(w) + 1
        BY <1>21, <1>26, <4>2, <4>3
      <4>4. CASE j # Len(w) + 1
        BY <1>25, <3>1, <3>2, <4>2, <4>4
      <4> QED BY <4>2, <4>3, <4>4
    <3> QED BY <1>13, <1>24, <3>2 DEF InOrder
  <2>4. Heard(s2, x)' /\ Matches(s2, x)'
    BY <1>5, <1>15, <1>27 DEF Heard, Matches
  <2>5. Lands(s2, x)'
    <3>1. PICK e : e = Made(x)
      OBVIOUS
    <3>2. Coming(x, e)'
      BY <1>12, <1>26, <3>1 DEF Coming
    <3>3. /\ st[x] = "fresh" => Coming(x, Ofr(x))'
          /\ st[x] = "answering" => Coming(x, Ans(x))'
      <4>1. (e = Ofr(x)' => Coming(x, Ofr(x))') /\ (e = Ans(x)' => Coming(x, Ans(x))')
        BY <3>2 DEF Coming
      <4> QED BY <1>13, <1>21, <3>1, <4>1
    <3> QED BY <1>5, <1>15, <3>3 DEF Lands
  <2> QED BY <2>1, <2>2, <2>3, <2>4, <2>5 DEF Talk
<1>29. Ice(s2, x)'
  <2>1. Ice(st, x)
    BY <1>3
  <2>2. rem'[y] # loc'[x] \/ s2[y] = "rest"
    <3>1. At(y, st[y])
      BY <1>2, <1>3
    <3>2. st[y] # "rest" => rem[y] = NoDesc
      BY <1>5, <1>27, <3>1 DEF At
    <3>3. Made(x) # NoDesc
      BY <1>5, <1>21, Kinds
    <3> QED BY <1>1, <1>15, <3>2, <3>3 DEF Same
  <2>3. \A n : n \notin 1..gathered'[x]
    BY <1>1
  <2>4. IceTaken(s2, x)' /\ IceBehindQueued(s2, x)' /\ IceBehindSent(s2, x)'
    BY <2>2, <2>3 DEF IceTaken, IceBehindQueued, IceBehindSent
  <2>5. \A e : Known(st, x, e) => Known(s2, x, e)'
    BY <1>1, <1>5, <1>13, <1>15, <1>21, Kinds DEF Known
  <2>6. IceKnown(s2, x)'
    <3>1. \A i \in 1..Len(w) : \A e : w[i].k = "candidate" /\ e = w[i].d => Known(s2, x, e)'
      BY <1>11, <2>1, <2>5 DEF Ice, IceKnown
    <3>2. \A i \in 1..Len(Wire(x)') : \A e : Wire(x)'[i].k = "candidate" /\ e = Wire(x)'[i].d => Known(s2, x, e)'
      BY <1>9, <1>12, <3>1
    <3>3. \A i \in 1..Len(ops[y]) : \A e : ops[y][i].op = "candidate" /\ e = ops[y][i].d => Known(s2, x, e)'
      BY <2>1, <2>5 DEF Ice, IceKnown
    <3> QED BY <1>1, <3>2, <3>3 DEF IceKnown, Same
  <2> QED BY <2>4, <2>6 DEF Ice
<1> QED BY <1>17, <1>18, <1>19, <1>20, <1>22, <1>28, <1>29, SoundBoth

LEMMA StutterSound ==
    ASSUME NEW st, Sound(st), UNCHANGED vars
    PROVE  Sound(st)'
<1>1. UNCHANGED <<online, losses, clean, up, dn, born, sig, ops, loc, rem, gathered, added,
                  making, ignoring>>
  BY DEF vars, serverVars, wireVars, pcVars, linkVars
<1> SUFFICES ASSUME NEW p \in Page
             PROVE  At(p, st[p])' /\ Present(st, p)' /\ Chain(st, p)' /\ Talk(st, p)' /\ Ice(st, p)'
  BY DEF Sound
<1>2. At(p, st[p]) /\ Present(st, p) /\ Chain(st, p) /\ Talk(st, p) /\ Ice(st, p)
  BY DEF Sound
<1>3. Wire(p)' = Wire(p) /\ Same(p)
  BY <1>1 DEF Wire, Same
<1>4. At(p, st[p])'
  <2>1. Old(p)' <=> Old(p)
    BY <1>1 DEF Old
  <2> QED BY <1>1, <1>2, <1>3, <2>1, AtSame
<1>5. Present(st, p)'
  BY <1>1, <1>2 DEF Present, Starts
<1>6. Chain(st, p)'
  BY <1>1, <1>2, ChainSame
<1>7. Talk(st, p)'
  BY <1>1, <1>2, <1>3, TalkSame
<1>8. Ice(st, p)'
  BY <1>1, <1>2, <1>3, IceSame
<1> QED BY <1>4, <1>5, <1>6, <1>7, <1>8

LEMMA InitClean == Init => CleanInv
<1> SUFFICES ASSUME Init PROVE \E st \in [Page -> Stages] : Sound(st)
  BY DEF CleanInv
<1>1. PICK st \in [Page -> Stages] : st = [p \in Page |-> "rest"]
  BY DEF Stages
<1>2. /\ online = {}
      /\ \A p \in Page : /\ up[p] = <<>> /\ dn[p] = <<>> /\ ops[p] = <<>> /\ sig[p] = "none"
                         /\ loc[p] = NoDesc /\ rem[p] = NoDesc /\ making[p] = FALSE
                         /\ Other(p) \in Page /\ st[p] = "rest"
  BY <1>1, Pair DEF Init
<1>3. ASSUME NEW p \in Page
      PROVE  At(p, st[p]) /\ Present(st, p) /\ Chain(st, p) /\ Talk(st, p) /\ Ice(st, p)
  <2>1. At(p, st[p])
    BY <1>2 DEF At, Old, Blank, Stages
  <2>2. Present(st, p)
    <3>1. online # Page /\ Len(dn[p]) = 0
      BY <1>2 DEF Page
    <3> QED BY <1>2, <3>1 DEF Present
  <2>3. Chain(st, p)
    <3>1. Len(ops[p]) = 0
      BY <1>2
    <3> QED BY <1>2, <3>1 DEF Chain
  <2>4. Len(Wire(p)) = 0 /\ Len(ops[Other(p)]) = 0
    <3>1. Wire(p) = <<>> \o <<>> /\ ops[Other(p)] = <<>>
      BY <1>2 DEF Wire
    <3> QED BY <3>1
  <2>5. Talk(st, p)
    <3>1. OnWire(st, p) /\ Queued(st, p) /\ InOrder(p)
      BY <2>4 DEF OnWire, Queued, InOrder, Describes, Takes
    <3>2. Heard(st, p) /\ Matches(st, p) /\ Lands(st, p)
      BY <1>2 DEF Heard, Matches, Lands
    <3> QED BY <3>1, <3>2 DEF Talk
  <2>6. Ice(st, p)
    BY <1>2, <2>4 DEF Ice, IceKnown, IceTaken, IceBehindQueued, IceBehindSent, HasLoc
  <2> QED BY <2>1, <2>2, <2>3, <2>5, <2>6
<1> QED BY <1>3 DEF Sound

LEMMA CleanStep == TypeInv /\ CleanInv /\ [Next]_vars => CleanInv'
<1> SUFFICES ASSUME TypeInv, CleanInv, [Next]_vars, clean'
             PROVE  \E st \in [Page -> Stages] : Sound(st)'
  BY DEF CleanInv
<1>1. CASE UNCHANGED vars
  <2>1. clean
    BY <1>1 DEF vars, serverVars
  <2>2. PICK st \in [Page -> Stages] : Sound(st)
    BY <2>1 DEF CleanInv
  <2> QED BY <1>1, <2>2, StutterSound
<1>2. CASE Next
  <2>1. PICK x \in Page : \/ Comes(x) \/ Drops(x) \/ Reloads(x) \/ Forwards(x)
                          \/ Handles(x) \/ Completes(x) \/ Fires(x)
    BY <1>2 DEF Next
  <2>2. clean /\ ~Drops(x)
    BY <2>1 DEF Comes, Drops, Reloads, Forwards, Handles, Completes, Fires, RecvPeer, RecvLeave,
                RecvDescription, RecvCandidate, Took, LocalSet, RemoteSet, CandidateAdded,
                onnegotiationneeded, onicecandidate, serverVars
  <2>3. PICK st \in [Page -> Stages] : Sound(st)
    BY <2>2 DEF CleanInv
  <2>4. \/ Comes(x) \/ Reloads(x) \/ Forwards(x) \/ RecvPeer(x) \/ RecvLeave(x)
        \/ RecvDescription(x) \/ RecvCandidate(x) \/ LocalSet(x) \/ RemoteSet(x)
        \/ CandidateAdded(x) \/ onnegotiationneeded(x) \/ onicecandidate(x)
    BY <2>1, <2>2 DEF Handles, Completes, Fires
  <2>5. CASE Comes(x)           BY <2>3, <2>5, ComesSound
  <2>6. CASE Reloads(x)         BY <2>3, <2>6, ReloadsSound
  <2>7. CASE Forwards(x)        BY <2>3, <2>7, ForwardsSound
  <2>8. CASE RecvPeer(x)        BY <2>3, <2>8, RecvPeerSound
  <2>9. CASE RecvLeave(x)       BY <2>3, <2>9, RecvLeaveSound
  <2>10. CASE RecvDescription(x) BY <2>3, <2>10, RecvDescriptionSound
  <2>11. CASE RecvCandidate(x)  BY <2>3, <2>11, RecvCandidateSound
  <2>12. CASE LocalSet(x)       BY <2>3, <2>12, LocalSetSound
  <2>13. CASE RemoteSet(x)      BY <2>3, <2>13, RemoteSetSound
  <2>14. CASE CandidateAdded(x) BY <2>3, <2>14, CandidateAddedSound
  <2>15. CASE onnegotiationneeded(x) BY <2>3, <2>15, NeededSound
  <2>16. CASE onicecandidate(x) BY <2>3, <2>16, IceSound
  <2> QED BY <2>4, <2>5, <2>6, <2>7, <2>8, <2>9, <2>10, <2>11, <2>12, <2>13, <2>14, <2>15, <2>16
<1> QED BY <1>1, <1>2

LEMMA StaysClean == Spec => [](TypeInv /\ CleanInv)
<1>1. Init => TypeInv /\ CleanInv
  BY InitTyped, InitClean
<1>2. TypeInv /\ CleanInv /\ [Next]_vars => (TypeInv /\ CleanInv)'
  BY StepTyped, CleanStep
<1> QED BY <1>1, <1>2, PTL DEF Spec

(* Quiet, a sound exchange has paired its pages.                           *)
LEMMA SoundPairs ==
    ASSUME TypeInv, NEW st \in [Page -> Stages], Sound(st), Settled, NEW p \in Page
    PROVE  Paired(p)
<1> DEFINE y == Other(p)
<1>1. y \in Page /\ Other(y) = p
  BY Pair
<1>2. /\ \A q \in Page : st[q] \in {"answered", "done"}
      /\ st[p] = "done" <=> st[y] = "answered"
  BY SettledEnds
<1>3. /\ At(p, st[p]) /\ At(y, st[y]) /\ IceTaken(st, p)
  BY <1>1 DEF Sound, Ice
<1>4. sig[p] = "stable" /\ loc[p] = rem[y] /\ loc[p] # NoDesc
  BY <1>1, <1>2, <1>3, Kinds DEF At
<1>5. added[y] = 1..gathered[p]
  <2>1. Len(ops[y]) = 0 /\ Len(Wire(p)) = 0
    <3>1. ops[y] = <<>> /\ Wire(p) = <<>> \o <<>>
      BY <1>1 DEF Settled, Wire
    <3> QED BY <3>1
  <2>2. \A n : ~Follows(p, n)
    BY <2>1 DEF Follows
  <2>3. HasLoc(st, p) /\ st[y] # "rest"
    BY <1>1, <1>2 DEF HasLoc
  <2>4. added[y] \subseteq 1..gathered[p] /\ \A n \in 1..gathered[p] : n \in added[y]
    BY <1>3, <1>4, <2>2, <2>3 DEF IceTaken
  <2> QED BY <2>4
<1> QED BY <1>4, <1>5 DEF Paired

(* Once all is quiet, the two pages have one session: what one holds as    *)
(* its own description the other holds as the remote one, with every       *)
(* candidate, however the offers crossed, and again after a reload of a    *)
(* page whose session stood (peer.js:84-86, 104-120, 164-186).             *)
THEOREM Agrees == Spec => []PairAgrees
<1>1. TypeInv /\ CleanInv => PairAgrees
  <2> SUFFICES ASSUME TypeInv, CleanInv, Settled, clean, NEW p \in Page PROVE Paired(p)
    BY DEF PairAgrees
  <2>1. PICK st \in [Page -> Stages] : Sound(st)
    BY DEF CleanInv
  <2> QED BY <2>1, SoundPairs
<1> QED BY <1>1, StaysClean, PTL

----------------------------------------------------------------------------
(***************************************************************************)
(* The negotiation implements Agreement.  Nothing is lost as long as the   *)
(* exchange counts, and then no page hears that the other left.            *)
(***************************************************************************)
Unbroken == losses = 0 => clean

LEMMA UnbrokenStep ==
    ASSUME TypeInv, Unbroken, [Next]_vars
    PROVE  Unbroken' /\ losses' \in Nat /\ losses \in Nat /\ losses <= losses'
<1>0. losses \in Nat
  BY PageTyped, NegotiationAssumption DEF TypeInv, ServerTypes
<1>1. CASE losses' = losses /\ clean' = clean
  BY <1>0, <1>1 DEF Unbroken
<1>2. CASE losses' = losses + 1
  BY <1>0, <1>2 DEF Unbroken
<1>3. (losses' = losses /\ clean' = clean) \/ losses' = losses + 1
  <2>1. CASE UNCHANGED vars
    BY <2>1 DEF vars, serverVars
  <2>2. CASE Next
    BY <2>2 DEF Next, Comes, Drops, Reloads, Gone, Forwards, Handles, Completes, Fires, RecvPeer,
                RecvLeave, RecvDescription, RecvCandidate, Took, LocalSet, RemoteSet,
                CandidateAdded, onnegotiationneeded, onicecandidate, serverVars
  <2> QED BY <2>1, <2>2
<1> QED BY <1>1, <1>2, <1>3

(* What a page has completed is an offer some page has made.               *)
LEMMA CompletedTyped ==
    ASSUME TypeInv
    PROVE  \A p \in Page : Completed(p) \in Bids \cup {NoDesc}
<1> SUFFICES ASSUME NEW p \in Page, Completed(p) # NoDesc PROVE Completed(p) \in Bids
  OBVIOUS
<1>1. loc[p] \in DescsOf(p) /\ (loc[p] \in AnswersOf(p) => rem[p] \in OffersOf(Other(p)))
  BY PageTyped DEF DescTypes, Completed
<1>2. \A q \in Page : OffersOf(q) \subseteq Bids
  BY DEF OffersOf, Bids
<1>3. CASE loc[p].type = "offer"
  BY <1>1, <1>2, <1>3, Described DEF Completed
<1>4. CASE loc[p].type # "offer"
  <2>1. loc[p] \in AnswersOf(p)
    BY <1>1, <1>4, Described DEF DescsOf
  <2> QED BY <1>1, <1>2, <1>4, <2>1, Pair DEF Completed
<1> QED BY <1>3, <1>4

(* What a page has completed, by its stage.                                *)
LEMMA CompletedAt ==
    ASSUME TypeInv, NEW st \in [Page -> Stages], Sound(st), losses = 0, NEW p \in Page
    PROVE  /\ ~Old(p)
           /\ Completed(p) = IF st[p] = "answered" THEN Ofr(Other(p))
                             ELSE IF st[p] = "done" THEN Ofr(p) ELSE NoDesc
<1>1. At(p, st[p]) /\ st[p] \in Stages /\ Present(st, p)
  BY DEF Sound
<1>2. ~Old(p)
  <2> SUFFICES ASSUME Old(p) PROVE FALSE
    OBVIOUS
  <2>1. 1 \in 1..Len(dn[p])
    BY PageTyped, TailAt DEF WireTypes, Old
  <2> QED BY <1>1, <2>1 DEF Present, Old
<1>3. CASE st[p] \in {"answered", "done"}
  BY <1>1, <1>3, Kinds, Pair DEF At, Completed
<1>4. CASE st[p] \notin {"answered", "done"}
  BY <1>1, <1>2, <1>4 DEF At, Blank, Completed, Stages
<1> QED BY <1>2, <1>3, <1>4

LEMMA CompletedSame ==
    ASSUME TypeInv, NEW st \in [Page -> Stages], Sound(st), losses = 0, NEW p \in Page,
           Completed(p) # NoDesc, Completed(Other(p)) # NoDesc
    PROVE  Completed(p) = Completed(Other(p))
<1>1. Other(p) \in Page /\ Other(Other(p)) = p
  BY Pair
<1>2. /\ Matches(st, p) /\ Matches(st, Other(p))
  BY <1>1 DEF Sound, Talk
<1>3. st[p] \in {"answered", "done"} /\ st[Other(p)] \in {"answered", "done"}
  BY <1>1, CompletedAt
<1>4. st[p] = "done" <=> st[Other(p)] = "answered"
  BY <1>1, <1>2, <1>3 DEF Matches
<1> QED BY <1>1, <1>3, <1>4, CompletedAt

(* A page that has completed an exchange keeps it while nothing is lost.   *)
LEMMA CompletedStays ==
    ASSUME TypeInv, NEW st \in [Page -> Stages], Sound(st), losses' = 0, losses = 0, Next
    PROVE  \E x \in Page : /\ Completed(Other(x))' = Completed(Other(x))
                           /\ Completed(x) # NoDesc => Completed(x)' = Completed(x)
<1>1. PICK x \in Page : \/ Comes(x) \/ Drops(x) \/ Reloads(x) \/ Forwards(x)
                        \/ Handles(x) \/ Completes(x) \/ Fires(x)
  BY DEF Next
<1> DEFINE y == Other(x)
<1>2. ~Drops(x) /\ ~Reloads(x)
  BY DEF Drops, Reloads, Gone
<1>3. /\ Shapes /\ At(x, st[x]) /\ st[x] \in Stages /\ Chain(st, x) /\ Talk(st, y)
      /\ ~Old(x) /\ y \in Page /\ Other(y) = x
  BY Pair, CompletedAt DEF Sound, TypeInv
<1>4. Completed(x) # NoDesc => st[x] \in {"answered", "done"}
  BY CompletedAt
<1>5. ASSUME Same(x), Same(y)
      PROVE  Completed(y)' = Completed(y) /\ Completed(x)' = Completed(x)
  BY <1>5 DEF Same, Completed
<1>6. ASSUME Same(y), Completed(x) # NoDesc => sig'[x] = sig[x] /\ loc'[x] = loc[x] /\ rem'[x] = rem[x]
      PROVE  Completed(y)' = Completed(y) /\ (Completed(x) # NoDesc => Completed(x)' = Completed(x))
  BY <1>6 DEF Same, Completed
<1>7. CASE Comes(x) \/ Forwards(x)
  BY <1>3, <1>5, <1>7, ComesDoes, ForwardsDoes
<1>8. Completed(x) # NoDesc => sig[x] = "stable"
  BY DEF Completed
<1>9. CASE RecvPeer(x)
  BY <1>3, <1>6, <1>8, <1>9, RecvPeerDoes DEF Begins, Held, Same
<1>10. ~RecvLeave(x)
  <2> SUFFICES ASSUME RecvLeave(x) PROVE FALSE
    OBVIOUS
  <2>1. dn[x] # <<>> /\ Head(dn[x]).k = "peer-leave"
    BY <1>3, RecvLeaveDoes DEF Reads
  <2>2. Head(dn[x]) = dn[x][1]
    BY <2>1, PageTyped, TailAt DEF WireTypes
  <2> QED BY <1>3, <2>1, <2>2 DEF Old
<1>11. CASE RecvDescription(x)
  BY <1>3, <1>6, <1>8, <1>11, RecvDescriptionDoes DEF Begins, Held
<1>12. CASE RecvCandidate(x)
  BY <1>3, <1>6, <1>8, <1>12, RecvCandidateDoes DEF Begins, Held
<1>13. ops[x] # <<>> => 1 \in 1..Len(ops[x]) /\ Head(ops[x]) = ops[x][1] /\ Head(ops[x]) \in OpsOf(x)
  BY PageTyped, TailAt DEF ChainTypes
<1>14. CASE LocalSet(x)
  <2>1. Same(y) /\ ops[x] # <<>> /\ Head(ops[x]).op = "local"
    BY <1>3, <1>14, LocalSetDoes
  <2>2. Head(ops[x]).caller \in {"needed", "signal"}
    BY <1>13, <2>1, Operations DEF SetLocal
  <2>3. st[x] \in {"fresh", "answering"}
    BY <1>3, <1>13, <2>1, <2>2 DEF Chain
  <2> QED BY <1>4, <1>6, <2>1, <2>3
<1>15. CASE RemoteSet(x)
  <2>1. Same(y) /\ ops[x] # <<>> /\ Head(ops[x]).op = "remote"
    BY <1>3, <1>15, RemoteSetDoes
  <2>2. PICK d : d = ops[x][1].d
    OBVIOUS
  <2>3. Awaits(st, y, d)
    BY <1>3, <1>13, <2>1, <2>2 DEF Talk, Queued, Takes
  <2>4. st[x] \in {"fresh", "asked"}
    BY <1>3, <2>3 DEF Awaits
  <2> QED BY <1>4, <1>6, <2>1, <2>4
<1>16. CASE CandidateAdded(x)
  BY <1>3, <1>6, <1>16, CandidateAddedDoes
<1>17. CASE onnegotiationneeded(x)
  BY <1>3, <1>6, <1>17, NeededDoes DEF Held
<1>18. CASE onicecandidate(x)
  BY <1>3, <1>6, <1>18, IceDoes
<1> QED BY <1>1, <1>2, <1>7, <1>9, <1>10, <1>11, <1>12, <1>14, <1>15, <1>16, <1>17, <1>18
      DEF Handles, Completes, Fires

LEMMA InitAgrees == Init => A!Init
<1> SUFFICES ASSUME Init PROVE A!Init
  OBVIOUS
<1>1. \A p \in Page : Completed(p) = NoDesc
  BY DEF Init, Completed
<1>2. ~(losses > 0)
  BY DEF Init
<1> QED BY <1>1, <1>2 DEF A!Init

LEMMA CleanAgrees ==
    TypeInv /\ CleanInv /\ clean /\ losses = 0 =>
      \A p \in Page : /\ Completed(p) \in Bids \cup {NoDesc}
                     /\ \/ Completed(p) = NoDesc \/ Completed(Other(p)) = NoDesc
                        \/ Completed(p) = Completed(Other(p))
<1> SUFFICES ASSUME TypeInv, CleanInv, clean, losses = 0, NEW p \in Page
             PROVE  /\ Completed(p) \in Bids \cup {NoDesc}
                    /\ \/ Completed(p) = NoDesc \/ Completed(Other(p)) = NoDesc
                       \/ Completed(p) = Completed(Other(p))
  OBVIOUS
<1>1. PICK st \in [Page -> Stages] : Sound(st)
  BY DEF CleanInv
<1> QED BY <1>1, CompletedTyped, CompletedSame

(* Every step settles one page, or none, or comes after a loss.            *)
LEMMA StepAgrees ==
    ASSUME TypeInv, TypeInv', CleanInv, CleanInv', Unbroken, [Next]_vars
    PROVE  [A!Next]_<<[p \in Page |-> Completed(p)], (losses > 0)>>
<1> DEFINE C == [p \in Page |-> Completed(p)]
<1>1. Unbroken' /\ losses' \in Nat /\ losses \in Nat /\ losses <= losses'
  BY UnbrokenStep
<1>2. CASE losses' > 0
  <2>1. \A p \in Page : Completed(p)' \in Bids \cup {NoDesc}
    <3>1. (\A p \in Page : Completed(p) \in Bids \cup {NoDesc})'
      BY CompletedTyped, PTL
    <3> QED BY <3>1
  <2>2. C' \in [Page -> Bids \cup {NoDesc}]
    BY <2>1
  <2>3. A!Breaks
    BY <1>2, <2>2 DEF A!Breaks
  <2> QED BY <2>3 DEF A!Next
<1>3. CASE losses' = 0
  <2>1. losses = 0 /\ (losses' > 0) = (losses > 0) /\ clean /\ clean' /\ ~(losses > 0)
    BY <1>1, <1>3 DEF Unbroken
  <2>2. CASE UNCHANGED vars
    <3>1. UNCHANGED <<sig, loc, rem>>
      BY <2>2 DEF vars, pcVars
    <3>2. \A p \in Page : Completed(p)' = Completed(p)
      BY <3>1 DEF Completed
    <3> QED BY <2>1, <3>2
  <2>3. CASE Next
    <3>1. PICK st \in [Page -> Stages] : Sound(st)
      BY <2>1 DEF CleanInv
    <3>2. PICK x \in Page : /\ Completed(Other(x))' = Completed(Other(x))
                            /\ Completed(x) # NoDesc => Completed(x)' = Completed(x)
      BY <1>3, <2>1, <2>3, <3>1, CompletedStays
    <3>3. CASE Completed(x)' = Completed(x)
      <4>1. \A p \in Page : Completed(p)' = Completed(p)
        BY <3>2, <3>3, Twins
      <4> QED BY <2>1, <4>1
    <3>4. CASE Completed(x)' # Completed(x)
      <4>1. PICK o : o = Completed(x)'
        OBVIOUS
      <4>2. Completed(x) = NoDesc /\ o # NoDesc
        BY <3>2, <3>4, <4>1
      <4>3. /\ o \in Bids
            /\ Completed(Other(x))' = NoDesc \/ Completed(Other(x))' = o
        <5>1. (TypeInv /\ CleanInv /\ clean /\ losses = 0 =>
                \A p \in Page : /\ Completed(p) \in Bids \cup {NoDesc}
                               /\ \/ Completed(p) = NoDesc \/ Completed(Other(p)) = NoDesc
                                  \/ Completed(p) = Completed(Other(p)))'
          BY CleanAgrees, PTL
        <5> QED BY <1>3, <2>1, <4>1, <4>2, <5>1
      <4>4. \A f \in Page : C[f] \in {NoDesc, o}
        BY <3>2, <4>2, <4>3, Twins
      <4>5. C' = [C EXCEPT ![x] = o]
        BY <3>2, <4>1, Twins
      <4>6. C[x] = NoDesc
        BY <4>2
      <4>7. UNCHANGED (losses > 0)
        BY <2>1
      <4>8. A!Settles(x)
        BY <2>1, <4>3, <4>4, <4>5, <4>6, <4>7 DEF A!Settles
      <4> QED BY <4>8 DEF A!Next
    <3> QED BY <3>3, <3>4
  <2> QED BY <2>2, <2>3
<1> QED BY <1>1, <1>2, <1>3

(* The negotiation implements Agreement: each page completes one exchange, *)
(* never another, and both complete the same (peer.js:166-179).            *)
THEOREM Refines == Spec => AgreesOnce
<1>1. Init => A!Init /\ Unbroken
  BY InitAgrees DEF Init, Unbroken
<1>2. Unbroken /\ TypeInv /\ [Next]_vars => Unbroken'
  BY UnbrokenStep
<1>3. TypeInv /\ TypeInv' /\ CleanInv /\ CleanInv' /\ Unbroken /\ [Next]_vars
      => [A!Next]_<<[p \in Page |-> Completed(p)], (losses > 0)>>
  BY StepAgrees
<1> QED BY <1>1, <1>2, <1>3, StaysClean, PTL DEF Spec, AgreesOnce, A!Spec
=============================================================================
