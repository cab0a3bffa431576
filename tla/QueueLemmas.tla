---------------------------- MODULE QueueLemmas ----------------------------
(***************************************************************************)
(* Lemmas about queues of messages, for the proofs about the server and    *)
(* the pages: what is in a queue, and what it leads to.                    *)
(***************************************************************************)
EXTENDS SequenceTheorems, FiniteSetTheorems, TLAPS

(* A set of naturals that is not empty has a least one.                    *)
LEMMA LeastNatural ==
    ASSUME NEW T, T \subseteq Nat, T # {}
    PROVE  \E m \in T : \A k \in T : m <= k
<1> DEFINE Below == {0..k : k \in T}
           R == StrictSubsetOrdering(Nat)
<1>1. IsWellFoundedOn(R, FiniteSubsetsOf(Nat))
  BY FS_StrictSubsetOrderingWellFounded
<1>2. Below \subseteq FiniteSubsetsOf(Nat) /\ Below # {}
  <2>1. \A k \in T : IsFiniteSet(0..k) /\ 0..k \subseteq Nat
    BY FS_Interval
  <2> QED
    BY <2>1 DEF FiniteSubsetsOf
<1>3. PICK b \in Below : \A x \in Below : ~(<<x, b>> \in R)
  <2> HIDE DEF R, Below
  <2> QED
    BY <1>1, <1>2, WFMin
<1>4. PICK m \in T : b = 0..m
  OBVIOUS
<1>5. ASSUME NEW k \in T, k < m PROVE FALSE
  <2>1. 0..k \in Below /\ 0..k \subseteq 0..m /\ m \notin 0..k /\ m \in 0..m
    BY <1>5
  <2>2. <<0..k, 0..m>> \in R
    BY <2>1 DEF StrictSubsetOrdering
  <2> QED
    BY <1>3, <1>4, <2>1, <2>2
<1> QED
  BY <1>5

----------------------------------------------------------------------------
(* The messages in a queue.                                                *)
Queued(q) == {q[k] : k \in 1..Len(q)}

(* Those left when the first was taken.                                    *)
LEMMA QueuedTail ==
    ASSUME NEW S, NEW q \in Seq(S), q # <<>>
    PROVE  /\ Head(q) \in Queued(q)
           /\ Queued(Tail(q)) \subseteq Queued(q)
           /\ Queued(q) \subseteq Queued(Tail(q)) \cup {Head(q)}
<1>1. /\ Len(q) \in Nat \ {0} /\ Head(q) = q[1]
      /\ Len(Tail(q)) = Len(q) - 1 /\ \A i \in 1..Len(Tail(q)) : Tail(q)[i] = q[i + 1]
  BY EmptySeq, HeadTailProperties
<1> DEFINE t == Tail(q)
<1> HIDE DEF t
<1>2. ASSUME NEW k \in 1..Len(t) PROVE t[k] \in Queued(q)
  <2>1. k + 1 \in 1..Len(q) /\ t[k] = q[k + 1]
    BY <1>1 DEF t
  <2> QED
    BY <2>1 DEF Queued
<1>3. ASSUME NEW k \in 1..Len(q) PROVE q[k] \in Queued(t) \cup {q[1]}
  <2>1. CASE k # 1
    <3>1. k - 1 \in 1..Len(t) /\ t[k - 1] = q[k]
      BY <1>1, <2>1 DEF t
    <3> QED
      BY <3>1 DEF Queued
  <2> QED
    BY <2>1
<1>4. q[1] \in Queued(q)
  BY <1>1 DEF Queued
<1> QED
  BY <1>1, <1>2, <1>3, <1>4 DEF Queued, t

(* And with one more.                                                      *)
LEMMA QueuedAppend ==
    ASSUME NEW S, NEW q \in Seq(S), NEW m \in S
    PROVE  Queued(Append(q, m)) = Queued(q) \cup {m}
<1> DEFINE t == Append(q, m)
<1>1. /\ Len(q) \in Nat /\ Len(t) = Len(q) + 1
      /\ \A i \in 1..Len(q) : t[i] = q[i]
      /\ t[Len(q) + 1] = m
  BY LenProperties, AppendProperties
<1> HIDE DEF t
<1>2. ASSUME NEW k \in 1..Len(t) PROVE t[k] \in Queued(q) \cup {m}
  <2>1. CASE k = Len(q) + 1
    BY <1>1, <2>1
  <2>2. CASE k # Len(q) + 1
    <3>1. k \in 1..Len(q)
      BY <1>1, <2>2
    <3> QED
      BY <1>1, <3>1 DEF Queued
  <2> QED
    BY <2>1, <2>2
<1>3. ASSUME NEW k \in 1..Len(q) PROVE q[k] \in Queued(t)
  <2>1. k \in 1..Len(t) /\ t[k] = q[k]
    BY <1>1
  <2> QED
    BY <2>1 DEF Queued
<1>4. m \in Queued(t)
  BY <1>1 DEF Queued
<1> QED
  BY <1>2, <1>3, <1>4 DEF Queued, t

----------------------------------------------------------------------------
(* What a queue of messages of M leads to, whatever it is that they        *)
(* change: there is a value of V before and after each message, and R says *)
(* what a message does to it.                                              *)
Leads(V, R, s, a, b) == \E h \in [0..Len(s) -> V] :
    /\ h[0] = a /\ h[Len(s)] = b
    /\ \A i \in 1..Len(s) : <<s[i], h[i - 1], h[i]>> \in R

(* A message that is taken was the first to change something.              *)
LEMMA LeadsTail ==
    ASSUME NEW M, NEW V, NEW R, NEW s \in Seq(M), s # <<>>, NEW a, NEW b, Leads(V, R, s, a, b)
    PROVE  \E c \in V : <<Head(s), a, c>> \in R /\ Leads(V, R, Tail(s), c, b)
<1>1. Len(s) \in Nat \ {0} /\ Head(s) = s[1] /\ Len(Tail(s)) = Len(s) - 1
      /\ \A i \in 1..(Len(s) - 1) : Tail(s)[i] = s[i + 1]
  BY HeadTailProperties, EmptySeq
<1>2. PICK h \in [0..Len(s) -> V] :
        /\ h[0] = a /\ h[Len(s)] = b
        /\ \A i \in 1..Len(s) : <<s[i], h[i - 1], h[i]>> \in R
  BY DEF Leads
<1> DEFINE g == [i \in 0..(Len(s) - 1) |-> h[i + 1]]
<1>3. g \in [0..Len(Tail(s)) -> V] /\ g[0] = h[1] /\ g[Len(Tail(s))] = b
  BY <1>1, <1>2
<1>4. ASSUME NEW i \in 1..Len(Tail(s))
      PROVE  <<Tail(s)[i], g[i - 1], g[i]>> \in R
  <2>1. Tail(s)[i] = s[i + 1] /\ g[i - 1] = h[i] /\ g[i] = h[i + 1] /\ i + 1 \in 1..Len(s)
    BY <1>1
  <2>2. <<s[i + 1], h[i + 1 - 1], h[i + 1]>> \in R /\ i + 1 - 1 = i
    BY <1>2, <2>1
  <2> QED
    BY <2>1, <2>2
<1> HIDE DEF g
<1>5. Leads(V, R, Tail(s), h[1], b)
  BY <1>3, <1>4 DEF Leads
<1>6. <<s[1], h[1 - 1], h[1]>> \in R /\ h[1] \in V
  BY <1>1, <1>2
<1> QED
  BY <1>1, <1>2, <1>5, <1>6

(* One queue after the other.                                              *)
LEMMA LeadsConcat ==
    ASSUME NEW M, NEW V, NEW R, NEW s \in Seq(M), NEW u \in Seq(M), NEW a, NEW b, NEW c,
           Leads(V, R, s, a, b), Leads(V, R, u, b, c)
    PROVE  Leads(V, R, s \o u, a, c)
<1> DEFINE n == Len(s)
           k == Len(u)
           t == s \o u
<1>1. /\ n \in Nat /\ k \in Nat /\ Len(t) = n + k
      /\ \A i \in 1..(n + k) : t[i] = IF i <= n THEN s[i] ELSE u[i - n]
  <2>1. n \in Nat /\ k \in Nat
    BY LenProperties
  <2>2. Len(t) = n + k /\ \A i \in 1..(n + k) : t[i] = IF i <= n THEN s[i] ELSE u[i - n]
    BY ConcatProperties
  <2> QED
    BY <2>1, <2>2
<1>2. PICK h \in [0..n -> V] :
        /\ h[0] = a /\ h[n] = b /\ \A i \in 1..n : <<s[i], h[i - 1], h[i]>> \in R
  BY DEF Leads
<1>3. PICK f \in [0..k -> V] :
        /\ f[0] = b /\ f[k] = c /\ \A i \in 1..k : <<u[i], f[i - 1], f[i]>> \in R
  BY DEF Leads
<1> DEFINE g == [i \in 0..(n + k) |-> IF i <= n THEN h[i] ELSE f[i - n]]
<1> HIDE DEF n, k, t
<1>4. g \in [0..Len(t) -> V] /\ g[0] = a /\ g[Len(t)] = c
  <2>1. g \in [0..(n + k) -> V]
    <3>1. ASSUME NEW i \in 0..(n + k)
          PROVE  (IF i <= n THEN h[i] ELSE f[i - n]) \in V
      <4>1. CASE i <= n
        <5>1. i \in 0..n /\ h[i] \in V
          BY <1>1, <1>2, <4>1
        <5> QED
          BY <4>1, <5>1
      <4>2. CASE ~(i <= n)
        <5>1. i - n \in 0..k /\ f[i - n] \in V
          BY <1>1, <1>3, <4>2
        <5> QED
          BY <4>2, <5>1
      <4> QED
        BY <4>1, <4>2
    <3> QED
      BY <3>1
  <2>2. g[0] = a
    BY <1>1, <1>2
  <2>3. g[n + k] = c
    <3>1. CASE k = 0
      BY <1>1, <1>2, <1>3, <3>1
    <3>2. CASE k # 0
      BY <1>1, <1>3, <3>2
    <3> QED
      BY <3>1, <3>2
  <2> QED
    BY <1>1, <2>1, <2>2, <2>3
<1>5. ASSUME NEW i \in 1..Len(t)
      PROVE  <<t[i], g[i - 1], g[i]>> \in R
  <2>1. CASE i > n
    <3>1. i - n \in 1..k /\ t[i] = u[i - n] /\ g[i] = f[i - n] /\ g[i - 1] = f[i - n - 1]
      <4>1. i - n \in 1..k /\ t[i] = u[i - n] /\ g[i] = f[i - n]
        BY <1>1, <2>1
      <4>2. CASE i = n + 1
        <5>1. g[n] = h[n] /\ i - 1 = n /\ i - n - 1 = 0
          BY <1>1, <4>2
        <5> QED
          BY <1>2, <1>3, <4>1, <5>1
      <4>3. CASE i > n + 1
        BY <1>1, <4>1, <4>3
      <4> QED
        BY <1>1, <2>1, <4>1, <4>2, <4>3
    <3> HIDE DEF g
    <3> QED
      BY <1>3, <3>1
  <2>2. CASE i \in 1..n
    <3>1. g[i - 1] = h[i - 1] /\ g[i] = h[i] /\ t[i] = s[i]
      BY <1>1, <2>2
    <3> QED
      BY <1>2, <2>2, <3>1
  <2>3. i > n \/ i \in 1..n
    BY <1>1
  <2> QED
    BY <2>1, <2>2, <2>3
<1> HIDE DEF g
<1> QED
  BY <1>4, <1>5 DEF Leads, t

(* Messages that change nothing, in particular none.                       *)
LEMMA LeadsStill ==
    ASSUME NEW M, NEW V, NEW R, NEW u \in Seq(M), NEW a \in V, \A i \in 1..Len(u) : <<u[i], a, a>> \in R
    PROVE  Leads(V, R, u, a, a)
<1> DEFINE h == [i \in 0..Len(u) |-> a]
<1>1. Len(u) \in Nat
  BY LenProperties
<1>2. h \in [0..Len(u) -> V] /\ h[0] = a /\ h[Len(u)] = a
  BY <1>1
<1>3. \A i \in 1..Len(u) : <<u[i], h[i - 1], h[i]>> \in R
  BY <1>1
<1> HIDE DEF h
<1> QED
  BY <1>2, <1>3 DEF Leads

(* A message that is told is the last.                                     *)
LEMMA LeadsAppend ==
    ASSUME NEW M, NEW V, NEW R, NEW s \in Seq(M), NEW m \in M, NEW a, NEW b \in V, NEW c \in V,
           Leads(V, R, s, a, b), <<m, b, c>> \in R
    PROVE  Leads(V, R, Append(s, m), a, c)
<1> DEFINE h == [i \in 0..1 |-> IF i = 0 THEN b ELSE c]
<1>1. <<m>> \in Seq(M) /\ Len(<<m>>) = 1 /\ <<m>>[1] = m
  OBVIOUS
<1>2. h \in [0..Len(<<m>>) -> V] /\ h[0] = b /\ h[Len(<<m>>)] = c
  BY <1>1
<1>3. ASSUME NEW i \in 1..Len(<<m>>)
      PROVE  <<(<<m>>)[i], h[i - 1], h[i]>> \in R
  <2>1. i = 1 /\ h[i - 1] = b /\ h[i] = c /\ (<<m>>)[i] = m
    BY <1>1
  <2> QED
    BY <2>1
<1> HIDE DEF h
<1>4. Leads(V, R, <<m>>, b, c)
  BY <1>2, <1>3 DEF Leads
<1>5. Append(s, m) = s \o <<m>>
  OBVIOUS
<1> QED
  BY <1>1, <1>4, <1>5, LeadsConcat

(* With no message under way, nothing changes any more.                    *)
LEMMA LeadsNowhere ==
    ASSUME NEW M, NEW V, NEW R, NEW a, NEW b
    PROVE  /\ Leads(V, R, <<>>, a, b) => a = b
           /\ a \in V => Leads(V, R, <<>>, a, a)
<1>1. Len(<<>>) = 0 /\ <<>> \in Seq(M)
  BY EmptySeq
<1>2. Leads(V, R, <<>>, a, b) => a = b
  BY <1>1 DEF Leads
<1>3. ASSUME a \in V PROVE Leads(V, R, <<>>, a, a)
  <2> DEFINE u == <<>>
  <2>1. u \in Seq(M) /\ \A i \in 1..Len(u) : <<u[i], a, a>> \in R
    BY <1>1
  <2> HIDE DEF u
  <2>2. Leads(V, R, u, a, a)
    BY <1>3, <2>1, LeadsStill
  <2> QED
    BY <2>2 DEF u
<1> QED
  BY <1>2, <1>3

(* A set that no message leads out of is never left.                       *)
LEMMA LeadsWithin ==
    ASSUME NEW M, NEW V, NEW R, NEW W, NEW q \in Seq(M), NEW a \in W, NEW b, Leads(V, R, q, a, b),
           \A m, x, y : <<m, x, y>> \in R /\ x \in W => y \in W
    PROVE  b \in W /\ \A i \in 1..Len(q) : \E x \in W, y \in W : <<q[i], x, y>> \in R
<1> DEFINE n == Len(q)
<1>1. n \in Nat
  BY LenProperties
<1>2. PICK h \in [0..n -> V] :
        h[0] = a /\ h[n] = b /\ \A i \in 1..n : <<q[i], h[i - 1], h[i]>> \in R
  BY DEF Leads
<1> HIDE DEF n
<1>3. \A i \in 0..n : h[i] \in W
  <2> DEFINE T == {i \in 0..n : h[i] \notin W}
  <2>1. SUFFICES ASSUME T # {} PROVE FALSE
    OBVIOUS
  <2>2. PICK m \in T : \A k \in T : m <= k
    <3>1. T \subseteq Nat
      BY <1>1
    <3> HIDE DEF T
    <3> QED
      BY <2>1, <3>1, LeastNatural
  <2>3. m \in 1..n /\ h[m] \notin W /\ m - 1 \in 0..n /\ h[m - 1] \in W
    BY <1>1, <1>2, <2>2
  <2>4. <<q[m], h[m - 1], h[m]>> \in R
    BY <1>2, <2>3
  <2> QED
    BY <2>3, <2>4
<1>4. ASSUME NEW i \in 1..n
      PROVE  \E x \in W, y \in W : <<q[i], x, y>> \in R
  <2>1. i - 1 \in 0..n /\ i \in 0..n
    BY <1>1
  <2> QED
    BY <1>2, <1>3, <2>1
<1>5. b \in W
  BY <1>1, <1>2, <1>3
<1> QED
  BY <1>4, <1>5 DEF n
=============================================================================
