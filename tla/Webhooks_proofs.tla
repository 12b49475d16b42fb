-------------------------- MODULE Webhooks_proofs --------------------------
(***************************************************************************)
(* Type correctness of Webhooks, and that an endpoint is given an event    *)
(* once at most, and only if it was among the endpoints when the event was *)
(* raised: for any events, endpoints, settings and number of faults.       *)
(***************************************************************************)
EXTENDS Webhooks, TLAPS, SequenceTheorems

\* The jobs that may still reach the worker, in the order they will: those on the
\* queue, then those on the wire.
Way(q, w) ==
  [i \in 1 .. Len(q) + Len(w) |-> IF i <= Len(q) THEN q[i] ELSE w[i - Len(q)]]

Distinct(s) == \A i, j \in DOMAIN s : s[i].event = s[j].event => i = j

\* A job on its way is of an event raised, names endpoints asked for only, and has
\* not been posted before.
Fresh(j) ==
  /\ j.event \in raised
  /\ j.endpoints \subseteq asked[j.event]
  /\ \A ep \in Endpoint : <<j.event, ep>> \notin posting /\ posts[<<j.event, ep>>] = 0

OnTheWay ==
  /\ Distinct(Way(queue, wire))
  /\ \A i \in DOMAIN Way(queue, wire) : Fresh(Way(queue, wire)[i])

\* Nothing is posted of an event that was not raised.
Unraised ==
  \A e \in Event \ raised, ep \in Endpoint :
    <<e, ep>> \notin posting /\ posts[<<e, ep>>] = 0

\* A request under way is the first one.
Requests ==
  \A e \in Event, ep \in Endpoint : <<e, ep>> \in posting => posts[<<e, ep>>] = 0

HooksInv == TypeOK /\ OnTheWay /\ Unraised /\ Requests /\ PostedAsAsked

-----------------------------------------------------------------------------
(* Sequences of jobs.                                                      *)

LEMMA WayProperties ==
  ASSUME NEW q \in Seq(Job), NEW w \in Seq(Job)
  PROVE  /\ Len(q) \in Nat /\ Len(w) \in Nat
         /\ DOMAIN Way(q, w) = 1 .. Len(q) + Len(w)
         /\ \A i \in 1 .. Len(q) : Way(q, w)[i] = q[i]
         /\ \A i \in 1 .. Len(w) : Way(q, w)[Len(q) + i] = w[i]
         /\ \A i \in DOMAIN Way(q, w) : Way(q, w)[i] \in Job
<1>1. Len(q) \in Nat /\ Len(w) \in Nat /\ DOMAIN q = 1 .. Len(q) /\ DOMAIN w = 1 .. Len(w)
  BY LenProperties
<1>2. DOMAIN Way(q, w) = 1 .. Len(q) + Len(w)
  BY DEF Way
<1>3. \A i \in 1 .. Len(q) : q[i] \in Job
  BY <1>1
<1>4. \A i \in 1 .. Len(w) : w[i] \in Job
  BY <1>1
<1>5. ASSUME NEW i \in 1 .. Len(q) PROVE Way(q, w)[i] = q[i]
  BY <1>1 DEF Way
<1>6. ASSUME NEW i \in 1 .. Len(w) PROVE Way(q, w)[Len(q) + i] = w[i]
  <2>1. Len(q) + i \in 1 .. Len(q) + Len(w) /\ ~ (Len(q) + i <= Len(q))
        /\ Len(q) + i - Len(q) = i
    BY <1>1
  <2> QED BY <2>1 DEF Way
<1>7. ASSUME NEW i \in DOMAIN Way(q, w) PROVE Way(q, w)[i] \in Job
  <2>1. CASE i <= Len(q)
    BY <2>1, <1>1, <1>2, <1>3, <1>5
  <2>2. CASE ~ (i <= Len(q))
    <3>1. i - Len(q) \in 1 .. Len(w) /\ Way(q, w)[i] = w[i - Len(q)]
      BY <2>2, <1>1, <1>2 DEF Way
    <3> QED BY <3>1, <1>4
  <2> QED BY <2>1, <2>2
<1> QED BY <1>1, <1>2, <1>5, <1>6, <1>7

\* t has elements of s only, each at most as often.
Part(t, s) ==
  \E f \in [DOMAIN t -> DOMAIN s] :
    /\ \A i, j \in DOMAIN t : f[i] = f[j] => i = j
    /\ \A i \in DOMAIN t : t[i] = s[f[i]]

LEMMA PartIsDistinct ==
  ASSUME NEW s, NEW t, Distinct(s), Part(t, s)
  PROVE  Distinct(t)
<1>1. PICK f \in [DOMAIN t -> DOMAIN s] :
        /\ \A i, j \in DOMAIN t : f[i] = f[j] => i = j
        /\ \A i \in DOMAIN t : t[i] = s[f[i]]
  BY DEF Part
<1>2. SUFFICES ASSUME NEW i \in DOMAIN t, NEW j \in DOMAIN t, t[i].event = t[j].event
               PROVE  i = j
  BY DEF Distinct
<1>3. f[i] \in DOMAIN s /\ f[j] \in DOMAIN s /\ s[f[i]].event = s[f[j]].event
  BY <1>1, <1>2
<1>4. f[i] = f[j]
  BY <1>3 DEF Distinct
<1> QED BY <1>1, <1>4

LEMMA PartIsFresh ==
  ASSUME NEW s, NEW t, Part(t, s), \A i \in DOMAIN s : Fresh(s[i])
  PROVE  \A i \in DOMAIN t : Fresh(t[i])
<1>1. PICK f \in [DOMAIN t -> DOMAIN s] : \A i \in DOMAIN t : t[i] = s[f[i]]
  BY DEF Part
<1>2. SUFFICES ASSUME NEW i \in DOMAIN t PROVE Fresh(t[i])
  OBVIOUS
<1>3. f[i] \in DOMAIN s /\ t[i] = s[f[i]]
  BY <1>1
<1> QED BY <1>3

\* A publish that arrives is next on the way already; one that is dropped is not.
LEMMA RouteWay ==
  ASSUME NEW q \in Seq(Job), NEW w \in Seq(Job), w # <<>>
  PROVE  /\ Part(Way(Append(q, Head(w)), Tail(w)), Way(q, w))
         /\ Part(Way(q, Tail(w)), Way(q, w))
<1> DEFINE ql == Len(q)
           wl == Len(w)
           s == Way(q, w)
           a == Append(q, Head(w))
           t == Way(a, Tail(w))
           u == Way(q, Tail(w))
<1>1. ql \in Nat /\ wl \in Nat /\ wl > 0 /\ DOMAIN s = 1 .. ql + wl
  BY WayProperties, EmptySeq
<1>2. Head(w) \in Job /\ Head(w) = w[1] /\ Tail(w) \in Seq(Job) /\ Len(Tail(w)) = wl - 1
      /\ \A i \in 1 .. wl - 1 : Tail(w)[i] = w[i + 1]
  BY HeadTailProperties
<1>3. a \in Seq(Job) /\ Len(a) = ql + 1 /\ a[ql + 1] = Head(w)
      /\ \A i \in 1 .. ql : a[i] = q[i]
  BY <1>2, AppendProperties
<1>4. DOMAIN t = 1 .. ql + wl /\ DOMAIN u = 1 .. ql + wl - 1
  <2>1. DOMAIN t = 1 .. (ql + 1) + (wl - 1)
    <3>1. DOMAIN t = 1 .. Len(a) + Len(Tail(w))
      BY ONLY <1>2, <1>3, WayProperties
    <3> QED BY ONLY <1>2, <1>3, <3>1
  <2>2. DOMAIN u = 1 .. ql + (wl - 1)
    <3>1. DOMAIN u = 1 .. Len(q) + Len(Tail(w))
      BY <1>2, WayProperties
    <3> QED BY ONLY <1>2, <3>1
  <2>3. (ql + 1) + (wl - 1) = ql + wl /\ ql + (wl - 1) = ql + wl - 1
    BY <1>1
  <2> QED BY ONLY <2>1, <2>2, <2>3
<1>5. ASSUME NEW i \in DOMAIN t PROVE t[i] = s[i]
  <2>1. CASE i <= ql
    <3>1. t[i] = a[i] /\ s[i] = q[i] /\ i \in 1 .. ql
      BY <2>1, <1>1, <1>3, <1>4 DEF Way
    <3> QED BY <3>1, <1>3
  <2>2. CASE i = ql + 1
    <3>1. t[i] = a[i] /\ s[i] = w[1]
      BY <2>2, <1>1, <1>3, <1>4 DEF Way
    <3> QED BY <3>1, <2>2, <1>2, <1>3
  <2>3. CASE i > ql + 1
    <3>1. t[i] = Tail(w)[i - (ql + 1)] /\ s[i] = w[i - ql]
      BY <2>3, <1>1, <1>3, <1>4 DEF Way
    <3>2. i - (ql + 1) \in 1 .. wl - 1 /\ i - (ql + 1) + 1 = i - ql
      BY <2>3, <1>1, <1>4
    <3> QED BY <3>1, <3>2, <1>2
  <2> QED BY <2>1, <2>2, <2>3, <1>1, <1>4
<1>6. Part(t, s)
  <2> DEFINE f == [i \in DOMAIN t |-> i]
  <2>1. f \in [DOMAIN t -> DOMAIN s]
    BY <1>1, <1>4
  <2> HIDE DEF t, s
  <2>2. \A i, j \in DOMAIN t : f[i] = f[j] => i = j
    OBVIOUS
  <2>3. \A i \in DOMAIN t : t[i] = s[f[i]]
    BY <1>5
  <2> QED BY <2>1, <2>2, <2>3 DEF Part
<1>7. Part(u, s)
  <2> DEFINE f == [i \in DOMAIN u |-> IF i <= ql THEN i ELSE i + 1]
  <2>1. f \in [DOMAIN u -> DOMAIN s]
    BY <1>1, <1>4
  <2>2. \A i, j \in DOMAIN u : f[i] = f[j] => i = j
    BY <1>1, <1>4
  <2>3. ASSUME NEW i \in DOMAIN u PROVE u[i] = s[f[i]]
    <3>1. CASE i <= ql
      BY <3>1, <1>1, <1>4 DEF Way
    <3>2. CASE ~ (i <= ql)
      <4>1. u[i] = Tail(w)[i - ql] /\ f[i] = i + 1 /\ s[i + 1] = w[(i + 1) - ql]
        BY <3>2, <1>1, <1>4, <2>1 DEF Way
      <4>2. i - ql \in 1 .. wl - 1 /\ (i - ql) + 1 = (i + 1) - ql
        BY <3>2, <1>1, <1>4
      <4> QED BY <4>1, <4>2, <1>2
    <3> QED BY <3>1, <3>2
  <2> HIDE DEF u, s, f
  <2> QED BY <2>1, <2>2, <2>3 DEF Part
<1> QED BY <1>6, <1>7

\* The worker takes what is first on the way.
LEMMA TakeWay ==
  ASSUME NEW q \in Seq(Job), NEW w \in Seq(Job), q # <<>>, Distinct(Way(q, w))
  PROVE  /\ 1 \in DOMAIN Way(q, w) /\ Way(q, w)[1] = Head(q)
         /\ Part(Way(Tail(q), w), Way(q, w))
         /\ \A i \in DOMAIN Way(Tail(q), w) : Way(Tail(q), w)[i].event # Head(q).event
<1> DEFINE ql == Len(q)
           wl == Len(w)
           s == Way(q, w)
           t == Way(Tail(q), w)
           f == [i \in DOMAIN t |-> i + 1]
<1>1. ql \in Nat /\ wl \in Nat /\ ql > 0 /\ DOMAIN s = 1 .. ql + wl
  BY WayProperties, EmptySeq
<1>2. Head(q) \in Job /\ Head(q) = q[1] /\ Tail(q) \in Seq(Job) /\ Len(Tail(q)) = ql - 1
      /\ \A i \in 1 .. ql - 1 : Tail(q)[i] = q[i + 1]
  BY HeadTailProperties
<1>3. DOMAIN t = 1 .. ql + wl - 1
  <2>1. DOMAIN t = 1 .. (ql - 1) + wl
    BY <1>2, WayProperties
  <2> QED BY <1>1, <2>1
<1>4. 1 \in DOMAIN s /\ s[1] = Head(q)
  BY <1>1, <1>2 DEF Way
<1>5. ASSUME NEW i \in DOMAIN t PROVE t[i] = s[i + 1]
  <2>1. CASE i <= ql - 1
    <3>1. t[i] = Tail(q)[i] /\ s[i + 1] = q[i + 1] /\ i \in 1 .. ql - 1
      BY <2>1, <1>1, <1>2, <1>3 DEF Way
    <3> QED BY <3>1, <1>2
  <2>2. CASE ~ (i <= ql - 1)
    <3>1. t[i] = w[i - (ql - 1)] /\ s[i + 1] = w[(i + 1) - ql]
      BY <2>2, <1>1, <1>2, <1>3 DEF Way
    <3>2. i - (ql - 1) = (i + 1) - ql
      BY <1>1, <1>3
    <3> QED BY <3>1, <3>2
  <2> QED BY <2>1, <2>2
<1>6. f \in [DOMAIN t -> DOMAIN s] /\ \A i, j \in DOMAIN t : f[i] = f[j] => i = j
  BY <1>1, <1>3
<1>7. Part(t, s)
  <2>1. \A i \in DOMAIN t : t[i] = s[f[i]]
    BY <1>5
  <2> HIDE DEF t, s, f
  <2> QED BY <1>6, <2>1 DEF Part
<1>8. ASSUME NEW i \in DOMAIN t PROVE t[i].event # Head(q).event
  <2>1. i + 1 \in DOMAIN s /\ i + 1 # 1
    BY <1>1, <1>3
  <2>2. Distinct(s)
    OBVIOUS
  <2> HIDE DEF t, s
  <2>3. s[i + 1].event # s[1].event
    BY <2>1, <2>2, <1>4 DEF Distinct
  <2> QED BY <2>3, <1>4, <1>5
<1> QED BY <1>4, <1>7, <1>8

\* t has the elements of s and j, each at most as often.
PartWith(t, s, j) ==
  \E k \in DOMAIN t :
    /\ t[k] = j
    /\ \E f \in [DOMAIN t \ {k} -> DOMAIN s] :
         /\ \A i, l \in DOMAIN t \ {k} : f[i] = f[l] => i = l
         /\ \A i \in DOMAIN t \ {k} : t[i] = s[f[i]]

LEMMA PartWithIsDistinct ==
  ASSUME NEW s, NEW t, NEW j, Distinct(s), PartWith(t, s, j),
         \A i \in DOMAIN s : s[i].event # j.event
  PROVE  Distinct(t)
<1>1. PICK k \in DOMAIN t : t[k] = j /\ \E f \in [DOMAIN t \ {k} -> DOMAIN s] :
         /\ \A i, l \in DOMAIN t \ {k} : f[i] = f[l] => i = l
         /\ \A i \in DOMAIN t \ {k} : t[i] = s[f[i]]
  BY DEF PartWith
<1>2. PICK f \in [DOMAIN t \ {k} -> DOMAIN s] :
         /\ \A i, l \in DOMAIN t \ {k} : f[i] = f[l] => i = l
         /\ \A i \in DOMAIN t \ {k} : t[i] = s[f[i]]
  BY <1>1
<1>3. ASSUME NEW i \in DOMAIN t \ {k} PROVE t[i].event # j.event
  <2>1. f[i] \in DOMAIN s /\ t[i] = s[f[i]]
    BY <1>2
  <2> QED BY <2>1
<1>4. ASSUME NEW i \in DOMAIN t \ {k}, NEW l \in DOMAIN t \ {k}, t[i].event = t[l].event
      PROVE  i = l
  <2>1. f[i] \in DOMAIN s /\ f[l] \in DOMAIN s /\ s[f[i]].event = s[f[l]].event
    BY <1>2, <1>4
  <2>2. f[i] = f[l]
    BY <2>1 DEF Distinct
  <2> QED BY <2>2, <1>2
<1> QED BY <1>1, <1>3, <1>4 DEF Distinct

LEMMA PartWithIsFresh ==
  ASSUME NEW s, NEW t, NEW j, PartWith(t, s, j), Fresh(j), \A i \in DOMAIN s : Fresh(s[i])
  PROVE  \A i \in DOMAIN t : Fresh(t[i])
<1>1. PICK k \in DOMAIN t : t[k] = j /\ \E f \in [DOMAIN t \ {k} -> DOMAIN s] :
         \A i \in DOMAIN t \ {k} : t[i] = s[f[i]]
  BY DEF PartWith
<1>2. PICK f \in [DOMAIN t \ {k} -> DOMAIN s] : \A i \in DOMAIN t \ {k} : t[i] = s[f[i]]
  BY <1>1
<1>3. ASSUME NEW i \in DOMAIN t \ {k} PROVE Fresh(t[i])
  <2>1. f[i] \in DOMAIN s /\ t[i] = s[f[i]]
    BY <1>2
  <2> QED BY <2>1
<1> QED BY <1>1, <1>3

\* A publish is last on the wire, a presence notification last on the queue.
LEMMA RaiseWay ==
  ASSUME NEW q \in Seq(Job), NEW w \in Seq(Job), NEW j \in Job
  PROVE  /\ PartWith(Way(q, Append(w, j)), Way(q, w), j)
         /\ PartWith(Way(Append(q, j), w), Way(q, w), j)
<1> DEFINE ql == Len(q)
           wl == Len(w)
           s == Way(q, w)
           t == Way(q, Append(w, j))
           u == Way(Append(q, j), w)
<1>1. ql \in Nat /\ wl \in Nat /\ DOMAIN s = 1 .. ql + wl
  BY WayProperties
<1>2. /\ Append(w, j) \in Seq(Job) /\ Len(Append(w, j)) = wl + 1
      /\ \A i \in 1 .. wl : Append(w, j)[i] = w[i]
      /\ Append(w, j)[wl + 1] = j
  BY AppendProperties
<1>3. /\ Append(q, j) \in Seq(Job) /\ Len(Append(q, j)) = ql + 1
      /\ \A i \in 1 .. ql : Append(q, j)[i] = q[i]
      /\ Append(q, j)[ql + 1] = j
  BY AppendProperties
<1>4. DOMAIN t = 1 .. ql + wl + 1 /\ DOMAIN u = 1 .. ql + wl + 1
  <2>1. DOMAIN t = 1 .. ql + (wl + 1)
    BY <1>2, WayProperties
  <2>2. DOMAIN u = 1 .. (ql + 1) + wl
    BY <1>3, WayProperties
  <2> QED BY <1>1, <2>1, <2>2
<1>5. PartWith(t, s, j)
  <2> DEFINE k == ql + wl + 1
             f == [i \in DOMAIN t \ {k} |-> i]
  <2>1. k \in DOMAIN t /\ k - ql = wl + 1 /\ ~ (k <= ql)
    BY <1>1, <1>4
  <2>2. t[k] = j
    <3>1. t[k] = Append(w, j)[k - ql]
      BY <2>1, <1>4 DEF Way
    <3> QED BY <3>1, <2>1, <1>2
  <2>3. f \in [DOMAIN t \ {k} -> DOMAIN s]
    BY <1>1, <1>4
  <2>4. ASSUME NEW i \in DOMAIN t \ {k} PROVE t[i] = s[i]
    <3>1. CASE i <= ql
      BY <3>1, <1>1, <1>4 DEF Way
    <3>2. CASE ~ (i <= ql)
      <4>1. t[i] = Append(w, j)[i - ql] /\ s[i] = w[i - ql] /\ i - ql \in 1 .. wl
        BY <3>2, <1>1, <1>4, <1>2 DEF Way
      <4> QED BY <4>1, <1>2
    <3> QED BY <3>1, <3>2
  <2>5. /\ \A i, l \in DOMAIN t \ {k} : f[i] = f[l] => i = l
        /\ \A i \in DOMAIN t \ {k} : t[i] = s[f[i]]
    BY <2>4
  <2> HIDE DEF t, s, f, k
  <2> QED BY <2>1, <2>2, <2>3, <2>5 DEF PartWith
<1>6. PartWith(u, s, j)
  <2> DEFINE k == ql + 1
             f == [i \in DOMAIN u \ {k} |-> IF i <= ql THEN i ELSE i - 1]
  <2>1. k \in DOMAIN u /\ k <= ql + 1
    BY <1>1, <1>4
  <2>2. u[k] = j
    <3>1. u[k] = Append(q, j)[k]
      BY <2>1, <1>3, <1>4 DEF Way
    <3> QED BY <3>1, <1>3
  <2>3. f \in [DOMAIN u \ {k} -> DOMAIN s]
    BY <1>1, <1>4
  <2>4. \A i, l \in DOMAIN u \ {k} : f[i] = f[l] => i = l
    BY <1>1, <1>4
  <2>5. ASSUME NEW i \in DOMAIN u \ {k} PROVE u[i] = s[f[i]]
    <3>1. CASE i <= ql
      <4>1. u[i] = Append(q, j)[i] /\ s[i] = q[i] /\ i \in 1 .. ql /\ f[i] = i
        BY <3>1, <1>1, <1>3, <1>4 DEF Way
      <4> QED BY <4>1, <1>3
    <3>2. CASE ~ (i <= ql)
      <4>1. u[i] = w[i - (ql + 1)] /\ f[i] = i - 1 /\ s[i - 1] = w[(i - 1) - ql]
        BY <3>2, <1>1, <1>3, <1>4 DEF Way
      <4>2. i - (ql + 1) = (i - 1) - ql
        BY <1>1, <1>4
      <4> QED BY <4>1, <4>2
    <3> QED BY <3>1, <3>2
  <2> HIDE DEF u, s, f, k
  <2> QED BY <2>1, <2>2, <2>3, <2>4, <2>5 DEF PartWith
<1> QED BY <1>5, <1>6

\* When the connection ends, the first of the wire have arrived and the first of
\* the queue are lost.
LEMMA SeverWay ==
  ASSUME NEW q \in Seq(Job), NEW w \in Seq(Job), NEW n \in 0 .. Len(w), NEW k \in 0 .. Len(q)
  PROVE  /\ SubSeq(w, 1, n) \in Seq(Job) /\ SubSeq(q, k + 1, Len(q)) \in Seq(Job)
         /\ Part(Way(SubSeq(q, k + 1, Len(q)) \o SubSeq(w, 1, n), <<>>), Way(q, w))
         /\ Part(Way(SubSeq(q, k + 1, Len(q)), <<>>), Way(q, w))
<1> DEFINE ql == Len(q)
           wl == Len(w)
           s == Way(q, w)
           arrived == SubSeq(w, 1, n)
           left == SubSeq(q, k + 1, Len(q))
           t == Way(left \o arrived, <<>>)
           u == Way(left, <<>>)
<1>1. ql \in Nat /\ wl \in Nat /\ DOMAIN s = 1 .. ql + wl /\ n \in Nat /\ k \in Nat
      /\ n <= wl /\ k <= ql
  BY WayProperties
<1>2. /\ arrived \in Seq(Job) /\ Len(arrived) = n
      /\ \A i \in 1 .. n : arrived[i] = w[i]
  <2>1. \A i \in 1 .. n : w[i] \in Job
    BY <1>1
  <2>2. /\ arrived \in Seq(Job) /\ Len(arrived) = IF 1 <= n THEN n - 1 + 1 ELSE 0
        /\ \A i \in 1 .. n - 1 + 1 : arrived[i] = w[1 + i - 1]
    BY <1>1, <2>1, SubSeqProperties
  <2>3. n - 1 + 1 = n /\ \A i \in 1 .. n : 1 + i - 1 = i
    BY <1>1
  <2> QED BY <1>1, <2>2, <2>3
<1>3. /\ left \in Seq(Job) /\ Len(left) = ql - k
      /\ \A i \in 1 .. ql - k : left[i] = q[i + k]
  <2>1. k + 1 \in Int /\ ql \in Int /\ \A i \in k + 1 .. ql : q[i] \in Job
    BY <1>1
  <2>2. /\ left \in Seq(Job) /\ Len(left) = IF k + 1 <= ql THEN ql - (k + 1) + 1 ELSE 0
        /\ \A i \in 1 .. ql - (k + 1) + 1 : left[i] = q[(k + 1) + i - 1]
    BY <2>1, SubSeqProperties
  <2>3. ql - (k + 1) + 1 = ql - k /\ \A i \in 1 .. ql - k : (k + 1) + i - 1 = i + k
    BY <1>1
  <2>4. Len(left) = ql - k
    <3> HIDE DEF left
    <3>1. CASE k + 1 <= ql
      BY <3>1, <2>2, <2>3
    <3>2. CASE ~ (k + 1 <= ql)
      BY <3>2, <2>2, <1>1
    <3> QED BY <3>1, <3>2
  <2>5. ASSUME NEW i \in 1 .. ql - k PROVE left[i] = q[i + k]
    <3>1. i \in 1 .. ql - (k + 1) + 1 /\ (k + 1) + i - 1 = i + k
      BY <2>3
    <3> HIDE DEF left
    <3> QED BY <3>1, <2>2
  <2> QED BY <2>2, <2>4, <2>5
<1>4. /\ left \o arrived \in Seq(Job) /\ Len(left \o arrived) = ql - k + n
      /\ \A i \in 1 .. ql - k : (left \o arrived)[i] = left[i]
      /\ \A i \in 1 .. ql - k + n : ~ (i <= ql - k) => (left \o arrived)[i] = arrived[i - (ql - k)]
  <2> HIDE DEF left, arrived, t, u, s, ql, wl
  <2>1. /\ left \o arrived \in Seq(Job) /\ Len(left \o arrived) = Len(left) + Len(arrived)
        /\ \A i \in 1 .. Len(left) + Len(arrived) :
             (left \o arrived)[i] = IF i <= Len(left) THEN left[i] ELSE arrived[i - Len(left)]
    BY <1>2, <1>3, ConcatProperties
  <2> DEFINE c == left \o arrived
  <2> HIDE DEF c
  <2>2. Len(left) = ql - k /\ Len(arrived) = n /\ ql - k \in Nat
    BY <1>1, <1>2, <1>3
  <2>3. /\ c \in Seq(Job) /\ Len(c) = ql - k + n
        /\ \A i \in 1 .. ql - k + n :
             c[i] = IF i <= ql - k THEN left[i] ELSE arrived[i - (ql - k)]
    BY <2>1, <2>2 DEF c
  <2>4. \A i \in 1 .. ql - k : i \in 1 .. ql - k + n /\ i <= ql - k
    BY <2>2, <1>1
  <2>5. \A i \in 1 .. ql - k : c[i] = left[i]
    BY <2>3, <2>4
  <2>6. \A i \in 1 .. ql - k + n : ~ (i <= ql - k) => c[i] = arrived[i - (ql - k)]
    BY <2>3
  <2> QED BY ONLY <2>3, <2>5, <2>6 DEF c
<1>5. <<>> \in Seq(Job) /\ Len(<<>>) = 0
  BY EmptySeq
<1>6. /\ DOMAIN t = 1 .. ql - k + n /\ \A i \in DOMAIN t : t[i] = (left \o arrived)[i]
      /\ DOMAIN u = 1 .. ql - k /\ \A i \in DOMAIN u : u[i] = left[i]
  <2>1. DOMAIN t = 1 .. (ql - k + n) + 0 /\ DOMAIN u = 1 .. (ql - k) + 0
    <3>1. DOMAIN t = 1 .. Len(left \o arrived) + Len(<<>>)
      BY ONLY <1>4, <1>5, WayProperties
    <3>2. DOMAIN u = 1 .. Len(left) + Len(<<>>)
      BY ONLY <1>3, <1>5, WayProperties
    <3> HIDE DEF left, arrived, t, u, s, ql, wl
    <3> QED BY ONLY <1>3, <1>4, <1>5, <3>1, <3>2
  <2>2. \A i \in 1 .. Len(left \o arrived) : t[i] = (left \o arrived)[i]
    BY <1>4, <1>5, WayProperties
  <2>3. \A i \in 1 .. Len(left) : u[i] = left[i]
    BY <1>3, <1>5, WayProperties
  <2>4. (ql - k + n) + 0 = ql - k + n /\ (ql - k) + 0 = ql - k
    BY <1>1
  <2>5. Len(left) = ql - k /\ Len(left \o arrived) = ql - k + n
    BY <1>3, <1>4
  <2> HIDE DEF left, arrived, t, u, s, ql, wl
  <2> QED BY <2>1, <2>2, <2>3, <2>4, <2>5
<1>7. ASSUME NEW i \in DOMAIN t PROVE i + k \in DOMAIN s /\ t[i] = s[i + k]
  <2>1. CASE i <= ql - k
    <3>1. i \in 1 .. ql - k /\ i + k \in 1 .. ql
      BY <2>1, <1>1, <1>6
    <3>2. s[i + k] = q[i + k]
      BY <3>1, <1>1 DEF Way
    <3>3. i + k \in DOMAIN s
      BY <3>1, <1>1
    <3> HIDE DEF left, arrived, t, u, s, ql, wl
    <3>4. t[i] = left[i] /\ left[i] = q[i + k]
      BY <3>1, <1>3, <1>4, <1>6
    <3> QED BY <3>2, <3>3, <3>4
  <2>2. CASE ~ (i <= ql - k)
    <3>1. i + k \in 1 .. ql + wl /\ ~ (i + k <= ql) /\ i - (ql - k) \in 1 .. n
          /\ (i + k) - ql = i - (ql - k)
      BY <2>2, <1>1, <1>6
    <3>2. s[i + k] = w[(i + k) - ql]
      BY <3>1, <1>1 DEF Way
    <3>3. t[i] = arrived[i - (ql - k)]
      BY <2>2, <1>4, <1>6
    <3> QED BY <3>1, <3>2, <3>3, <1>1, <1>2
  <2> QED BY <2>1, <2>2
<1>8. ASSUME NEW i \in DOMAIN u PROVE i + k \in DOMAIN s /\ u[i] = s[i + k]
  <2>1. i \in 1 .. ql - k /\ i + k \in 1 .. ql
    BY <1>1, <1>6
  <2>2. s[i + k] = q[i + k]
    BY <2>1, <1>1 DEF Way
  <2>3. i + k \in DOMAIN s
    BY <2>1, <1>1
  <2> HIDE DEF left, arrived, t, u, s, ql, wl
  <2>4. u[i] = left[i] /\ left[i] = q[i + k]
    BY <2>1, <1>3, <1>6
  <2> QED BY <2>2, <2>3, <2>4
<1>9. \A i, j \in DOMAIN t \cup DOMAIN u : i + k = j + k => i = j
  BY <1>1, <1>6
<1>10. Part(t, s)
  <2> DEFINE f == [i \in DOMAIN t |-> i + k]
  <2> HIDE DEF t, u, s
  <2>1. /\ f \in [DOMAIN t -> DOMAIN s]
        /\ \A i, j \in DOMAIN t : f[i] = f[j] => i = j
        /\ \A i \in DOMAIN t : t[i] = s[f[i]]
    BY <1>7, <1>9
  <2> HIDE DEF f
  <2> QED BY <2>1 DEF Part
<1>11. Part(u, s)
  <2> DEFINE f == [i \in DOMAIN u |-> i + k]
  <2> HIDE DEF t, u, s
  <2>1. /\ f \in [DOMAIN u -> DOMAIN s]
        /\ \A i, j \in DOMAIN u : f[i] = f[j] => i = j
        /\ \A i \in DOMAIN u : u[i] = s[f[i]]
    BY <1>8, <1>9
  <2> HIDE DEF f
  <2> QED BY <2>1 DEF Part
<1> QED BY <1>2, <1>3, <1>10, <1>11

\* When the worker's channel ends, the first of the queue are lost.
LEMMA DropWay ==
  ASSUME NEW q \in Seq(Job), NEW w \in Seq(Job), NEW k \in 0 .. Len(q)
  PROVE  /\ SubSeq(q, k + 1, Len(q)) \in Seq(Job)
         /\ Part(Way(SubSeq(q, k + 1, Len(q)), w), Way(q, w))
<1> DEFINE ql == Len(q)
           wl == Len(w)
           s == Way(q, w)
           left == SubSeq(q, k + 1, Len(q))
           t == Way(left, w)
<1>1. ql \in Nat /\ wl \in Nat /\ DOMAIN s = 1 .. ql + wl /\ k \in Nat /\ k <= ql
  BY WayProperties
<1>2. /\ left \in Seq(Job) /\ Len(left) = ql - k
      /\ \A i \in 1 .. ql - k : left[i] = q[i + k]
  <2>1. k + 1 \in Int /\ ql \in Int /\ \A i \in k + 1 .. ql : q[i] \in Job
    BY <1>1
  <2>2. /\ left \in Seq(Job) /\ Len(left) = IF k + 1 <= ql THEN ql - (k + 1) + 1 ELSE 0
        /\ \A i \in 1 .. ql - (k + 1) + 1 : left[i] = q[(k + 1) + i - 1]
    BY <2>1, SubSeqProperties
  <2>3. ql - (k + 1) + 1 = ql - k /\ \A i \in 1 .. ql - k : (k + 1) + i - 1 = i + k
    BY <1>1
  <2>4. Len(left) = ql - k
    <3> HIDE DEF left
    <3>1. CASE k + 1 <= ql
      BY <3>1, <2>2, <2>3
    <3>2. CASE ~ (k + 1 <= ql)
      BY <3>2, <2>2, <1>1
    <3> QED BY <3>1, <3>2
  <2>5. ASSUME NEW i \in 1 .. ql - k PROVE left[i] = q[i + k]
    <3>1. i \in 1 .. ql - (k + 1) + 1 /\ (k + 1) + i - 1 = i + k
      BY <2>3
    <3> HIDE DEF left
    <3> QED BY <3>1, <2>2
  <2> QED BY <2>2, <2>4, <2>5
<1>3. DOMAIN t = 1 .. (ql - k) + wl
  <2>1. DOMAIN t = 1 .. Len(left) + Len(w)
    BY ONLY <1>2, w \in Seq(Job), WayProperties
  <2> QED BY <1>2, <2>1
<1>4. ASSUME NEW i \in DOMAIN t PROVE i + k \in DOMAIN s /\ t[i] = s[i + k]
  <2>1. i + k \in DOMAIN s
    BY <1>1, <1>3
  <2>2. CASE i <= ql - k
    <3>1. i \in 1 .. ql - k /\ i + k \in 1 .. ql
      BY <2>2, <1>1, <1>3
    <3>2. s[i + k] = q[i + k] /\ t[i] = left[i]
      BY <3>1, <2>1, <2>2, <1>1, <1>2 DEF Way
    <3> HIDE DEF left, t, s, ql, wl
    <3> QED BY <2>1, <3>1, <3>2, <1>2
  <2>3. CASE ~ (i <= ql - k)
    <3>1. ~ (i + k <= ql) /\ (i + k) - ql = i - (ql - k)
      BY <2>3, <1>1, <1>3
    <3>2. s[i + k] = w[(i + k) - ql] /\ t[i] = w[i - (ql - k)]
      BY <3>1, <2>1, <2>3, <1>1, <1>2 DEF Way
    <3> QED BY <2>1, <3>1, <3>2
  <2> QED BY <2>2, <2>3
<1>5. Part(t, s)
  <2> DEFINE f == [i \in DOMAIN t |-> i + k]
  <2>1. \A i, j \in DOMAIN t : i + k = j + k => i = j
    BY <1>1, <1>3
  <2> HIDE DEF t, s
  <2>2. /\ f \in [DOMAIN t -> DOMAIN s]
        /\ \A i, j \in DOMAIN t : f[i] = f[j] => i = j
        /\ \A i \in DOMAIN t : t[i] = s[f[i]]
    BY <1>4, <2>1
  <2> HIDE DEF f
  <2> QED BY <2>2 DEF Part
<1> QED BY <1>2, <1>5

-----------------------------------------------------------------------------
(* Type correctness.                                                       *)

LEMMA ConfigTypes ==
  ASSUME TypeOK
  PROVE  config.endpoints \subseteq Endpoint
BY WebhooksAssumption DEF TypeOK, WebhooksAssumption, Config

LEMMA JobTypes ==
  ASSUME TypeOK, NEW e \in Event
  PROVE  /\ JobOf(e) \in Job /\ JobOf(e).event = e
         /\ JobOf(e).endpoints \subseteq config.endpoints
BY ConfigTypes DEF JobOf, Job

\* Every action that raises e records the endpoints that are asked for.
LEMMA RaiseTypes ==
  ASSUME TypeOK, NEW e \in Event, Raise(e)
  PROVE  /\ raised' \subseteq Event /\ raised \subseteq raised' /\ e \in raised'
         /\ asked' \in [Event -> SUBSET Endpoint]
BY ConfigTypes DEF Raise, TypeOK

LEMMA InitType == Init => TypeOK
<1>1. ASSUME Init PROVE TypeOK
  <2>1. wire \in Seq(Job) /\ queue \in Seq(Job)
    BY <1>1, EmptySeq DEF Init
  <2>2. config \in Configs /\ faults \in 0 .. MaxFaults
    BY <1>1, WebhooksAssumption DEF Init, WebhooksAssumption
  <2>3. asked \in [Event -> SUBSET Endpoint] /\ raised = {} /\ missed = {}
    BY <1>1 DEF Init
  <2>4. posts \in [Event \X Endpoint -> Nat]
    BY <1>1 DEF Init
  <2>5. posting = {} /\ unconfirmed = {} /\ offlinePubQueue = {}
        /\ serving = FALSE /\ pubChannel = FALSE /\ bound = FALSE /\ dead = {}
    BY <1>1 DEF Init
  <2>6. /\ link \in {"down", "connected", "publishing", "working"}
        /\ link \in {"publishing", "working"} => pubChannel /\ serving
    BY <1>1 DEF Init
  <2> QED BY <2>1, <2>2, <2>3, <2>4, <2>5, <2>6 DEF TypeOK
<1> QED BY <1>1

\* What is left when something ends is well typed, and part of what was on the way.
LEMMA LoseTypes ==
  ASSUME TypeOK, OnTheWay, NEW n \in 0 .. Len(wire), NEW k \in 0 .. Len(queue), Lose(n, k)
  PROVE  /\ wire' = <<>> /\ wire' \in Seq(Job) /\ unconfirmed' = {}
         /\ queue' \in Seq(Job)
         /\ Part(Way(queue', wire'), Way(queue, wire))
         /\ missed' \subseteq raised' /\ UNCHANGED <<raised, asked, bound>>
         /\ faults' = faults + 1
<1>1. /\ Arrive(SubSeq(wire, 1, n))
      /\ queue' = IF bound THEN SubSeq(queue, k + 1, Len(queue)) \o SubSeq(wire, 1, n)
                  ELSE SubSeq(queue, k + 1, Len(queue))
  BY DEF Lose
<1>2. wire \in Seq(Job) /\ queue \in Seq(Job) /\ Len(wire) \in Nat /\ Len(queue) \in Nat
  BY LenProperties DEF TypeOK
<1>3. k \in 0 .. Len(queue)
  BY <1>2
<1>4. /\ SubSeq(wire, 1, n) \in Seq(Job) /\ SubSeq(queue, k + 1, Len(queue)) \in Seq(Job)
      /\ Part(Way(SubSeq(queue, k + 1, Len(queue)) \o SubSeq(wire, 1, n), <<>>), Way(queue, wire))
      /\ Part(Way(SubSeq(queue, k + 1, Len(queue)), <<>>), Way(queue, wire))
  BY <1>2, <1>3, SeverWay
<1>5. SubSeq(queue, k + 1, Len(queue)) \o SubSeq(wire, 1, n) \in Seq(Job)
  BY <1>4, ConcatProperties
<1>6. wire' = <<>> /\ wire' \in Seq(Job) /\ unconfirmed' = {}
      /\ UNCHANGED <<raised, asked, bound>> /\ faults' = faults + 1
  BY EmptySeq DEF Lose
<1>7. \A i \in DOMAIN SubSeq(wire, 1, n) : SubSeq(wire, 1, n)[i].event \in raised
  <2>1. SUFFICES ASSUME NEW i \in DOMAIN SubSeq(wire, 1, n)
                 PROVE  SubSeq(wire, 1, n)[i].event \in raised
    OBVIOUS
  <2>2. /\ \A j \in 1 .. n : wire[j] \in Job
        /\ 1 \in Int /\ n \in Int
    BY <1>2
  <2>3. /\ Len(SubSeq(wire, 1, n)) = IF 1 <= n THEN n - 1 + 1 ELSE 0
        /\ \A j \in 1 .. n - 1 + 1 : SubSeq(wire, 1, n)[j] = wire[1 + j - 1]
    BY <2>2, SubSeqProperties
  <2>4. DOMAIN SubSeq(wire, 1, n) = 1 .. Len(SubSeq(wire, 1, n))
    BY <1>4, LenProperties
  <2>5. i \in 1 .. Len(wire) /\ i \in 1 .. n - 1 + 1 /\ 1 + i - 1 = i
    BY <2>3, <2>4, <1>2
  <2>6. SubSeq(wire, 1, n)[i] = wire[i]
    BY <2>3, <2>5
  <2>7. Way(queue, wire)[Len(queue) + i] = wire[i]
        /\ Len(queue) + i \in DOMAIN Way(queue, wire)
    BY <1>2, <2>5, WayProperties
  <2>8. Fresh(wire[i])
    BY <2>7 DEF OnTheWay
  <2> QED BY <2>6, <2>8 DEF Fresh
<1>8. EventsOf(SubSeq(wire, 1, n)) \subseteq raised
  BY <1>7 DEF EventsOf
<1>9. missed' \subseteq raised'
  BY <1>1, <1>6, <1>8 DEF Arrive, TypeOK
<1> QED BY <1>1, <1>4, <1>5, <1>6, <1>9

LEMMA SeverTypes ==
  ASSUME TypeOK, OnTheWay, Sever
  PROVE  /\ link' = "down" /\ dead' = {} /\ wire' \in Seq(Job) /\ unconfirmed' = {}
         /\ queue' \in Seq(Job)
         /\ Part(Way(queue', wire'), Way(queue, wire))
         /\ missed' \subseteq raised' /\ UNCHANGED <<raised, asked, bound>>
         /\ faults' = faults + 1
<1>1. PICK n \in 0 .. Len(wire), k \in 0 .. (IF Consuming THEN Len(queue) ELSE 0) : Lose(n, k)
  BY DEF Sever
<1>2. k \in 0 .. Len(queue)
  <2>1. Len(queue) \in Nat
    BY LenProperties DEF TypeOK
  <2> QED BY <2>1
<1> QED BY <1>1, <1>2, LoseTypes DEF Sever

LEMMA PublisherFailsTypes ==
  ASSUME TypeOK, OnTheWay, PublisherFails
  PROVE  /\ wire' \in Seq(Job) /\ unconfirmed' = {} /\ queue' \in Seq(Job)
         /\ Part(Way(queue', wire'), Way(queue, wire))
         /\ missed' \subseteq raised' /\ UNCHANGED <<raised, asked, bound>>
         /\ faults' = faults + 1
<1>1. PICK n \in 0 .. Len(wire) : Lose(n, 0)
  BY DEF PublisherFails
<1>2. 0 \in 0 .. Len(queue)
  BY LenProperties DEF TypeOK
<1> QED BY <1>1, <1>2, LoseTypes

\* The first of the queue are lost; nothing on the wire arrives.
LEMMA WorkerFailsTypes ==
  ASSUME TypeOK, WorkerFails
  PROVE  queue' \in Seq(Job) /\ wire' = wire /\ Part(Way(queue', wire'), Way(queue, wire))
<1>1. wire \in Seq(Job) /\ queue \in Seq(Job) /\ wire' = wire
  BY DEF TypeOK, WorkerFails
<1>2. PICK k \in 0 .. Len(queue) : queue' = SubSeq(queue, k + 1, Len(queue))
  BY DEF WorkerFails
<1> QED BY <1>1, <1>2, DropWay

LEMMA NextType ==
  ASSUME TypeOK, OnTheWay, Next
  PROVE  TypeOK'
<1>0. wire \in Seq(Job) /\ queue \in Seq(Job) /\ faults \in Nat
  BY WebhooksAssumption DEF TypeOK, WebhooksAssumption
<1>1. ASSUME NEW c \in Configs, Configure(c) PROVE TypeOK'
  BY <1>1 DEF TypeOK, Configure, events, publisher, broker, requests
<1>2. ASSUME NEW e \in Event, Skip(e) PROVE TypeOK'
  <2>1. Raise(e) /\ UNCHANGED <<missed, settings, publisher, broker, requests, faults>>
    BY <1>2 DEF Skip
  <2>2. /\ raised' \subseteq Event /\ raised \subseteq raised'
        /\ asked' \in [Event -> SUBSET Endpoint]
    BY <2>1, RaiseTypes
  <2> QED BY <2>1, <2>2 DEF TypeOK, settings, publisher, broker, requests
<1>3. ASSUME NEW e \in Event, Publish(e) PROVE TypeOK'
  <2>1. /\ Raise(e) /\ wire' = Append(wire, JobOf(e))
        /\ UNCHANGED <<missed, settings, link, pubChannel, dead, unconfirmed, offlinePubQueue,
                       broker, requests, faults>>
    BY <1>3 DEF Publish
  <2>2. /\ raised' \subseteq Event /\ raised \subseteq raised'
        /\ asked' \in [Event -> SUBSET Endpoint]
    BY <2>1, RaiseTypes
  <2>3. wire' \in Seq(Job)
    BY <2>1, <1>0, JobTypes, AppendProperties
  <2> QED BY <2>1, <2>2, <2>3 DEF TypeOK, settings, broker, requests
<1>4. ASSUME NEW e \in Event, PublishClosed(e) PROVE TypeOK'
  <2>1. /\ Raise(e) /\ offlinePubQueue' \subseteq offlinePubQueue \cup {JobOf(e)}
        /\ UNCHANGED <<missed, settings, link, pubChannel, dead, wire, unconfirmed, broker,
                       requests, faults>>
    BY <1>4 DEF PublishClosed
  <2>2. /\ raised' \subseteq Event /\ raised \subseteq raised'
        /\ asked' \in [Event -> SUBSET Endpoint]
    BY <2>1, RaiseTypes
  <2>3. JobOf(e) \in Job
    BY JobTypes
  <2> QED BY <2>1, <2>2, <2>3 DEF TypeOK, settings, broker, requests
<1>5. ASSUME NEW e \in Event, PublishPresence(e) PROVE TypeOK'
  <2>1. /\ Raise(e) /\ queue' = IF bound THEN Append(queue, JobOf(e)) ELSE queue
        /\ missed' \subseteq missed \cup {e}
        /\ UNCHANGED <<settings, publisher, bound, requests, faults>>
    BY <1>5 DEF PublishPresence
  <2>2. /\ raised' \subseteq Event /\ raised \subseteq raised' /\ e \in raised'
        /\ asked' \in [Event -> SUBSET Endpoint]
    BY <2>1, RaiseTypes
  <2>3. queue' \in Seq(Job)
    BY <2>1, <1>0, JobTypes, AppendProperties
  <2> QED BY <2>1, <2>2, <2>3 DEF TypeOK, settings, publisher, requests
<1>6. ASSUME NEW e \in Event, PublishPresenceFails(e) PROVE TypeOK'
  <2>1. /\ Raise(e) /\ faults < MaxFaults /\ faults' = faults + 1
        /\ UNCHANGED <<missed, settings, publisher, broker, requests>>
    BY <1>6 DEF PublishPresenceFails
  <2>2. /\ raised' \subseteq Event /\ raised \subseteq raised'
        /\ asked' \in [Event -> SUBSET Endpoint]
    BY <2>1, RaiseTypes
  <2>3. faults' \in 0 .. MaxFaults
    BY <2>1, <1>0, WebhooksAssumption DEF TypeOK, WebhooksAssumption
  <2> QED BY <2>1, <2>2, <2>3 DEF TypeOK, settings, publisher, broker, requests
<1>7. ASSUME Route PROVE TypeOK'
  <2>1. /\ wire # <<>> /\ wire' = Tail(wire) /\ Arrive(<<Head(wire)>>)
        /\ queue' = IF bound THEN Append(queue, Head(wire)) ELSE queue
        /\ unconfirmed' = unconfirmed \cup {Head(wire)}
        /\ UNCHANGED <<raised, asked, settings, link, pubChannel, dead, offlinePubQueue, bound,
                       requests, faults>>
    BY <1>7 DEF Route
  <2>2. Head(wire) \in Job /\ wire' \in Seq(Job) /\ Head(wire) = wire[1]
    BY <2>1, <1>0, HeadTailProperties
  <2>3. queue' \in Seq(Job)
    BY <2>1, <2>2, <1>0, AppendProperties
  <2>4. Head(wire).event \in raised
    <3>1. Len(queue) \in Nat /\ 1 \in 1 .. Len(wire)
      BY <2>1, <1>0, LenProperties, EmptySeq
    <3>2. Way(queue, wire)[Len(queue) + 1] = wire[1] /\ Len(queue) + 1 \in DOMAIN Way(queue, wire)
      BY <3>1, <1>0, WayProperties
    <3> QED BY <2>2, <3>2 DEF OnTheWay, Fresh
  <2>5. missed' \subseteq raised'
    <3>1. EventsOf(<<Head(wire)>>) = {Head(wire).event}
      BY DEF EventsOf
    <3> QED BY <2>1, <2>4, <3>1 DEF Arrive, TypeOK
  <2> QED BY <2>1, <2>2, <2>3, <2>5 DEF TypeOK, settings, requests
<1>8. ASSUME Confirm PROVE TypeOK'
  <2>1. unconfirmed' \subseteq unconfirmed
    BY <1>8 DEF Confirm
  <2> QED BY <1>8, <2>1 DEF Confirm, TypeOK, settings, events, broker, requests
<1>9. ASSUME Take PROVE TypeOK'
  <2>1. /\ queue # <<>> /\ queue' = Tail(queue)
        /\ posting' = posting \cup {<<Head(queue).event, ep>> : ep \in Head(queue).endpoints}
        /\ UNCHANGED <<settings, events, publisher, bound, posts, faults>>
    BY <1>9 DEF Take, Recipients
  <2>2. Head(queue) \in Job /\ queue' \in Seq(Job)
    BY <2>1, <1>0, HeadTailProperties
  <2>3. posting' \subseteq Event \X Endpoint
    BY <2>1, <2>2 DEF TypeOK, Job
  <2> QED BY <2>1, <2>2, <2>3 DEF TypeOK, settings, events, publisher
<1>10. ASSUME NEW p \in posting, Post(p) PROVE TypeOK'
  <2>1. p \in Event \X Endpoint /\ posts' \in [Event \X Endpoint -> Nat]
        /\ posting' \subseteq posting
    BY <1>10 DEF Post, TypeOK
  <2> QED BY <1>10, <2>1 DEF Post, TypeOK, settings, events, publisher, broker
<1>11. ASSUME NEW p \in posting, FailPost(p) PROVE TypeOK'
  <2>1. posting' \subseteq posting /\ faults' \in 0 .. MaxFaults
    BY <1>11, <1>0, WebhooksAssumption DEF FailPost, TypeOK, WebhooksAssumption
  <2> QED BY <1>11, <2>1 DEF FailPost, TypeOK, settings, events, publisher, broker
<1>12. ASSUME Connect PROVE TypeOK'
  BY <1>12 DEF Connect, TypeOK, settings, events, broker, requests
<1>13. ASSUME StartPublisher PROVE TypeOK'
  BY <1>13 DEF StartPublisher, TypeOK, events, broker, requests
<1>14. ASSUME StartWorker PROVE TypeOK'
  BY <1>14 DEF StartWorker, TypeOK, settings, events, requests
<1>15. ASSUME Disconnect PROVE TypeOK'
  <2>1. /\ faults < MaxFaults /\ Sever /\ serving' \in {serving, TRUE}
        /\ UNCHANGED <<config, pubChannel, requests>>
    BY <1>15 DEF Disconnect
  <2>2. PICK parked \in SUBSET Pending : offlinePubQueue' = offlinePubQueue \cup parked
    BY <1>15 DEF Disconnect
  <2>3. Pending \subseteq Job
    <3>1. DOMAIN wire = 1 .. Len(wire)
      BY <1>0, LenProperties
    <3> QED BY <1>0, <3>1 DEF Pending, TypeOK
  <2>4. faults' \in 0 .. MaxFaults
    BY <2>1, <1>0, SeverTypes, WebhooksAssumption DEF WebhooksAssumption
  <2> QED BY <2>1, <2>2, <2>3, <2>4, SeverTypes DEF TypeOK, requests
<1>16. ASSUME Crash PROVE TypeOK'
  <2>1. /\ faults < MaxFaults /\ Sever /\ config' \in Configs
        /\ offlinePubQueue' = {} /\ pubChannel' = FALSE /\ serving' = FALSE /\ posting' = {}
        /\ UNCHANGED posts
    BY <1>16 DEF Crash
  <2>2. faults' \in 0 .. MaxFaults
    BY <2>1, <1>0, SeverTypes, WebhooksAssumption DEF WebhooksAssumption
  <2> QED BY <2>1, <2>2, SeverTypes DEF TypeOK
<1>18. ASSUME PublisherFails PROVE TypeOK'
  <2>1. /\ faults < MaxFaults /\ dead' = dead \cup {"publisher"}
        /\ UNCHANGED <<config, serving, link, pubChannel, offlinePubQueue, posting, posts>>
    BY <1>18 DEF PublisherFails, settings, requests
  <2>2. faults' \in 0 .. MaxFaults
    BY <1>18, <2>1, <1>0, PublisherFailsTypes, WebhooksAssumption DEF WebhooksAssumption
  <2> QED BY <1>18, <2>1, <2>2, PublisherFailsTypes DEF TypeOK
<1>19. ASSUME WorkerFails PROVE TypeOK'
  <2>1. /\ faults < MaxFaults /\ dead' = dead \cup {"worker"} /\ faults' = faults + 1
        /\ UNCHANGED <<config, serving, raised, asked, missed, link, pubChannel, wire,
                       unconfirmed, offlinePubQueue, bound, posting, posts>>
    BY <1>19 DEF WorkerFails, settings, events, requests
  <2>2. faults' \in 0 .. MaxFaults
    BY <2>1, <1>0, WebhooksAssumption DEF WebhooksAssumption
  <2> QED BY <1>19, <2>1, <2>2, WorkerFailsTypes DEF TypeOK
<1> QED BY <1>1, <1>2, <1>3, <1>4, <1>5, <1>6, <1>7, <1>8, <1>9, <1>10, <1>11, <1>12,
           <1>13, <1>14, <1>15, <1>16, <1>18, <1>19 DEF Next, Happen

-----------------------------------------------------------------------------
(* The invariant.                                                          *)

LEMMA WayJobs ==
  ASSUME TypeOK
  PROVE  \A i \in DOMAIN Way(queue, wire) : Way(queue, wire)[i] \in Job
BY WayProperties DEF TypeOK

\* An event is raised once: what was on the way, asked for and posted stays so.
LEMMA RaiseKeeps ==
  ASSUME HooksInv, NEW e \in Event, Raise(e), UNCHANGED requests
  PROVE  /\ Unraised' /\ Requests' /\ PostedAsAsked'
         /\ \A j \in Job : Fresh(j) => Fresh(j)' /\ j.event # e
         /\ Enabled(e) => \A j : j = JobOf(e) => Fresh(j)'
<1>1. /\ e \notin raised /\ raised' = raised \cup {e}
      /\ asked' = [asked EXCEPT ![e] = IF Enabled(e) THEN config.endpoints ELSE {}]
      /\ posting' = posting /\ posts' = posts
  BY DEF Raise, requests
<1>2. \A f \in Event : f # e => asked'[f] = asked[f]
  BY <1>1 DEF HooksInv, TypeOK
<1>3. Enabled(e) => asked'[e] = config.endpoints
  BY <1>1 DEF HooksInv, TypeOK
<1>4. \A ep \in Endpoint : <<e, ep>> \notin posting /\ posts[<<e, ep>>] = 0
  BY <1>1 DEF HooksInv, Unraised
<1>5. Unraised'
  BY <1>1 DEF HooksInv, Unraised
<1>6. Requests'
  BY <1>1 DEF HooksInv, Requests
<1>7. ASSUME NEW f \in Event, NEW ep \in Endpoint
      PROVE  /\ posts'[<<f, ep>>] <= 1
             /\ posts'[<<f, ep>>] > 0 \/ <<f, ep>> \in posting' => ep \in asked'[f]
  <2>1. CASE f = e
    BY <2>1, <1>1, <1>4
  <2>2. CASE f # e
    <3>1. /\ posts[<<f, ep>>] <= 1
          /\ posts[<<f, ep>>] > 0 \/ <<f, ep>> \in posting => ep \in asked[f]
      BY DEF HooksInv, PostedAsAsked
    <3> QED BY <3>1, <2>2, <1>1, <1>2
  <2> QED BY <2>1, <2>2
<1>8. PostedAsAsked'
  BY <1>7 DEF PostedAsAsked
<1>9. ASSUME NEW j \in Job, Fresh(j) PROVE Fresh(j)' /\ j.event # e
  <2>1. j.event \in Event /\ j.event # e
    BY <1>1, <1>9 DEF Fresh, Job
  <2> QED BY <1>1, <1>2, <1>9, <2>1 DEF Fresh
<1>10. ASSUME Enabled(e), NEW j, j = JobOf(e) PROVE Fresh(j)'
  <2>1. j.event = e /\ j.endpoints \subseteq config.endpoints
    BY <1>10, JobTypes DEF HooksInv
  <2> QED BY <2>1, <1>1, <1>3, <1>4, <1>10 DEF Fresh
<1> QED BY <1>5, <1>6, <1>8, <1>9, <1>10

\* What only moves, or drops, what is on the way.
LEMMA PartKeeps ==
  ASSUME HooksInv, Part(Way(queue', wire'), Way(queue, wire)),
         \A j \in Job : Fresh(j) => Fresh(j)'
  PROVE  OnTheWay'
<1>1. Distinct(Way(queue', wire'))
  BY PartIsDistinct DEF HooksInv, OnTheWay
<1>2. PICK f \in [DOMAIN Way(queue', wire') -> DOMAIN Way(queue, wire)] :
        \A i \in DOMAIN Way(queue', wire') : Way(queue', wire')[i] = Way(queue, wire)[f[i]]
  BY DEF Part
<1>3. ASSUME NEW i \in DOMAIN Way(queue', wire'), NEW j, j = Way(queue', wire')[i]
      PROVE  Fresh(j)'
  <2>1. f[i] \in DOMAIN Way(queue, wire) /\ j = Way(queue, wire)[f[i]]
    BY <1>2, <1>3
  <2>2. j \in Job /\ Fresh(j)
    BY <2>1, WayJobs DEF HooksInv, OnTheWay
  <2> QED BY <2>2
<1>4. ASSUME NEW i \in DOMAIN Way(queue', wire') PROVE Fresh(Way(queue, wire)[i])'
  BY <1>3 DEF Fresh
<1> QED BY <1>1, <1>4 DEF OnTheWay

\* What puts the job of an event just raised on the way.
LEMMA PartWithKeeps ==
  ASSUME HooksInv, NEW e \in Event, NEW j \in Job, j = JobOf(e),
         PartWith(Way(queue', wire'), Way(queue, wire), j),
         \A k \in Job : Fresh(k) => Fresh(k)' /\ k.event # e,
         \A k : k = JobOf(e) => Fresh(k)'
  PROVE  OnTheWay'
<1>1. \A i \in DOMAIN Way(queue, wire) :
        /\ Way(queue, wire)[i] \in Job
        /\ Fresh(Way(queue, wire)[i])
        /\ Way(queue, wire)[i].event # e
  BY WayJobs DEF HooksInv, OnTheWay
<1>2. Distinct(Way(queue', wire'))
  <2>1. j.event = e
    BY JobTypes DEF HooksInv
  <2>2. \A i \in DOMAIN Way(queue, wire) : Way(queue, wire)[i].event # j.event
    BY <1>1, <2>1
  <2> QED BY <2>2, PartWithIsDistinct DEF HooksInv, OnTheWay
<1>3. PICK n \in DOMAIN Way(queue', wire') : Way(queue', wire')[n] = j /\
        \E f \in [DOMAIN Way(queue', wire') \ {n} -> DOMAIN Way(queue, wire)] :
          \A i \in DOMAIN Way(queue', wire') \ {n} :
            Way(queue', wire')[i] = Way(queue, wire)[f[i]]
  BY DEF PartWith
<1>4. PICK f \in [DOMAIN Way(queue', wire') \ {n} -> DOMAIN Way(queue, wire)] :
        \A i \in DOMAIN Way(queue', wire') \ {n} :
          Way(queue', wire')[i] = Way(queue, wire)[f[i]]
  BY <1>3
<1>5. ASSUME NEW i \in DOMAIN Way(queue', wire'), NEW k, k = Way(queue', wire')[i]
      PROVE  Fresh(k)'
  <2>1. CASE i = n
    BY <2>1, <1>3, <1>5
  <2>2. CASE i # n
    <3>1. f[i] \in DOMAIN Way(queue, wire) /\ k = Way(queue, wire)[f[i]]
      BY <2>2, <1>4, <1>5
    <3>2. k \in Job /\ Fresh(k)
      BY <3>1, <1>1
    <3> QED BY <3>2
  <2> QED BY <2>1, <2>2
<1>6. ASSUME NEW i \in DOMAIN Way(queue', wire') PROVE Fresh(Way(queue, wire)[i])'
  BY <1>5 DEF Fresh
<1> QED BY <1>2, <1>6 DEF OnTheWay

\* What raises nothing and posts nothing leaves what is fresh so.
LEMMA NothingNew ==
  ASSUME HooksInv, UNCHANGED <<raised, asked>>, posting' \subseteq posting, UNCHANGED posts
  PROVE  /\ Unraised' /\ Requests' /\ PostedAsAsked'
         /\ \A j \in Job : Fresh(j) => Fresh(j)'
<1>1. Unraised'
  BY DEF HooksInv, Unraised
<1>2. Requests'
  BY DEF HooksInv, Requests
<1>3. PostedAsAsked'
  BY DEF HooksInv, PostedAsAsked
<1>4. \A j \in Job : Fresh(j) => Fresh(j)'
  BY DEF Fresh
<1> QED BY <1>1, <1>2, <1>3, <1>4

LEMMA PartOfItself ==
  ASSUME NEW s
  PROVE  Part(s, s)
<1> DEFINE f == [i \in DOMAIN s |-> i]
<1>1. /\ f \in [DOMAIN s -> DOMAIN s]
      /\ \A i, j \in DOMAIN s : f[i] = f[j] => i = j
      /\ \A i \in DOMAIN s : s[i] = s[f[i]]
  OBVIOUS
<1> HIDE DEF f
<1> QED BY <1>1 DEF Part

LEMMA InitInv == Init => HooksInv
<1> SUFFICES ASSUME Init PROVE HooksInv
  OBVIOUS
<1>1. TypeOK
  BY InitType
<1>2. DOMAIN Way(queue, wire) = {}
  <2>1. <<>> \in Seq(Job) /\ Len(<<>>) = 0 /\ queue = <<>> /\ wire = <<>>
    BY EmptySeq DEF Init
  <2>2. DOMAIN Way(queue, wire) = 1 .. 0 + 0
    BY <2>1, WayProperties
  <2> QED BY <2>2
<1>3. OnTheWay
  BY <1>2 DEF OnTheWay, Distinct
<1>4. \A e \in Event, ep \in Endpoint : posts[<<e, ep>>] = 0 /\ <<e, ep>> \notin posting
  BY DEF Init
<1>5. Unraised /\ Requests /\ PostedAsAsked
  BY <1>4 DEF Unraised, Requests, PostedAsAsked
<1> QED BY <1>1, <1>3, <1>5 DEF HooksInv

LEMMA NextInv ==
  ASSUME HooksInv, [Next]_vars
  PROVE  HooksInv'
<1>0. TypeOK /\ wire \in Seq(Job) /\ queue \in Seq(Job)
  BY DEF HooksInv, TypeOK
<1>t. TypeOK'
  <2>1. CASE Next
    BY <2>1, NextType DEF HooksInv
  <2>2. CASE UNCHANGED vars
    BY <2>2 DEF HooksInv, TypeOK, vars, settings, events, publisher, broker, requests
  <2> QED BY <2>1, <2>2
<1>c. ASSUME UNCHANGED <<raised, asked>>, posting' \subseteq posting, UNCHANGED posts,
             Part(Way(queue', wire'), Way(queue, wire))
      PROVE  HooksInv'
  BY <1>t, <1>c, NothingNew, PartKeeps DEF HooksInv
<1>q. ASSUME UNCHANGED <<raised, asked, posting, posts, queue, wire>> PROVE HooksInv'
  BY <1>c, <1>q, PartOfItself
<1>r. ASSUME NEW e \in Event, Raise(e), UNCHANGED requests, UNCHANGED <<queue, wire>>
      PROVE  HooksInv'
  <2>1. /\ Unraised' /\ Requests' /\ PostedAsAsked'
        /\ \A j \in Job : Fresh(j) => Fresh(j)'
    BY <1>r, RaiseKeeps
  <2>2. OnTheWay'
    BY <1>r, <2>1, PartOfItself, PartKeeps
  <2> QED BY <1>t, <2>1, <2>2 DEF HooksInv
<1>s. ASSUME NEW e \in Event, Raise(e), UNCHANGED requests, Enabled(e),
             PartWith(Way(queue', wire'), Way(queue, wire), JobOf(e))
      PROVE  HooksInv'
  <2>1. /\ Unraised' /\ Requests' /\ PostedAsAsked'
        /\ \A j \in Job : Fresh(j) => Fresh(j)' /\ j.event # e
        /\ \A j : j = JobOf(e) => Fresh(j)'
    BY <1>s, RaiseKeeps
  <2>2. JobOf(e) \in Job
    BY <1>0, JobTypes
  <2>3. OnTheWay'
    BY <1>s, <2>1, <2>2, PartWithKeeps
  <2> QED BY <1>t, <2>1, <2>3 DEF HooksInv
<1>1. ASSUME NEW c \in Configs, Configure(c) PROVE HooksInv'
  BY <1>1, <1>q DEF Configure, events, publisher, broker, requests
<1>2. ASSUME NEW e \in Event, Skip(e) PROVE HooksInv'
  BY <1>2, <1>r DEF Skip, publisher, broker
<1>3. ASSUME NEW e \in Event, Publish(e) PROVE HooksInv'
  <2>1. /\ Raise(e) /\ Enabled(e) /\ UNCHANGED requests
        /\ wire' = Append(wire, JobOf(e)) /\ queue' = queue
    BY <1>3 DEF Publish, broker
  <2>2. JobOf(e) \in Job
    BY <1>0, JobTypes
  <2>3. PartWith(Way(queue', wire'), Way(queue, wire), JobOf(e))
    BY <1>0, <2>1, <2>2, RaiseWay
  <2> QED BY <2>1, <2>3, <1>s
<1>4. ASSUME NEW e \in Event, PublishClosed(e) PROVE HooksInv'
  BY <1>4, <1>r DEF PublishClosed, broker
<1>5. ASSUME NEW e \in Event, PublishPresence(e) PROVE HooksInv'
  <2>1. /\ Raise(e) /\ Enabled(e) /\ UNCHANGED requests
        /\ queue' = (IF bound THEN Append(queue, JobOf(e)) ELSE queue) /\ wire' = wire
    BY <1>5 DEF PublishPresence, publisher
  <2>2. JobOf(e) \in Job
    BY <1>0, JobTypes
  <2>3. CASE bound
    <3>1. PartWith(Way(queue', wire'), Way(queue, wire), JobOf(e))
      BY <1>0, <2>1, <2>2, <2>3, RaiseWay
    <3> QED BY <2>1, <3>1, <1>s
  <2>4. CASE ~ bound
    BY <2>1, <2>4, <1>r
  <2> QED BY <2>3, <2>4
<1>6. ASSUME NEW e \in Event, PublishPresenceFails(e) PROVE HooksInv'
  BY <1>6, <1>r DEF PublishPresenceFails, publisher, broker
<1>7. ASSUME Route PROVE HooksInv'
  <2>1. /\ wire # <<>> /\ wire' = Tail(wire)
        /\ queue' = IF bound THEN Append(queue, Head(wire)) ELSE queue
        /\ UNCHANGED <<raised, asked, posting, posts>>
    BY <1>7 DEF Route, requests
  <2>2. Part(Way(queue', wire'), Way(queue, wire))
    BY <1>0, <2>1, RouteWay
  <2> QED BY <2>1, <2>2, <1>c
<1>8. ASSUME Confirm PROVE HooksInv'
  BY <1>8, <1>q DEF Confirm, events, broker, requests
<1>9. ASSUME Take PROVE HooksInv'
  <2> DEFINE h == Head(queue)
  <2>1. /\ queue # <<>> /\ queue' = Tail(queue) /\ wire' = wire
        /\ posting' = posting \cup {<<h.event, ep>> : ep \in h.endpoints}
        /\ UNCHANGED <<raised, asked, posts>>
    BY <1>9 DEF Take, Recipients, events, publisher
  <2>2. h \in Job
    BY <1>0, <2>1, HeadTailProperties
  <2>3. Distinct(Way(queue, wire))
    BY DEF HooksInv, OnTheWay
  <2>4. /\ 1 \in DOMAIN Way(queue, wire) /\ Way(queue, wire)[1] = h
        /\ Part(Way(queue', wire'), Way(queue, wire))
        /\ \A i \in DOMAIN Way(queue', wire') : Way(queue', wire')[i].event # h.event
    BY <1>0, <2>1, <2>3, TakeWay
  <2>5. Fresh(h)
    BY <2>4 DEF HooksInv, OnTheWay
  <2> HIDE DEF h
  <2>6. Distinct(Way(queue', wire'))
    BY <2>3, <2>4, PartIsDistinct
  <2>7. \A i \in DOMAIN Way(queue', wire') : Fresh(Way(queue', wire')[i])
    BY <2>4, PartIsFresh DEF HooksInv, OnTheWay
  <2>8. ASSUME NEW j, Fresh(j), j.event # h.event PROVE Fresh(j)'
    BY <2>1, <2>8 DEF Fresh
  <2>9. ASSUME NEW i \in DOMAIN Way(queue', wire') PROVE Fresh(Way(queue, wire)[i])'
    <3>1. ASSUME NEW j, j = Way(queue', wire')[i] PROVE Fresh(j)'
      BY <2>4, <2>7, <2>8, <3>1
    <3> QED BY <3>1 DEF Fresh
  <2>10. OnTheWay'
    BY <2>6, <2>9 DEF OnTheWay
  <2>11. Unraised'
    BY <2>1, <2>5 DEF HooksInv, Unraised, Fresh
  <2>12. Requests'
    BY <2>1, <2>5 DEF HooksInv, Requests, Fresh
  <2>13. PostedAsAsked'
    BY <2>1, <2>5 DEF HooksInv, PostedAsAsked, Fresh
  <2> QED BY <1>t, <2>10, <2>11, <2>12, <2>13 DEF HooksInv
<1>10. ASSUME NEW p \in posting, Post(p) PROVE HooksInv'
  <2>1. PICK e \in Event, ep \in Endpoint : p = <<e, ep>>
    BY <1>0 DEF TypeOK
  <2>2. /\ posting' = posting \ {<<e, ep>>} /\ <<e, ep>> \in posting
        /\ posts' = [posts EXCEPT ![<<e, ep>>] = @ + 1]
        /\ UNCHANGED <<raised, asked, queue, wire>>
    BY <1>10, <2>1 DEF Post, events, publisher, broker
  <2>3. posts[<<e, ep>>] = 0 /\ ep \in asked[e]
    BY <2>2 DEF HooksInv, Requests, PostedAsAsked
  <2>4. /\ posts'[<<e, ep>>] = 1
        /\ \A f \in Event, eq \in Endpoint :
             <<f, eq>> # <<e, ep>> => posts'[<<f, eq>>] = posts[<<f, eq>>]
    BY <1>0, <2>2, <2>3 DEF TypeOK
  <2>5. e \in raised
    BY <2>2 DEF HooksInv, Unraised
  <2>6. Unraised'
    BY <2>2, <2>4, <2>5 DEF HooksInv, Unraised
  <2>7. Requests'
    BY <2>2, <2>4 DEF HooksInv, Requests
  <2>8. ASSUME NEW f \in Event, NEW eq \in Endpoint
        PROVE  /\ posts'[<<f, eq>>] <= 1
               /\ posts'[<<f, eq>>] > 0 \/ <<f, eq>> \in posting' => eq \in asked'[f]
    <3>1. CASE <<f, eq>> = <<e, ep>>
      BY <3>1, <2>2, <2>3, <2>4
    <3>2. CASE <<f, eq>> # <<e, ep>>
      <4>1. /\ posts[<<f, eq>>] <= 1
            /\ posts[<<f, eq>>] > 0 \/ <<f, eq>> \in posting => eq \in asked[f]
        BY DEF HooksInv, PostedAsAsked
      <4> QED BY <3>2, <4>1, <2>2, <2>4
    <3> QED BY <3>1, <3>2
  <2>9. PostedAsAsked'
    BY <2>8 DEF PostedAsAsked
  <2>10. ASSUME NEW j \in Job, Fresh(j) PROVE Fresh(j)'
    <3>1. j.event \in Event /\ j.event # e
      BY <2>2, <2>10 DEF Fresh, Job
    <3> QED BY <3>1, <2>2, <2>4, <2>10 DEF Fresh
  <2>11. OnTheWay'
    BY <2>2, <2>10, PartOfItself, PartKeeps
  <2> QED BY <1>t, <2>6, <2>7, <2>9, <2>11 DEF HooksInv
<1>11. ASSUME NEW p \in posting, FailPost(p) PROVE HooksInv'
  <2>1. /\ posting' \subseteq posting /\ UNCHANGED <<raised, asked, posts, queue, wire>>
    BY <1>11 DEF FailPost, events, publisher, broker
  <2> QED BY <2>1, <1>c, PartOfItself
<1>12. ASSUME Connect PROVE HooksInv'
  BY <1>12, <1>q DEF Connect, events, broker, requests
<1>13. ASSUME StartPublisher PROVE HooksInv'
  BY <1>13, <1>q DEF StartPublisher, events, broker, requests
<1>14. ASSUME StartWorker PROVE HooksInv'
  BY <1>14, <1>q DEF StartWorker, events, requests
<1>15. ASSUME Disconnect PROVE HooksInv'
  <2>1. Sever /\ UNCHANGED <<posting, posts>>
    BY <1>15 DEF Disconnect, requests
  <2>2. /\ Part(Way(queue', wire'), Way(queue, wire)) /\ UNCHANGED <<raised, asked>>
    BY <1>0, <2>1, SeverTypes DEF HooksInv
  <2> QED BY <2>1, <2>2, <1>c
<1>16. ASSUME Crash PROVE HooksInv'
  <2>1. Sever /\ posting' = {} /\ UNCHANGED posts
    BY <1>16 DEF Crash
  <2>2. /\ Part(Way(queue', wire'), Way(queue, wire)) /\ UNCHANGED <<raised, asked>>
    BY <1>0, <2>1, SeverTypes DEF HooksInv
  <2> QED BY <2>1, <2>2, <1>c
<1>18. ASSUME PublisherFails PROVE HooksInv'
  <2>1. UNCHANGED <<posting, posts>>
    BY <1>18 DEF PublisherFails, requests
  <2>2. /\ Part(Way(queue', wire'), Way(queue, wire)) /\ UNCHANGED <<raised, asked>>
    BY <1>0, <1>18, PublisherFailsTypes DEF HooksInv
  <2> QED BY <2>1, <2>2, <1>c
<1>19. ASSUME WorkerFails PROVE HooksInv'
  <2>1. UNCHANGED <<raised, asked, posting, posts>>
    BY <1>19 DEF WorkerFails, events, requests
  <2> QED BY <1>0, <1>19, <2>1, <1>c, WorkerFailsTypes
<1>17. CASE UNCHANGED vars
  BY <1>17, <1>q DEF vars, events, publisher, broker, requests
<1> QED BY <1>1, <1>2, <1>3, <1>4, <1>5, <1>6, <1>7, <1>8, <1>9, <1>10, <1>11, <1>12,
           <1>13, <1>14, <1>15, <1>16, <1>17, <1>18, <1>19 DEF Next, Happen

-----------------------------------------------------------------------------

\* The inductive invariant: a job on its way to the worker is the only one of its
\* event, names endpoints asked for only, and was not posted.
THEOREM HooksInvHolds == Spec => []HooksInv
<1> QED BY InitInv, NextInv, PTL DEF Spec

\* TypeOK holds for any events, endpoints, settings and number of faults.
THEOREM TypeOKHolds == Spec => []TypeOK
<1>1. HooksInv => TypeOK
  BY DEF HooksInv
<1> QED BY <1>1, HooksInvHolds, PTL

\* An endpoint is given an event at most once, and only one it was asked to be given,
\* however the settings change and whatever fails (the run webhooks checks it for
\* three events and two faults).
THEOREM PostedAsAskedHolds == Spec => []PostedAsAsked
<1>1. HooksInv => PostedAsAsked
  BY DEF HooksInv
<1> QED BY <1>1, HooksInvHolds, PTL
=============================================================================
