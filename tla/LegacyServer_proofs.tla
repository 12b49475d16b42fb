-------------------------- MODULE LegacyServer_proofs --------------------------
(***************************************************************************)
(* Type correctness of LegacyServer, what its database and its endpoints   *)
(* are told after its clients, what its endpoints are told at all, and the *)
(* agreement of the database with its clients when all is quiet, for every *)
(* deployment, any number of processes and any number of faults.           *)
(***************************************************************************)
EXTENDS LegacyServer, TLAPS, SequenceTheorems, FiniteSetTheorems

(***************************************************************************)
(* What is published or asked of the database is about a message there is, *)
(* or about a conversation, a user or a group.                             *)
(***************************************************************************)

\* What happens to a copy after its client has been sent it.
ShownKinds ==
  {"persist", "saveMessage", "saveConversation", "update", "updated", "saveReceived",
   "saveReturned", "message_update"}

\* What the other side is told of a receipt, and a client of a copy, unless the
\* topic for it is too long.
Returned(m, u) == m \in view[ConversWith(u)].returned \/ ~ Fits(R("updated", m, u))
Reportable(m, u) == m \in view[u].shown \/ ~ Fits(R("added", m, u))

\* It is about a message that there is.  What is stored or reported of it was
\* shown, and what is stored of a receipt was told to the other side, as far as
\* they could be.
Right(r) ==
  /\ r.kind \in CopyKinds => r.m \in Messages
  /\ r.kind \in NoteKinds => r.m = 0
  /\ r.kind \in ShownKinds => r.m \in view[r.u].shown
  /\ r.kind = "message_deliver" => Reportable(r.m, r.u)
  /\ r.kind \in {"saveReceived", "saveReturned"} => Returned(r.m, r.u)

Good == {r \in Record : Right(r)}
GoodFor(q) == {r \in Good : QueueOf(r.kind) = q}

\* What a server publishes.
PublishedKinds ==
  {"added", "persist", "updated", "convupdated", "clientdeleted", "archivedadded",
   "groupupdated", "message_deliver", "message_update", "conversation_archived",
   "presence_event"}

Published(G) == {r \in G : r.kind \in PublishedKinds}

LinkState == {"off", "connecting"} \cup Connected
Status == {0, SENT, DELIVERED, RECEIVED, RETURN_RECEIPT}
Conversation == [last : Nat, archived : BOOLEAN, is_new : BOOLEAN, app : BOOLEAN]
View == [shown : SUBSET Nat, returned : SUBSET Nat, last : Nat,
         list : {"none", "conversations", "archived"}, is_new : BOOLEAN,
         members : SUBSET Users]

SceneOK ==
  /\ scene \in Scenarios
  /\ left \in [Bounds -> Nat]
  /\ \A k \in Bounds : left[k] <= scene.bound[k]

ServerOK ==
  /\ link \in [Procs -> [Conns -> LinkState]]
  /\ declared \subseteq Queues
  /\ queue \in [Queues -> Seq(Good)]
  /\ \A q \in Queues : queue[q] \in Seq(GoodFor(q))
  /\ wire \in [Procs -> [Conns -> Seq(Published(Good))]]
  /\ pending \in [Procs -> SUBSET Good]

StoreOK ==
  /\ messages \in [Timelines -> [Messages -> Status]]
  /\ conversations \in [Timelines -> Conversation]
  /\ \A u \in Timelines : conversations[u].last \in Messages \cup {0}
  /\ group \subseteq Users

ViewOK ==
  /\ view \in [Timelines -> View]
  /\ \A u \in Timelines : view[u].shown \subseteq Messages /\ view[u].returned \subseteq Messages

ClientsOK ==
  /\ posted \subseteq Good
  /\ read \in [Timelines -> SUBSET Messages]
  /\ announced \subseteq Users
  /\ lost \in BOOLEAN
  /\ raced \subseteq Timelines

TypeInv == SceneOK /\ ServerOK /\ StoreOK /\ ViewOK /\ ClientsOK

\* A process connects only if it started.
StartedOnly == \A p \in Deployed, c \in Conns : link[p][c] # "off" => Starts(p)

CoreInv == TypeInv /\ StartedOnly

\* A copy is stored once it was shown or a receipt for it told.
StoredIsTold ==
  \A u \in Timelines : \A m \in Messages :
    messages[u][m] # 0 =>
      \/ m \in view[u].shown \cup view[u].returned
      \/ \E reader \in Timelines :
           /\ ConversWith(reader) = u /\ m \in view[reader].shown
           /\ ~ Fits(R("updated", m, reader))

ToldInv == CoreInv /\ StoredIsTold

(***************************************************************************)
(* What is on its way to the endpoints, in a deployment that lost nothing. *)
(***************************************************************************)

In(s, r) == \E i \in DOMAIN s : s[i] = r

OnWay(r) ==
  \/ r \in posted
  \/ In(queue["webhooks"], r)
  \/ \E p \in Deployed, c \in Conns : In(wire[p][c], r)

\* It sends copies of messages, or looks their group up.
Speaks(s) == \E i \in DOMAIN s : s[i].kind \in {"added", "persist"}
Asking(D) == \E r \in D : r.kind = "getGroup"
Acts(e) == Speaks(e.pub) \/ Speaks(e.hook) \/ Asking(e.db)

\* Only the processes that consume the "messages" queue do.
ProcsOK ==
  \A p \in Deployed :
    (\E c \in Conns : Speaks(wire[p][c])) \/ Asking(pending[p]) => p \in MessageProcs

ReportsCopies ==
  (\A p \in MessageProcs : WebhookEnabled(p))
    /\ (\A p \in Deployed : scene.env[p].events = MessageEvents)

ReportsPresence == \A p \in MessageProcs : WebhookEnabled(p) /\ PresenceEnabled(p)

CopiesOK ==
  ReportsCopies => \A u \in Timelines : \A m \in view[u].shown : OnWay(R("message_deliver", m, u))

PresenceOK ==
  ReportsPresence =>
    \A u \in announced : \/ OnWay(R("presence_event", 0, u))
                         \/ In(queue["messages"], R("presence", 0, u))

ReportInv == CoreInv /\ (~ lost => ProcsOK /\ CopiesOK /\ PresenceOK)

(***************************************************************************)
(* Records, sequences and effects.                                         *)
(***************************************************************************)

EffectsOf(G) == [pub : Seq(Published(G)), hook : Seq(Published(G)), db : SUBSET G]

LEMMA Environments ==
  ASSUME SceneOK
  PROVE  /\ Deployed \subseteq Procs
         /\ \A p \in Deployed : scene.env[p] \in Environment
         /\ scene.to \in {"direct", "group", "inline"} /\ scene.status \in {150, 200}
         /\ scene.members \subseteq Users
         /\ scene.updateconversation \in BOOLEAN
         /\ scene.bound \in [Bounds -> Nat]
  BY LegacyAssumption DEF SceneOK, Deployed

LEMMA BoundNumbers ==
  ASSUME SceneOK
  PROVE  scene.bound.msgs \in Nat /\ scene.bound.injected \in Nat
  <1>1. scene.bound \in [Bounds -> Nat]
    BY Environments
  <1> QED BY <1>1 DEF Bounds

LEMMA ConversType ==
  ASSUME NEW u PROVE ConversWith(u) \in Timelines
  BY DEF ConversWith, Timelines, Users

\* What holds of a record holds while the views of the clients only grow.
ViewGrows ==
  \A u \in Timelines : view[u].shown \subseteq view'[u].shown
                         /\ view[u].returned \subseteq view'[u].returned

\* The length of a topic is a matter of the scenario.
LEMMA FitsSame ==
  ASSUME scene' = scene
  PROVE  \A r : Fits(r)' <=> Fits(r)
  <1>1. \A u : ConversWith(u)' = ConversWith(u)
    BY DEF ConversWith, Direct
  <1>2. \A r : KeyLength(r)' = KeyLength(r)
    BY <1>1 DEF KeyLength
  <1> QED BY <1>2 DEF Fits

LEMMA GoodKept ==
  ASSUME scene' = scene, ViewGrows
  PROVE  Good \subseteq Good' /\ \A q : GoodFor(q) \subseteq GoodFor(q)'
  <1>1. Messages' = Messages /\ \A u : ConversWith(u)' = ConversWith(u)
    BY DEF Messages, ConversWith, Direct
  <1>2. ASSUME NEW r \in Record, Right(r) PROVE Right(r)'
    <2>1. r.u \in Timelines /\ ConversWith(r.u) \in Timelines
      BY ConversType DEF Record
    <2>2. /\ Returned(r.m, r.u) => Returned(r.m, r.u)'
          /\ Reportable(r.m, r.u) => Reportable(r.m, r.u)'
      BY <1>1, <2>1, FitsSame DEF ViewGrows, Returned, Reportable
    <2> QED BY <1>1, <1>2, <2>1, <2>2 DEF Right, ViewGrows
  <1>3. Good \subseteq Good'
    BY <1>2 DEF Good
  <1>4. ASSUME NEW q PROVE GoodFor(q) \subseteq GoodFor(q)'
    BY <1>3 DEF GoodFor
  <1> QED BY <1>3, <1>4

LEMMA ViewStays == ASSUME view' = view PROVE ViewGrows
  BY DEF ViewGrows

LEMMA SingleSeq == ASSUME NEW G, NEW r \in G PROVE <<r>> \in Seq(G) /\ <<>> \in Seq(G)
  OBVIOUS

LEMMA EffectTypes ==
  ASSUME NEW G, NEW s \in Seq(Published(G)), NEW t \in Seq(Published(G)),
         NEW D \in SUBSET G
  PROVE  /\ Effect(s, t, D) \in EffectsOf(G)
         /\ Publishes(s) \in EffectsOf(G)
         /\ Nothing \in EffectsOf(G)
  <1>1. <<>> \in Seq(Published(G))
    OBVIOUS
  <1> QED BY <1>1 DEF Effect, Publishes, Nothing, EffectsOf

LEMMA AsksType ==
  ASSUME NEW G, NEW r \in G
  PROVE  Asks(r) \in EffectsOf(G) /\ Nothing \in EffectsOf(G)
  <1>1. <<>> \in Seq(Published(G)) /\ {r} \in SUBSET G /\ {} \in SUBSET G
    OBVIOUS
  <1> QED BY <1>1 DEF Effect, Asks, Nothing, EffectsOf

LEMMA Smallest ==
  ASSUME NEW h \in SUBSET (1 .. 5), h # {}
  PROVE  Min(h) \in h
  <1>1. \E x \in h : \A y \in h : x <= y
    <2>1. CASE 1 \in h BY <2>1
    <2>2. CASE 1 \notin h /\ 2 \in h BY <2>2
    <2>3. CASE 1 \notin h /\ 2 \notin h /\ 3 \in h BY <2>3
    <2>4. CASE 1 \notin h /\ 2 \notin h /\ 3 \notin h /\ 4 \in h BY <2>4
    <2>5. CASE 1 \notin h /\ 2 \notin h /\ 3 \notin h /\ 4 \notin h
      <3>1. \A y \in h : y = 5 BY <2>5
      <3>2. 5 \in h BY <3>1
      <3> QED BY <3>1, <3>2
    <2> QED BY <2>1, <2>2, <2>3, <2>4, <2>5
  <1> QED BY <1>1 DEF Min

LEMMA EntriesType ==
  ASSUME NEW S
  PROVE  Entries(S) \in Seq(Timelines) /\ Len(Entries(S)) \in 0 .. 2
  <1>1. Sender \in Timelines /\ Receiver \in Timelines
    BY DEF Timelines, Users
  <1> DEFINE s == IF Sender \in S THEN <<Sender>> ELSE <<>>
             t == IF Receiver \in S THEN <<Receiver>> ELSE <<>>
  <1>2. s \in Seq(Timelines) /\ t \in Seq(Timelines) /\ Len(s) \in 0 .. 1 /\ Len(t) \in 0 .. 1
    BY <1>1
  <1>3. Entries(S) = s \o t
    BY DEF Entries
  <1> HIDE DEF s, t
  <1>4. s \o t \in Seq(Timelines) /\ Len(s \o t) = Len(s) + Len(t)
    BY <1>2
  <1> QED BY <1>2, <1>3, <1>4

\* A message goes to members, as far as the first it is hidden for.
LEMMA GroupMessageType ==
  ASSUME NEW m, NEW s \in Seq(Timelines), Len(s) <= 5, NEW G,
         \A u \in Timelines : R("added", m, u) \in G
  PROVE  sendMessageToGroupMembers(m, s) \in Seq(G)
  <1> DEFINE h == {i \in DOMAIN s : s[i] \in scene.hidden}
             to == IF h = {} THEN s ELSE SubSeq(s, 1, Min(h) - 1)
  <1>1. Len(s) \in Nat /\ DOMAIN s = 1 .. Len(s)
    OBVIOUS
  <1>2. h \subseteq 1 .. Len(s) /\ h \in SUBSET (1 .. 5)
    BY <1>1
  <1>3. to \in Seq(Timelines)
    <2>1. CASE h = {} BY <2>1
    <2>2. CASE h # {}
      <3>1. Min(h) \in 1 .. Len(s)
        BY <1>2, <2>2, Smallest
      <3> HIDE DEF h
      <3>2. SubSeq(s, 1, Min(h) - 1) \in Seq(Timelines)
        BY <3>1, <1>1, SubSeqProperties
      <3> QED BY <2>2, <3>2
    <2> QED BY <2>1, <2>2
  <1>4. sendMessageToGroupMembers(m, s) = [i \in DOMAIN to |-> R("added", m, to[i])]
    BY DEF sendMessageToGroupMembers
  <1> HIDE DEF h, to
  <1>5. DOMAIN to = 1 .. Len(to) /\ Len(to) \in Nat /\ \A i \in 1 .. Len(to) : to[i] \in Timelines
    BY <1>3
  <1> QED BY <1>4, <1>5, IsASeq

(***************************************************************************)
(* Types: what an activity does before it returns, and what it stores.     *)
(***************************************************************************)

\* What is right once the publications that do not fit are cancelled: their
\* callbacks must be right without them.
Cancels(G, p) ==
  \A r \in Published(G) : ~ Fits(r) =>
    /\ AfterPublish(p, r).hook \in Seq(Published(G))
    /\ AfterPublish(p, r).db \in SUBSET G

LEMMA CutType ==
  ASSUME NEW G, NEW p, NEW e \in EffectsOf(G), Cancels(G, p)
  PROVE  Cut(p, e) \in EffectsOf(G)
  <1> DEFINE S == Seq(Published(G))
             long == {i \in DOMAIN e.pub : ~ Fits(e.pub[i])}
             Fitting(i) == IF i \in DOMAIN e.pub \ long THEN <<e.pub[i]>> ELSE <<>>
             Hooked(i) == IF i \in long THEN AfterPublish(p, e.pub[i]).hook ELSE <<>>
             D == UNION {AfterPublish(p, e.pub[i]).db : i \in long}
  <1>1. e.pub \in S /\ e.hook \in S /\ e.db \in SUBSET G
    BY DEF EffectsOf
  <1>2. \A i \in DOMAIN e.pub : e.pub[i] \in Published(G)
    BY <1>1
  <1>3. \A i \in long : /\ AfterPublish(p, e.pub[i]).hook \in S
                        /\ AfterPublish(p, e.pub[i]).db \in SUBSET G
    BY <1>2 DEF Cancels
  <1>4. D \in SUBSET G
    BY <1>3
  <1>5. \A i : Fitting(i) \in S /\ Hooked(i) \in S
    <2>1. \A r \in Published(G) : <<r>> \in S /\ <<>> \in S
      OBVIOUS
    <2>2. <<>> \in S
      OBVIOUS
    <2> HIDE DEF S
    <2> QED BY <1>2, <1>3, <2>1, <2>2
  <1>6. CASE long = {}
    BY <1>6 DEF Cut
  <1>7. CASE long # {}
    <2>1. Cut(p, e) = Effect(Fitting(1) \o Fitting(2) \o Fitting(3),
                             e.hook \o Hooked(1) \o Hooked(2) \o Hooked(3), e.db \cup D)
      BY <1>7 DEF Cut
    <2> HIDE DEF Fitting, Hooked, D
    <2>2. Fitting(1) \o Fitting(2) \in S /\ e.hook \o Hooked(1) \in S
      BY <1>1, <1>5, ConcatProperties
    <2>3. /\ Fitting(1) \o Fitting(2) \o Fitting(3) \in S
          /\ e.hook \o Hooked(1) \o Hooked(2) \in S
      BY <1>5, <2>2, ConcatProperties
    <2>4. e.hook \o Hooked(1) \o Hooked(2) \o Hooked(3) \in S
      BY <1>5, <2>3, ConcatProperties
    <2>5. e.db \cup D \in SUBSET G
      BY <1>1, <1>4
    <2> QED BY <2>1, <2>3, <2>4, <2>5 DEF Effect, EffectsOf
  <1> QED BY <1>6, <1>7

LEMMA DoTypes ==
  ASSUME NEW G, NEW p \in Procs, NEW e \in EffectsOf(G), Cancels(G, p),
         NEW rest \in [Conns -> Seq(Published(G))],
         NEW asked \in SUBSET G,
         wire \in [Procs -> [Conns -> Seq(Published(G))]], pending \in [Procs -> SUBSET G],
         Do(p, e, rest, asked)
  PROVE  /\ wire' \in [Procs -> [Conns -> Seq(Published(G))]]
         /\ pending' \in [Procs -> SUBSET G]
  <1> DEFINE d == Cut(p, e)
  <1>1. d.pub \in Seq(Published(G)) /\ d.hook \in Seq(Published(G)) /\ d.db \in SUBSET G
    BY CutType DEF EffectsOf
  <1>2. rest["observer"] \in Seq(Published(G)) /\ rest["webhooks"] \in Seq(Published(G))
    BY DEF Conns
  <1> DEFINE o == publish(p, "observer", rest["observer"], d.pub)
             w == publish(p, "webhooks", rest["webhooks"], d.hook)
  <1>4. wire' = [wire EXCEPT ![p] = [observer |-> o, webhooks |-> w]]
    BY DEF Do
  <1>5. pending' = [pending EXCEPT ![p] = asked \cup d.db]
    BY DEF Do
  <1> HIDE DEF d
  <1>3. o \in Seq(Published(G)) /\ w \in Seq(Published(G))
    BY <1>1, <1>2, ConcatProperties DEF publish
  <1> HIDE DEF o, w
  <1>6. [observer |-> o, webhooks |-> w] \in [Conns -> Seq(Published(G))]
    BY <1>3 DEF Conns
  <1> QED BY <1>1, <1>4, <1>5, <1>6

\* Functions into a larger set.
LEMMA Wider ==
  ASSUME NEW G, NEW H, G \subseteq H
  PROVE  /\ \A f : f \in [Procs -> [Conns -> Seq(Published(G))]]
                   => f \in [Procs -> [Conns -> Seq(Published(H))]]
         /\ \A f : f \in [Queues -> Seq(G)] => f \in [Queues -> Seq(H)]
         /\ \A f : f \in [Procs -> SUBSET G] => f \in [Procs -> SUBSET H]
  <1>1. Seq(G) \subseteq Seq(H)
    BY SeqMonotonic
  <1>2. Seq(Published(G)) \subseteq Seq(Published(H))
    <2>1. Published(G) \subseteq Published(H)
      BY DEF Published
    <2> QED BY <2>1, SeqMonotonic
  <1>3. SUBSET G \subseteq SUBSET H
    OBVIOUS
  <1> QED BY <1>1, <1>2, <1>3

LEMMA QueueTypes ==
  ASSUME ServerOK, NEW q \in Queues, queue[q] # <<>>
  PROVE  /\ Head(queue[q]) \in GoodFor(q) /\ Head(queue[q]) \in Good
         /\ Tail(queue[q]) \in Seq(GoodFor(q))
  <1>1. queue[q] \in Seq(GoodFor(q))
    BY DEF ServerOK
  <1>2. GoodFor(q) \subseteq Good
    BY DEF GoodFor
  <1> HIDE DEF GoodFor
  <1> QED BY <1>1, <1>2, HeadTailProperties

LEMMA TailTypes ==
  ASSUME ServerOK, NEW q \in Queues, queue[q] # <<>>,
         queue' = [queue EXCEPT ![q] = Tail(@)]
  PROVE  /\ queue' \in [Queues -> Seq(Good)]
         /\ \A k \in Queues : queue'[k] \in Seq(GoodFor(k))
  <1>1. Tail(queue[q]) \in Seq(GoodFor(q))
    BY QueueTypes
  <1>2. Seq(GoodFor(q)) \subseteq Seq(Good)
    <2>1. GoodFor(q) \subseteq Good
      BY DEF GoodFor
    <2> QED BY <2>1, SeqMonotonic
  <1>3. /\ queue \in [Queues -> Seq(Good)]
        /\ \A k \in Queues : queue[k] \in Seq(GoodFor(k))
    BY DEF ServerOK
  <1> QED BY <1>1, <1>2, <1>3

\* A record goes to a queue for its kind.
LEMMA EnqueueTypes ==
  ASSUME ServerOK, scene' = scene, ViewGrows, NEW r, r \in Good', Enqueue(r)
  PROVE  /\ queue' \in [Queues -> Seq(Good)']
         /\ \A k \in Queues : queue'[k] \in Seq(GoodFor(k)')
  <1>1. Good \subseteq Good' /\ \A k : GoodFor(k) \subseteq GoodFor(k)'
    BY GoodKept
  <1>2. queue \in [Queues -> Seq(Good)'] /\ \A k \in Queues : queue[k] \in Seq(GoodFor(k)')
    <2>1. queue \in [Queues -> Seq(Good)] /\ \A k \in Queues : queue[k] \in Seq(GoodFor(k))
      BY DEF ServerOK
    <2>2. Seq(Good) \subseteq Seq(Good)'
      BY <1>1, SeqMonotonic
    <2>3. \A k \in Queues : Seq(GoodFor(k)) \subseteq Seq(GoodFor(k)')
      BY <1>1, SeqMonotonic
    <2> QED BY <2>1, <2>2, <2>3
  <1> DEFINE q == QueueOf(r.kind)
  <1>3. CASE q \notin declared
    <2>1. queue' = queue
      BY <1>3 DEF Enqueue
    <2> QED BY <1>2, <2>1
  <1>4. CASE q \in declared
    <2>1. q \in Queues
      BY <1>4 DEF ServerOK
    <2>2. queue' = [queue EXCEPT ![q] = Append(@, r)]
      BY <1>4 DEF Enqueue
    <2>3. r \in GoodFor(q)'
      BY DEF GoodFor
    <2>4. Append(queue[q], r) \in Seq(GoodFor(q)') /\ Append(queue[q], r) \in Seq(Good)'
      <3>1. queue[q] \in Seq(GoodFor(q)') /\ queue[q] \in Seq(Good)'
        BY <1>2, <2>1
      <3> HIDE DEF q
      <3> QED BY <2>3, <3>1, AppendProperties
    <2> HIDE DEF q
    <2> QED BY <1>2, <2>1, <2>2, <2>4
  <1> QED BY <1>3, <1>4

LEMMA GoodSame ==
  ASSUME scene' = scene, view' = view
  PROVE  Messages' = Messages /\ Good' = Good /\ \A k : GoodFor(k)' = GoodFor(k)
  <1>1. Messages' = Messages /\ \A u : ConversWith(u)' = ConversWith(u)
    BY DEF Messages, ConversWith, Direct
  <1>2. \A r : Right(r)' <=> Right(r)
    <2>1. \A m, u : /\ Returned(m, u)' <=> Returned(m, u)
                    /\ Reportable(m, u)' <=> Reportable(m, u)
      BY <1>1, FitsSame DEF Returned, Reportable
    <2> QED BY <1>1, <2>1 DEF Right
  <1>3. Good' = Good
    BY <1>2 DEF Good
  <1> QED BY <1>1, <1>3 DEF GoodFor

LEMMA SceneStays ==
  ASSUME SceneOK, scene' = scene, left' = left
  PROVE  SceneOK'
  BY DEF SceneOK

LEMMA SceneSpends ==
  ASSUME SceneOK, scene' = scene, NEW k \in Bounds, left[k] > 0,
         left' = [left EXCEPT ![k] = @ - 1]
  PROVE  SceneOK'
  <1>1. scene.bound \in [Bounds -> Nat]
    BY Environments
  <1>2. left \in [Bounds -> Nat] /\ scene \in Scenarios
    BY DEF SceneOK
  <1>3. left' \in [Bounds -> Nat]
    BY <1>2
  <1>4. \A j \in Bounds : left'[j] <= left[j] /\ left[j] <= scene.bound[j]
    BY <1>2 DEF SceneOK
  <1>5. \A j \in Bounds : left'[j] <= scene'.bound[j]
    BY <1>1, <1>2, <1>3, <1>4
  <1> QED BY <1>2, <1>3, <1>5 DEF SceneOK

LEMMA StoreStays ==
  ASSUME StoreOK, scene' = scene, UNCHANGED <<messages, conversations, group>>
  PROVE  StoreOK'
  <1>1. Messages' = Messages
    BY DEF Messages
  <1> QED BY <1>1 DEF StoreOK

LEMMA ViewOKStays ==
  ASSUME ViewOK, scene' = scene, view' = view
  PROVE  ViewOK'
  <1>1. Messages' = Messages
    BY DEF Messages
  <1> QED BY <1>1 DEF ViewOK

LEMMA ClientsStay ==
  ASSUME ClientsOK, scene' = scene, ViewGrows, lost' \in BOOLEAN, raced' \subseteq Timelines,
         UNCHANGED <<posted, read, announced>>
  PROVE  ClientsOK'
  <1>1. Messages' = Messages
    BY DEF Messages
  <1>2. Good \subseteq Good'
    BY GoodKept
  <1> QED BY <1>1, <1>2 DEF ClientsOK

\* A step that only changes what is queued, published, asked and lost.
LEMMA OtherTypes ==
  ASSUME TypeInv, lost' \in BOOLEAN,
         UNCHANGED <<scene, left, messages, conversations, group, view, posted, read,
                     announced, raced>>,
         link' \in [Procs -> [Conns -> LinkState]], declared' \subseteq Queues,
         queue' \in [Queues -> Seq(Good)], \A k \in Queues : queue'[k] \in Seq(GoodFor(k)),
         wire' \in [Procs -> [Conns -> Seq(Published(Good))]], pending' \in [Procs -> SUBSET Good]
  PROVE  TypeInv'
  <1>1. SceneOK /\ StoreOK /\ ViewOK /\ ClientsOK
    BY DEF TypeInv
  <1>2. ServerOK'
    BY GoodSame DEF ServerOK
  <1>3. raced' \subseteq Timelines
    BY <1>1 DEF ClientsOK
  <1>4. SceneOK' /\ StoreOK' /\ ViewOK' /\ ClientsOK'
    BY <1>1, <1>3, SceneStays, StoreStays, ViewOKStays, ClientsStay, ViewStays
  <1> QED BY <1>2, <1>4 DEF TypeInv

LEMMA LostType ==
  ASSUME TypeInv, NEW x \in BOOLEAN PROVE (lost \/ x) \in BOOLEAN
  BY DEF TypeInv, ClientsOK

LEMMA GoodRecord ==
  ASSUME NEW r \in Good
  PROVE  /\ r.u \in Timelines /\ r.m \in Nat /\ r.kind \in CopyKinds \cup NoteKinds
         /\ r.kind \in CopyKinds => r.m \in Messages
         /\ r.kind \in ShownKinds => r.m \in view[r.u].shown
         /\ r.kind = "message_deliver" => Reportable(r.m, r.u)
         /\ r.kind \in {"saveReceived", "saveReturned"} => Returned(r.m, r.u)
         /\ r = R(r.kind, r.m, r.u)
  <1>1. r \in Record /\ Right(r)
    BY DEF Good
  <1>2. r.u \in Timelines /\ r.m \in Nat /\ r.kind \in CopyKinds \cup NoteKinds
          /\ r = R(r.kind, r.m, r.u)
    BY <1>1 DEF Record, R
  <1> QED BY <1>1, <1>2 DEF Right

\* A copy of a message and a note are right, under these conditions.
LEMMA CopyIsGood ==
  ASSUME NEW k \in CopyKinds, NEW m \in Messages, NEW u \in Timelines, m \in Nat,
         k \in ShownKinds => m \in view[u].shown,
         k = "message_deliver" => Reportable(m, u),
         k \in {"saveReceived", "saveReturned"} => Returned(m, u)
  PROVE  R(k, m, u) \in Good
  <1>1. k \notin NoteKinds
    BY DEF CopyKinds, NoteKinds
  <1>2. R(k, m, u) \in Record /\ Right(R(k, m, u))
    BY <1>1 DEF Record, Right, R
  <1> QED BY <1>2 DEF Good

LEMMA NoteIsGood ==
  ASSUME NEW k \in NoteKinds, NEW u \in Timelines
  PROVE  R(k, 0, u) \in Good
  <1>1. k \notin CopyKinds /\ k \notin ShownKinds
    BY DEF CopyKinds, NoteKinds, ShownKinds
  <1>2. k \notin {"saveReceived", "saveReturned", "message_deliver"}
    BY DEF NoteKinds
  <1>3. R(k, 0, u) \in Record /\ Right(R(k, 0, u))
    BY <1>1, <1>2 DEF Record, Right, R
  <1> QED BY <1>3 DEF Good

LEMMA MessagesAreNumbers == \A m \in Messages : m \in Nat
  BY DEF Messages

LEMMA People == Sender \in Timelines /\ Receiver \in Timelines /\ Group \in Timelines
  BY DEF Timelines, Users

\* A cancelled copy is reported, a cancelled receipt reported and saved.
LEMMA CancelledType ==
  ASSUME NEW G, NEW p, NEW r \in Published(G),
         r.kind = "added" => R("message_deliver", r.m, r.u) \in G,
         r.kind = "updated" => /\ R("message_update", r.m, r.u) \in G
                               /\ R("saveReceived", r.m, r.u) \in G
  PROVE  AfterPublish(p, r).hook \in Seq(Published(G)) /\ AfterPublish(p, r).db \in SUBSET G
  <1> DEFINE S == Seq(Published(G))
  <1>1. <<>> \in S /\ {} \in SUBSET G
    OBVIOUS
  <1>2. ASSUME NEW k \in {"message_deliver", "message_update"}, R(k, r.m, r.u) \in G
        PROVE  <<R(k, r.m, r.u)>> \in S
    <2>1. R(k, r.m, r.u) \in Published(G)
      BY <1>2 DEF Published, PublishedKinds, R
    <2> QED BY <2>1, SingleSeq
  <1>3. CASE r.kind = "added"
    <2> DEFINE h == WHnotifyMessageStatusSentOrDelivered(p, r.m, r.u)
    <2>1. <<R("message_deliver", r.m, r.u)>> \in S
      BY <1>2, <1>3
    <2>2. AfterPublish(p, r).hook = h /\ AfterPublish(p, r).db = {}
      <3> HIDE DEF h
      <3> QED BY <1>3 DEF AfterPublish, Effect, h
    <2>3. h = <<>> \/ h = <<R("message_deliver", r.m, r.u)>>
      BY DEF WHnotifyMessageStatusSentOrDelivered
    <2> HIDE DEF h
    <2> QED BY <1>1, <2>1, <2>2, <2>3
  <1>4. CASE r.kind = "updated"
    <2> DEFINE h == WHnotifyMessageStatusReturnReceipt(p, r.m, r.u)
    <2>1. <<R("message_update", r.m, r.u)>> \in S /\ {R("saveReceived", r.m, r.u)} \in SUBSET G
      BY <1>2, <1>4
    <2>2. AfterPublish(p, r).hook = h /\ AfterPublish(p, r).db = {R("saveReceived", r.m, r.u)}
      <3> HIDE DEF h
      <3> QED BY <1>4 DEF AfterPublish, Effect, h
    <2>3. h = <<>> \/ h = <<R("message_update", r.m, r.u)>>
      BY DEF WHnotifyMessageStatusReturnReceipt
    <2> HIDE DEF h
    <2> QED BY <1>1, <2>1, <2>2, <2>3
  <1>5. CASE r.kind \notin {"added", "updated"}
    <2> HIDE DEF S
    <2> QED BY <1>1, <1>5 DEF AfterPublish, Effect, Publishes, Nothing
  <1> QED BY <1>3, <1>4, <1>5

LEMMA GoodCancels == ASSUME NEW p PROVE Cancels(Good, p)
  <1> SUFFICES ASSUME NEW r \in Published(Good), ~ Fits(r)
               PROVE  /\ AfterPublish(p, r).hook \in Seq(Published(Good))
                      /\ AfterPublish(p, r).db \in SUBSET Good
    BY DEF Cancels
  <1>1. r \in Good /\ r = R(r.kind, r.m, r.u) /\ r.u \in Timelines
    BY GoodRecord DEF Published
  <1>2. ASSUME r.kind = "added" PROVE R("message_deliver", r.m, r.u) \in Good
    <2>1. r.m \in Messages /\ ~ Fits(R("added", r.m, r.u))
      BY <1>1, <1>2, GoodRecord DEF CopyKinds
    <2> QED BY <1>1, <2>1, MessagesAreNumbers, CopyIsGood DEF CopyKinds, ShownKinds, Reportable
  <1>3. ASSUME r.kind = "updated"
        PROVE  R("message_update", r.m, r.u) \in Good /\ R("saveReceived", r.m, r.u) \in Good
    <2>1. r.m \in Messages /\ r.m \in view[r.u].shown /\ ~ Fits(R("updated", r.m, r.u))
      BY <1>1, <1>3, GoodRecord DEF CopyKinds, ShownKinds
    <2> QED BY <1>1, <2>1, MessagesAreNumbers, CopyIsGood DEF CopyKinds, ShownKinds, Returned
  <1> QED BY <1>2, <1>3, CancelledType

\* A handler publishes and asks what is right.
LEMMA HandleTypes ==
  ASSUME TypeInv, NEW p \in Deployed, NEW q \in Queues, NEW kind, Consume(p, q, kind),
         NEW e \in EffectsOf(Good), Handles(p, e)
  PROVE  TypeInv'
  <1>1. p \in Procs
    BY Environments DEF TypeInv
  <1>2. ServerOK
    BY DEF TypeInv
  <1>3. /\ queue' \in [Queues -> Seq(Good)]
        /\ \A k \in Queues : queue'[k] \in Seq(GoodFor(k))
    BY <1>2, TailTypes DEF Consume
  <1>4. /\ wire' \in [Procs -> [Conns -> Seq(Published(Good))]]
        /\ pending' \in [Procs -> SUBSET Good]
    <2>1. wire[p] \in [Conns -> Seq(Published(Good))] /\ pending[p] \in SUBSET Good
      BY <1>1, <1>2 DEF ServerOK
    <2>2. wire \in [Procs -> [Conns -> Seq(Published(Good))]] /\ pending \in [Procs -> SUBSET Good]
      BY <1>2 DEF ServerOK
    <2>3. Do(p, e, wire[p], pending[p])
      BY DEF Handles
    <2> QED BY <1>1, <2>1, <2>2, <2>3, GoodCancels, DoTypes
  <1>5. link' \in [Procs -> [Conns -> LinkState]] /\ declared' \subseteq Queues
    BY <1>2 DEF ServerOK, Consume
  <1>6. lost' \in BOOLEAN
    BY LostType DEF Handles, Lose
  <1> QED BY <1>3, <1>4, <1>5, <1>6, OtherTypes DEF Consume

LEMMA HeadIsGood ==
  ASSUME TypeInv, NEW p, NEW q \in Queues, NEW kind, Consume(p, q, kind)
  PROVE  Head(queue[q]) \in Good /\ Head(queue[q]).kind = kind
  <1>1. ServerOK /\ queue[q] # <<>>
    BY DEF TypeInv, Consume
  <1> QED BY <1>1, QueueTypes DEF Consume

\* A message that there is may be added for everyone.
LEMMA AddedIsGood ==
  ASSUME NEW m \in Messages, NEW u \in Timelines
  PROVE  R("added", m, u) \in Published(Good)
  <1>1. "added" \in CopyKinds /\ "added" \notin ShownKinds
    BY DEF CopyKinds, ShownKinds
  <1>2. R("added", m, u) \in Good /\ R("added", m, u).kind \in PublishedKinds
    BY <1>1, MessagesAreNumbers, CopyIsGood DEF R, PublishedKinds
  <1> QED BY <1>2 DEF Published

\* Whom a group message is for.
LEMMA InlineType ==
  ASSUME NEW m \in Messages, NEW S
  PROVE  sendMessageToGroupMembers(m, Entries(S) \o <<Group>> \o Entries({Sender} \ S))
           \in Seq(Published(Good))
  <1> DEFINE s == Entries(S)  t == Entries({Sender} \ S)
  <1>1. s \in Seq(Timelines) /\ Len(s) \in 0 .. 2 /\ t \in Seq(Timelines) /\ Len(t) \in 0 .. 2
    BY EntriesType
  <1>2. <<Group>> \in Seq(Timelines) /\ Len(<<Group>>) = 1
    BY People
  <1> HIDE DEF s, t
  <1>3. s \o <<Group>> \in Seq(Timelines) /\ Len(s \o <<Group>>) = Len(s) + 1
    BY <1>1, <1>2, ConcatProperties
  <1>4. /\ s \o <<Group>> \o t \in Seq(Timelines)
        /\ Len(s \o <<Group>> \o t) = Len(s) + 1 + Len(t)
    BY <1>1, <1>3, ConcatProperties
  <1>5. Len(s \o <<Group>> \o t) <= 5
    <2>1. \A i, j \in 0 .. 2 : i + 1 + j <= 5
      OBVIOUS
    <2>2. Len(s) + 1 + Len(t) <= 5
      BY <1>1, <2>1
    <2> QED BY <1>4, <2>2
  <1>6. sendMessageToGroupMembers(m, s \o <<Group>> \o t) \in Seq(Published(Good))
    BY <1>4, <1>5, AddedIsGood, GroupMessageType
  <1> QED BY <1>6 DEF s, t

LEMMA FoundType ==
  ASSUME NEW r \in Good, r.m \in Messages, NEW S
  PROVE  GroupFound(r, S) \in EffectsOf(Good)
  <1> DEFINE to == IF S = {} THEN {Sender} ELSE S
             s == Entries(to)
  <1>1. s \in Seq(Timelines) /\ Len(s) \in 0 .. 2
    BY EntriesType
  <1>2. <<Group>> \in Seq(Timelines) /\ Len(<<Group>>) = 1
    BY People
  <1>3. GroupFound(r, S) = Publishes(sendMessageToGroupMembers(r.m, s \o <<Group>>))
    BY DEF GroupFound
  <1> HIDE DEF s
  <1>4. s \o <<Group>> \in Seq(Timelines) /\ Len(s \o <<Group>>) <= 5
    BY <1>1, <1>2, ConcatProperties
  <1>5. sendMessageToGroupMembers(r.m, s \o <<Group>>) \in Seq(Published(Good))
    BY <1>4, AddedIsGood, GroupMessageType
  <1>6. {} \in SUBSET Good
    OBVIOUS
  <1>7. Publishes(sendMessageToGroupMembers(r.m, s \o <<Group>>)) \in EffectsOf(Good)
    BY <1>5, <1>6, EffectTypes
  <1> QED BY <1>3, <1>7

\* A right record that is published, and one that is asked.
LEMMA PublishesGood ==
  ASSUME NEW k, NEW m, NEW u, R(k, m, u) \in Good, k \in PublishedKinds
  PROVE  /\ R(k, m, u) \in Published(Good)
         /\ <<R(k, m, u)>> \in Seq(Published(Good))
         /\ Publishes(<<R(k, m, u)>>) \in EffectsOf(Good)
         /\ Nothing \in EffectsOf(Good)
  <1>1. R(k, m, u) \in Published(Good)
    BY DEF Published, R
  <1>2. <<R(k, m, u)>> \in Seq(Published(Good)) /\ <<>> \in Seq(Published(Good))
          /\ {} \in SUBSET Good
    BY <1>1, SingleSeq
  <1> QED BY <1>1, <1>2, EffectTypes

(***************************************************************************)
(* The handlers.  Each takes a message and has a right effect.             *)
(***************************************************************************)

\* It reports the presence at the head of the queue.
Announces(p, e) ==
  PresenceEnabled(p) /\ WebhookEnabled(p)
    => In(e.pub, R("presence_event", 0, Head(queue["messages"]).u))

\* What the handler of r does.
Handling(p, r) ==
  CASE r.kind = "outgoing" ->
         (CASE scene.to = "direct" -> Publishes(deliverMessage(r.m, Sender))
            [] scene.to = "inline" ->
                 Publishes(sendMessageToGroupMembers(r.m,
                   Entries(scene.members) \o <<Group>> \o Entries({Sender} \ scene.members)))
            [] scene.to = "group"  -> Asks(R("getGroup", r.m, Group)))
    [] r.kind = "delivered" ->
         IF scene.status = DELIVERED THEN Publishes(deliverMessage(r.m, r.u)) ELSE Nothing
    [] r.kind = "persist" -> Asks(R("saveMessage", r.m, r.u))
    [] r.kind = "update" ->
         IF scene.status = RECEIVED THEN Publishes(<<R("updated", r.m, r.u)>>) ELSE Nothing
    [] r.kind = "is_new" -> Asks(R("saveIsNew", 0, r.u))
    [] r.kind = "archive" ->
         Effect(<<>>, WHnotifyConversationArchived(p, r.u), {R("saveArchived", 0, r.u)})
    [] r.kind = "presence" ->
         IF PresenceEnabled(p) /\ WebhookEnabled(p)
         THEN Publishes(<<R("presence_event", 0, r.u)>>) ELSE Nothing
    [] r.kind = "groups.update" -> Publishes(deliverGroupUpdated)

HandledKinds ==
  {"outgoing", "delivered", "persist", "update", "is_new", "archive", "presence",
   "groups.update"}

Handled(p) ==
  \E q \in {"messages", "persist"}, e \in EffectsOf(Good) :
    /\ Consume(p, q, Head(queue[q]).kind) /\ Handles(p, e)
    /\ q = "persist" => ~ Acts(e)
    /\ q = "messages" /\ Head(queue[q]).kind = "presence" => Announces(p, e)
    /\ e = Handling(p, Head(queue[q])) /\ Head(queue[q]).kind \in HandledKinds

LEMMA HandledBy ==
  ASSUME NEW p, NEW q \in {"messages", "persist"}, NEW k, Consume(p, q, k),
         NEW e \in EffectsOf(Good), Handles(p, e),
         q = "persist" => ~ Acts(e), k = "presence" => Announces(p, e),
         k \in HandledKinds, e = Handling(p, Head(queue[q]))
  PROVE  Handled(p)
  <1>1. Head(queue[q]).kind = k
    BY DEF Consume
  <1> QED BY <1>1 DEF Handled

LEMMA OutgoingHandled ==
  ASSUME TypeInv, NEW p \in Deployed, process_outgoing(p) PROVE Handled(p)
  <1> DEFINE r == Head(queue["messages"])
             s == Entries(scene.members) \o <<Group>> \o Entries({Sender} \ scene.members)
             e == CASE scene.to = "direct" -> Publishes(deliverMessage(r.m, Sender))
                    [] scene.to = "inline" -> Publishes(sendMessageToGroupMembers(r.m, s))
                    [] scene.to = "group"  -> Asks(R("getGroup", r.m, Group))
  <1>1. Consume(p, "messages", "outgoing") /\ Handles(p, e)
    BY DEF process_outgoing
  <1>2. "messages" \in Queues
    BY DEF Queues
  <1>3. r \in Good /\ r.kind = "outgoing"
    BY <1>1, <1>2, HeadIsGood
  <1>4. r.m \in Messages
    BY <1>3, GoodRecord DEF CopyKinds
  <1>5. scene.to \in {"direct", "group", "inline"}
    BY Environments DEF TypeInv
  <1>6. e \in EffectsOf(Good)
    <2>1. Publishes(deliverMessage(r.m, Sender)) \in EffectsOf(Good)
      <3>1. R("added", r.m, Sender) \in Published(Good)
        BY <1>4, AddedIsGood, People
      <3> QED BY <3>1, PublishesGood DEF deliverMessage, Published, R
    <2>2. Publishes(sendMessageToGroupMembers(r.m, s)) \in EffectsOf(Good)
      <3>1. sendMessageToGroupMembers(r.m, s) \in Seq(Published(Good))
        BY <1>4, InlineType
      <3>2. {} \in SUBSET Good
        OBVIOUS
      <3> HIDE DEF s
      <3> QED BY <3>1, <3>2, EffectTypes
    <2>3. Asks(R("getGroup", r.m, Group)) \in EffectsOf(Good)
      <3>1. R("getGroup", r.m, Group) \in Good
        BY <1>4, MessagesAreNumbers, People, CopyIsGood DEF CopyKinds, ShownKinds
      <3> QED BY <3>1, AsksType
    <2> HIDE DEF r, s
    <2> QED BY <1>5, <2>1, <2>2, <2>3
  <1>7. e = Handling(p, r)
    <2>1. CASE scene.to = "direct"
      <3> HIDE DEF r
      <3> QED BY <1>3, <2>1 DEF Handling
    <2>2. CASE scene.to = "inline"
      <3> HIDE DEF r
      <3> QED BY <1>3, <2>2 DEF Handling
    <2>3. CASE scene.to = "group"
      <3> HIDE DEF r
      <3> QED BY <1>3, <2>3 DEF Handling
    <2> QED BY <1>5, <2>1, <2>2, <2>3
  <1> HIDE DEF e
  <1> QED BY <1>1, <1>6, <1>7, HandledBy DEF HandledKinds

LEMMA DeliveredHandled ==
  ASSUME TypeInv, NEW p \in Deployed, process_delivered(p) PROVE Handled(p)
  <1> DEFINE r == Head(queue["messages"])
             e == IF scene.status = DELIVERED THEN Publishes(deliverMessage(r.m, r.u))
                                              ELSE Nothing
  <1>1. Consume(p, "messages", "delivered") /\ Handles(p, e)
    BY DEF process_delivered
  <1>2. "messages" \in Queues
    BY DEF Queues
  <1>3. r \in Good /\ r.kind = "delivered"
    BY <1>1, <1>2, HeadIsGood
  <1>4. r.m \in Messages /\ r.u \in Timelines
    BY <1>3, GoodRecord DEF CopyKinds
  <1>5. e \in EffectsOf(Good)
    <2>1. R("added", r.m, r.u) \in Published(Good)
      BY <1>4, AddedIsGood
    <2> QED BY <2>1, PublishesGood DEF deliverMessage, Published, R
  <1>6. e = Handling(p, Head(queue["messages"]))
    BY <1>1 DEF Consume, Handling
  <1> HIDE DEF e
  <1> QED BY <1>1, <1>5, <1>6, HandledBy DEF HandledKinds

LEMMA PersistHandled ==
  ASSUME TypeInv, NEW p \in Deployed, process_persist(p) PROVE Handled(p)
  <1> DEFINE r == Head(queue["persist"])
             e == Asks(R("saveMessage", r.m, r.u))
  <1>1. Consume(p, "persist", "persist") /\ Handles(p, e)
    BY DEF process_persist
  <1>2. "persist" \in Queues
    BY DEF Queues
  <1>3. r \in Good /\ r.kind = "persist"
    BY <1>1, <1>2, HeadIsGood
  <1>4. r.m \in Messages /\ r.u \in Timelines /\ r.m \in view[r.u].shown
    BY <1>3, GoodRecord DEF CopyKinds, ShownKinds
  <1>5. R("saveMessage", r.m, r.u) \in Good
    BY <1>4, MessagesAreNumbers, CopyIsGood DEF CopyKinds, ShownKinds
  <1>6. e \in EffectsOf(Good)
    BY <1>5, AsksType
  <1>7. ~ Acts(e)
    BY DEF Acts, Speaks, Asking, Asks, Effect, R
  <1>8. e = Handling(p, Head(queue["persist"]))
    BY <1>1 DEF Consume, Handling
  <1> HIDE DEF e
  <1> QED BY <1>1, <1>6, <1>7, <1>8, HandledBy DEF HandledKinds

LEMMA UpdateMessageHandled ==
  ASSUME TypeInv, NEW p \in Deployed, process_update_message(p) PROVE Handled(p)
  <1> DEFINE r == Head(queue["messages"])
             e == IF scene.status = RECEIVED THEN Publishes(<<R("updated", r.m, r.u)>>)
                                             ELSE Nothing
  <1>1. Consume(p, "messages", "update") /\ Handles(p, e)
    BY DEF process_update_message
  <1>2. "messages" \in Queues
    BY DEF Queues
  <1>3. r \in Good /\ r.kind = "update"
    BY <1>1, <1>2, HeadIsGood
  <1>4. r.m \in Messages /\ r.u \in Timelines /\ r.m \in view[r.u].shown
    BY <1>3, GoodRecord DEF CopyKinds, ShownKinds
  <1>5. R("updated", r.m, r.u) \in Good
    BY <1>4, MessagesAreNumbers, CopyIsGood DEF CopyKinds, ShownKinds
  <1>6. e \in EffectsOf(Good)
    BY <1>5, PublishesGood DEF PublishedKinds
  <1>7. e = Handling(p, Head(queue["messages"]))
    BY <1>1 DEF Consume, Handling
  <1> HIDE DEF e
  <1> QED BY <1>1, <1>6, <1>7, HandledBy DEF HandledKinds

LEMMA UpdateConversationHandled ==
  ASSUME TypeInv, NEW p \in Deployed, process_update_conversation(p) PROVE Handled(p)
  <1> DEFINE r == Head(queue["messages"])
             e == Asks(R("saveIsNew", 0, r.u))
  <1>1. Consume(p, "messages", "is_new") /\ Handles(p, e)
    BY DEF process_update_conversation
  <1>2. "messages" \in Queues
    BY DEF Queues
  <1>3. r \in Good
    BY <1>1, <1>2, HeadIsGood
  <1>4. R("saveIsNew", 0, r.u) \in Good
    BY <1>3, GoodRecord, NoteIsGood DEF NoteKinds
  <1>5. e \in EffectsOf(Good)
    BY <1>4, AsksType
  <1>6. e = Handling(p, Head(queue["messages"]))
    BY <1>1 DEF Consume, Handling
  <1> HIDE DEF e
  <1> QED BY <1>1, <1>5, <1>6, HandledBy DEF HandledKinds

LEMMA ArchiveHandled ==
  ASSUME TypeInv, NEW p \in Deployed, process_archive(p) PROVE Handled(p)
  <1> DEFINE r == Head(queue["messages"])
             h == WHnotifyConversationArchived(p, r.u)
             e == Effect(<<>>, h, {R("saveArchived", 0, r.u)})
  <1>1. Consume(p, "messages", "archive") /\ Handles(p, e)
    BY DEF process_archive
  <1>2. "messages" \in Queues
    BY DEF Queues
  <1>3. r \in Good
    BY <1>1, <1>2, HeadIsGood
  <1>4. R("saveArchived", 0, r.u) \in Good /\ R("conversation_archived", 0, r.u) \in Good
    BY <1>3, GoodRecord, NoteIsGood DEF NoteKinds
  <1>5. /\ h \in Seq(Published(Good)) /\ <<>> \in Seq(Published(Good))
        /\ {R("saveArchived", 0, r.u)} \in SUBSET Good
    <2>1. <<R("conversation_archived", 0, r.u)>> \in Seq(Published(Good))
      BY <1>4, PublishesGood DEF PublishedKinds
    <2> QED BY <1>4, <2>1 DEF WHnotifyConversationArchived
  <1>6. e \in EffectsOf(Good)
    <2> HIDE DEF h
    <2> QED BY <1>5, EffectTypes
  <1>7. e = Handling(p, Head(queue["messages"]))
    BY <1>1 DEF Consume, Handling
  <1> HIDE DEF e
  <1> QED BY <1>1, <1>6, <1>7, HandledBy DEF HandledKinds

LEMMA PresenceHandled ==
  ASSUME TypeInv, NEW p \in Deployed, process_presence(p) PROVE Handled(p)
  <1> DEFINE r == Head(queue["messages"])
             e == IF PresenceEnabled(p) /\ WebhookEnabled(p)
                  THEN Publishes(<<R("presence_event", 0, r.u)>>) ELSE Nothing
  <1>1. Consume(p, "messages", "presence") /\ Handles(p, e)
    BY DEF process_presence
  <1>2. "messages" \in Queues
    BY DEF Queues
  <1>3. r \in Good
    BY <1>1, <1>2, HeadIsGood
  <1>4. R("presence_event", 0, r.u) \in Good
    BY <1>3, GoodRecord, NoteIsGood DEF NoteKinds
  <1>5. e \in EffectsOf(Good)
    BY <1>4, PublishesGood DEF PublishedKinds
  <1>6. Announces(p, e)
    BY DEF Announces, In, Publishes, Effect
  <1>7. e = Handling(p, Head(queue["messages"]))
    BY <1>1 DEF Consume, Handling
  <1> HIDE DEF e
  <1> QED BY <1>1, <1>5, <1>6, <1>7, HandledBy DEF HandledKinds

LEMMA GroupUpdateHandled ==
  ASSUME TypeInv, NEW p \in Deployed, process_update_group(p) PROVE Handled(p)
  <1>1. Consume(p, "messages", "groups.update") /\ Handles(p, Publishes(deliverGroupUpdated))
    BY DEF process_update_group
  <1>2. "messages" \in Queues
    BY DEF Queues
  <1>3. /\ R("groupupdated", 0, Sender) \in Good
        /\ R("groupupdated", 0, Receiver) \in Good
    BY People, NoteIsGood DEF NoteKinds
  <1>4. /\ R("groupupdated", 0, Sender) \in Published(Good)
        /\ R("groupupdated", 0, Receiver) \in Published(Good)
    BY <1>3, PublishesGood DEF PublishedKinds
  <1>5. deliverGroupUpdated = <<R("groupupdated", 0, Sender), R("groupupdated", 0, Receiver)>>
    BY DEF deliverGroupUpdated
  <1>6. deliverGroupUpdated \in Seq(Published(Good)) /\ {} \in SUBSET Good
    BY <1>5, <1>4
  <1>7. Publishes(deliverGroupUpdated) \in EffectsOf(Good)
    BY <1>6, EffectTypes
  <1>8. Publishes(deliverGroupUpdated) = Handling(p, Head(queue["messages"]))
    BY <1>1 DEF Consume, Handling
  <1> QED BY <1>1, <1>7, <1>8, HandledBy DEF HandledKinds

LEMMA HandlersHandled ==
  ASSUME TypeInv, NEW p \in Deployed, Handlers(p) PROVE Handled(p)
  BY OutgoingHandled, DeliveredHandled, PersistHandled, UpdateMessageHandled,
     UpdateConversationHandled, ArchiveHandled, PresenceHandled, GroupUpdateHandled
     DEF Handlers

LEMMA HandlersTypes ==
  ASSUME TypeInv, NEW p \in Deployed, Handlers(p) PROVE TypeInv'
  <1>1. PICK q \in {"messages", "persist"}, e \in EffectsOf(Good) :
          Consume(p, q, Head(queue[q]).kind) /\ Handles(p, e)
    BY HandlersHandled DEF Handled
  <1>2. q \in Queues
    BY DEF Queues
  <1> QED BY <1>1, <1>2, HandleTypes

(***************************************************************************)
(* Types: the worker of the webhooks.                                      *)
(***************************************************************************)

LEMMA WorkTypes ==
  ASSUME TypeInv, NEW p \in Deployed, NEW kind, WHwork(p, kind),
         posted' = posted \/ WHsendData
  PROVE  TypeInv'
  <1>1. ServerOK /\ "webhooks" \in Queues /\ queue["webhooks"] # <<>>
    BY DEF TypeInv, WHwork, Queues
  <1>2. /\ queue' \in [Queues -> Seq(Good)]
        /\ \A k \in Queues : queue'[k] \in Seq(GoodFor(k))
    BY <1>1, TailTypes DEF WHwork
  <1>3. Head(queue["webhooks"]) \in Good
    BY <1>1, QueueTypes
  <1>4. posted' \subseteq Good
    BY <1>3 DEF WHsendData, TypeInv, ClientsOK
  <1>5. ServerOK'
    BY <1>1, <1>2, GoodSame DEF ServerOK, WHwork
  <1>6. ClientsOK'
    BY <1>4, GoodSame DEF ClientsOK, TypeInv, WHwork
  <1>7. SceneOK' /\ StoreOK' /\ ViewOK'
    BY SceneStays, StoreStays, ViewOKStays DEF TypeInv, WHwork
  <1> QED BY <1>5, <1>6, <1>7 DEF TypeInv

LEMMA WebhooksTypes ==
  ASSUME TypeInv, NEW p \in Deployed, Webhooks(p) PROVE TypeInv'
  BY WorkTypes DEF Webhooks, WHprocess_webhook_message_deliver,
     WHprocess_webhook_message_update, WHprocess_webhook_conversation_archived,
     WHprocess_webhook_presence

(***************************************************************************)
(* Types: the broker takes a publication.                                  *)
(***************************************************************************)

LEMMA DispatchType ==
  ASSUME SceneOK, NEW v \in View, NEW r \in Published(Good), QueueOf(r.kind) = "none"
  PROVE  /\ Dispatch(v, r) \in View
         /\ v.shown \subseteq Dispatch(v, r).shown /\ v.returned \subseteq Dispatch(v, r).returned
         /\ r.kind = "added" => Dispatch(v, r).shown = v.shown \cup {r.m}
         /\ r.kind # "added" => Dispatch(v, r).shown = v.shown
         /\ r.kind = "updated" => Dispatch(v, r).returned = v.returned \cup {r.m}
         /\ r.kind # "updated" => Dispatch(v, r).returned = v.returned
  <1>1. r.m \in Nat /\ r.kind \in PublishedKinds
    BY GoodRecord DEF Published
  <1>2. r.kind \in {"added", "updated", "convupdated", "clientdeleted", "archivedadded",
                    "groupupdated"}
    BY <1>1 DEF PublishedKinds, QueueOf
  <1>3. scene.updateconversation \in BOOLEAN
    BY Environments
  <1>4. /\ v.shown \in SUBSET Nat /\ v.returned \in SUBSET Nat /\ v.last \in Nat
        /\ v.list \in {"none", "conversations", "archived"} /\ v.is_new \in BOOLEAN
        /\ v.members \in SUBSET Users
    BY DEF View
  <1>5. CASE r.kind = "added" /\ scene.updateconversation
    <2> DEFINE v1 == [v EXCEPT !.shown = @ \cup {r.m}]
    <2>1. Dispatch(v, r) =
            [v1 EXCEPT !.last = r.m, !.list = "conversations", !.is_new = TRUE]
      BY <1>5 DEF Dispatch
    <2>2. v1 \in View /\ v1.shown = v.shown \cup {r.m} /\ v1.returned = v.returned
      BY <1>1, <1>4 DEF View
    <2> HIDE DEF v1
    <2> QED BY <1>1, <1>5, <2>1, <2>2 DEF View
  <1>6. CASE r.kind = "added" /\ ~ scene.updateconversation
    <2>1. Dispatch(v, r) = [v EXCEPT !.shown = @ \cup {r.m}]
      BY <1>6 DEF Dispatch
    <2> QED BY <1>1, <1>4, <1>6, <2>1 DEF View
  <1>7. CASE r.kind = "updated"
    <2>1. Dispatch(v, r) = [v EXCEPT !.returned = @ \cup {r.m}]
      BY <1>7 DEF Dispatch
    <2> QED BY <1>1, <1>4, <1>7, <2>1 DEF View
  <1>8. CASE r.kind = "convupdated"
    <2>1. Dispatch(v, r) = [v EXCEPT !.is_new = FALSE]
      BY <1>8 DEF Dispatch
    <2> QED BY <1>4, <1>8, <2>1 DEF View
  <1>9. CASE r.kind = "clientdeleted"
    <2>1. Dispatch(v, r) = [v EXCEPT !.list = "none"]
      BY <1>9 DEF Dispatch
    <2> QED BY <1>4, <1>9, <2>1 DEF View
  <1>10. CASE r.kind = "archivedadded"
    <2>1. Dispatch(v, r) = [v EXCEPT !.list = "archived"]
      BY <1>10 DEF Dispatch
    <2> QED BY <1>4, <1>10, <2>1 DEF View
  <1>11. CASE r.kind = "groupupdated"
    <2>1. Dispatch(v, r) = [v EXCEPT !.members = Users]
      BY <1>11 DEF Dispatch
    <2> QED BY <1>4, <1>11, <2>1 DEF View
  <1> QED BY <1>2, <1>3, <1>5, <1>6, <1>7, <1>8, <1>9, <1>10, <1>11

\* What a confirmation tells a client.
LEMMA ConfirmViews ==
  ASSUME TypeInv, NEW r \in Published(Good),
         view' = IF QueueOf(r.kind) = "none"
                 THEN [view EXCEPT ![Told(r)] = Dispatch(@, r)] ELSE view
  PROVE  /\ view' \in [Timelines -> View] /\ ViewGrows
         /\ \A u \in Timelines :
              view'[u].shown = IF r.kind = "added" /\ u = r.u THEN view[u].shown \cup {r.m}
                                                              ELSE view[u].shown
         /\ \A u \in Timelines :
              view'[u].returned = IF r.kind = "updated" /\ u = ConversWith(r.u)
                                  THEN view[u].returned \cup {r.m} ELSE view[u].returned
  <1>1. SceneOK /\ view \in [Timelines -> View]
    BY DEF TypeInv, ViewOK
  <1>2. r.u \in Timelines
    BY GoodRecord DEF Published
  <1>3. Told(r) \in Timelines
    BY <1>2, ConversType DEF Told
  <1>4. CASE QueueOf(r.kind) # "none"
    <2>1. r.kind # "added" /\ r.kind # "updated"
      BY <1>4 DEF QueueOf
    <2> QED BY <1>1, <1>4, <2>1 DEF ViewGrows
  <1>5. CASE QueueOf(r.kind) = "none"
    <2> DEFINE d == Dispatch(view[Told(r)], r)
    <2>1. view' = [view EXCEPT ![Told(r)] = d]
      BY <1>5
    <2>2. view[Told(r)] \in View
      BY <1>1, <1>3
    <2>3. /\ d \in View
          /\ view[Told(r)].shown \subseteq d.shown /\ view[Told(r)].returned \subseteq d.returned
          /\ r.kind = "added" => d.shown = view[Told(r)].shown \cup {r.m}
          /\ r.kind # "added" => d.shown = view[Told(r)].shown
          /\ r.kind = "updated" => d.returned = view[Told(r)].returned \cup {r.m}
          /\ r.kind # "updated" => d.returned = view[Told(r)].returned
      BY <1>1, <1>5, <2>2, DispatchType
    <2> HIDE DEF d
    <2>4. view' \in [Timelines -> View] /\ view'[Told(r)] = d
      BY <1>1, <1>3, <2>1, <2>3
    <2>5. \A u \in Timelines : u # Told(r) => view'[u] = view[u]
      BY <1>1, <2>1
    <2>6. ViewGrows
      BY <2>3, <2>4, <2>5 DEF ViewGrows
    <2>7. r.kind = "added" => Told(r) = r.u
      BY DEF Told
    <2>8. r.kind = "updated" => Told(r) = ConversWith(r.u)
      BY DEF Told
    <2>9. ASSUME NEW u \in Timelines
          PROVE  /\ view'[u].shown = IF r.kind = "added" /\ u = r.u
                                     THEN view[u].shown \cup {r.m} ELSE view[u].shown
                 /\ view'[u].returned = IF r.kind = "updated" /\ u = ConversWith(r.u)
                                        THEN view[u].returned \cup {r.m} ELSE view[u].returned
      <3>1. CASE u # Told(r)
        BY <2>5, <2>7, <2>8, <3>1
      <3>2. CASE u = Told(r)
        BY <2>3, <2>4, <2>7, <2>8, <3>2
      <3> QED BY <3>1, <3>2
    <2> QED BY <2>4, <2>6, <2>9
  <1> QED BY <1>4, <1>5

\* A copy of a message is right in a state in which its client was shown it.
LEMMA CopyWillBeGood ==
  ASSUME scene' = scene, NEW k \in CopyKinds, NEW m \in Messages, NEW u \in Timelines,
         k \in ShownKinds => m \in view'[u].shown,
         k = "message_deliver" => m \in view'[u].shown \/ ~ Fits(R("added", m, u)),
         k \in {"saveReceived", "saveReturned"} =>
           m \in view'[ConversWith(u)].returned \/ ~ Fits(R("updated", m, u))
  PROVE  R(k, m, u) \in Good'
  <1>1. Messages' = Messages /\ ConversWith(u)' = ConversWith(u)
    BY DEF Messages, ConversWith, Direct
  <1>2. k \notin NoteKinds
    BY DEF CopyKinds, NoteKinds
  <1>3. /\ k = "message_deliver" => Reportable(m, u)'
        /\ k \in {"saveReceived", "saveReturned"} => Returned(m, u)'
    BY <1>1, FitsSame DEF Reportable, Returned
  <1>4. R(k, m, u) \in Record /\ Right(R(k, m, u))'
    BY <1>1, <1>2, <1>3, MessagesAreNumbers DEF Record, Right, R
  <1> QED BY <1>4 DEF Good

\* So are cancelled publications in the state after a confirmation.
LEMMA GoodWillCancel ==
  ASSUME TypeInv, scene' = scene, ViewGrows, NEW p PROVE Cancels(Good', p)
  <1> SUFFICES ASSUME NEW r \in Published(Good'), ~ Fits(r)
               PROVE  /\ AfterPublish(p, r).hook \in Seq(Published(Good'))
                      /\ AfterPublish(p, r).db \in SUBSET Good'
    BY DEF Cancels
  <1>1. r \in Record /\ Right(r)'
    BY DEF Published, Good
  <1>2. r = R(r.kind, r.m, r.u) /\ r.u \in Timelines
    BY <1>1 DEF Record, R
  <1>3. Messages' = Messages
    BY DEF Messages
  <1>4. ASSUME r.kind = "added" PROVE R("message_deliver", r.m, r.u) \in Good'
    <2>1. r.m \in Messages /\ ~ Fits(R("added", r.m, r.u))
      BY <1>1, <1>2, <1>3, <1>4 DEF CopyKinds, Right
    <2> QED BY <1>2, <2>1, CopyWillBeGood DEF CopyKinds, ShownKinds
  <1>5. ASSUME r.kind = "updated"
        PROVE  R("message_update", r.m, r.u) \in Good' /\ R("saveReceived", r.m, r.u) \in Good'
    <2>1. r.m \in Messages /\ r.m \in view'[r.u].shown /\ ~ Fits(R("updated", r.m, r.u))
      BY <1>1, <1>2, <1>3, <1>5 DEF CopyKinds, ShownKinds, Right
    <2> QED BY <1>2, <2>1, CopyWillBeGood DEF CopyKinds, ShownKinds
  <1> QED BY <1>4, <1>5, CancelledType

\* What the callback of a publication does is right once its client was told.
LEMMA AfterPublishType ==
  ASSUME TypeInv, NEW p \in Deployed, NEW r \in Published(Good), scene' = scene, ViewGrows,
         r.kind = "added" => r.m \in view'[r.u].shown,
         r.kind = "updated" => r.m \in view'[ConversWith(r.u)].returned
  PROVE  AfterPublish(p, r) \in EffectsOf(Good')
  <1>1. r \in Good /\ r.kind \in PublishedKinds
    BY DEF Published
  <1>2. r.u \in Timelines /\ ConversWith(r.u) \in Timelines
    BY <1>1, GoodRecord, ConversType
  <1>3. Nothing \in EffectsOf(Good')
    <2>1. <<>> \in Seq(Published(Good')) /\ {} \in SUBSET Good'
      OBVIOUS
    <2> QED BY <2>1, EffectTypes
  <1>4. CASE r.kind = "added"
    <2>1. r.m \in Messages /\ r.m \in view'[r.u].shown
      BY <1>1, <1>4, GoodRecord DEF CopyKinds
    <2>2. R("persist", r.m, r.u) \in Good' /\ R("message_deliver", r.m, r.u) \in Good'
      BY <1>2, <2>1, CopyWillBeGood DEF CopyKinds, ShownKinds
    <2>3. /\ <<R("persist", r.m, r.u)>> \in Seq(Published(Good'))
          /\ <<R("message_deliver", r.m, r.u)>> \in Seq(Published(Good'))
          /\ <<>> \in Seq(Published(Good')) /\ {} \in SUBSET Good'
      <3>1. /\ R("persist", r.m, r.u) \in Published(Good')
            /\ R("message_deliver", r.m, r.u) \in Published(Good')
        BY <2>2 DEF Published, PublishedKinds, R
      <3> QED BY <3>1, SingleSeq
    <2> DEFINE h == WHnotifyMessageStatusSentOrDelivered(p, r.m, r.u)
    <2>4. h \in {<<R("message_deliver", r.m, r.u)>>, <<>>}
      BY DEF WHnotifyMessageStatusSentOrDelivered
    <2>5. AfterPublish(p, r) = Effect(<<R("persist", r.m, r.u)>>, h, {})
      BY <1>4 DEF AfterPublish
    <2> HIDE DEF h
    <2>6. h \in Seq(Published(Good'))
      BY <2>3, <2>4
    <2> QED BY <2>3, <2>5, <2>6, EffectTypes
  <1>5. CASE r.kind = "persist"
    <2>1. r.m \in Messages
      BY <1>1, <1>5, GoodRecord DEF CopyKinds
    <2>2. R("added", r.m, Receiver) \in Good'
      BY <2>1, People, CopyWillBeGood DEF CopyKinds, ShownKinds
    <2>3. R("added", r.m, Receiver) \in Published(Good')
      BY <2>2 DEF Published, PublishedKinds, R
    <2>4. <<R("added", r.m, Receiver)>> \in Seq(Published(Good')) /\ {} \in SUBSET Good'
      BY <2>3, SingleSeq
    <2>5. Publishes(deliverMessage(r.m, Receiver)) \in EffectsOf(Good')
      BY <2>4, EffectTypes DEF deliverMessage
    <2>6. AfterPublish(p, r) \in {Publishes(deliverMessage(r.m, Receiver)), Nothing}
      BY <1>5 DEF AfterPublish
    <2> QED BY <1>3, <2>5, <2>6
  <1>6. CASE r.kind = "updated"
    <2>1. r.m \in Messages /\ r.m \in view[r.u].shown /\ r.m \in view'[ConversWith(r.u)].returned
      BY <1>1, <1>6, GoodRecord DEF CopyKinds, ShownKinds
    <2>2. r.m \in view'[r.u].shown
      BY <1>2, <2>1 DEF ViewGrows
    <2>3. R("message_update", r.m, r.u) \in Good' /\ R("saveReceived", r.m, r.u) \in Good'
      BY <1>2, <2>1, <2>2, CopyWillBeGood DEF CopyKinds, ShownKinds
    <2>4. /\ <<R("message_update", r.m, r.u)>> \in Seq(Published(Good'))
          /\ <<>> \in Seq(Published(Good')) /\ {R("saveReceived", r.m, r.u)} \in SUBSET Good'
      <3>1. R("message_update", r.m, r.u) \in Published(Good')
        BY <2>3 DEF Published, PublishedKinds, R
      <3> QED BY <2>3, <3>1, SingleSeq
    <2> DEFINE h == WHnotifyMessageStatusReturnReceipt(p, r.m, r.u)
    <2>5. h \in {<<R("message_update", r.m, r.u)>>, <<>>}
      BY DEF WHnotifyMessageStatusReturnReceipt
    <2>6. AfterPublish(p, r) = Effect(<<>>, h, {R("saveReceived", r.m, r.u)})
      BY <1>6 DEF AfterPublish
    <2> HIDE DEF h
    <2>7. h \in Seq(Published(Good'))
      BY <2>4, <2>5
    <2> QED BY <2>4, <2>6, <2>7, EffectTypes
  <1>7. CASE r.kind = "clientdeleted"
    <2>1. R("archivedadded", 0, r.u) \in Good
      BY <1>2, NoteIsGood DEF NoteKinds
    <2>2. R("archivedadded", 0, r.u) \in Published(Good')
      BY <2>1, GoodKept DEF Published, PublishedKinds, R
    <2>3. <<R("archivedadded", 0, r.u)>> \in Seq(Published(Good')) /\ {} \in SUBSET Good'
      BY <2>2, SingleSeq
    <2>4. AfterPublish(p, r) = Publishes(<<R("archivedadded", 0, r.u)>>)
      BY <1>7 DEF AfterPublish
    <2> QED BY <2>3, <2>4, EffectTypes
  <1>8. CASE r.kind \notin {"added", "persist", "updated", "clientdeleted"}
    <2>1. AfterPublish(p, r) = Nothing
      BY <1>8 DEF AfterPublish
    <2> QED BY <1>3, <2>1
  <1> QED BY <1>4, <1>5, <1>6, <1>7, <1>8

\* The view of a message there is.
LEMMA ViewOKGrows ==
  ASSUME TypeInv, scene' = scene, NEW r \in Published(Good),
         view' = IF QueueOf(r.kind) = "none"
                 THEN [view EXCEPT ![Told(r)] = Dispatch(@, r)] ELSE view
  PROVE  ViewOK'
  <1>1. Messages' = Messages
    BY DEF Messages
  <1>2. r.kind \in {"added", "updated"} => r.m \in Messages
    BY GoodRecord DEF Published, CopyKinds
  <1>3. \A u \in Timelines : view[u].shown \subseteq Messages /\ view[u].returned \subseteq Messages
    BY DEF TypeInv, ViewOK
  <1>4. /\ view' \in [Timelines -> View]
        /\ \A u \in Timelines :
             view'[u].shown = IF r.kind = "added" /\ u = r.u THEN view[u].shown \cup {r.m}
                                                             ELSE view[u].shown
        /\ \A u \in Timelines :
             view'[u].returned = IF r.kind = "updated" /\ u = ConversWith(r.u)
                                 THEN view[u].returned \cup {r.m} ELSE view[u].returned
    BY ConfirmViews
  <1>5. ASSUME NEW u \in Timelines
        PROVE  view'[u].shown \subseteq Messages /\ view'[u].returned \subseteq Messages
    <2>1. view[u].shown \subseteq Messages /\ view[u].returned \subseteq Messages
      BY <1>3
    <2>2. view'[u].shown \subseteq Messages
      <3>1. CASE r.kind = "added" /\ u = r.u
        <4>1. view'[u].shown = view[u].shown \cup {r.m}
          BY <1>4, <3>1
        <4> QED BY <1>2, <2>1, <3>1, <4>1
      <3>2. CASE ~ (r.kind = "added" /\ u = r.u)
        <4>1. view'[u].shown = view[u].shown
          BY <1>4, <3>2
        <4> QED BY <2>1, <4>1
      <3> QED BY <3>1, <3>2
    <2>3. view'[u].returned \subseteq Messages
      <3>1. CASE r.kind = "updated" /\ u = ConversWith(r.u)
        <4>1. view'[u].returned = view[u].returned \cup {r.m}
          BY <1>4, <3>1
        <4> QED BY <1>2, <2>1, <3>1, <4>1
      <3>2. CASE ~ (r.kind = "updated" /\ u = ConversWith(r.u))
        <4>1. view'[u].returned = view[u].returned
          BY <1>4, <3>2
        <4> QED BY <2>1, <4>1
      <3> QED BY <3>1, <3>2
    <2> QED BY <2>2, <2>3
  <1> QED BY <1>1, <1>4, <1>5 DEF ViewOK

\* What a confirmation does: its publication leaves the wire, its callback runs.
After(p, c) == AfterPublish(p, Head(wire[p][c]))
Rest(p, c) == [wire[p] EXCEPT ![c] = Tail(@)]

LEMMA ConfirmEffect ==
  ASSUME TypeInv, NEW p \in Deployed, NEW c \in Conns, Confirm(p, c)
  PROVE  /\ p \in Procs /\ wire[p][c] # <<>> /\ Head(wire[p][c]) \in Published(Good)
         /\ ViewGrows /\ ViewOK' /\ Good \subseteq Good'
         /\ Do(p, After(p, c), Rest(p, c), pending[p])
         /\ After(p, c) \in EffectsOf(Good')
         /\ Rest(p, c) \in [Conns -> Seq(Published(Good'))]
         /\ wire \in [Procs -> [Conns -> Seq(Published(Good'))]]
         /\ pending \in [Procs -> SUBSET Good']
         /\ Told(Head(wire[p][c])) \in Timelines
  <1> DEFINE r == Head(wire[p][c])
             e == After(p, c)
             rest == Rest(p, c)
  <1>1. /\ UNCHANGED <<scene, left, link, declared, messages, conversations, group, posted,
                       read, announced>>
        /\ wire[p][c] # <<>> /\ Do(p, e, rest, pending[p]) /\ Enqueue(r)
        /\ lost' = (lost \/ Lose(p, e) \/ Unroutable(r))
        /\ raced' = IF r.kind = "added" /\ Busy(Told(r)) THEN raced \cup {Told(r)} ELSE raced
        /\ view' = IF QueueOf(r.kind) = "none"
                   THEN [view EXCEPT ![Told(r)] = Dispatch(@, r)] ELSE view
    BY DEF Confirm, After, Rest
  <1>2. p \in Procs
    BY Environments DEF TypeInv
  <1>3. wire[p] \in [Conns -> Seq(Published(Good))] /\ pending[p] \subseteq Good
    BY <1>2 DEF TypeInv, ServerOK
  <1>4. r \in Published(Good) /\ rest \in [Conns -> Seq(Published(Good))]
    <2>1. wire[p][c] \in Seq(Published(Good))
      BY <1>3
    <2>2. r \in Published(Good) /\ Tail(wire[p][c]) \in Seq(Published(Good))
      BY <1>1, <2>1, HeadTailProperties
    <2> QED BY <1>3, <2>2 DEF Rest
  <1> HIDE DEF r, rest
  <1>5. ViewGrows /\ ViewOK'
    BY <1>1, <1>4, ConfirmViews, ViewOKGrows
  <1>6. r.u \in Timelines /\ ConversWith(r.u) \in Timelines /\ Told(r) \in Timelines
    BY <1>4, GoodRecord, ConversType DEF Published, Told
  <1>7. e \in EffectsOf(Good')
    <2>1. r.kind = "added" => r.m \in view'[r.u].shown
      BY <1>1, <1>4, <1>6, ConfirmViews
    <2>2. r.kind = "updated" => r.m \in view'[ConversWith(r.u)].returned
      BY <1>1, <1>4, <1>6, ConfirmViews
    <2> QED BY <1>1, <1>4, <1>5, <2>1, <2>2, AfterPublishType DEF After, r
  <1> HIDE DEF e
  <1>8. Good \subseteq Good'
    BY <1>1, <1>5, GoodKept
  <1>9. /\ wire \in [Procs -> [Conns -> Seq(Published(Good'))]]
        /\ pending \in [Procs -> SUBSET Good']
    BY <1>8, Wider DEF TypeInv, ServerOK
  <1>10. rest \in [Conns -> Seq(Published(Good'))]
    <2>1. Seq(Published(Good)) \subseteq Seq(Published(Good'))
      <3>1. Published(Good) \subseteq Published(Good')
        BY <1>8 DEF Published
      <3> QED BY <3>1, SeqMonotonic
    <2> QED BY <1>4, <2>1
  <1> QED BY <1>1, <1>2, <1>4, <1>5, <1>6, <1>7, <1>8, <1>9, <1>10 DEF r, e, rest

LEMMA ConfirmTypes ==
  ASSUME TypeInv, NEW p \in Deployed, NEW c \in Conns, Confirm(p, c) PROVE TypeInv'
  <1> DEFINE r == Head(wire[p][c])
  <1>1. /\ UNCHANGED <<scene, left, link, declared, messages, conversations, group, posted,
                       read, announced>>
        /\ Enqueue(r) /\ lost' = (lost \/ Lose(p, After(p, c)) \/ Unroutable(r))
        /\ raced' = IF r.kind = "added" /\ Busy(Told(r)) THEN raced \cup {Told(r)} ELSE raced
    BY DEF Confirm, After
  <1>2. /\ wire' \in [Procs -> [Conns -> Seq(Published(Good'))]]
        /\ pending' \in [Procs -> SUBSET Good']
    <2>1. pending[p] \in SUBSET Good'
      BY ConfirmEffect
    <2>2. Cancels(Good', p)
      BY <1>1, ConfirmEffect, GoodWillCancel
    <2> QED BY <2>1, <2>2, ConfirmEffect, DoTypes
  <1>3. r \in Good' /\ Told(r) \in Timelines /\ ViewGrows /\ ViewOK'
    BY ConfirmEffect DEF Published
  <1> HIDE DEF r
  <1>4. /\ queue' \in [Queues -> Seq(Good)']
        /\ \A k \in Queues : queue'[k] \in Seq(GoodFor(k)')
    BY <1>1, <1>3, EnqueueTypes DEF TypeInv
  <1>5. ServerOK'
    <2>1. Published(Good)' = Published(Good')
      BY DEF Published
    <2> QED BY <1>1, <1>2, <1>4, <2>1 DEF TypeInv, ServerOK
  <1>6. lost' \in BOOLEAN /\ raced' \subseteq Timelines
    BY <1>1, <1>3 DEF TypeInv, ClientsOK, Lose, Unroutable
  <1>7. SceneOK' /\ StoreOK' /\ ClientsOK'
    BY <1>1, <1>3, <1>6, SceneStays, StoreStays, ClientsStay DEF TypeInv
  <1> QED BY <1>3, <1>5, <1>7 DEF TypeInv

(***************************************************************************)
(* Types: MongoDB.                                                         *)
(***************************************************************************)

LEMMA StoreTypes ==
  ASSUME TypeInv, NEW r \in Good, scene' = scene, group' = group,
         saveOrUpdateMessage(r), saveOrUpdateConversation(r)
  PROVE  StoreOK'
  <1>1. Messages' = Messages
    BY DEF Messages
  <1>2. /\ messages \in [Timelines -> [Messages -> Status]]
        /\ conversations \in [Timelines -> Conversation] /\ group \subseteq Users
        /\ \A u \in Timelines : conversations[u].last \in Messages \cup {0}
    BY DEF TypeInv, StoreOK
  <1>3. r.u \in Timelines /\ ConversWith(r.u) \in Timelines
    BY GoodRecord, ConversType
  <1>4. r.kind \in CopyKinds => r.m \in Messages /\ r.m \in Nat
    BY GoodRecord
  <1>5. messages' \in [Timelines -> [Messages -> Status]]
    <2>1. StatusOf(r.m, r.u) \in Status /\ RECEIVED \in Status /\ RETURN_RECEIPT \in Status
      BY DEF StatusOf, Status
    <2>2. ASSUME NEW u \in Timelines, NEW m \in Messages, NEW x \in Status,
                 messages' = [messages EXCEPT ![u][m] = x]
          PROVE  messages' \in [Timelines -> [Messages -> Status]]
      BY <1>2, <2>2
    <2>3. CASE r.kind = "saveMessage"
      <3>1. messages' = [messages EXCEPT ![r.u][r.m] = StatusOf(r.m, r.u)]
        BY <2>3 DEF saveOrUpdateMessage
      <3>2. r.m \in Messages
        BY <1>4, <2>3 DEF CopyKinds
      <3> QED BY <1>3, <2>1, <2>2, <3>1, <3>2
    <2>4. CASE r.kind = "saveReceived"
      <3>1. messages' = [messages EXCEPT ![r.u][r.m] = RECEIVED]
        BY <2>4 DEF saveOrUpdateMessage
      <3>2. r.m \in Messages
        BY <1>4, <2>4 DEF CopyKinds
      <3> QED BY <1>3, <2>1, <2>2, <3>1, <3>2
    <2>5. CASE r.kind = "saveReturned"
      <3>1. messages' = [messages EXCEPT ![ConversWith(r.u)][r.m] = RETURN_RECEIPT]
        BY <2>5 DEF saveOrUpdateMessage
      <3>2. r.m \in Messages
        BY <1>4, <2>5 DEF CopyKinds
      <3> QED BY <1>3, <2>1, <2>2, <3>1, <3>2
    <2>6. CASE r.kind \notin {"saveMessage", "saveReceived", "saveReturned"}
      BY <1>2, <2>6 DEF saveOrUpdateMessage
    <2> QED BY <2>3, <2>4, <2>5, <2>6
  <1>6. /\ conversations' \in [Timelines -> Conversation]
        /\ \A u \in Timelines : conversations'[u].last \in Messages \cup {0}
    <2> DEFINE old == conversations[r.u]
    <2>1. old \in Conversation /\ old.last \in Messages \cup {0}
      BY <1>2, <1>3
    <2>2. ASSUME NEW x \in Conversation, x.last \in Messages \cup {0},
                 conversations' = [conversations EXCEPT ![r.u] = x]
          PROVE  /\ conversations' \in [Timelines -> Conversation]
                 /\ \A u \in Timelines : conversations'[u].last \in Messages \cup {0}
      BY <1>2, <1>3, <2>2
    <2>3. CASE r.kind = "saveConversation"
      <3> DEFINE x == [last |-> r.m, archived |-> FALSE, is_new |-> TRUE, app |-> TRUE]
      <3>1. conversations' = [conversations EXCEPT ![r.u] = x]
        BY <2>3 DEF saveOrUpdateConversation
      <3>2. x \in Conversation /\ x.last \in Messages \cup {0}
        BY <1>4, <2>3 DEF Conversation, CopyKinds
      <3> QED BY <2>2, <3>1, <3>2
    <2>4. CASE r.kind = "saveIsNew"
      <3> DEFINE x == [old EXCEPT !.is_new = FALSE]
      <3>1. conversations' = [conversations EXCEPT ![r.u] = x]
        BY <2>4 DEF saveOrUpdateConversation
      <3>2. x \in Conversation /\ x.last \in Messages \cup {0}
        BY <2>1 DEF Conversation
      <3> QED BY <2>2, <3>1, <3>2
    <2>5. CASE r.kind = "saveArchived"
      <3> DEFINE x == [old EXCEPT !.archived = TRUE]
      <3>1. conversations' = [conversations EXCEPT ![r.u] = x]
        BY <2>5 DEF saveOrUpdateConversation
      <3>2. x \in Conversation /\ x.last \in Messages \cup {0}
        BY <2>1 DEF Conversation
      <3> QED BY <2>2, <3>1, <3>2
    <2>6. CASE r.kind \notin {"saveConversation", "saveIsNew", "saveArchived"}
      BY <1>2, <2>6 DEF saveOrUpdateConversation
    <2> QED BY <2>3, <2>4, <2>5, <2>6
  <1> QED BY <1>1, <1>2, <1>5, <1>6 DEF StoreOK

\* What the callback of an operation does, answered or failed.
LEMMA AfterMongoType ==
  ASSUME TypeInv, NEW r \in Good
  PROVE  AfterMongo(r) \in EffectsOf(Good) /\ AfterMongoError(r) \in EffectsOf(Good)
  <1>1. r.u \in Timelines
    BY GoodRecord
  <1>2. Nothing \in EffectsOf(Good)
    BY AsksType
  <1>3. CASE r.kind = "saveMessage"
    <2>1. r.m \in Messages /\ r.m \in view[r.u].shown
      BY <1>3, GoodRecord DEF CopyKinds, ShownKinds
    <2>2. R("saveConversation", r.m, r.u) \in Good
      BY <1>1, <2>1, MessagesAreNumbers, CopyIsGood DEF CopyKinds, ShownKinds
    <2>3. Asks(R("saveConversation", r.m, r.u)) \in EffectsOf(Good)
      BY <2>2, AsksType
    <2>4. AfterMongo(r) \in {Asks(R("saveConversation", r.m, r.u)), Nothing}
      BY <1>3 DEF AfterMongo
    <2>5. AfterMongoError(r) = AfterMongo(r)
      BY <1>3 DEF AfterMongoError
    <2> QED BY <1>2, <2>3, <2>4, <2>5
  <1>4. CASE r.kind = "saveReceived"
    <2>1. r.m \in Messages /\ r.m \in view[r.u].shown /\ Returned(r.m, r.u)
      BY <1>4, GoodRecord DEF CopyKinds, ShownKinds
    <2>2. R("saveReturned", r.m, r.u) \in Good
      BY <1>1, <2>1, MessagesAreNumbers, CopyIsGood DEF CopyKinds, ShownKinds
    <2>3. AfterMongo(r) = Asks(R("saveReturned", r.m, r.u)) /\ AfterMongoError(r) = Nothing
      BY <1>4 DEF AfterMongo, AfterMongoError
    <2> QED BY <1>2, <2>2, <2>3, AsksType
  <1>5. CASE r.kind = "saveIsNew"
    <2>1. AfterMongo(r) = Publishes(<<R("convupdated", 0, r.u)>>) /\ AfterMongoError(r) = Nothing
      BY <1>5 DEF AfterMongo, AfterMongoError
    <2>2. R("convupdated", 0, r.u) \in Good
      BY <1>1, NoteIsGood DEF NoteKinds
    <2> QED BY <1>2, <2>1, <2>2, PublishesGood DEF PublishedKinds
  <1>6. CASE r.kind = "saveArchived"
    <2>1. AfterMongo(r) = Asks(R("detail", 0, r.u)) /\ AfterMongoError(r) = Nothing
      BY <1>6 DEF AfterMongo, AfterMongoError
    <2>2. R("detail", 0, r.u) \in Good
      BY <1>1, NoteIsGood DEF NoteKinds
    <2> QED BY <1>2, <2>1, <2>2, AsksType
  <1>7. CASE r.kind = "detail"
    <2>1. /\ AfterMongo(r) \in {Publishes(<<R("clientdeleted", 0, r.u)>>), Nothing}
          /\ AfterMongoError(r) = Nothing
      BY <1>7 DEF AfterMongo, AfterMongoError
    <2>2. R("clientdeleted", 0, r.u) \in Good
      BY <1>1, NoteIsGood DEF NoteKinds
    <2>3. Publishes(<<R("clientdeleted", 0, r.u)>>) \in EffectsOf(Good)
      BY <2>2, PublishesGood DEF PublishedKinds
    <2> QED BY <1>2, <2>1, <2>3
  <1>8. CASE r.kind = "getGroup"
    <2>1. AfterMongo(r) = GroupFound(r, group) /\ AfterMongoError(r) = GroupFound(r, {})
      BY <1>8 DEF AfterMongo, AfterMongoError
    <2>2. r.m \in Messages
      BY <1>8, GoodRecord DEF CopyKinds
    <2> QED BY <2>1, <2>2, FoundType
  <1>9. CASE r.kind \notin {"saveMessage", "saveReceived", "saveIsNew", "saveArchived",
                            "detail", "getGroup"}
    BY <1>2, <1>9 DEF AfterMongo, AfterMongoError
  <1> QED BY <1>3, <1>4, <1>5, <1>6, <1>7, <1>8, <1>9

LEMMA AskedTypes ==
  ASSUME TypeInv, NEW p \in Deployed, NEW r \in pending[p], NEW e \in EffectsOf(Good),
         Do(p, e, wire[p], pending[p] \ {r})
  PROVE  /\ wire' \in [Procs -> [Conns -> Seq(Published(Good))]]
         /\ pending' \in [Procs -> SUBSET Good]
  <1>1. p \in Procs
    BY Environments DEF TypeInv
  <1>2. wire \in [Procs -> [Conns -> Seq(Published(Good))]] /\ pending \in [Procs -> SUBSET Good]
    BY DEF TypeInv, ServerOK
  <1>3. wire[p] \in [Conns -> Seq(Published(Good))] /\ pending[p] \ {r} \in SUBSET Good
    BY <1>1, <1>2
  <1> QED BY <1>1, <1>2, <1>3, GoodCancels, DoTypes

LEMMA PendingIsGood ==
  ASSUME TypeInv, NEW p \in Deployed, NEW r \in pending[p] PROVE r \in Good
  BY Environments DEF TypeInv, ServerOK

LEMMA MongoAnswersTypes ==
  ASSUME TypeInv, NEW p \in Deployed, MongoAnswers(p) PROVE TypeInv'
  <1>1. PICK r \in pending[p] :
          /\ saveOrUpdateMessage(r) /\ saveOrUpdateConversation(r)
          /\ Do(p, AfterMongo(r), wire[p], pending[p] \ {r})
          /\ lost' = (lost \/ Lose(p, AfterMongo(r)))
          /\ UNCHANGED <<scene, left, link, declared, queue, group, view, posted, read,
                         announced, raced>>
    BY DEF MongoAnswers
  <1>2. r \in Good
    BY PendingIsGood
  <1>3. StoreOK'
    BY <1>1, <1>2, StoreTypes
  <1>4. /\ wire' \in [Procs -> [Conns -> Seq(Published(Good))]]
        /\ pending' \in [Procs -> SUBSET Good]
    BY <1>1, <1>2, AfterMongoType, AskedTypes
  <1>5. ServerOK'
    BY <1>1, <1>4, GoodSame DEF TypeInv, ServerOK
  <1>6. lost' \in BOOLEAN /\ raced' \subseteq Timelines
    BY <1>1 DEF TypeInv, ClientsOK, Lose
  <1>7. SceneOK' /\ ViewOK' /\ ClientsOK'
    BY <1>1, <1>6, SceneStays, ViewOKStays, ViewStays, ClientsStay DEF TypeInv
  <1> QED BY <1>3, <1>5, <1>7 DEF TypeInv

LEMMA MongoFailsTypes ==
  ASSUME TypeInv, NEW p \in Deployed, MongoFails(p) PROVE TypeInv'
  <1>1. PICK r \in pending[p] : Do(p, AfterMongoError(r), wire[p], pending[p] \ {r})
    BY DEF MongoFails
  <1>2. r \in Good
    BY PendingIsGood
  <1>3. /\ wire' \in [Procs -> [Conns -> Seq(Published(Good))]]
        /\ pending' \in [Procs -> SUBSET Good]
    BY <1>1, <1>2, AfterMongoType, AskedTypes
  <1>4. ServerOK'
    BY <1>3, GoodSame DEF TypeInv, ServerOK, MongoFails
  <1>5. SceneOK'
    <2>1. "fails" \in Bounds
      BY DEF Bounds
    <2> QED BY <2>1, SceneSpends DEF TypeInv, MongoFails
  <1>6. lost' \in BOOLEAN /\ raced' \subseteq Timelines
    BY DEF TypeInv, ClientsOK, MongoFails
  <1>7. StoreOK' /\ ViewOK' /\ ClientsOK'
    BY <1>6, StoreStays, ViewOKStays, ViewStays, ClientsStay DEF TypeInv, MongoFails
  <1> QED BY <1>4, <1>5, <1>7 DEF TypeInv

(***************************************************************************)
(* Types: the connections.                                                 *)
(***************************************************************************)

LEMMA LinkTypes ==
  ASSUME NEW l \in [Procs -> [Conns -> LinkState]], NEW p \in Procs, NEW c \in Conns,
         NEW x \in LinkState
  PROVE  [l EXCEPT ![p][c] = x] \in [Procs -> [Conns -> LinkState]]
  OBVIOUS

LEMMA LinkStepTypes ==
  ASSUME TypeInv, link' \in [Procs -> [Conns -> LinkState]], declared' \subseteq Queues,
         UNCHANGED <<scene, left, queue, wire, pending, messages, conversations, group, view,
                     posted, read, announced, lost, raced>>
  PROVE  TypeInv'
  <1>1. /\ queue \in [Queues -> Seq(Good)] /\ \A k \in Queues : queue[k] \in Seq(GoodFor(k))
        /\ wire \in [Procs -> [Conns -> Seq(Published(Good))]]
        /\ pending \in [Procs -> SUBSET Good] /\ lost \in BOOLEAN
    BY DEF TypeInv, ServerOK, ClientsOK
  <1> QED BY <1>1, OtherTypes

LEMMA ConsumesQueues ==
  ASSUME SceneOK, NEW p \in Deployed, NEW c \in Conns, Starts(p)
  PROVE  Consumes(p, c) \subseteq Queues
  BY DEF Consumes, Starts, Topics, Queues

LEMMA LinksTypes ==
  ASSUME TypeInv, StartedOnly, NEW p \in Deployed,
         startServer(p) \/ \E c \in Conns : startMQ(p, c) \/ startWorker(p, c)
  PROVE  TypeInv'
  <1>1. p \in Procs
    BY Environments DEF TypeInv
  <1>2. link \in [Procs -> [Conns -> LinkState]] /\ declared \subseteq Queues
    BY DEF TypeInv, ServerOK
  <1>3. {"connecting", "publishing", "consuming", "mute"} \subseteq LinkState
    BY DEF LinkState, Connected
  <1>4. CASE startServer(p)
    <2> DEFINE c == IF WebhookEnabled(p) THEN "webhooks" ELSE "observer"
    <2>1. c \in Conns
      BY DEF Conns
    <2>2. link' = [link EXCEPT ![p][c] = "connecting"]
      BY <1>4 DEF startServer
    <2> HIDE DEF c
    <2>3. link' \in [Procs -> [Conns -> LinkState]]
      BY <1>1, <1>2, <1>3, <2>1, <2>2, LinkTypes
    <2> QED BY <1>2, <1>4, <2>3, LinkStepTypes DEF startServer
  <1>5. ASSUME NEW c \in Conns, startMQ(p, c) PROVE TypeInv'
    <2> DEFINE l == [link EXCEPT ![p][c] = "publishing"]
               x == IF c = "observer" THEN "publishing"
                    ELSE IF l[p]["observer"] = "off" THEN "connecting" ELSE l[p]["observer"]
    <2>1. l \in [Procs -> [Conns -> LinkState]]
      BY <1>1, <1>2, <1>3, LinkTypes
    <2>2. link' = [l EXCEPT ![p]["observer"] = x]
      BY <1>5 DEF startMQ
    <2> HIDE DEF l
    <2>3. x \in LinkState /\ "observer" \in Conns
      BY <1>1, <1>3, <2>1 DEF Conns
    <2> HIDE DEF x
    <2>4. link' \in [Procs -> [Conns -> LinkState]]
      BY <1>1, <2>1, <2>2, <2>3, LinkTypes
    <2> QED BY <1>2, <1>5, <2>4, LinkStepTypes DEF startMQ
  <1>6. ASSUME NEW c \in Conns, startWorker(p, c) PROVE TypeInv'
    <2> DEFINE x == IF link[p][c] = "silent" THEN "mute" ELSE "consuming"
    <2>1. link' = [link EXCEPT ![p][c] = x] /\ link[p][c] # "off"
            /\ declared' = declared \cup Consumes(p, c)
      BY <1>6 DEF startWorker
    <2>2. link' \in [Procs -> [Conns -> LinkState]]
      <3>1. x \in LinkState
        BY <1>3
      <3> HIDE DEF x
      <3> QED BY <1>1, <1>2, <2>1, <3>1, LinkTypes
    <2>3. Consumes(p, c) \subseteq Queues
      BY <2>1, ConsumesQueues DEF StartedOnly, TypeInv
    <2> QED BY <1>2, <1>6, <2>1, <2>2, <2>3, LinkStepTypes DEF startWorker
  <1> QED BY <1>4, <1>5, <1>6

LEMMA StartedStays ==
  ASSUME StartedOnly, scene' = scene, link' = link PROVE StartedOnly'
  BY DEF StartedOnly, Starts, ActiveQueues, Deployed

\* What breaks empties wires, and the exit of a process what it asked for.
Broken(p) ==
  /\ left' = [left EXCEPT !.drops = @ - 1] /\ left.drops > 0
  /\ \A q \in Procs : q # p => UNCHANGED <<link[q], wire[q], pending[q]>>
  /\ \A c \in Conns : wire'[p][c] \in {wire[p][c], <<>>}
  /\ pending'[p] \in {pending[p], {}}
  /\ lost' = (lost \/ pending'[p] # pending[p] \/ \E c \in Conns : wire'[p][c] # wire[p][c])
  /\ \E c \in Conns : link[p][c] # "off"
  /\ UNCHANGED <<scene, declared, queue, messages, conversations, group, view, posted, read,
                 announced, raced>>

LEMMA BreaksTypes ==
  ASSUME TypeInv, NEW p \in Deployed, Breaks(p)
  PROVE  /\ Broken(p)
         /\ link' \in [Procs -> [Conns -> LinkState]]
         /\ wire' \in [Procs -> [Conns -> Seq(Published(Good))]]
         /\ pending' \in [Procs -> SUBSET Good]
  <1>1. p \in Procs
    BY Environments DEF TypeInv
  <1>2. /\ link \in [Procs -> [Conns -> LinkState]]
        /\ wire \in [Procs -> [Conns -> Seq(Published(Good))]]
        /\ pending \in [Procs -> SUBSET Good]
    BY DEF TypeInv, ServerOK
  <1>3. "webhooks" \in Conns /\ "observer" \in Conns
    BY DEF Conns
  <1>4. <<>> \in Seq(Published(Good)) /\ {} \in SUBSET Good
    OBVIOUS
  <1>5. ASSUME NEW c \in Conns, NEW x \in LinkState, link' = [link EXCEPT ![p][c] = x],
               link[p][c] # "off", left.drops > 0, left' = [left EXCEPT !.drops = @ - 1],
               \/ wire' = [wire EXCEPT ![p][c] = <<>>] /\ lost' = (lost \/ wire[p][c] # <<>>)
               \/ wire' = wire /\ lost' = lost,
               UNCHANGED <<scene, declared, queue, pending, messages, conversations, group,
                           view, posted, read, announced, raced>>
        PROVE  /\ Broken(p)
               /\ link' \in [Procs -> [Conns -> LinkState]]
               /\ wire' \in [Procs -> [Conns -> Seq(Published(Good))]]
               /\ pending' \in [Procs -> SUBSET Good]
    <2>1. link' \in [Procs -> [Conns -> LinkState]] /\ \A q \in Procs : q # p => link'[q] = link[q]
      BY <1>1, <1>2, <1>5, LinkTypes
    <2>2. pending' \in [Procs -> SUBSET Good]
      BY <1>2, <1>5
    <2>3. CASE wire' = wire /\ lost' = lost
      BY <1>2, <1>5, <2>1, <2>2, <2>3 DEF Broken, TypeInv, ClientsOK
    <2>4. CASE wire' = [wire EXCEPT ![p][c] = <<>>] /\ lost' = (lost \/ wire[p][c] # <<>>)
      <3>1. wire' \in [Procs -> [Conns -> Seq(Published(Good))]]
        BY <1>1, <1>2, <1>4, <2>4
      <3>2. /\ wire'[p][c] = <<>> /\ \A d \in Conns : d # c => wire'[p][d] = wire[p][d]
            /\ \A q \in Procs : q # p => wire'[q] = wire[q]
        BY <1>1, <1>2, <2>4
      <3>3. (\E d \in Conns : wire'[p][d] # wire[p][d]) <=> wire[p][c] # <<>>
        BY <3>2
      <3>4. \A d \in Conns : wire'[p][d] \in {wire[p][d], <<>>}
        BY <3>2
      <3>5. lost' = (lost \/ pending'[p] # pending[p] \/ \E d \in Conns : wire'[p][d] # wire[p][d])
        BY <1>5, <2>4, <3>3
      <3> QED BY <1>5, <2>1, <2>2, <3>1, <3>2, <3>4, <3>5 DEF Broken
    <2> QED BY <1>5, <2>3, <2>4
  <1>6. ASSUME NEW c \in Conns, Drop(p, c)
        PROVE  /\ Broken(p)
               /\ link' \in [Procs -> [Conns -> LinkState]]
               /\ wire' \in [Procs -> [Conns -> Seq(Published(Good))]]
               /\ pending' \in [Procs -> SUBSET Good]
    BY <1>5, <1>6 DEF Drop, Connected, LinkState
  <1>7. CASE PublisherFails(p)
    <2> DEFINE x == CASE link[p]["webhooks"] = "publishing" -> "silent"
                      [] link[p]["webhooks"] = "consuming" -> "mute"
                      [] OTHER -> "broken"
    <2>1. x \in LinkState /\ link' = [link EXCEPT ![p]["webhooks"] = x]
      BY <1>7 DEF PublisherFails, LinkState, Connected
    <2>2. link[p]["webhooks"] # "off"
      BY <1>7 DEF PublisherFails, Up
    <2> HIDE DEF x
    <2> QED BY <1>3, <1>5, <1>7, <2>1, <2>2 DEF PublisherFails
  <1>8. CASE WorkerFails(p)
    <2> DEFINE x == IF link[p]["webhooks"] = "mute" THEN "broken" ELSE "deaf"
    <2>1. x \in LinkState /\ link' = [link EXCEPT ![p]["webhooks"] = x]
      BY <1>8 DEF WorkerFails, LinkState, Connected
    <2>2. link[p]["webhooks"] # "off"
      BY <1>8 DEF WorkerFails
    <2> HIDE DEF x
    <2> QED BY <1>3, <1>5, <1>8, <2>1, <2>2 DEF WorkerFails
  <1>9. CASE Exit(p)
    <2> DEFINE off == [c \in Conns |-> "off"]  empty == [c \in Conns |-> <<>>]
    <2>1. /\ link' = [link EXCEPT ![p] = off] /\ wire' = [wire EXCEPT ![p] = empty]
          /\ pending' = [pending EXCEPT ![p] = {}]
          /\ lost' = (lost \/ pending[p] # {} \/ \E c \in Conns : wire[p][c] # <<>>)
          /\ left' = [left EXCEPT !.drops = @ - 1] /\ left.drops > 0
          /\ UNCHANGED <<scene, declared, queue, messages, conversations, group, view, posted,
                         read, announced, raced>>
          /\ link[p]["observer"] # "off"
      BY <1>9 DEF Exit, Up
    <2>2. off \in [Conns -> LinkState] /\ empty \in [Conns -> Seq(Published(Good))]
      BY <1>4 DEF LinkState
    <2>3. \A c \in Conns : empty[c] = <<>>
      OBVIOUS
    <2> HIDE DEF off, empty
    <2>4. /\ link' \in [Procs -> [Conns -> LinkState]]
          /\ wire' \in [Procs -> [Conns -> Seq(Published(Good))]]
          /\ pending' \in [Procs -> SUBSET Good]
      BY <1>1, <1>2, <1>4, <2>1, <2>2
    <2>5. /\ \A q \in Procs : q # p => UNCHANGED <<link[q], wire[q], pending[q]>>
          /\ pending'[p] = {} /\ \A c \in Conns : wire'[p][c] = <<>>
      BY <1>1, <1>2, <2>1, <2>3
    <2>6. lost' = (lost \/ pending'[p] # pending[p]
                        \/ \E c \in Conns : wire'[p][c] # wire[p][c])
      BY <2>1, <2>5
    <2> QED BY <1>3, <2>1, <2>4, <2>5, <2>6 DEF Broken
  <1> QED BY <1>6, <1>7, <1>8, <1>9 DEF Breaks

LEMMA BrokenTypes ==
  ASSUME TypeInv, NEW p \in Deployed, Breaks(p) PROVE TypeInv'
  <1>1. /\ Broken(p)
        /\ link' \in [Procs -> [Conns -> LinkState]]
        /\ wire' \in [Procs -> [Conns -> Seq(Published(Good))]]
        /\ pending' \in [Procs -> SUBSET Good]
    BY BreaksTypes
  <1>2. /\ left' = [left EXCEPT !.drops = @ - 1] /\ left.drops > 0
        /\ UNCHANGED <<scene, declared, queue, messages, conversations, group, view, posted,
                       read, announced, raced>>
        /\ lost' \in BOOLEAN
    BY <1>1 DEF Broken, TypeInv, ClientsOK
  <1>3. ServerOK'
    BY <1>1, <1>2, GoodSame DEF TypeInv, ServerOK
  <1>4. SceneOK'
    <2>1. "drops" \in Bounds
      BY DEF Bounds
    <2> QED BY <1>2, <2>1, SceneSpends DEF TypeInv
  <1>5. raced' \subseteq Timelines
    BY <1>2 DEF TypeInv, ClientsOK
  <1>6. StoreOK' /\ ViewOK' /\ ClientsOK'
    BY <1>2, <1>5, StoreStays, ViewOKStays, ViewStays, ClientsStay DEF TypeInv
  <1> QED BY <1>3, <1>4, <1>6 DEF TypeInv

(***************************************************************************)
(* Types: the clients and the chat21-http-server.                          *)
(***************************************************************************)

LEMMA SendsTypes ==
  ASSUME TypeInv, NEW r \in Good, NEW k \in Bounds, Sends(r, k),
         group' \subseteq Users, read' \in [Timelines -> SUBSET Messages],
         announced' \subseteq Users, raced' \subseteq Timelines
  PROVE  TypeInv'
  <1>1. /\ left[k] > 0 /\ left' = [left EXCEPT ![k] = @ - 1] /\ Enqueue(r)
        /\ lost' = (lost \/ Unroutable(r))
        /\ UNCHANGED <<scene, link, declared, wire, pending, messages, conversations, view,
                       posted>>
    BY DEF Sends
  <1>2. Messages' = Messages /\ Good' = Good /\ \A j : GoodFor(j)' = GoodFor(j)
    BY <1>1, GoodSame
  <1>3. SceneOK'
    BY <1>1, SceneSpends DEF TypeInv
  <1>4. /\ queue' \in [Queues -> Seq(Good)']
        /\ \A j \in Queues : queue'[j] \in Seq(GoodFor(j)')
    BY <1>1, <1>2, ViewStays, EnqueueTypes DEF TypeInv
  <1>5. ServerOK'
    <2>1. Published(Good)' = Published(Good)
      BY <1>2 DEF Published
    <2> QED BY <1>1, <1>2, <1>4, <2>1 DEF TypeInv, ServerOK
  <1>6. ClientsOK'
    BY <1>1, <1>2 DEF TypeInv, ClientsOK, Unroutable
  <1>7. StoreOK' /\ ViewOK'
    BY <1>1, <1>2, ViewOKStays DEF TypeInv, StoreOK
  <1> QED BY <1>3, <1>5, <1>6, <1>7 DEF TypeInv

LEMMA ClientsTypes ==
  ASSUME TypeInv, Clients PROVE TypeInv'
  <1>1. /\ group \subseteq Users /\ read \in [Timelines -> SUBSET Messages]
        /\ announced \subseteq Users /\ raced \subseteq Timelines
    BY DEF TypeInv, StoreOK, ClientsOK
  <1>2. /\ scene.bound.msgs \in Nat /\ scene.bound.injected \in Nat
        /\ Messages = 1 .. (scene.bound.msgs + scene.bound.injected)
    BY BoundNumbers DEF TypeInv, Messages
  <1>3. /\ left \in [Bounds -> Nat]
        /\ left.msgs \in Nat /\ left.msgs <= scene.bound.msgs
        /\ left.injected \in Nat /\ left.injected <= scene.bound.injected
    BY DEF TypeInv, SceneOK, Bounds
  <1>4. \A u \in Users : u \in Timelines
    BY DEF Timelines
  <1>5. CASE sendMessage
    <2> DEFINE m == scene.bound.msgs - left.msgs + 1
    <2>1. Sends(R("outgoing", m, Sender), "msgs") /\ left.msgs > 0
            /\ UNCHANGED <<group, read, announced, raced>>
      BY <1>5 DEF sendMessage, Sends
    <2>2. m \in Messages
      BY <1>2, <1>3, <2>1
    <2> HIDE DEF m
    <2>3. R("outgoing", m, Sender) \in Good
      BY <2>2, MessagesAreNumbers, People, CopyIsGood DEF CopyKinds, ShownKinds
    <2> QED BY <1>1, <2>1, <2>3, SendsTypes DEF Bounds
  <1>6. CASE deliverFromHttp
    <2> DEFINE m == scene.bound.msgs + scene.bound.injected - left.injected + 1
    <2>1. Sends(R("delivered", m, Receiver), "injected") /\ left.injected > 0
            /\ UNCHANGED <<group, read, announced, raced>>
      BY <1>6 DEF deliverFromHttp, Sends
    <2>2. m \in Messages
      BY <1>2, <1>3, <2>1
    <2> HIDE DEF m
    <2>3. R("delivered", m, Receiver) \in Good
      BY <2>2, MessagesAreNumbers, People, CopyIsGood DEF CopyKinds, ShownKinds
    <2> QED BY <1>1, <2>1, <2>3, SendsTypes DEF Bounds
  <1>7. CASE updateGroup
    <2>1. /\ Sends(R("groups.update", 0, Group), "groups") /\ group' = Users
          /\ UNCHANGED <<read, announced, raced>>
      BY <1>7 DEF updateGroup
    <2>2. R("groups.update", 0, Group) \in Good
      BY People, NoteIsGood DEF NoteKinds
    <2>3. group' \subseteq Users
      BY <2>1
    <2> QED BY <1>1, <2>1, <2>2, <2>3, SendsTypes DEF Bounds
  <1>8. ASSUME NEW u \in Users, updateConversationIsNew(u) PROVE TypeInv'
    <2>1. /\ Sends(R("is_new", 0, u), "news") /\ UNCHANGED <<group, read, announced>>
          /\ raced' \subseteq raced \cup {u}
      BY <1>8 DEF updateConversationIsNew
    <2>2. R("is_new", 0, u) \in Good
      BY <1>4, NoteIsGood DEF NoteKinds
    <2>3. raced' \subseteq Timelines
      BY <1>1, <1>4, <2>1
    <2> QED BY <1>1, <2>1, <2>2, <2>3, SendsTypes DEF Bounds
  <1>9. ASSUME NEW u \in Users, archiveConversation(u) PROVE TypeInv'
    <2>1. /\ Sends(R("archive", 0, u), "archives") /\ UNCHANGED <<group, read, announced>>
          /\ raced' \subseteq raced \cup {u}
      BY <1>9 DEF archiveConversation
    <2>2. R("archive", 0, u) \in Good
      BY <1>4, NoteIsGood DEF NoteKinds
    <2>3. raced' \subseteq Timelines
      BY <1>1, <1>4, <2>1
    <2> QED BY <1>1, <2>1, <2>2, <2>3, SendsTypes DEF Bounds
  <1>10. ASSUME NEW u \in Users, announcePresence(u) PROVE TypeInv'
    <2>1. /\ Sends(R("presence", 0, u), "presences") /\ UNCHANGED <<group, read, raced>>
          /\ announced' = announced \cup {u}
      BY <1>10 DEF announcePresence
    <2>2. R("presence", 0, u) \in Good
      BY <1>4, NoteIsGood DEF NoteKinds
    <2>3. announced' \subseteq Users
      BY <1>1, <2>1
    <2> QED BY <1>1, <2>1, <2>2, <2>3, SendsTypes DEF Bounds
  <1>11. ASSUME NEW u \in Users, NEW m \in Messages, updateMessageStatus(u, m) PROVE TypeInv'
    <2>1. /\ m \in view[u].shown /\ Sends(R("update", m, u), "reads")
          /\ UNCHANGED <<group, announced>>
          /\ read' = IF scene.status = RECEIVED THEN [read EXCEPT ![u] = @ \cup {m}] ELSE read
          /\ raced' \subseteq raced \cup {u, ConversWith(u)}
      BY <1>11 DEF updateMessageStatus
    <2>2. R("update", m, u) \in Good
      BY <1>4, <2>1, MessagesAreNumbers, CopyIsGood DEF CopyKinds, ShownKinds
    <2>3. raced' \subseteq Timelines
      BY <1>1, <1>4, <2>1, ConversType
    <2>4. read' \in [Timelines -> SUBSET Messages]
      BY <1>1, <1>4, <2>1
    <2>5. group' \subseteq Users /\ announced' \subseteq Users
      BY <1>1, <2>1
    <2> QED BY <2>1, <2>2, <2>3, <2>4, <2>5, SendsTypes DEF Bounds
  <1> QED BY <1>5, <1>6, <1>7, <1>8, <1>9, <1>10, <1>11 DEF Clients

(***************************************************************************)
(* The theorem on types.                                                   *)
(***************************************************************************)

LEMMA LinkFrame ==
  ASSUME NEW p \in Deployed,
         \/ Handlers(p) \/ Webhooks(p) \/ MongoAnswers(p) \/ MongoFails(p)
         \/ \E c \in Conns : Confirm(p, c)
  PROVE  scene' = scene /\ link' = link
  <1>1. CASE Handlers(p)
    BY <1>1 DEF Handlers, process_outgoing, process_delivered, process_persist,
       process_update_message, process_update_conversation, process_archive, process_presence,
       process_update_group, Consume
  <1>2. CASE Webhooks(p)
    BY <1>2 DEF Webhooks, WHprocess_webhook_message_deliver, WHprocess_webhook_message_update,
       WHprocess_webhook_conversation_archived, WHprocess_webhook_presence, WHwork
  <1>3. CASE MongoAnswers(p) BY <1>3 DEF MongoAnswers
  <1>4. CASE MongoFails(p) BY <1>4 DEF MongoFails
  <1>5. CASE \E c \in Conns : Confirm(p, c) BY <1>5 DEF Confirm
  <1> QED BY <1>1, <1>2, <1>3, <1>4, <1>5

LEMMA ClientsFrame ==
  ASSUME Clients
  PROVE  UNCHANGED <<scene, link, declared, wire, pending, messages, conversations, view, posted>>
  BY DEF Clients, sendMessage, deliverFromHttp, updateGroup, updateConversationIsNew,
     archiveConversation, announcePresence, updateMessageStatus, Sends

LEMMA StartedSteps ==
  ASSUME CoreInv, [Next]_vars PROVE StartedOnly'
  <1>1. StartedOnly /\ link \in [Procs -> [Conns -> LinkState]] /\ Deployed \subseteq Procs
    BY Environments DEF CoreInv, TypeInv, ServerOK
  <1>2. ASSUME scene' = scene PROVE Deployed' = Deployed /\ \A p : Starts(p)' = Starts(p)
    BY <1>2 DEF Deployed, Starts, ActiveQueues
  <1>3. ASSUME NEW p \in Deployed, startServer(p) PROVE StartedOnly'
    <2>1. PICK c \in Conns : link' = [link EXCEPT ![p][c] = "connecting"]
      BY <1>3 DEF startServer, Conns
    <2>2. Starts(p) /\ scene' = scene
      BY <1>3 DEF startServer
    <2>3. \A q \in Deployed, k \in Conns : q # p => link'[q][k] = link[q][k]
      BY <1>1, <2>1
    <2> QED BY <1>1, <1>2, <2>2, <2>3 DEF StartedOnly
  <1>4. ASSUME NEW p \in Deployed, NEW c \in Conns, startMQ(p, c) \/ startWorker(p, c)
        PROVE  StartedOnly'
    <2>1. link[p][c] # "off" /\ scene' = scene
      BY <1>4 DEF startMQ, startWorker
    <2>2. \A q \in Deployed : q # p => link'[q] = link[q]
      BY <1>1, <1>4 DEF startMQ, startWorker
    <2>3. Starts(p)
      BY <1>1, <2>1 DEF StartedOnly
    <2> QED BY <1>1, <1>2, <2>1, <2>2, <2>3 DEF StartedOnly
  <1>5. ASSUME scene' = scene /\ link' = link PROVE StartedOnly'
    BY <1>1, <1>5, StartedStays
  <1>6. CASE Clients BY <1>5, <1>6, ClientsFrame
  <1>7. CASE UNCHANGED vars BY <1>5, <1>7 DEF vars
  <1>8. ASSUME NEW p \in Deployed, Breaks(p) PROVE StartedOnly'
    <2>1. Broken(p)
      BY <1>8, BreaksTypes DEF CoreInv
    <2>2. /\ scene' = scene /\ \E c \in Conns : link[p][c] # "off"
          /\ \A q \in Deployed : q # p => link'[q] = link[q]
      BY <1>1, <2>1 DEF Broken
    <2>3. Starts(p)
      BY <1>1, <2>2 DEF StartedOnly
    <2> QED BY <1>1, <1>2, <2>2, <2>3 DEF StartedOnly
  <1> QED BY <1>3, <1>4, <1>5, <1>6, <1>7, <1>8, LinkFrame DEF Next, Server

LEMMA TypeSteps ==
  ASSUME CoreInv, [Next]_vars PROVE TypeInv'
  <1>1. TypeInv /\ StartedOnly
    BY DEF CoreInv
  <1>2. ASSUME NEW p \in Deployed, Server(p) PROVE TypeInv'
    <2>1. CASE startServer(p) \/ \E c \in Conns : startMQ(p, c) \/ startWorker(p, c)
      BY <1>1, <2>1, LinksTypes
    <2>2. CASE \E c \in Conns : Confirm(p, c) BY <1>1, <2>2, ConfirmTypes
    <2>3. CASE Handlers(p) BY <1>1, <2>3, HandlersTypes
    <2>4. CASE Webhooks(p) BY <1>1, <2>4, WebhooksTypes
    <2>5. CASE MongoAnswers(p) BY <1>1, <2>5, MongoAnswersTypes
    <2> QED BY <1>2, <2>1, <2>2, <2>3, <2>4, <2>5 DEF Server
  <1>3. ASSUME NEW p \in Deployed, MongoFails(p) PROVE TypeInv'
    BY <1>1, <1>3, MongoFailsTypes
  <1>4. ASSUME NEW p \in Deployed, Breaks(p) PROVE TypeInv'
    BY <1>1, <1>4, BrokenTypes
  <1>5. CASE Clients BY <1>1, <1>5, ClientsTypes
  <1>6. CASE UNCHANGED vars
    <2>1. link' \in [Procs -> [Conns -> LinkState]] /\ declared' \subseteq Queues
      BY <1>1, <1>6 DEF vars, TypeInv, ServerOK
    <2> QED BY <1>1, <1>6, <2>1, LinkStepTypes DEF vars
  <1> QED BY <1>2, <1>3, <1>4, <1>5, <1>6 DEF Next

LEMMA CoreInit == Init => CoreInv
  <1> SUFFICES ASSUME Init PROVE CoreInv
    OBVIOUS
  <1>1. scene.bound \in [Bounds -> Nat] /\ scene.members \subseteq Users
    BY LegacyAssumption DEF Init
  <1>2. SceneOK
    BY <1>1 DEF Init, SceneOK
  <1>3. \A G : <<>> \in Seq(G)
    OBVIOUS
  <1>4. ServerOK
    <2>1. link \in [Procs -> [Conns -> LinkState]] /\ declared \subseteq Queues
      BY DEF Init, LinkState
    <2>2. queue \in [Queues -> Seq(Good)] /\ \A q \in Queues : queue[q] \in Seq(GoodFor(q))
      BY <1>3 DEF Init
    <2>3. /\ wire \in [Procs -> [Conns -> Seq(Published(Good))]]
          /\ pending \in [Procs -> SUBSET Good]
      BY <1>3 DEF Init
    <2> QED BY <2>1, <2>2, <2>3 DEF ServerOK
  <1>5. StoreOK
    BY <1>1 DEF Init, StoreOK, Status, Conversation
  <1>6. ViewOK
    BY <1>1 DEF Init, ViewOK, View
  <1>7. ClientsOK
    BY DEF Init, ClientsOK
  <1>8. StartedOnly
    <2>1. Deployed \subseteq Procs
      BY <1>2, Environments
    <2> QED BY <2>1 DEF Init, StartedOnly
  <1> QED BY <1>2, <1>4, <1>5, <1>6, <1>7, <1>8 DEF CoreInv, TypeInv

\* All variables keep their types, what is under way is about a message there
\* is and was shown where it had to be, and a process that its environment
\* refuses is never connected.
THEOREM CoreInvHolds == Spec => []CoreInv
  <1>1. CoreInv /\ [Next]_vars => CoreInv'
    BY TypeSteps, StartedSteps DEF CoreInv
  <1> QED BY CoreInit, <1>1, PTL DEF Spec

LEMMA MessagesCount ==
  ASSUME SceneOK
  PROVE  Cardinality(Messages) \in Nat /\ Messages = 1 .. Cardinality(Messages)
  <1> DEFINE n == scene.bound.msgs + scene.bound.injected
  <1>1. n \in Nat /\ Messages = 1 .. n
    BY BoundNumbers DEF Messages
  <1> HIDE DEF n
  <1>2. Cardinality(1 .. n) = n
    <2>1. CASE n = 0
      <3>1. 1 .. n = {}
        BY <2>1
      <3> QED BY <2>1, <3>1, FS_EmptySet
    <2>2. CASE n > 0
      <3>1. Cardinality(1 .. n) = n - 1 + 1
        BY <1>1, <2>2, FS_Interval
      <3> QED BY <1>1, <3>1
    <2> QED BY <1>1, <2>1, <2>2
  <1> QED BY <1>1, <1>2

LEMMA TypeInvImplies == ASSUME TypeInv PROVE TypeOK
  <1>1. SceneOK /\ ServerOK /\ StoreOK /\ ViewOK /\ ClientsOK
    BY DEF TypeInv
  <1>2. Good \subseteq Record
    BY DEF Good
  <1>3. ASSUME NEW q \in Queues, NEW i \in DOMAIN queue[q]
        PROVE  queue[q][i] \in Record /\ QueueOf(queue[q][i].kind) = q
    <2>1. queue[q] \in Seq(GoodFor(q))
      BY <1>1 DEF ServerOK
    <2>2. queue[q][i] \in GoodFor(q)
      BY <2>1
    <2> QED BY <1>2, <2>2 DEF GoodFor
  <1>4. ASSUME NEW p \in Procs, NEW c \in Conns, NEW i \in DOMAIN wire[p][c]
        PROVE  wire[p][c][i] \in Record
    <2>1. wire[p][c] \in Seq(Published(Good))
      BY <1>1 DEF ServerOK
    <2>2. wire[p][c][i] \in Published(Good)
      BY <2>1
    <2> QED BY <1>2, <2>2 DEF Published
  <1>5. \A p \in Procs : pending[p] \subseteq Record
    BY <1>1, <1>2 DEF ServerOK
  <1>6. conversations \in [Timelines -> [last : 0 .. Cardinality(Messages), archived : BOOLEAN,
                                         is_new : BOOLEAN, app : BOOLEAN]]
    <2> DEFINE n == Cardinality(Messages)
    <2>1. Messages = 1 .. n /\ n \in Nat
      BY <1>1, MessagesCount
    <2> HIDE DEF n
    <2>2. \A u \in Timelines : conversations[u].last \in 0 .. n
      BY <1>1, <2>1 DEF StoreOK
    <2>3. conversations \in [Timelines -> Conversation]
      BY <1>1 DEF StoreOK
    <2>4. \A x \in Conversation : x.last \in 0 .. n
             => x \in [last : 0 .. n, archived : BOOLEAN, is_new : BOOLEAN, app : BOOLEAN]
      BY DEF Conversation
    <2>5. conversations \in [Timelines -> [last : 0 .. n, archived : BOOLEAN,
                                           is_new : BOOLEAN, app : BOOLEAN]]
      BY <2>2, <2>3, <2>4
    <2> QED BY <2>5 DEF n
  <1>7. \A u \in Timelines : view[u].shown \cup view[u].returned \subseteq Messages
    BY <1>1 DEF ViewOK
  <1>8. posted \subseteq Record
    BY <1>1, <1>2 DEF ClientsOK
  <1> QED BY <1>1, <1>3, <1>4, <1>5, <1>6, <1>7, <1>8
          DEF TypeOK, SceneOK, ServerOK, StoreOK, ClientsOK, LinkState, Connected, Status

\* Type correctness of the server, its clients, MongoDB and the broker.
THEOREM TypeOKHolds == Spec => []TypeOK
  <1>1. CoreInv => TypeOK
    BY TypeInvImplies DEF CoreInv
  <1> QED BY CoreInvHolds, <1>1, PTL

(***************************************************************************)
(* The clients are told first.                                             *)
(***************************************************************************)

\* No activity changes the scenario or takes anything out of a view.
LEMMA ViewFrame ==
  ASSUME TypeInv, [Next]_vars
  PROVE  scene' = scene /\ ViewGrows
  <1>1. ASSUME NEW p \in Deployed, Server(p) PROVE scene' = scene /\ ViewGrows
    <2>1. CASE startServer(p)
      BY <2>1, ViewStays DEF startServer
    <2>2. CASE \E c \in Conns : startMQ(p, c) \/ startWorker(p, c)
      BY <2>2, ViewStays DEF startMQ, startWorker
    <2>3. CASE Handlers(p)
      <3>1. view' = view
        BY <2>3 DEF Handlers, process_outgoing, process_delivered, process_persist,
           process_update_message, process_update_conversation, process_archive,
           process_presence, process_update_group, Consume
      <3> QED BY <2>3, <3>1, LinkFrame, ViewStays
    <2>4. CASE Webhooks(p)
      <3>1. view' = view
        BY <2>4 DEF Webhooks, WHprocess_webhook_message_deliver,
           WHprocess_webhook_message_update, WHprocess_webhook_conversation_archived,
           WHprocess_webhook_presence, WHwork
      <3> QED BY <2>4, <3>1, LinkFrame, ViewStays
    <2>5. CASE MongoAnswers(p)
      BY <2>5, ViewStays DEF MongoAnswers
    <2>6. CASE \E c \in Conns : Confirm(p, c)
      <3>1. scene' = scene
        BY <2>6, LinkFrame
      <3> QED BY <2>6, <3>1, ConfirmEffect
    <2> QED BY <1>1, <2>1, <2>2, <2>3, <2>4, <2>5, <2>6 DEF Server
  <1>2. ASSUME NEW p \in Deployed, MongoFails(p) \/ Breaks(p)
        PROVE  scene' = scene /\ ViewGrows
    BY <1>2, ViewStays, BreaksTypes DEF MongoFails, Broken
  <1>3. CASE Clients BY <1>3, ClientsFrame, ViewStays
  <1>4. CASE UNCHANGED vars BY <1>4, ViewStays DEF vars
  <1> QED BY <1>1, <1>2, <1>3, <1>4 DEF Next

\* Only MongoDB's answers change what is stored.
LEMMA MessagesFrame ==
  ASSUME TypeInv, [Next]_vars, \A p \in Deployed : ~ MongoAnswers(p)
  PROVE  messages' = messages
  <1>1. ASSUME NEW p \in Deployed, Server(p) PROVE messages' = messages
    <2>1. CASE startServer(p) BY <2>1 DEF startServer
    <2>2. CASE \E c \in Conns : startMQ(p, c) \/ startWorker(p, c)
      BY <2>2 DEF startMQ, startWorker
    <2>3. CASE Handlers(p)
      BY <2>3 DEF Handlers, process_outgoing, process_delivered, process_persist,
         process_update_message, process_update_conversation, process_archive,
         process_presence, process_update_group, Consume
    <2>4. CASE Webhooks(p)
      BY <2>4 DEF Webhooks, WHprocess_webhook_message_deliver,
         WHprocess_webhook_message_update, WHprocess_webhook_conversation_archived,
         WHprocess_webhook_presence, WHwork
    <2>5. CASE \E c \in Conns : Confirm(p, c) BY <2>5 DEF Confirm
    <2> QED BY <1>1, <2>1, <2>2, <2>3, <2>4, <2>5 DEF Server
  <1>2. ASSUME NEW p \in Deployed, MongoFails(p) \/ Breaks(p)
        PROVE  messages' = messages
    BY <1>2, BreaksTypes DEF MongoFails, Broken
  <1>3. CASE Clients BY <1>3, ClientsFrame
  <1>4. CASE UNCHANGED vars BY <1>4 DEF vars
  <1> QED BY <1>1, <1>2, <1>3, <1>4 DEF Next

LEMMA ToldSteps ==
  ASSUME ToldInv, [Next]_vars PROVE StoredIsTold'
  <1>1. TypeInv /\ StoredIsTold
    BY DEF ToldInv, CoreInv
  <1>2. scene' = scene /\ ViewGrows
    BY <1>1, ViewFrame
  <1>3. Messages' = Messages
    BY <1>2 DEF Messages
  <1>4. CASE messages' = messages
    <2>1. ASSUME NEW u \in Timelines, NEW m \in Messages, messages'[u][m] # 0
          PROVE  \/ m \in view'[u].shown \cup view'[u].returned
                 \/ \E reader \in Timelines :
                      /\ ConversWith(reader) = u /\ m \in view'[reader].shown
                      /\ ~ Fits(R("updated", m, reader))
      <3>1. \/ m \in view[u].shown \cup view[u].returned
            \/ \E reader \in Timelines :
                 /\ ConversWith(reader) = u /\ m \in view[reader].shown
                 /\ ~ Fits(R("updated", m, reader))
        BY <1>1, <1>4, <2>1 DEF StoredIsTold
      <3> QED BY <1>2, <3>1 DEF ViewGrows
    <2>2. \A u : ConversWith(u)' = ConversWith(u)
      BY <1>2 DEF ConversWith, Direct
    <2> QED BY <1>2, <1>3, <2>1, <2>2, FitsSame DEF StoredIsTold
  <1>5. ASSUME NEW p \in Deployed, MongoAnswers(p) PROVE StoredIsTold'
    <2>1. PICK r \in pending[p] : saveOrUpdateMessage(r) /\ view' = view
      BY <1>5 DEF MongoAnswers
    <2>2. r \in Good /\ r.u \in Timelines /\ ConversWith(r.u) \in Timelines
      BY <1>1, PendingIsGood, GoodRecord, ConversType
    <2>3. messages \in [Timelines -> [Messages -> Status]]
      BY <1>1 DEF TypeInv, StoreOK
    <2> DEFINE ToldOf(k, u) ==
                 \/ k \in view[u].shown \cup view[u].returned
                 \/ \E reader \in Timelines :
                      /\ ConversWith(reader) = u /\ k \in view[reader].shown
                      /\ ~ Fits(R("updated", k, reader))
    <2>9. scene' = scene /\ \A u : ConversWith(u)' = ConversWith(u)
      BY <1>2 DEF ConversWith, Direct
    <2>4. ASSUME NEW t \in Timelines, NEW m, NEW x, messages' = [messages EXCEPT ![t][m] = x],
                 ToldOf(m, t)
          PROVE  StoredIsTold'
      <3>1. ASSUME NEW u \in Timelines, NEW k \in Messages, messages'[u][k] # 0
            PROVE  ToldOf(k, u)
        <4>1. CASE u = t /\ k = m BY <2>4, <4>1
        <4>2. CASE ~ (u = t /\ k = m)
          <5>1. messages'[u][k] = messages[u][k]
            BY <2>3, <2>4, <4>2
          <5> QED BY <1>1, <3>1, <5>1 DEF StoredIsTold
        <4> QED BY <4>1, <4>2
      <3> QED BY <1>3, <2>1, <2>9, <3>1, FitsSame DEF StoredIsTold
    <2>5. CASE r.kind = "saveMessage"
      <3>1. messages' = [messages EXCEPT ![r.u][r.m] = StatusOf(r.m, r.u)]
        BY <2>1, <2>5 DEF saveOrUpdateMessage
      <3>2. r.m \in view[r.u].shown
        BY <2>2, <2>5, GoodRecord DEF ShownKinds
      <3> QED BY <2>2, <2>4, <3>1, <3>2
    <2>6. CASE r.kind = "saveReceived"
      <3>1. messages' = [messages EXCEPT ![r.u][r.m] = RECEIVED]
        BY <2>1, <2>6 DEF saveOrUpdateMessage
      <3>2. r.m \in view[r.u].shown
        BY <2>2, <2>6, GoodRecord DEF ShownKinds
      <3> QED BY <2>2, <2>4, <3>1, <3>2
    <2>7. CASE r.kind = "saveReturned"
      <3>1. messages' = [messages EXCEPT ![ConversWith(r.u)][r.m] = RETURN_RECEIPT]
        BY <2>1, <2>7 DEF saveOrUpdateMessage
      <3>2. r.m \in view[r.u].shown /\ Returned(r.m, r.u)
        BY <2>2, <2>7, GoodRecord DEF ShownKinds
      <3>3. ToldOf(r.m, ConversWith(r.u))
        BY <2>2, <3>2 DEF Returned
      <3> QED BY <2>2, <2>4, <3>1, <3>3
    <2>8. CASE r.kind \notin {"saveMessage", "saveReceived", "saveReturned"}
      <3>1. messages' = messages
        BY <2>1, <2>8 DEF saveOrUpdateMessage
      <3> QED BY <1>4, <3>1
    <2> QED BY <2>5, <2>6, <2>7, <2>8
  <1> QED BY <1>1, <1>4, <1>5, MessagesFrame

\* The client of a copy that the database has was sent it, or the receipt for
\* it, before; and a copy reported to the endpoints was shown: deliverMessage()
\* persists and notifies after the broker has taken the copy for the client.
THEOREM ToldFirstHolds == Spec => []ToldFirst
  <1>1. Init => ToldInv
    <2>1. ASSUME Init PROVE StoredIsTold
      BY <2>1 DEF Init, StoredIsTold
    <2> QED BY <2>1, CoreInit DEF ToldInv
  <1>2. ToldInv /\ [Next]_vars => ToldInv'
    <2> SUFFICES ASSUME ToldInv, [Next]_vars PROVE ToldInv'
      OBVIOUS
    <2>1. CoreInv'
      BY TypeSteps, StartedSteps DEF CoreInv, ToldInv
    <2> QED BY <2>1, ToldSteps DEF ToldInv
  <1>3. ToldInv => ToldFirst
    <2> SUFFICES ASSUME ToldInv PROVE ToldFirst
      OBVIOUS
    <2>1. posted \subseteq Good
      BY DEF ToldInv, CoreInv, TypeInv, ClientsOK
    <2>2. \A r \in posted : r.kind = "message_deliver" =>
            r.m \in view[r.u].shown \/ ~ Fits(R("added", r.m, r.u))
      BY <2>1, GoodRecord DEF Reportable
    <2> QED BY <2>2 DEF ToldInv, StoredIsTold, ToldFirst
  <1> QED BY <1>1, <1>2, <1>3, PTL DEF Spec

(***************************************************************************)
(* Sequences and what an activity adds to the wires.  An activity that     *)
(* loses nothing publishes all it has to, and what breaks without a loss   *)
(* leaves the wires and the operations as they are.                        *)
(***************************************************************************)

LEMMA DoWhole ==
  ASSUME NEW p, NEW e, NEW rest, NEW asked, ~ Lose(p, e), Do(p, e, rest, asked)
  PROVE  /\ wire' = [wire EXCEPT ![p] =
              [observer |-> publish(p, "observer", rest["observer"], e.pub),
               webhooks |-> publish(p, "webhooks", rest["webhooks"], e.hook)]]
         /\ pending' = [pending EXCEPT ![p] = asked \cup e.db]
  <1>1. Cut(p, e) = e
    BY DEF Lose, Cut
  <1> QED BY <1>1 DEF Do

LEMMA WholeUp ==
  ASSUME NEW p, NEW e, ~ Lose(p, e)
  PROVE  /\ e.pub # <<>> => Up(p, "observer")
         /\ e.hook # <<>> => Up(p, "webhooks")
  <1>1. Cut(p, e) = e
    BY DEF Lose, Cut
  <1> QED BY <1>1 DEF Lose

LEMMA BreaksLeave ==
  ASSUME TypeInv, NEW p \in Deployed, Breaks(p), ~ lost'
  PROVE  /\ wire' = wire /\ pending' = pending
         /\ left' = [left EXCEPT !.drops = @ - 1] /\ left.drops > 0
         /\ UNCHANGED <<scene, declared, queue, messages, conversations, group, view, posted,
                        read, announced, raced>>
  <1>1. Broken(p) /\ wire' \in [Procs -> [Conns -> Seq(Published(Good))]]
          /\ pending' \in [Procs -> SUBSET Good]
    BY BreaksTypes
  <1>2. /\ wire \in [Procs -> [Conns -> Seq(Published(Good))]]
        /\ pending \in [Procs -> SUBSET Good]
    BY DEF TypeInv, ServerOK
  <1>3. pending'[p] = pending[p] /\ \A c \in Conns : wire'[p][c] = wire[p][c]
    BY <1>1 DEF Broken
  <1>4. \A q \in Procs : pending'[q] = pending[q] /\ \A c \in Conns : wire'[q][c] = wire[q][c]
    BY <1>1, <1>3 DEF Broken
  <1>5. \A q \in Procs : wire'[q] = wire[q]
    BY <1>1, <1>2, <1>4
  <1>6. wire' = wire
    BY <1>1, <1>2, <1>5
  <1>7. pending' = pending
    BY <1>1, <1>2, <1>4
  <1> QED BY <1>1, <1>6, <1>7 DEF Broken

LEMMA InConcat ==
  ASSUME NEW G, NEW s \in Seq(G), NEW t \in Seq(G)
  PROVE  /\ \A x : In(s \o t, x) <=> In(s, x) \/ In(t, x)
         /\ Speaks(s \o t) <=> Speaks(s) \/ Speaks(t)
  <1> DEFINE n == Len(s)  k == Len(t)
  <1>1. /\ n \in Nat /\ k \in Nat /\ DOMAIN s = 1 .. n /\ DOMAIN t = 1 .. k
        /\ DOMAIN (s \o t) = 1 .. (n + k)
    OBVIOUS
  <1>2. /\ \A i \in 1 .. n : (s \o t)[i] = s[i]
        /\ \A i \in (n + 1) .. (n + k) : (s \o t)[i] = t[i - n]
    OBVIOUS
  <1>3. \A i \in 1 .. k : (s \o t)[i + n] = t[i]
    OBVIOUS
  <1> HIDE DEF n, k
  <1>4. \A i \in 1 .. (n + k) : i \in 1 .. n \/ (i - n \in 1 .. k /\ i \in (n + 1) .. (n + k))
    BY <1>1
  <1>5. /\ \A i \in 1 .. n : i \in 1 .. (n + k)
        /\ \A i \in 1 .. k : i + n \in 1 .. (n + k)
    BY <1>1
  <1>6. ASSUME NEW x PROVE In(s \o t, x) <=> In(s, x) \/ In(t, x)
    BY <1>1, <1>2, <1>3, <1>4, <1>5 DEF In
  <1>7. Speaks(s \o t) <=> Speaks(s) \/ Speaks(t)
    BY <1>1, <1>2, <1>3, <1>4, <1>5 DEF Speaks
  <1> QED BY <1>6, <1>7

LEMMA InTail ==
  ASSUME NEW G, NEW s \in Seq(G), s # <<>>
  PROVE  /\ \A x : In(s, x) <=> x = Head(s) \/ In(Tail(s), x)
         /\ Speaks(Tail(s)) \/ Head(s).kind \in {"added", "persist"} => Speaks(s)
  <1> DEFINE n == Len(s)
  <1>1. n \in Nat /\ n >= 1 /\ DOMAIN s = 1 .. n /\ Head(s) = s[1]
    OBVIOUS
  <1>2. DOMAIN Tail(s) = 1 .. (n - 1) /\ \A i \in 1 .. (n - 1) : Tail(s)[i] = s[i + 1]
    OBVIOUS
  <1> HIDE DEF n
  <1>3. /\ \A i \in 1 .. n : i = 1 \/ i - 1 \in 1 .. (n - 1)
        /\ \A i \in 1 .. (n - 1) : i + 1 \in 1 .. n
        /\ 1 \in 1 .. n
    BY <1>1
  <1>4. \A i \in 1 .. n : i # 1 => s[i] = Tail(s)[i - 1]
    BY <1>1, <1>2, <1>3
  <1>5. ASSUME NEW x PROVE In(s, x) <=> x = Head(s) \/ In(Tail(s), x)
    BY <1>1, <1>2, <1>3, <1>4 DEF In
  <1>6. Speaks(Tail(s)) \/ Head(s).kind \in {"added", "persist"} => Speaks(s)
    BY <1>1, <1>2, <1>3 DEF Speaks
  <1> QED BY <1>5, <1>6

LEMMA InAppend ==
  ASSUME NEW G, NEW s \in Seq(G), NEW r
  PROVE  In(Append(s, r), r) /\ \A x : In(s, x) => In(Append(s, r), x)
  <1>1. /\ Len(s) \in Nat /\ DOMAIN s = 1 .. Len(s)
        /\ DOMAIN Append(s, r) = 1 .. (Len(s) + 1)
        /\ Append(s, r)[Len(s) + 1] = r
        /\ \A i \in 1 .. Len(s) : Append(s, r)[i] = s[i]
    OBVIOUS
  <1> QED BY <1>1 DEF In

\* What an activity leaves on the wires of its process and of the others.
WiresGrow(p, e, rest, asked) ==
  /\ \A q \in Procs : q # p => wire'[q] = wire[q] /\ pending'[q] = pending[q]
  /\ pending'[p] = asked \cup e.db
  /\ \A x : \A c \in Conns : In(rest[c], x) => In(wire'[p][c], x)
  /\ \A x : Up(p, "observer") /\ In(e.pub, x) => In(wire'[p]["observer"], x)
  /\ \A x : Up(p, "webhooks") /\ In(e.hook, x) => In(wire'[p]["webhooks"], x)
  /\ \A c \in Conns : Speaks(wire'[p][c]) => Speaks(rest[c]) \/ Acts(e)

LEMMA DoWires ==
  ASSUME NEW G, NEW p \in Procs, NEW e \in EffectsOf(G),
         NEW rest \in [Conns -> Seq(Published(G))], NEW asked,
         wire \in [Procs -> [Conns -> Seq(Published(G))]], pending \in [Procs -> SUBSET G],
         Do(p, e, rest, asked), ~ Lose(p, e)
  PROVE  WiresGrow(p, e, rest, asked)
  <1>1. e.pub \in Seq(Published(G)) /\ e.hook \in Seq(Published(G))
    BY DEF EffectsOf
  <1>2. rest["observer"] \in Seq(Published(G)) /\ rest["webhooks"] \in Seq(Published(G))
    BY DEF Conns
  <1> DEFINE o == publish(p, "observer", rest["observer"], e.pub)
             w == publish(p, "webhooks", rest["webhooks"], e.hook)
  <1>3. wire' = [wire EXCEPT ![p] = [observer |-> o, webhooks |-> w]]
          /\ pending' = [pending EXCEPT ![p] = asked \cup e.db]
    BY DoWhole
  <1>4. /\ \A x : In(rest["observer"], x) => In(o, x)
        /\ \A x : Up(p, "observer") /\ In(e.pub, x) => In(o, x)
        /\ Speaks(o) => Speaks(rest["observer"]) \/ Speaks(e.pub)
    BY <1>1, <1>2, InConcat DEF publish
  <1>5. /\ \A x : In(rest["webhooks"], x) => In(w, x)
        /\ \A x : Up(p, "webhooks") /\ In(e.hook, x) => In(w, x)
        /\ Speaks(w) => Speaks(rest["webhooks"]) \/ Speaks(e.hook)
    BY <1>1, <1>2, InConcat DEF publish
  <1> HIDE DEF o, w
  <1>6. wire'[p]["observer"] = o /\ wire'[p]["webhooks"] = w /\ pending'[p] = asked \cup e.db
    BY <1>3
  <1>7. \A q \in Procs : q # p => wire'[q] = wire[q] /\ pending'[q] = pending[q]
    BY <1>3
  <1>8. \A c \in Conns : c = "observer" \/ c = "webhooks"
    BY DEF Conns
  <1>9. \A x : \A c \in Conns : In(rest[c], x) => In(wire'[p][c], x)
    BY <1>4, <1>5, <1>6, <1>8
  <1>10. \A c \in Conns : Speaks(wire'[p][c]) => Speaks(rest[c]) \/ Acts(e)
    BY <1>4, <1>5, <1>6, <1>8 DEF Acts
  <1> QED BY <1>4, <1>5, <1>6, <1>7, <1>9, <1>10 DEF WiresGrow

(***************************************************************************)
(* Copies are sent by the processes of the "messages" queue.               *)
(***************************************************************************)

LEMMA SceneFrame ==
  ASSUME scene' = scene
  PROVE  /\ Deployed' = Deployed /\ MessageProcs' = MessageProcs
         /\ (ReportsCopies' <=> ReportsCopies) /\ (ReportsPresence' <=> ReportsPresence)
         /\ \A p : (WebhookEnabled(p)' <=> WebhookEnabled(p))
  <1>1. Deployed' = Deployed
    BY DEF Deployed
  <1>2. MessageProcs' = MessageProcs
    BY <1>1 DEF MessageProcs, Starts, ActiveQueues
  <1>3. \A p : /\ WebhookEnabled(p)' <=> WebhookEnabled(p)
               /\ PresenceEnabled(p)' <=> PresenceEnabled(p)
    BY DEF WebhookEnabled, PresenceEnabled
  <1>4. ReportsCopies' <=> ReportsCopies
    BY <1>1, <1>2, <1>3 DEF ReportsCopies
  <1>5. ReportsPresence' <=> ReportsPresence
    BY <1>2, <1>3 DEF ReportsPresence
  <1> QED BY <1>1, <1>2, <1>3, <1>4, <1>5

\* A process that takes from the "messages" queue is one of them.
LEMMA ConsumerSends ==
  ASSUME CoreInv, NEW p \in Deployed, NEW k, Consume(p, "messages", k)
  PROVE  p \in MessageProcs
  <1>1. link[p]["observer"] = "consuming" /\ "messages" \in Consumes(p, "observer")
    BY DEF Consume
  <1>2. Starts(p)
    BY <1>1 DEF CoreInv, StartedOnly, Conns
  <1>3. "messages" \in ActiveQueues(p)
    BY <1>1 DEF Consumes
  <1> QED BY <1>2, <1>3 DEF MessageProcs

LEMMA ProcsDo ==
  ASSUME CoreInv, ProcsOK, scene' = scene,
         NEW G, NEW p \in Deployed, NEW e \in EffectsOf(G),
         NEW rest \in [Conns -> Seq(Published(G))], NEW asked,
         wire \in [Procs -> [Conns -> Seq(Published(G))]], pending \in [Procs -> SUBSET G],
         Do(p, e, rest, asked), ~ Lose(p, e),
         \A c \in Conns : Speaks(rest[c]) => Speaks(wire[p][c]),
         asked \subseteq pending[p], Acts(e) => p \in MessageProcs
  PROVE  ProcsOK'
  <1>1. Deployed \subseteq Procs /\ p \in Procs
    BY Environments DEF CoreInv, TypeInv
  <1>2. /\ \A q \in Procs : q # p => wire'[q] = wire[q] /\ pending'[q] = pending[q]
        /\ pending'[p] = asked \cup e.db
        /\ \A c \in Conns : Speaks(wire'[p][c]) => Speaks(rest[c]) \/ Acts(e)
    <2>1. p \in Procs
      BY <1>1
    <2>2. WiresGrow(p, e, rest, asked)
      BY <2>1, DoWires
    <2> QED BY <2>2 DEF WiresGrow
  <1>3. ASSUME NEW q \in Deployed,
               (\E c \in Conns : Speaks(wire'[q][c])) \/ Asking(pending'[q])
        PROVE  q \in MessageProcs
    <2>1. CASE q # p
      <3>1. wire'[q] = wire[q] /\ pending'[q] = pending[q]
        BY <1>1, <1>2, <2>1
      <3> QED BY <1>3, <3>1 DEF ProcsOK
    <2>2. CASE q = p
      <3>1. CASE Acts(e)
        BY <2>2, <3>1
      <3>2. CASE ~ Acts(e)
        <4>1. CASE \E c \in Conns : Speaks(wire'[p][c])
          BY <1>2, <2>2, <3>2, <4>1 DEF ProcsOK
        <4>2. CASE Asking(pending'[p])
          <5>1. Asking(pending[p])
            BY <1>2, <3>2, <4>2 DEF Asking, Acts
          <5> QED BY <2>2, <5>1 DEF ProcsOK
        <4> QED BY <1>3, <2>2, <4>1, <4>2
      <3> QED BY <3>1, <3>2
    <2> QED BY <2>1, <2>2
  <1> QED BY <1>3, SceneFrame DEF ProcsOK

LEMMA PublishesActs ==
  /\ ~ Acts(Nothing)
  /\ \A r : Acts(Publishes(<<r>>)) => r.kind \in {"added", "persist"}
  /\ \A r : Acts(Asks(r)) => r.kind = "getGroup"
  BY DEF Acts, Speaks, Asking, Nothing, Publishes, Asks, Effect

\* The callback of a publication acts only after one of a copy.
LEMMA AfterPublishActs ==
  ASSUME NEW p, NEW r, r.kind \notin {"added", "persist"}
  PROVE  ~ Acts(AfterPublish(p, r))
  <1>1. CASE r.kind = "updated"
    <2> DEFINE h == WHnotifyMessageStatusReturnReceipt(p, r.m, r.u)
    <2>1. AfterPublish(p, r) = Effect(<<>>, h, {R("saveReceived", r.m, r.u)})
      BY <1>1 DEF AfterPublish
    <2>2. h \in {<<R("message_update", r.m, r.u)>>, <<>>}
      BY DEF WHnotifyMessageStatusReturnReceipt
    <2>3. ~ Speaks(h)
      BY <2>2 DEF Speaks, R
    <2> HIDE DEF h
    <2> QED BY <2>1, <2>3 DEF Acts, Asking, Speaks, Effect, R
  <1>2. CASE r.kind = "clientdeleted"
    <2>1. AfterPublish(p, r) = Publishes(<<R("archivedadded", 0, r.u)>>)
      BY <1>2 DEF AfterPublish
    <2> QED BY <2>1, PublishesActs DEF R
  <1>3. CASE r.kind \notin {"updated", "clientdeleted"}
    <2>1. AfterPublish(p, r) = Nothing
      BY <1>3 DEF AfterPublish
    <2> QED BY <2>1, PublishesActs
  <1> QED BY <1>1, <1>2, <1>3

\* The callback of an operation acts only when a group was looked up.
LEMMA AfterMongoActs ==
  ASSUME NEW r, r.kind # "getGroup"
  PROVE  ~ Acts(AfterMongo(r)) /\ ~ Acts(AfterMongoError(r))
  <1>1. AfterMongo(r) \in {Asks(R("saveConversation", r.m, r.u)), Asks(R("saveReturned", r.m, r.u)),
                           Publishes(<<R("convupdated", 0, r.u)>>), Asks(R("detail", 0, r.u)),
                           Publishes(<<R("clientdeleted", 0, r.u)>>), Nothing}
    BY DEF AfterMongo
  <1>2. AfterMongoError(r) \in {AfterMongo(r), Nothing}
    BY DEF AfterMongoError
  <1> QED BY <1>1, <1>2, PublishesActs DEF R

LEMMA ProcsStay ==
  ASSUME ProcsOK, scene' = scene, wire' = wire, pending' = pending PROVE ProcsOK'
  BY SceneFrame DEF ProcsOK

LEMMA ProcsSteps ==
  ASSUME CoreInv, ProcsOK, [Next]_vars, ~ lost' PROVE ProcsOK'
  <1>1. /\ TypeInv /\ Deployed \subseteq Procs
        /\ wire \in [Procs -> [Conns -> Seq(Published(Good))]]
        /\ pending \in [Procs -> SUBSET Good]
    BY Environments DEF CoreInv, TypeInv, ServerOK
  <1>2. scene' = scene
    BY <1>1, ViewFrame
  <1>3. ASSUME NEW p \in Deployed, Handlers(p) PROVE ProcsOK'
    <2>1. PICK q \in {"messages", "persist"}, e \in EffectsOf(Good) :
            /\ Consume(p, q, Head(queue[q]).kind) /\ Handles(p, e)
            /\ q = "persist" => ~ Acts(e)
      BY <1>1, <1>3, HandlersHandled DEF Handled
    <2>2. Acts(e) => p \in MessageProcs
      BY <2>1, ConsumerSends
    <2>3. Do(p, e, wire[p], pending[p]) /\ ~ Lose(p, e)
      BY <2>1 DEF Handles
    <2>4. wire[p] \in [Conns -> Seq(Published(Good))]
      BY <1>1
    <2> QED BY <1>1, <1>2, <2>2, <2>3, <2>4, ProcsDo
  <1>4. ASSUME NEW p \in Deployed, NEW r \in pending[p], NEW e \in EffectsOf(Good),
               e = AfterMongo(r), Do(p, e, wire[p], pending[p] \ {r}), ~ Lose(p, e)
        PROVE  ProcsOK'
    <2>1. Acts(e) => p \in MessageProcs
      <3>1. CASE r.kind = "getGroup"
        BY <3>1 DEF ProcsOK, Asking
      <3>2. CASE r.kind # "getGroup"
        BY <1>4, <3>2, AfterMongoActs
      <3> QED BY <3>1, <3>2
    <2>2. wire[p] \in [Conns -> Seq(Published(Good))] /\ pending[p] \ {r} \subseteq pending[p]
      BY <1>1
    <2> QED BY <1>1, <1>2, <1>4, <2>1, <2>2, ProcsDo
  <1>5. ASSUME NEW p \in Deployed, MongoAnswers(p) PROVE ProcsOK'
    <2>1. PICK r \in pending[p] :
            Do(p, AfterMongo(r), wire[p], pending[p] \ {r}) /\ ~ Lose(p, AfterMongo(r))
      BY <1>5 DEF MongoAnswers
    <2>2. AfterMongo(r) \in EffectsOf(Good)
      BY <1>1, <2>1, PendingIsGood, AfterMongoType
    <2> QED BY <1>4, <2>1, <2>2
  <1>6. ASSUME NEW p \in Deployed, NEW c \in Conns, Confirm(p, c) PROVE ProcsOK'
    <2>1. /\ Do(p, After(p, c), Rest(p, c), pending[p])
          /\ After(p, c) \in EffectsOf(Good')
          /\ Rest(p, c) \in [Conns -> Seq(Published(Good'))]
          /\ wire \in [Procs -> [Conns -> Seq(Published(Good'))]]
          /\ pending \in [Procs -> SUBSET Good'] /\ wire[p][c] # <<>>
      BY <1>1, <1>6, ConfirmEffect
    <2>2. wire[p][c] \in Seq(Published(Good)) /\ wire[p] \in [Conns -> Seq(Published(Good))]
      BY <1>1
    <2>3. /\ Speaks(Tail(wire[p][c])) => Speaks(wire[p][c])
          /\ Head(wire[p][c]).kind \in {"added", "persist"} => Speaks(wire[p][c])
      BY <2>1, <2>2, InTail
    <2>4. \A k \in Conns : Speaks(Rest(p, c)[k]) => Speaks(wire[p][k])
      BY <2>2, <2>3 DEF Rest
    <2>5. Acts(After(p, c)) => p \in MessageProcs
      <3>1. Acts(After(p, c)) => Head(wire[p][c]).kind \in {"added", "persist"}
        BY AfterPublishActs DEF After
      <3> QED BY <2>3, <3>1 DEF ProcsOK
    <2>6. ~ Lose(p, After(p, c))
      BY <1>6 DEF Confirm, After
    <2> HIDE DEF After, Rest
    <2> QED BY <1>1, <1>2, <2>1, <2>4, <2>5, <2>6, ProcsDo
  <1>7. ASSUME wire' = wire /\ pending' = pending PROVE ProcsOK'
    BY <1>2, <1>7, ProcsStay
  <1>8. ASSUME NEW p \in Deployed, Breaks(p) PROVE ProcsOK'
    BY <1>1, <1>7, <1>8, BreaksLeave
  <1>9. ASSUME NEW p \in Deployed,
               startServer(p) \/ (\E c \in Conns : startMQ(p, c) \/ startWorker(p, c))
        PROVE  ProcsOK'
    BY <1>7, <1>9 DEF startServer, startMQ, startWorker
  <1>10. ASSUME NEW p \in Deployed, Webhooks(p) PROVE ProcsOK'
    BY <1>7, <1>10 DEF Webhooks, WHprocess_webhook_message_deliver,
       WHprocess_webhook_message_update, WHprocess_webhook_conversation_archived,
       WHprocess_webhook_presence, WHwork
  <1>11. CASE Clients BY <1>7, <1>11, ClientsFrame
  <1>12. CASE UNCHANGED vars BY <1>7, <1>12 DEF vars
  <1>13. \A p \in Deployed : ~ MongoFails(p)
    BY DEF MongoFails
  <1> QED BY <1>3, <1>5, <1>6, <1>8, <1>9, <1>10, <1>11, <1>12, <1>13 DEF Next, Server

(***************************************************************************)
(* What is on its way to the endpoints arrives, unless something is lost.  *)
(***************************************************************************)

Notified(x) == x.kind \in {"message_deliver", "presence_event"}

\* No notification disappears; a presence on the "messages" queue becomes one.
Kept ==
  /\ posted \subseteq posted'
  /\ \A x : Notified(x) /\ In(queue["webhooks"], x) => In(queue'["webhooks"], x) \/ x \in posted'
  /\ \A x : \A p \in Deployed, c \in Conns :
       Notified(x) /\ In(wire[p][c], x) => In(wire'[p][c], x) \/ In(queue'["webhooks"], x)
  /\ \A y : ReportsPresence /\ y.kind = "presence" /\ In(queue["messages"], y)
       => \/ In(queue'["messages"], y)
          \/ \E p \in Deployed, c \in Conns : In(wire'[p][c], R("presence_event", 0, y.u))

LEMMA EnqueueKeeps ==
  ASSUME ServerOK, NEW r, Enqueue(r)
  PROVE  /\ \A x : \A q \in Queues : In(queue[q], x) => In(queue'[q], x)
         /\ QueueOf(r.kind) \in declared => In(queue'[QueueOf(r.kind)], r)
  <1> DEFINE k == QueueOf(r.kind)
  <1>1. queue \in [Queues -> Seq(Good)] /\ declared \subseteq Queues
    BY DEF ServerOK
  <1>2. queue' = IF k \in declared THEN [queue EXCEPT ![k] = Append(@, r)] ELSE queue
    BY DEF Enqueue
  <1> HIDE DEF k
  <1>3. CASE k \notin declared BY <1>2, <1>3 DEF k
  <1>4. CASE k \in declared
    <2>1. k \in Queues /\ queue[k] \in Seq(Good) /\ queue'[k] = Append(queue[k], r)
      BY <1>1, <1>2, <1>4
    <2>2. In(queue'[k], r) /\ \A x : In(queue[k], x) => In(queue'[k], x)
      BY <2>1, InAppend
    <2>3. \A q \in Queues : q # k => queue'[q] = queue[q]
      BY <1>1, <1>2, <1>4
    <2> QED BY <2>2, <2>3 DEF k
  <1> QED BY <1>3, <1>4

\* The wires keep what is on them through an activity that starts with them.
LEMMA KeptDo ==
  ASSUME TypeInv, NEW p \in Deployed, NEW e \in EffectsOf(Good), NEW asked,
         Do(p, e, wire[p], asked), ~ Lose(p, e)
  PROVE  /\ WiresGrow(p, e, wire[p], asked)
         /\ \A x : \A q \in Deployed, c \in Conns : In(wire[q][c], x) => In(wire'[q][c], x)
  <1>1. /\ Deployed \subseteq Procs /\ p \in Procs
        /\ wire \in [Procs -> [Conns -> Seq(Published(Good))]]
        /\ pending \in [Procs -> SUBSET Good]
    BY Environments DEF TypeInv, ServerOK
  <1>2. wire[p] \in [Conns -> Seq(Published(Good))]
    BY <1>1
  <1>3. WiresGrow(p, e, wire[p], asked)
    BY <1>1, <1>2, DoWires
  <1>4. ASSUME NEW x, NEW q \in Deployed, NEW c \in Conns, In(wire[q][c], x)
        PROVE  In(wire'[q][c], x)
    <2>1. CASE q = p BY <1>3, <1>4, <2>1 DEF WiresGrow
    <2>2. CASE q # p
      <3>1. wire'[q] = wire[q]
        BY <1>1, <1>3, <2>2 DEF WiresGrow
      <3> QED BY <1>4, <3>1
    <2> QED BY <2>1, <2>2
  <1> QED BY <1>3, <1>4

LEMMA HandlersKeep ==
  ASSUME CoreInv, NEW p \in Deployed, Handlers(p), ~ lost' PROVE Kept
  <1>1. TypeInv /\ queue \in [Queues -> Seq(Good)]
    BY DEF CoreInv, TypeInv, ServerOK
  <1>2. PICK q \in {"messages", "persist"}, e \in EffectsOf(Good) :
          /\ Consume(p, q, Head(queue[q]).kind) /\ Handles(p, e)
          /\ q = "messages" /\ Head(queue[q]).kind = "presence" => Announces(p, e)
    BY <1>1, HandlersHandled DEF Handled
  <1>3. /\ queue' = [queue EXCEPT ![q] = Tail(@)] /\ posted' = posted /\ queue[q] # <<>>
        /\ link[p]["observer"] = "consuming"
    BY <1>2 DEF Consume
  <1>4. /\ WiresGrow(p, e, wire[p], pending[p])
        /\ \A x : \A k \in Deployed, c \in Conns : In(wire[k][c], x) => In(wire'[k][c], x)
    BY <1>1, <1>2, KeptDo DEF Handles
  <1>5. queue'["webhooks"] = queue["webhooks"]
    BY <1>1, <1>3 DEF Queues
  <1>6. ASSUME NEW y, ReportsPresence, y.kind = "presence", In(queue["messages"], y)
        PROVE  \/ In(queue'["messages"], y)
               \/ \E k \in Deployed, c \in Conns : In(wire'[k][c], R("presence_event", 0, y.u))
    <2>1. CASE q = "persist"
      <3>1. queue'["messages"] = queue["messages"]
        BY <1>1, <1>3, <2>1 DEF Queues
      <3> QED BY <1>6, <3>1
    <2>2. CASE q = "messages"
      <3>1. queue["messages"] \in Seq(Good) /\ queue'["messages"] = Tail(queue["messages"])
        BY <1>1, <1>3, <2>2 DEF Queues
      <3>2. y = Head(queue["messages"]) \/ In(Tail(queue["messages"]), y)
        BY <1>3, <1>6, <2>2, <3>1, InTail
      <3>3. CASE In(Tail(queue["messages"]), y)
        BY <3>1, <3>3
      <3>4. CASE y = Head(queue["messages"])
        <4>1. p \in MessageProcs
          BY <1>2, <2>2, ConsumerSends
        <4>2. PresenceEnabled(p) /\ WebhookEnabled(p)
          BY <1>6, <4>1 DEF ReportsPresence
        <4>3. In(e.pub, R("presence_event", 0, y.u))
          BY <1>2, <1>6, <2>2, <3>4, <4>2 DEF Announces
        <4>4. Up(p, "observer")
          BY <1>3 DEF Up
        <4>5. In(wire'[p]["observer"], R("presence_event", 0, y.u)) /\ "observer" \in Conns
          BY <1>4, <4>3, <4>4 DEF WiresGrow, Conns
        <4> QED BY <4>5
      <3> QED BY <3>2, <3>3, <3>4
    <2> QED BY <2>1, <2>2
  <1> QED BY <1>3, <1>4, <1>5, <1>6 DEF Kept

LEMMA WebhooksKeep ==
  ASSUME CoreInv, NEW p \in Deployed, Webhooks(p) PROVE Kept
  <1>1. TypeInv /\ queue \in [Queues -> Seq(Good)]
    BY DEF CoreInv, TypeInv, ServerOK
  <1>2. PICK k : WHwork(p, k) /\ (posted' = posted \/ WHsendData)
                   /\ (k \in {"message_deliver", "presence_event"} => WHsendData)
    BY DEF Webhooks, WHprocess_webhook_message_deliver, WHprocess_webhook_message_update,
       WHprocess_webhook_conversation_archived, WHprocess_webhook_presence, NamesEndpoints
  <1>3. /\ queue' = [queue EXCEPT !["webhooks"] = Tail(@)] /\ queue["webhooks"] # <<>>
        /\ Head(queue["webhooks"]).kind = k /\ wire' = wire
    BY <1>2 DEF WHwork
  <1>4. /\ queue["webhooks"] \in Seq(Good) /\ queue'["webhooks"] = Tail(queue["webhooks"])
        /\ queue'["messages"] = queue["messages"]
    BY <1>1, <1>3 DEF Queues
  <1>5. posted \subseteq posted'
    BY <1>2 DEF WHsendData
  <1>6. ASSUME NEW x, Notified(x), In(queue["webhooks"], x)
        PROVE  In(queue'["webhooks"], x) \/ x \in posted'
    <2>1. x = Head(queue["webhooks"]) \/ In(Tail(queue["webhooks"]), x)
      BY <1>3, <1>4, <1>6, InTail
    <2>2. CASE x = Head(queue["webhooks"])
      BY <1>2, <1>3, <1>6, <2>2 DEF Notified, WHsendData
    <2> QED BY <1>4, <2>1, <2>2
  <1> QED BY <1>3, <1>4, <1>5, <1>6 DEF Kept

LEMMA MongoKeeps ==
  ASSUME CoreInv, NEW p \in Deployed, MongoAnswers(p), ~ lost' PROVE Kept
  <1>1. TypeInv
    BY DEF CoreInv
  <1>2. PICK r \in pending[p] :
          /\ Do(p, AfterMongo(r), wire[p], pending[p] \ {r}) /\ ~ Lose(p, AfterMongo(r))
          /\ queue' = queue /\ posted' = posted
    BY DEF MongoAnswers
  <1>3. AfterMongo(r) \in EffectsOf(Good)
    BY <1>1, PendingIsGood, AfterMongoType
  <1>4. \A x : \A k \in Deployed, c \in Conns : In(wire[k][c], x) => In(wire'[k][c], x)
    BY <1>1, <1>2, <1>3, KeptDo
  <1> QED BY <1>2, <1>4 DEF Kept

LEMMA ConfirmKeeps ==
  ASSUME CoreInv, NEW p \in Deployed, NEW c \in Conns, Confirm(p, c), ~ lost' PROVE Kept
  <1> DEFINE r == Head(wire[p][c])
  <1>1. /\ TypeInv /\ ServerOK /\ Deployed \subseteq Procs /\ p \in Procs
        /\ wire \in [Procs -> [Conns -> Seq(Published(Good))]]
    BY Environments DEF CoreInv, TypeInv, ServerOK
  <1>2. /\ Do(p, After(p, c), Rest(p, c), pending[p])
        /\ After(p, c) \in EffectsOf(Good')
        /\ Rest(p, c) \in [Conns -> Seq(Published(Good'))]
        /\ wire \in [Procs -> [Conns -> Seq(Published(Good'))]]
        /\ pending \in [Procs -> SUBSET Good'] /\ wire[p][c] # <<>>
    BY <1>1, ConfirmEffect
  <1>3. Enqueue(r) /\ ~ Unroutable(r) /\ posted' = posted
    BY DEF Confirm
  <1>4. WiresGrow(p, After(p, c), Rest(p, c), pending[p])
    <2>1. ~ Lose(p, After(p, c))
      BY DEF Confirm, After
    <2> HIDE DEF After, Rest
    <2> QED BY <1>1, <1>2, <2>1, DoWires
  <1>5. /\ \A x : \A q \in Queues : In(queue[q], x) => In(queue'[q], x)
        /\ QueueOf(r.kind) \in declared => In(queue'[QueueOf(r.kind)], r)
    BY <1>1, <1>3, EnqueueKeeps
  <1>6. ASSUME NEW x, NEW q \in Deployed, NEW k \in Conns, Notified(x), In(wire[q][k], x)
        PROVE  In(wire'[q][k], x) \/ In(queue'["webhooks"], x)
    <2>1. CASE q # p
      <3>1. wire'[q] = wire[q]
        BY <1>1, <1>4, <2>1 DEF WiresGrow
      <3> QED BY <1>6, <3>1
    <2>2. CASE q = p /\ In(Rest(p, c)[k], x)
      BY <1>4, <2>2 DEF WiresGrow
    <2>3. CASE q = p /\ ~ In(Rest(p, c)[k], x)
      <3>1. wire[p] \in [Conns -> Seq(Published(Good))]
        BY <1>1
      <3>2. k = c
        BY <1>6, <2>3, <3>1 DEF Rest
      <3>3. wire[p][c] \in Seq(Published(Good)) /\ Rest(p, c)[c] = Tail(wire[p][c])
        BY <3>1 DEF Rest
      <3>4. x = r
        BY <1>2, <1>6, <2>3, <3>2, <3>3, InTail
      <3>5. QueueOf(r.kind) = "webhooks"
        BY <1>6, <3>4 DEF Notified, QueueOf
      <3>6. "webhooks" \in declared
        BY <1>3, <3>5 DEF Unroutable
      <3> HIDE DEF r
      <3> QED BY <1>5, <3>4, <3>5, <3>6
    <2> QED BY <2>1, <2>2, <2>3
  <1>7. "webhooks" \in Queues /\ "messages" \in Queues
    BY DEF Queues
  <1> QED BY <1>3, <1>5, <1>6, <1>7 DEF Kept

LEMMA OthersKeep ==
  ASSUME CoreInv, ~ lost',
         \/ UNCHANGED vars \/ Clients
         \/ \E p \in Deployed : \/ startServer(p) \/ Breaks(p)
                                \/ \E c \in Conns : startMQ(p, c) \/ startWorker(p, c)
  PROVE  Kept
  <1>1. ASSUME queue' = queue /\ wire' = wire /\ posted' = posted PROVE Kept
    BY <1>1 DEF Kept
  <1>2. CASE UNCHANGED vars BY <1>1, <1>2 DEF vars
  <1>3. ASSUME NEW p \in Deployed,
               startServer(p) \/ \E c \in Conns : startMQ(p, c) \/ startWorker(p, c)
        PROVE  Kept
    BY <1>1, <1>3 DEF startServer, startMQ, startWorker
  <1>4. ASSUME NEW p \in Deployed, Breaks(p) PROVE Kept
    BY <1>1, <1>4, BreaksLeave DEF CoreInv
  <1>5. CASE Clients
    <2>1. PICK r : Enqueue(r)
      BY <1>5 DEF Clients, sendMessage, deliverFromHttp, updateGroup, updateConversationIsNew,
         archiveConversation, announcePresence, updateMessageStatus, Sends
    <2>2. \A x : \A q \in Queues : In(queue[q], x) => In(queue'[q], x)
      BY <2>1, EnqueueKeeps DEF CoreInv, TypeInv
    <2>3. wire' = wire /\ posted' = posted
      BY <1>5, ClientsFrame
    <2> QED BY <2>2, <2>3 DEF Kept, Queues
  <1> QED BY <1>2, <1>3, <1>4, <1>5

LEMMA KeptSteps ==
  ASSUME CoreInv, [Next]_vars, ~ lost' PROVE Kept
  <1>1. \A p \in Deployed : ~ MongoFails(p)
    BY DEF MongoFails
  <1> QED BY <1>1, HandlersKeep, WebhooksKeep, MongoKeeps, ConfirmKeeps, OthersKeep
          DEF Next, Server

(***************************************************************************)
(* The theorem on what the endpoints are told.                             *)
(***************************************************************************)

LEMMA LostStays ==
  ASSUME CoreInv, [Next]_vars, ~ lost' PROVE ~ lost
  <1>1. ASSUME NEW p \in Deployed, Handlers(p) PROVE ~ lost
    BY <1>1 DEF Handlers, process_outgoing, process_delivered, process_persist,
       process_update_message, process_update_conversation, process_archive, process_presence,
       process_update_group, Handles
  <1>2. ASSUME NEW p \in Deployed, Webhooks(p) PROVE ~ lost
    BY <1>2 DEF Webhooks, WHprocess_webhook_message_deliver, WHprocess_webhook_message_update,
       WHprocess_webhook_conversation_archived, WHprocess_webhook_presence, WHwork
  <1>3. ASSUME NEW p \in Deployed, MongoAnswers(p) \/ MongoFails(p) PROVE ~ lost
    BY <1>3 DEF MongoAnswers, MongoFails
  <1>4. ASSUME NEW p \in Deployed, NEW c \in Conns,
               Confirm(p, c) \/ startMQ(p, c) \/ startWorker(p, c)
        PROVE  ~ lost
    BY <1>4 DEF Confirm, startMQ, startWorker
  <1>5. ASSUME NEW p \in Deployed, startServer(p) PROVE ~ lost
    BY <1>5 DEF startServer
  <1>6. CASE Clients
    BY <1>6 DEF Clients, sendMessage, deliverFromHttp, updateGroup, updateConversationIsNew,
       archiveConversation, announcePresence, updateMessageStatus, Sends
  <1>7. CASE UNCHANGED vars BY <1>7 DEF vars
  <1>8. ASSUME NEW p \in Deployed, Breaks(p) PROVE ~ lost
    BY <1>8, BreaksTypes DEF Broken, CoreInv
  <1> QED BY <1>1, <1>2, <1>3, <1>4, <1>5, <1>6, <1>7, <1>8 DEF Next, Server

LEMMA OnWayKept ==
  ASSUME Kept, scene' = scene, NEW x, Notified(x), OnWay(x)
  PROVE  OnWay(x)'
  <1>1. Deployed' = Deployed
    BY SceneFrame
  <1>2. CASE x \in posted BY <1>2 DEF Kept, OnWay
  <1>3. CASE In(queue["webhooks"], x) BY <1>3 DEF Kept, OnWay
  <1>4. ASSUME NEW p \in Deployed, NEW c \in Conns, In(wire[p][c], x)
        PROVE  OnWay(x)'
    <2>1. In(wire'[p][c], x) \/ In(queue'["webhooks"], x)
      BY <1>4 DEF Kept
    <2> QED BY <1>1, <2>1 DEF OnWay
  <1> QED BY <1>2, <1>3, <1>4 DEF OnWay

\* A view only shows a message more when the broker took its copy.
LEMMA ShownNew ==
  ASSUME CoreInv, [Next]_vars, NEW u \in Timelines, NEW m \in view'[u].shown,
         m \notin view[u].shown
  PROVE  \E p \in Deployed, c \in Conns :
           /\ Confirm(p, c) /\ Head(wire[p][c]).kind = "added"
           /\ Head(wire[p][c]).m = m /\ Head(wire[p][c]).u = u
  <1>1. view' # view
    OBVIOUS
  <1>2. \A p \in Deployed : ~ startServer(p) /\ ~ MongoAnswers(p) /\ ~ MongoFails(p)
    BY <1>1 DEF startServer, MongoAnswers, MongoFails
  <1>3. \A p \in Deployed : ~ Breaks(p) /\ \A c \in Conns : ~ startMQ(p, c) /\ ~ startWorker(p, c)
    BY <1>1, BreaksTypes DEF startMQ, startWorker, Broken, CoreInv
  <1>4. \A p \in Deployed : ~ Handlers(p)
    BY <1>1 DEF Handlers, process_outgoing, process_delivered, process_persist,
       process_update_message, process_update_conversation, process_archive, process_presence,
       process_update_group, Consume
  <1>5. \A p \in Deployed : ~ Webhooks(p)
    BY <1>1 DEF Webhooks, WHprocess_webhook_message_deliver, WHprocess_webhook_message_update,
       WHprocess_webhook_conversation_archived, WHprocess_webhook_presence, WHwork
  <1>6. ~ Clients /\ ~ UNCHANGED vars
    BY <1>1, ClientsFrame DEF vars
  <1>7. PICK p \in Deployed, c \in Conns : Confirm(p, c)
    BY <1>2, <1>3, <1>4, <1>5, <1>6 DEF Next, Server
  <1> DEFINE r == Head(wire[p][c])
  <1>8. r \in Published(Good)
    BY <1>7, ConfirmEffect DEF CoreInv
  <1>9. view' = IF QueueOf(r.kind) = "none"
                THEN [view EXCEPT ![Told(r)] = Dispatch(@, r)] ELSE view
    BY <1>7 DEF Confirm
  <1> HIDE DEF r
  <1>10. view'[u].shown = IF r.kind = "added" /\ u = r.u THEN view[u].shown \cup {r.m}
                                                         ELSE view[u].shown
    BY <1>8, <1>9, ConfirmViews DEF CoreInv
  <1>11. r.kind = "added" /\ u = r.u /\ m = r.m
    BY <1>10
  <1> QED BY <1>7, <1>11 DEF r

\* A copy shown is reported by the process that sent it.
LEMMA ShownIsReported ==
  ASSUME ReportInv, [Next]_vars, ~ lost', ReportsCopies,
         NEW u \in Timelines, NEW m \in view'[u].shown, m \notin view[u].shown
  PROVE  OnWay(R("message_deliver", m, u))'
  <1>1. CoreInv /\ ProcsOK /\ TypeInv /\ Deployed \subseteq Procs
    BY LostStays, Environments DEF ReportInv, CoreInv, TypeInv
  <1>2. PICK p \in Deployed, c \in Conns :
          /\ Confirm(p, c) /\ Head(wire[p][c]).kind = "added"
          /\ Head(wire[p][c]).m = m /\ Head(wire[p][c]).u = u
    BY <1>1, ShownNew
  <1> DEFINE r == Head(wire[p][c])
             e == After(p, c)
             h == WHnotifyMessageStatusSentOrDelivered(p, m, u)
  <1>3. /\ Do(p, e, Rest(p, c), pending[p]) /\ e \in EffectsOf(Good')
        /\ Rest(p, c) \in [Conns -> Seq(Published(Good'))]
        /\ wire \in [Procs -> [Conns -> Seq(Published(Good'))]]
        /\ pending \in [Procs -> SUBSET Good'] /\ wire[p][c] # <<>> /\ p \in Procs
    BY <1>1, <1>2, ConfirmEffect
  <1>4. p \in MessageProcs
    <2>1. wire \in [Procs -> [Conns -> Seq(Published(Good))]]
      BY <1>1 DEF TypeInv, ServerOK
    <2>2. wire[p][c] \in Seq(Published(Good))
      BY <1>3, <2>1
    <2>3. Speaks(wire[p][c])
      BY <1>2, <1>3, <2>2, InTail
    <2> QED BY <1>1, <2>3 DEF ProcsOK
  <1>5. WebhookEnabled(p) /\ scene.env[p].events = MessageEvents
    BY <1>4 DEF ReportsCopies
  <1>6. h = <<R("message_deliver", m, u)>>
    BY <1>5 DEF WHnotifyMessageStatusSentOrDelivered, MessageEvents
  <1>7. e = Effect(<<R("persist", m, u)>>, h, {})
    BY <1>2 DEF After, AfterPublish
  <1>8. e.hook = h
    <2> HIDE DEF e, h
    <2> QED BY <1>7 DEF Effect
  <1>9. In(e.hook, R("message_deliver", m, u)) /\ e.hook # <<>>
    <2> HIDE DEF e, h
    <2> QED BY <1>6, <1>8 DEF In
  <1>10. ~ Lose(p, e)
    BY <1>2 DEF Confirm, After
  <1>11. Up(p, "webhooks")
    <2> HIDE DEF e
    <2> QED BY <1>9, <1>10, WholeUp
  <1>12. WiresGrow(p, e, Rest(p, c), pending[p])
    <2> HIDE DEF e, Rest
    <2> QED BY <1>3, <1>10, DoWires
  <1>13. In(wire'[p]["webhooks"], R("message_deliver", m, u)) /\ "webhooks" \in Conns
    <2> HIDE DEF e
    <2> QED BY <1>9, <1>11, <1>12 DEF WiresGrow, Conns
  <1>14. Deployed' = Deployed
    BY <1>1, ViewFrame, SceneFrame
  <1> QED BY <1>13, <1>14 DEF OnWay

LEMMA CopiesSteps ==
  ASSUME ReportInv, [Next]_vars, ~ lost' PROVE CopiesOK'
  <1>1. CoreInv /\ TypeInv /\ CopiesOK
    BY LostStays DEF ReportInv, CoreInv
  <1>2. scene' = scene
    BY <1>1, ViewFrame
  <1>3. Kept
    BY <1>1, KeptSteps
  <1>4. ReportsCopies' <=> ReportsCopies
    BY <1>2, SceneFrame
  <1>5. ASSUME ReportsCopies, NEW u \in Timelines, NEW m \in view'[u].shown
        PROVE  OnWay(R("message_deliver", m, u))'
    <2>1. CASE m \in view[u].shown
      <3>1. OnWay(R("message_deliver", m, u))
        BY <1>1, <1>5, <2>1 DEF CopiesOK
      <3>2. Notified(R("message_deliver", m, u))
        BY DEF Notified, R
      <3> QED BY <1>2, <1>3, <3>1, <3>2, OnWayKept
    <2>2. CASE m \notin view[u].shown
      BY <1>5, <2>2, ShownIsReported
    <2> QED BY <2>1, <2>2
  <1> QED BY <1>4, <1>5 DEF CopiesOK

LEMMA PresenceSteps ==
  ASSUME ReportInv, [Next]_vars, ~ lost' PROVE PresenceOK'
  <1>1. CoreInv /\ TypeInv /\ ServerOK /\ PresenceOK /\ announced \subseteq Users
    BY LostStays DEF ReportInv, CoreInv, TypeInv, ClientsOK
  <1>2. scene' = scene /\ Deployed' = Deployed
    BY <1>1, ViewFrame, SceneFrame
  <1>3. Kept
    BY <1>1, KeptSteps
  <1>4. ReportsPresence' <=> ReportsPresence
    BY <1>2, SceneFrame
  <1>5. ASSUME ReportsPresence, NEW u \in announced
        PROVE  \/ OnWay(R("presence_event", 0, u))'
               \/ In(queue'["messages"], R("presence", 0, u))
    <2>1. Notified(R("presence_event", 0, u)) /\ R("presence", 0, u).kind = "presence"
            /\ R("presence", 0, u).u = u
      BY DEF Notified, R
    <2>2. CASE OnWay(R("presence_event", 0, u))
      BY <1>2, <1>3, <2>1, <2>2, OnWayKept
    <2>3. CASE In(queue["messages"], R("presence", 0, u))
      <3>1. \/ In(queue'["messages"], R("presence", 0, u))
            \/ \E p \in Deployed, c \in Conns : In(wire'[p][c], R("presence_event", 0, u))
        BY <1>3, <1>5, <2>1, <2>3 DEF Kept
      <3> QED BY <1>2, <3>1 DEF OnWay
    <2> QED BY <1>1, <1>5, <2>2, <2>3 DEF PresenceOK
  <1>6. ASSUME NEW u \in announced', u \notin announced
        PROVE  In(queue'["messages"], R("presence", 0, u))
    <2>1. announced' # announced
      BY <1>6
    <2>2. \A p \in Deployed : ~ Server(p)
      <3>1. ASSUME NEW p \in Deployed PROVE ~ Handlers(p)
        BY <2>1 DEF Handlers, process_outgoing, process_delivered, process_persist,
           process_update_message, process_update_conversation, process_archive,
           process_presence, process_update_group, Consume
      <3>2. ASSUME NEW p \in Deployed PROVE ~ Webhooks(p)
        BY <2>1 DEF Webhooks, WHprocess_webhook_message_deliver,
           WHprocess_webhook_message_update, WHprocess_webhook_conversation_archived,
           WHprocess_webhook_presence, WHwork
      <3>3. ASSUME NEW p \in Deployed
            PROVE  ~ startServer(p) /\ ~ MongoAnswers(p)
                   /\ \A c \in Conns : ~ startMQ(p, c) /\ ~ startWorker(p, c) /\ ~ Confirm(p, c)
        BY <2>1 DEF startServer, startMQ, startWorker, MongoAnswers, Confirm
      <3> QED BY <3>1, <3>2, <3>3 DEF Server
    <2>3. \A p \in Deployed : ~ MongoFails(p) /\ ~ Breaks(p)
      BY <1>1, <2>1, BreaksTypes DEF MongoFails, Broken
    <2>4. Clients
      BY <2>1, <2>2, <2>3 DEF Next, vars
    <2>5. PICK k \in Users : announcePresence(k)
      BY <2>1, <2>4 DEF Clients, sendMessage, deliverFromHttp, updateGroup,
         updateConversationIsNew, archiveConversation, updateMessageStatus
    <2>6. k = u
      BY <1>6, <2>5 DEF announcePresence
    <2>7. Enqueue(R("presence", 0, u)) /\ ~ Unroutable(R("presence", 0, u))
      BY <2>5, <2>6 DEF announcePresence, Sends
    <2>8. QueueOf(R("presence", 0, u).kind) = "messages"
      BY DEF QueueOf, R
    <2>9. "messages" \in declared
      BY <2>7, <2>8 DEF Unroutable
    <2> QED BY <1>1, <2>7, <2>8, <2>9, EnqueueKeeps
  <1> QED BY <1>4, <1>5, <1>6 DEF PresenceOK

LEMMA QuietReports == ASSUME ReportInv PROVE Reported
  <1> SUFFICES ASSUME Quiet, ~ lost
               PROVE  /\ (\A p \in MessageProcs : WebhookEnabled(p)) => ReportedCopies
                      /\ (\A p \in MessageProcs : WebhookEnabled(p) /\ PresenceEnabled(p))
                           => ReportedPresence
    BY DEF Reported
  <1>1. CopiesOK /\ PresenceOK /\ announced \subseteq Users
    BY DEF ReportInv, CoreInv, TypeInv, ClientsOK
  <1>2. \A r : ~ In(<<>>, r)
    BY DEF In
  <1>3. \A q \in Queues : \A r : ~ In(queue[q], r)
    BY <1>2 DEF Quiet
  <1>4. \A p \in Deployed, c \in Conns : \A r : ~ In(wire[p][c], r)
    BY <1>2 DEF Quiet
  <1>5. \A r : OnWay(r) => r \in posted
    BY <1>3, <1>4 DEF OnWay, Queues
  <1>6. ASSUME \A p \in MessageProcs : WebhookEnabled(p) PROVE ReportedCopies
    BY <1>1, <1>5, <1>6 DEF CopiesOK, ReportsCopies, ReportedCopies
  <1>7. ASSUME \A p \in MessageProcs : WebhookEnabled(p) /\ PresenceEnabled(p)
        PROVE  ReportedPresence
    BY <1>1, <1>3, <1>5, <1>7 DEF PresenceOK, ReportsPresence, ReportedPresence, Queues
  <1> QED BY <1>6, <1>7

LEMMA ReportInit == ASSUME Init PROVE ReportInv
  <1>1. CoreInv /\ Deployed \subseteq Procs
    BY CoreInit, Environments DEF CoreInv, TypeInv
  <1>2. ProcsOK
    BY <1>1 DEF Init, ProcsOK, Speaks, Asking
  <1>3. CopiesOK
    BY DEF Init, CopiesOK
  <1>4. PresenceOK
    BY DEF Init, PresenceOK
  <1> QED BY <1>1, <1>2, <1>3, <1>4 DEF ReportInv

\* When all is quiet and nothing was lost on the way, the endpoints were told
\* of every copy shown and of every presence announced, whatever instances
\* share the queues, if those on the "messages" queue have them enabled.
THEOREM ReportedHolds == Spec => []Reported
  <1>1. Init => ReportInv
    BY ReportInit
  <1>2. ReportInv /\ [Next]_vars => ReportInv'
    <2> SUFFICES ASSUME ReportInv, [Next]_vars PROVE ReportInv'
      OBVIOUS
    <2>1. CoreInv
      BY DEF ReportInv
    <2>2. CoreInv'
      BY <2>1, TypeSteps, StartedSteps DEF CoreInv
    <2>3. ~ lost' => ProcsOK'
      BY <2>1, LostStays, ProcsSteps DEF ReportInv
    <2>4. ~ lost' => CopiesOK' /\ PresenceOK'
      BY CopiesSteps, PresenceSteps
    <2> QED BY <2>2, <2>3, <2>4 DEF ReportInv
  <1> QED BY <1>1, <1>2, QuietReports, PTL DEF Spec

(***************************************************************************)
(* What the clients were told and what is stored agree when all is quiet.  *)
(* Every step takes at most one record, from a queue, from a wire or from  *)
(* the database, and brings those that come of it: Traffic says what may   *)
(* be under way after it, Stems what may come of a record and Leads what   *)
(* must when nothing is lost.  A copy, and an activity of a conversation,  *)
(* is then in one place at a time, and what is not yet stored is owed by   *)
(* what is under way.                                                      *)
(***************************************************************************)

Has(s, S) == \E i \in DOMAIN s : s[i] \in S
Few(s, S) == \A i, j \in DOMAIN s : s[i] \in S /\ s[j] \in S => i = j
Asked(d, S) == \E x \in d : x \in S

\* Of the queues q, the wires w and the operations d: a record of A is on a
\* queue, or one of B elsewhere; and there is one at most.
FlyingIn(q, w, d, A, B) ==
  \/ \E k \in Queues : Has(q[k], A)
  \/ \E p \in Deployed, c \in Conns : Has(w[p][c], B)
  \/ \E p \in Deployed : Asked(d[p], B)

LoneIn(q, w, d, A, B) ==
  /\ \A k \in Queues : Few(q[k], A)
  /\ \A k, l \in Queues : Has(q[k], A) /\ Has(q[l], A) => k = l
  /\ \A p \in Deployed, c \in Conns : Few(w[p][c], B)
  /\ \A p, o \in Deployed, c, e \in Conns :
       Has(w[p][c], B) /\ Has(w[o][e], B) => p = o /\ c = e
  /\ \A p, o \in Deployed : \A x \in d[p], y \in d[o] :
       x \in B /\ y \in B => p = o /\ x = y
  /\ \A k \in Queues, p \in Deployed, c \in Conns : ~ (Has(q[k], A) /\ Has(w[p][c], B))
  /\ \A k \in Queues, p \in Deployed : ~ (Has(q[k], A) /\ Asked(d[p], B))
  /\ \A p, o \in Deployed, c \in Conns : ~ (Has(w[p][c], B) /\ Asked(d[o], B))

Flying(A, B) == FlyingIn(queue, wire, pending, A, B)
Lone(A, B) == LoneIn(queue, wire, pending, A, B)

\* A copy that u has not been sent is in one place: as the message, as the
\* search for its group, as itself, or in a direct message as the sender's copy.
Sent(m) ==
  IF Injected(m) THEN m <= scene.bound.msgs + scene.bound.injected - left.injected
                 ELSE m <= scene.bound.msgs - left.msgs

Queued(m, u) == {R("outgoing", m, Sender), R("delivered", m, u)}
Coming(m, u) ==
  {R("getGroup", m, Group), R("added", m, u)}
    \cup (IF Direct /\ u = Receiver THEN {R("added", m, Sender), R("persist", m, Sender)}
                                    ELSE {})

CopyOnce(m, u) ==
  /\ Lone(Queued(m, u), Coming(m, u))
  /\ Flying(Queued(m, u), Coming(m, u)) => Sent(m) /\ m \notin view[u].shown
  /\ m \in view[u].shown => Sent(m)

ComingOK == \A u \in Users : \A m \in Messages : CopyOnce(m, u)

\* What only MongoDB is asked.
AskedKinds ==
  {"getGroup", "saveMessage", "saveConversation", "saveReceived", "saveReturned",
   "saveIsNew", "saveArchived", "detail"}

AskedOK == \A p \in Deployed : \A r \in pending[p] : r.kind \in AskedKinds

\* Receipts are sent by the receiver, of messages it has read, and only a
\* conversation in a list is archived.
Origin(r) ==
  /\ r.kind = "outgoing" => r.u = Sender
  /\ r.kind = "delivered" => r.u = Receiver
  /\ r.kind = "getGroup" => r.u = Group /\ scene.to = "group"
  /\ r.kind \in {"archive", "saveArchived", "detail", "clientdeleted", "archivedadded"} =>
       scene.updateconversation
  /\ r.kind \in {"update", "updated", "saveReceived", "saveReturned"} => r.u = Receiver
  /\ r.kind = "update" /\ scene.status = RECEIVED => r.m \in read[Receiver]
  /\ r.kind \in {"updated", "saveReceived", "saveReturned"} => r.m \in read[Receiver]

OriginsOK == \A r \in Record : InFlight(r) => Origin(r)

\* A receipt is saved when the other side has been told.
ReceiptsOK ==
  \A r \in Record : InFlight(r) /\ r.kind \in {"saveReceived", "saveReturned"} =>
    r.m \in view[ConversWith(r.u)].returned

\* What was read of an undisputed timeline is not being stored any more.
ReadOK ==
  /\ read[Sender] = {} /\ read[Receiver] \subseteq view[Receiver].shown
  /\ read[Receiver] # {} => scene.status = RECEIVED
  /\ view[Receiver].returned = {} /\ view[Sender].returned \subseteq read[Receiver]
  /\ view[Sender].returned # {} => Direct
  /\ \A m \in read[Receiver] : \A u \in Users \ raced :
       u = Receiver \/ Direct => ~ Storing(m, u)

\* The status of a copy shown is stored, or going to be.
StatusComes(m, u) ==
  \/ Storing(m, u)
  \/ messages[u][m] = StatusTold(u, m)
  \/ u = Receiver /\ m \in read[u]
       /\ \E k \in {"update", "updated", "saveReceived"} : InFlight(R(k, m, Receiver))
  \/ u = Sender /\ m \in view[u].returned
       /\ \E k \in {"saveReceived", "saveReturned"} : InFlight(R(k, m, Receiver))

StatusesOK == \A u \in Users \ raced : \A m \in view[u].shown : StatusComes(m, u)

GroupOK ==
  scene.bound.groups > left.groups =>
    /\ group = Users
    /\ \A u \in Users : \/ view[u].members = Users
                        \/ InFlight(R("groups.update", 0, Group))
                        \/ InFlight(R("groupupdated", 0, u))

\* What is under way about a conversation.
ConversationKinds ==
  {"persist", "saveMessage", "saveConversation", "is_new", "saveIsNew", "convupdated",
   "archive", "saveArchived", "detail", "clientdeleted", "archivedadded"}

About(u) == {r \in Record : r.u = u /\ r.kind \in ConversationKinds}

Agrees(u) ==
  /\ conversations[u].app /\ conversations[u].last = view[u].last
  /\ conversations[u].is_new = view[u].is_new
  /\ conversations[u].archived = (view[u].list = "archived")

\* What each of them finds.
Finds(r) ==
  LET v == view[r.u]
      d == conversations[r.u]
  IN
  /\ r.kind \in {"persist", "saveMessage", "saveConversation"} /\ scene.updateconversation =>
       v.last = r.m /\ v.is_new /\ v.list = "conversations"
  /\ r.kind \in {"is_new", "saveIsNew", "archive", "saveArchived"} =>
       Agrees(r.u) /\ v.list = "conversations"
  /\ r.kind = "convupdated" =>
       d.app /\ d.last = v.last /\ ~ d.is_new /\ ~ d.archived /\ v.list = "conversations"
  /\ r.kind \in {"detail", "clientdeleted", "archivedadded"} =>
       d.app /\ d.last = v.last /\ d.is_new = v.is_new /\ d.archived

\* One activity at a time, and agreement between them.
ConversationOK(u) ==
  /\ Lone(About(u), About(u))
  /\ \A r \in About(u) : InFlight(r) => Finds(r)
  /\ ~ Flying(About(u), About(u)) /\ view[u].list # "none" => Agrees(u)

ConversationsOK == \A u \in Users \ raced : ConversationOK(u)

ListsOK == \A u \in Users : view[u].list # "none" => scene.updateconversation

FlightOK == AskedOK /\ ComingOK /\ OriginsOK /\ ReceiptsOK /\ ReadOK /\ ListsOK

MatchInv == CoreInv /\ (~ lost => FlightOK /\ StatusesOK /\ GroupOK /\ ConversationsOK)

(***************************************************************************)
(* Records of a set in sequences.                                          *)
(***************************************************************************)

LEMMA HasConcat ==
  ASSUME NEW G, NEW s \in Seq(G), NEW t \in Seq(G), NEW S
  PROVE  /\ Has(s \o t, S) <=> Has(s, S) \/ Has(t, S)
         /\ Few(s, S) /\ ~ Has(t, S) => Few(s \o t, S)
         /\ ~ Has(s, S) /\ Few(t, S) => Few(s \o t, S)
  <1> DEFINE n == Len(s)  k == Len(t)
  <1>1. /\ n \in Nat /\ k \in Nat /\ DOMAIN s = 1 .. n /\ DOMAIN t = 1 .. k
        /\ DOMAIN (s \o t) = 1 .. (n + k)
    OBVIOUS
  <1>2. /\ \A i \in 1 .. n : (s \o t)[i] = s[i]
        /\ \A i \in (n + 1) .. (n + k) : (s \o t)[i] = t[i - n]
    OBVIOUS
  <1>3. \A i \in 1 .. k : (s \o t)[i + n] = t[i]
    OBVIOUS
  <1> HIDE DEF n, k
  <1>4. \A i \in 1 .. (n + k) : i \in 1 .. n \/ (i - n \in 1 .. k /\ i \in (n + 1) .. (n + k))
    BY <1>1
  <1>5. /\ \A i \in 1 .. n : i \in 1 .. (n + k)
        /\ \A i \in 1 .. k : i + n \in 1 .. (n + k)
    BY <1>1
  <1>6. Has(s \o t, S) <=> Has(s, S) \/ Has(t, S)
    BY <1>1, <1>2, <1>3, <1>4, <1>5 DEF Has
  <1>7. ASSUME Few(s, S), ~ Has(t, S) PROVE Few(s \o t, S)
    <2> SUFFICES ASSUME NEW i \in 1 .. (n + k), NEW j \in 1 .. (n + k),
                        (s \o t)[i] \in S, (s \o t)[j] \in S
                 PROVE  i = j
      BY <1>1 DEF Few
    <2>1. i \in 1 .. n /\ j \in 1 .. n
      BY <1>1, <1>2, <1>4, <1>7 DEF Has
    <2> QED BY <1>1, <1>2, <1>7, <2>1 DEF Few
  <1>8. ASSUME ~ Has(s, S), Few(t, S) PROVE Few(s \o t, S)
    <2> SUFFICES ASSUME NEW i \in 1 .. (n + k), NEW j \in 1 .. (n + k),
                        (s \o t)[i] \in S, (s \o t)[j] \in S
                 PROVE  i = j
      BY <1>1 DEF Few
    <2>1. i \notin 1 .. n /\ j \notin 1 .. n
      BY <1>1, <1>2, <1>8 DEF Has
    <2>2. i - n \in 1 .. k /\ j - n \in 1 .. k /\ (s \o t)[i] = t[i - n] /\ (s \o t)[j] = t[j - n]
      BY <1>2, <1>4, <2>1
    <2>3. i - n = j - n
      BY <1>1, <1>8, <2>2 DEF Few
    <2> QED BY <1>1, <2>3
  <1> QED BY <1>6, <1>7, <1>8

LEMMA HasTail ==
  ASSUME NEW G, NEW s \in Seq(G), s # <<>>, NEW S
  PROVE  /\ Has(s, S) <=> Head(s) \in S \/ Has(Tail(s), S)
         /\ Few(s, S) => Few(Tail(s), S)
         /\ Few(s, S) /\ Head(s) \in S => ~ Has(Tail(s), S)
  <1> DEFINE n == Len(s)
  <1>1. n \in Nat /\ n >= 1 /\ DOMAIN s = 1 .. n /\ Head(s) = s[1]
    OBVIOUS
  <1>2. DOMAIN Tail(s) = 1 .. (n - 1) /\ \A i \in 1 .. (n - 1) : Tail(s)[i] = s[i + 1]
    OBVIOUS
  <1> HIDE DEF n
  <1>3. /\ \A i \in 1 .. n : i = 1 \/ i - 1 \in 1 .. (n - 1)
        /\ \A i \in 1 .. (n - 1) : i + 1 \in 1 .. n /\ i + 1 # 1
        /\ 1 \in 1 .. n
    BY <1>1
  <1>4. \A i \in 1 .. n : i # 1 => s[i] = Tail(s)[i - 1]
    BY <1>1, <1>2, <1>3
  <1>5. Has(s, S) <=> Head(s) \in S \/ Has(Tail(s), S)
    BY <1>1, <1>2, <1>3, <1>4 DEF Has
  <1>6. ASSUME Few(s, S), NEW i \in 1 .. (n - 1), NEW j \in 1 .. (n - 1),
               Tail(s)[i] \in S, Tail(s)[j] \in S
        PROVE  i = j
    <2>1. i + 1 = j + 1
      BY <1>1, <1>2, <1>3, <1>6 DEF Few
    <2> QED BY <1>1, <2>1
  <1>7. ASSUME Few(s, S), Head(s) \in S PROVE ~ Has(Tail(s), S)
    BY <1>1, <1>2, <1>3, <1>7 DEF Has, Few
  <1> QED BY <1>2, <1>5, <1>6, <1>7 DEF Few

LEMMA HasNone == ASSUME NEW S PROVE ~ Has(<<>>, S) /\ Few(<<>>, S)
  BY DEF Has, Few

LEMMA HasOne ==
  ASSUME NEW S, NEW x PROVE (Has(<<x>>, S) <=> x \in S) /\ Few(<<x>>, S)
  BY DEF Has, Few

LEMMA HasAppend ==
  ASSUME NEW G, NEW s \in Seq(G), NEW x, NEW S
  PROVE  /\ Has(Append(s, x), S) <=> Has(s, S) \/ x \in S
         /\ Few(s, S) /\ x \notin S => Few(Append(s, x), S)
         /\ ~ Has(s, S) => Few(Append(s, x), S)
  <1>1. /\ Len(s) \in Nat /\ DOMAIN s = 1 .. Len(s)
        /\ DOMAIN Append(s, x) = 1 .. (Len(s) + 1)
        /\ Append(s, x)[Len(s) + 1] = x
        /\ \A i \in 1 .. Len(s) : Append(s, x)[i] = s[i]
    OBVIOUS
  <1>2. \A i \in 1 .. (Len(s) + 1) : i \in 1 .. Len(s) \/ i = Len(s) + 1
    BY <1>1
  <1>3. \A i \in 1 .. Len(s) : i \in 1 .. (Len(s) + 1)
    BY <1>1
  <1> QED BY <1>1, <1>2, <1>3 DEF Has, Few

(***************************************************************************)
(* A step takes a record from a queue, or from a wire or the database, and *)
(* brings others.                                                          *)
(***************************************************************************)

LEMMA InFlightFlies ==
  ASSUME NEW r PROVE InFlight(r) <=> Flying({r}, {r})
  BY DEF InFlight, Flying, FlyingIn, Has, Asked

\* Less flies of fewer records.
LEMMA FliesMore ==
  ASSUME NEW q, NEW w, NEW d, NEW A, NEW B, NEW C, NEW D, C \subseteq A, D \subseteq B
  PROVE  /\ FlyingIn(q, w, d, C, D) => FlyingIn(q, w, d, A, B)
         /\ LoneIn(q, w, d, A, B) => LoneIn(q, w, d, C, D)
  <1>1. \A s : /\ Has(s, C) => Has(s, A)
               /\ Has(s, D) => Has(s, B)
               /\ Asked(s, D) => Asked(s, B)
               /\ Few(s, A) => Few(s, C)
               /\ Few(s, B) => Few(s, D)
    BY DEF Has, Asked, Few
  <1>2. FlyingIn(q, w, d, C, D) => FlyingIn(q, w, d, A, B)
    BY <1>1 DEF FlyingIn
  <1>3. LoneIn(q, w, d, A, B) => LoneIn(q, w, d, C, D)
    BY <1>1 DEF LoneIn
  <1> QED BY <1>2, <1>3

\* What is left when a record was taken from a queue (of TQ), or from a wire or
\* the database (of TB).
Leaves(q, w, d, TQ, TB) ==
  \A A, B :
    /\ FlyingIn(q, w, d, A, B) => Flying(A, B)
    /\ Lone(A, B) => LoneIn(q, w, d, A, B)
    /\ Lone(A, B) /\ (TQ \cap A # {} \/ TB \cap B # {}) => ~ FlyingIn(q, w, d, A, B)
    /\ Flying(A, B) /\ TQ \cap A = {} /\ TB \cap B = {} => FlyingIn(q, w, d, A, B)

LEMMA LeavesAll == Leaves(queue, wire, pending, {}, {})
  BY DEF Leaves, Flying, Lone

LEMMA LeavesQueue ==
  ASSUME ServerOK, NEW k \in Queues, queue[k] # <<>>
  PROVE  Leaves([queue EXCEPT ![k] = Tail(@)], wire, pending, {Head(queue[k])}, {})
  <1> DEFINE q == [queue EXCEPT ![k] = Tail(@)]
             r == Head(queue[k])
  <1>1. q[k] = Tail(queue[k]) /\ \A l \in Queues : l # k => q[l] = queue[l]
    BY DEF ServerOK
  <1>2. queue[k] \in Seq(Good)
    BY DEF ServerOK
  <1> HIDE DEF q
  <1> SUFFICES ASSUME NEW A, NEW B
               PROVE  /\ FlyingIn(q, wire, pending, A, B) => Flying(A, B)
                      /\ Lone(A, B) => LoneIn(q, wire, pending, A, B)
                      /\ Lone(A, B) /\ r \in A => ~ FlyingIn(q, wire, pending, A, B)
                      /\ Flying(A, B) /\ r \notin A => FlyingIn(q, wire, pending, A, B)
    BY DEF Leaves, q
  <1>3. /\ Has(queue[k], A) <=> r \in A \/ Has(q[k], A)
        /\ Few(queue[k], A) => Few(q[k], A)
        /\ Few(queue[k], A) /\ r \in A => ~ Has(q[k], A)
    BY <1>1, <1>2, HasTail
  <1> HIDE DEF r
  <1>4. \A l \in Queues : Has(q[l], A) => Has(queue[l], A)
    BY <1>1, <1>3
  <1>5. FlyingIn(q, wire, pending, A, B) => Flying(A, B)
    BY <1>4 DEF FlyingIn, Flying
  <1>6. Lone(A, B) => LoneIn(q, wire, pending, A, B)
    <2>1. Lone(A, B) => \A l \in Queues : Few(q[l], A)
      BY <1>1, <1>3 DEF Lone, LoneIn
    <2> QED BY <2>1, <1>4 DEF Lone, LoneIn
  <1>7. Lone(A, B) /\ r \in A => ~ FlyingIn(q, wire, pending, A, B)
    BY <1>1, <1>3 DEF Lone, LoneIn, FlyingIn
  <1>8. Flying(A, B) /\ r \notin A => FlyingIn(q, wire, pending, A, B)
    BY <1>1, <1>3 DEF Flying, FlyingIn
  <1> QED BY <1>5, <1>6, <1>7, <1>8

LEMMA LeavesWire ==
  ASSUME ServerOK, Deployed \subseteq Procs, NEW p \in Deployed, NEW c \in Conns,
         wire[p][c] # <<>>
  PROVE  Leaves(queue, [wire EXCEPT ![p][c] = Tail(@)], pending, {}, {Head(wire[p][c])})
  <1> DEFINE w == [wire EXCEPT ![p][c] = Tail(@)]
             r == Head(wire[p][c])
  <1>0. p \in Procs /\ wire \in [Procs -> [Conns -> Seq(Published(Good))]]
    BY DEF ServerOK
  <1>1. /\ w[p][c] = Tail(wire[p][c])
        /\ \A o \in Deployed, e \in Conns : o # p \/ e # c => w[o][e] = wire[o][e]
    BY <1>0
  <1>2. wire[p][c] \in Seq(Published(Good))
    BY <1>0
  <1> HIDE DEF w
  <1> SUFFICES ASSUME NEW A, NEW B
               PROVE  /\ FlyingIn(queue, w, pending, A, B) => Flying(A, B)
                      /\ Lone(A, B) => LoneIn(queue, w, pending, A, B)
                      /\ Lone(A, B) /\ r \in B => ~ FlyingIn(queue, w, pending, A, B)
                      /\ Flying(A, B) /\ r \notin B => FlyingIn(queue, w, pending, A, B)
    BY DEF Leaves, w
  <1>3. /\ Has(wire[p][c], B) <=> r \in B \/ Has(w[p][c], B)
        /\ Few(wire[p][c], B) => Few(w[p][c], B)
        /\ Few(wire[p][c], B) /\ r \in B => ~ Has(w[p][c], B)
    BY <1>1, <1>2, HasTail
  <1> HIDE DEF r
  <1>4. \A o \in Deployed, e \in Conns : Has(w[o][e], B) => Has(wire[o][e], B)
    BY <1>1, <1>3
  <1>5. FlyingIn(queue, w, pending, A, B) => Flying(A, B)
    BY <1>4 DEF FlyingIn, Flying
  <1>6. Lone(A, B) => LoneIn(queue, w, pending, A, B)
    <2>1. Lone(A, B) => \A o \in Deployed, e \in Conns : Few(w[o][e], B)
      BY <1>1, <1>3 DEF Lone, LoneIn
    <2> QED BY <2>1, <1>4 DEF Lone, LoneIn
  <1>7. Lone(A, B) /\ r \in B => ~ FlyingIn(queue, w, pending, A, B)
    BY <1>1, <1>3 DEF Lone, LoneIn, FlyingIn
  <1>8. Flying(A, B) /\ r \notin B => FlyingIn(queue, w, pending, A, B)
    BY <1>1, <1>3 DEF Flying, FlyingIn
  <1> QED BY <1>5, <1>6, <1>7, <1>8

LEMMA LeavesBase ==
  ASSUME ServerOK, Deployed \subseteq Procs, NEW p \in Deployed, NEW r \in pending[p]
  PROVE  Leaves(queue, wire, [pending EXCEPT ![p] = @ \ {r}], {}, {r})
  <1> DEFINE d == [pending EXCEPT ![p] = @ \ {r}]
  <1>0. p \in Procs /\ pending \in [Procs -> SUBSET Good]
    BY DEF ServerOK
  <1>1. d[p] = pending[p] \ {r} /\ \A o \in Deployed : o # p => d[o] = pending[o]
    BY <1>0
  <1> HIDE DEF d
  <1> SUFFICES ASSUME NEW A, NEW B
               PROVE  /\ FlyingIn(queue, wire, d, A, B) => Flying(A, B)
                      /\ Lone(A, B) => LoneIn(queue, wire, d, A, B)
                      /\ Lone(A, B) /\ r \in B => ~ FlyingIn(queue, wire, d, A, B)
                      /\ Flying(A, B) /\ r \notin B => FlyingIn(queue, wire, d, A, B)
    BY DEF Leaves, d
  <1>2. \A o \in Deployed : d[o] \subseteq pending[o]
    BY <1>1
  <1>3. \A o \in Deployed : Asked(d[o], B) => Asked(pending[o], B)
    BY <1>2 DEF Asked
  <1>5. FlyingIn(queue, wire, d, A, B) => Flying(A, B)
    BY <1>3 DEF FlyingIn, Flying
  <1>6. Lone(A, B) => LoneIn(queue, wire, d, A, B)
    BY <1>2, <1>3 DEF Lone, LoneIn
  <1>7. Lone(A, B) /\ r \in B => ~ FlyingIn(queue, wire, d, A, B)
    BY <1>1 DEF Lone, LoneIn, FlyingIn, Asked
  <1>8. Flying(A, B) /\ r \notin B => FlyingIn(queue, wire, d, A, B)
    <2>1. \A o \in Deployed : Asked(pending[o], B) /\ r \notin B => Asked(d[o], B)
      BY <1>1 DEF Asked
    <2> QED BY <2>1 DEF Flying, FlyingIn
  <1> QED BY <1>5, <1>6, <1>7, <1>8

\* What comes to the queues, and what comes to the wires and the database.
QueueJoins(q, XQ) ==
  \A A :
    /\ XQ \cap A = {} =>
         \A k \in Queues : /\ Has(queue'[k], A) => Has(q[k], A)
                           /\ Few(q[k], A) => Few(queue'[k], A)
    /\ (\A k \in Queues : ~ Has(q[k], A)) =>
         /\ \A k \in Queues : Few(queue'[k], A)
         /\ \A k, l \in Queues : Has(queue'[k], A) /\ Has(queue'[l], A) => k = l
    /\ \A k \in Queues : Has(q[k], A) => Has(queue'[k], A)
    /\ ~ lost' /\ XQ \cap A # {} => \E k \in Queues : Has(queue'[k], A)

LEMMA QueueSame ==
  ASSUME NEW q, queue' = q PROVE QueueJoins(q, {})
  <1> SUFFICES ASSUME NEW A
               PROVE  (\A k \in Queues : ~ Has(q[k], A)) => \A k \in Queues : Few(queue'[k], A)
    BY DEF QueueJoins
  <1> QED BY DEF Has, Few

LEMMA QueueEnqueues ==
  ASSUME ServerOK, NEW x, QueueOf(x.kind) \in Queues, Enqueue(x), ~ lost' => ~ Unroutable(x)
  PROVE  QueueJoins(queue, {x})
  <1> DEFINE k == QueueOf(x.kind)
  <1>1. /\ queue \in [Queues -> Seq(Good)]
        /\ queue' = IF k \in declared THEN [queue EXCEPT ![k] = Append(@, x)] ELSE queue
    BY DEF ServerOK, Enqueue
  <1>2. k \in Queues /\ (~ lost' => k \in declared)
    BY DEF Unroutable, Queues
  <1>3. \/ queue' = queue /\ lost'
        \/ queue'[k] = Append(queue[k], x) /\ \A l \in Queues : l # k => queue'[l] = queue[l]
    BY <1>1, <1>2
  <1> HIDE DEF k
  <1> SUFFICES ASSUME NEW A
               PROVE  /\ x \notin A =>
                           \A l \in Queues : /\ Has(queue'[l], A) => Has(queue[l], A)
                                             /\ Few(queue[l], A) => Few(queue'[l], A)
                      /\ (\A l \in Queues : ~ Has(queue[l], A)) =>
                           /\ \A l \in Queues : Few(queue'[l], A)
                           /\ \A l, j \in Queues : Has(queue'[l], A) /\ Has(queue'[j], A) => l = j
                      /\ \A l \in Queues : Has(queue[l], A) => Has(queue'[l], A)
                      /\ ~ lost' /\ x \in A => \E l \in Queues : Has(queue'[l], A)
    BY DEF QueueJoins
  <1>4. \A s : ~ Has(s, A) => Few(s, A)
    BY DEF Has, Few
  <1>5. CASE queue' = queue /\ lost'
    BY <1>4, <1>5
  <1>6. CASE queue'[k] = Append(queue[k], x) /\ \A l \in Queues : l # k => queue'[l] = queue[l]
    <2>1. queue[k] \in Seq(Good)
      BY <1>1, <1>2
    <2>2. /\ Has(queue'[k], A) <=> Has(queue[k], A) \/ x \in A
          /\ Few(queue[k], A) /\ x \notin A => Few(queue'[k], A)
          /\ ~ Has(queue[k], A) => Few(queue'[k], A)
      BY <1>6, <2>1, HasAppend
    <2> QED BY <1>2, <1>4, <1>6, <2>2
  <1> QED BY <1>3, <1>5, <1>6

Brought(e) ==
  {e.pub[i] : i \in DOMAIN e.pub} \cup {e.hook[i] : i \in DOMAIN e.hook} \cup e.db

\* It brings no record twice.
Distinct(e) ==
  /\ \A i, j \in DOMAIN e.pub : e.pub[i] = e.pub[j] => i = j
  /\ \A i, j \in DOMAIN e.hook : e.hook[i] = e.hook[j] => i = j
  /\ \A i \in DOMAIN e.pub, j \in DOMAIN e.hook : e.pub[i] # e.hook[j]
  /\ \A i \in DOMAIN e.pub : e.pub[i] \notin e.db
  /\ \A i \in DOMAIN e.hook : e.hook[i] \notin e.db

WireJoins(w, d, NB) ==
  \A B :
    /\ NB \cap B = {} =>
         /\ \A p \in Deployed, c \in Conns : /\ Has(wire'[p][c], B) => Has(w[p][c], B)
                                             /\ Few(w[p][c], B) => Few(wire'[p][c], B)
         /\ \A p \in Deployed : \A x \in pending'[p] : x \in B => x \in d[p]
    /\ /\ \A p \in Deployed, c \in Conns : ~ Has(w[p][c], B)
       /\ \A p \in Deployed : ~ Asked(d[p], B)
       /\ \A x, y \in NB : x \in B /\ y \in B => x = y
       => /\ \A p \in Deployed, c \in Conns : Few(wire'[p][c], B)
          /\ \A p, o \in Deployed, c, a \in Conns :
               Has(wire'[p][c], B) /\ Has(wire'[o][a], B) => p = o /\ c = a
          /\ \A p, o \in Deployed : \A x \in pending'[p], y \in pending'[o] :
               x \in B /\ y \in B => p = o /\ x = y
          /\ \A p, o \in Deployed, c \in Conns : ~ (Has(wire'[p][c], B) /\ Asked(pending'[o], B))
    /\ \A p \in Deployed, c \in Conns : Has(w[p][c], B) => Has(wire'[p][c], B)
    /\ \A p \in Deployed : Asked(d[p], B) => Asked(pending'[p], B)
    /\ ~ lost' /\ NB \cap B # {} =>
         \/ \E p \in Deployed, c \in Conns : Has(wire'[p][c], B)
         \/ \E p \in Deployed : Asked(pending'[p], B)

LEMMA WiresSame ==
  ASSUME wire' = wire, pending' = pending PROVE WireJoins(wire, pending, {})
  <1>1. \A s, B : ~ Has(s, B) => Few(s, B)
    BY DEF Has, Few
  <1>2. \A s, B : (\E x \in s : x \in B) => Asked(s, B)
    BY DEF Asked
  <1> QED BY <1>1, <1>2 DEF WireJoins

\* One wire, given what was on it and what is published on it.
LEMMA WireGets ==
  ASSUME NEW G, NEW s \in Seq(G), NEW t \in Seq(G), NEW B, NEW up \in BOOLEAN
  PROVE  LET z == IF up THEN s \o t ELSE s IN
         /\ Has(z, B) => Has(s, B) \/ Has(t, B)
         /\ Has(s, B) => Has(z, B)
         /\ up /\ Has(t, B) => Has(z, B)
         /\ Few(s, B) /\ ~ Has(t, B) => Few(z, B)
         /\ ~ Has(s, B) /\ Few(t, B) => Few(z, B)
  <1>1. \A y : ~ Has(y, B) => Few(y, B)
    BY DEF Has, Few
  <1> QED BY <1>1, HasConcat

LEMMA OneBrought ==
  ASSUME NEW e, Distinct(e), NEW B, \A x, y \in Brought(e) : x \in B /\ y \in B => x = y
  PROVE  /\ Few(e.pub, B) /\ Few(e.hook, B)
         /\ ~ (Has(e.pub, B) /\ Has(e.hook, B))
         /\ ~ (Has(e.pub, B) /\ Asked(e.db, B)) /\ ~ (Has(e.hook, B) /\ Asked(e.db, B))
         /\ \A x, y \in e.db : x \in B /\ y \in B => x = y
  <1>1. /\ \A i \in DOMAIN e.pub : e.pub[i] \in Brought(e)
        /\ \A i \in DOMAIN e.hook : e.hook[i] \in Brought(e)
        /\ \A x \in e.db : x \in Brought(e)
    BY DEF Brought
  <1>2. Few(e.pub, B) /\ Few(e.hook, B)
    BY <1>1 DEF Distinct, Few
  <1>3. ~ (Has(e.pub, B) /\ Has(e.hook, B))
    BY <1>1 DEF Distinct, Has
  <1>4. ~ (Has(e.pub, B) /\ Asked(e.db, B)) /\ ~ (Has(e.hook, B) /\ Asked(e.db, B))
    BY <1>1 DEF Distinct, Has, Asked
  <1> QED BY <1>1, <1>2, <1>3, <1>4

LEMMA WireDoes ==
  ASSUME NEW G, NEW p \in Deployed, NEW e \in EffectsOf(G), Distinct(e), NEW w, NEW d,
         w[p] \in [Conns -> Seq(Published(G))],
         wire'[p] = [observer |-> publish(p, "observer", w[p]["observer"], e.pub),
                     webhooks |-> publish(p, "webhooks", w[p]["webhooks"], e.hook)],
         pending'[p] = d[p] \cup e.db,
         \A o \in Deployed : o # p => wire'[o] = w[o] /\ pending'[o] = d[o],
         ~ lost' => ~ Lose(p, e)
  PROVE  WireJoins(w, d, Brought(e))
  <1> DEFINE O == wire'[p]["observer"]
             W == wire'[p]["webhooks"]
  <1>1. /\ e.pub \in Seq(Published(G)) /\ e.hook \in Seq(Published(G))
        /\ w[p]["observer"] \in Seq(Published(G)) /\ w[p]["webhooks"] \in Seq(Published(G))
    BY DEF EffectsOf, Conns
  <1>2. \A c \in Conns : c = "observer" \/ c = "webhooks"
    BY DEF Conns
  <1>3. "observer" \in Conns /\ "webhooks" \in Conns
    BY DEF Conns
  <1> SUFFICES ASSUME NEW B
      PROVE  /\ Brought(e) \cap B = {} =>
                  /\ \A o \in Deployed, c \in Conns : /\ Has(wire'[o][c], B) => Has(w[o][c], B)
                                                      /\ Few(w[o][c], B) => Few(wire'[o][c], B)
                  /\ \A o \in Deployed : \A x \in pending'[o] : x \in B => x \in d[o]
             /\ /\ \A o \in Deployed, c \in Conns : ~ Has(w[o][c], B)
                /\ \A o \in Deployed : ~ Asked(d[o], B)
                /\ \A x, y \in Brought(e) : x \in B /\ y \in B => x = y
                => /\ \A o \in Deployed, c \in Conns : Few(wire'[o][c], B)
                   /\ \A k, o \in Deployed, c, a \in Conns :
                        Has(wire'[k][c], B) /\ Has(wire'[o][a], B) => k = o /\ c = a
                   /\ \A k, o \in Deployed : \A x \in pending'[k], y \in pending'[o] :
                        x \in B /\ y \in B => k = o /\ x = y
                   /\ \A k, o \in Deployed, c \in Conns :
                        ~ (Has(wire'[k][c], B) /\ Asked(pending'[o], B))
             /\ \A o \in Deployed, c \in Conns : Has(w[o][c], B) => Has(wire'[o][c], B)
             /\ \A o \in Deployed : Asked(d[o], B) => Asked(pending'[o], B)
             /\ ~ lost' /\ Brought(e) \cap B # {} =>
                  \/ \E o \in Deployed, c \in Conns : Has(wire'[o][c], B)
                  \/ \E o \in Deployed : Asked(pending'[o], B)
    BY DEF WireJoins
  <1>4. /\ Has(O, B) => Has(w[p]["observer"], B) \/ Has(e.pub, B)
        /\ Has(w[p]["observer"], B) => Has(O, B)
        /\ Up(p, "observer") /\ Has(e.pub, B) => Has(O, B)
        /\ Few(w[p]["observer"], B) /\ ~ Has(e.pub, B) => Few(O, B)
        /\ ~ Has(w[p]["observer"], B) /\ Few(e.pub, B) => Few(O, B)
    <2>1. O = IF Up(p, "observer") THEN w[p]["observer"] \o e.pub ELSE w[p]["observer"]
      BY DEF publish
    <2>2. Up(p, "observer") \in BOOLEAN
      BY DEF Up
    <2> HIDE DEF O
    <2> QED BY <1>1, <2>1, <2>2, WireGets
  <1>5. /\ Has(W, B) => Has(w[p]["webhooks"], B) \/ Has(e.hook, B)
        /\ Has(w[p]["webhooks"], B) => Has(W, B)
        /\ Up(p, "webhooks") /\ Has(e.hook, B) => Has(W, B)
        /\ Few(w[p]["webhooks"], B) /\ ~ Has(e.hook, B) => Few(W, B)
        /\ ~ Has(w[p]["webhooks"], B) /\ Few(e.hook, B) => Few(W, B)
    <2>1. W = IF Up(p, "webhooks") THEN w[p]["webhooks"] \o e.hook ELSE w[p]["webhooks"]
      BY DEF publish
    <2>2. Up(p, "webhooks") \in BOOLEAN
      BY DEF Up
    <2> HIDE DEF W
    <2> QED BY <1>1, <2>1, <2>2, WireGets
  <1> HIDE DEF O, W
  <1>6. /\ Has(e.pub, B) => Brought(e) \cap B # {}
        /\ Has(e.hook, B) => Brought(e) \cap B # {}
        /\ \A x \in e.db : x \in B => Brought(e) \cap B # {}
    BY DEF Has, Brought
  <1>7. Brought(e) \cap B # {} => Has(e.pub, B) \/ Has(e.hook, B) \/ Asked(e.db, B)
    BY DEF Has, Brought, Asked
  <1>8. /\ ~ lost' /\ Has(e.pub, B) => Up(p, "observer")
        /\ ~ lost' /\ Has(e.hook, B) => Up(p, "webhooks")
    BY HasNone, WholeUp
  <1>9. \A o \in Deployed, c \in Conns :
          o # p \/ (c = "observer" /\ wire'[o][c] = O) \/ (c = "webhooks" /\ wire'[o][c] = W)
    BY <1>2 DEF O, W
  <1>10. ASSUME Brought(e) \cap B = {}
         PROVE  /\ \A o \in Deployed, c \in Conns : /\ Has(wire'[o][c], B) => Has(w[o][c], B)
                                                    /\ Few(w[o][c], B) => Few(wire'[o][c], B)
                /\ \A o \in Deployed : \A x \in pending'[o] : x \in B => x \in d[o]
    <2>1. ~ Has(e.pub, B) /\ ~ Has(e.hook, B) /\ \A x \in e.db : x \notin B
      BY <1>6, <1>10
    <2> QED BY <1>4, <1>5, <1>9, <2>1
  <1>11. ASSUME \A o \in Deployed, c \in Conns : ~ Has(w[o][c], B),
                \A o \in Deployed : ~ Asked(d[o], B),
                \A x, y \in Brought(e) : x \in B /\ y \in B => x = y
         PROVE  /\ \A o \in Deployed, c \in Conns : Few(wire'[o][c], B)
                /\ \A k, o \in Deployed, c, a \in Conns :
                     Has(wire'[k][c], B) /\ Has(wire'[o][a], B) => k = o /\ c = a
                /\ \A k, o \in Deployed : \A x \in pending'[k], y \in pending'[o] :
                     x \in B /\ y \in B => k = o /\ x = y
                /\ \A k, o \in Deployed, c \in Conns :
                     ~ (Has(wire'[k][c], B) /\ Asked(pending'[o], B))
    <2>1. Few(e.pub, B) /\ Few(e.hook, B)
      BY <1>11, OneBrought
    <2>2. ~ (Has(e.pub, B) /\ Has(e.hook, B))
      BY <1>11, OneBrought
    <2>3. ~ (Has(e.pub, B) /\ Asked(e.db, B)) /\ ~ (Has(e.hook, B) /\ Asked(e.db, B))
      BY <1>11, OneBrought
    <2>4. \A x, y \in e.db : x \in B /\ y \in B => x = y
      BY <1>11, OneBrought
    <2>5. \A o \in Deployed, c \in Conns : o # p => ~ Has(wire'[o][c], B)
      BY <1>11
    <2>6. \A o \in Deployed : \A x \in pending'[o] : x \in B => o = p /\ x \in e.db
      BY <1>11 DEF Asked
    <2>7. Few(O, B) /\ Few(W, B) /\ (Has(O, B) => Has(e.pub, B)) /\ (Has(W, B) => Has(e.hook, B))
      BY <1>3, <1>4, <1>5, <1>11, <2>1
    <2>8. \A o \in Deployed, c \in Conns : Few(wire'[o][c], B)
      <3>1. \A s : ~ Has(s, B) => Few(s, B)
        BY DEF Has, Few
      <3> QED BY <1>9, <2>5, <2>7, <3>1
    <2>9. \A k, o \in Deployed, c, a \in Conns :
            Has(wire'[k][c], B) /\ Has(wire'[o][a], B) => k = o /\ c = a
      BY <1>9, <2>2, <2>5, <2>7
    <2>10. \A k, o \in Deployed : \A x \in pending'[k], y \in pending'[o] :
             x \in B /\ y \in B => k = o /\ x = y
      BY <2>4, <2>6
    <2>11. \A o \in Deployed : Asked(pending'[o], B) => Asked(e.db, B)
      BY <2>6 DEF Asked
    <2>12. \A k, o \in Deployed, c \in Conns : ~ (Has(wire'[k][c], B) /\ Asked(pending'[o], B))
      BY <1>9, <2>3, <2>5, <2>7, <2>11
    <2> QED BY <2>8, <2>9, <2>10, <2>12
  <1>12. \A o \in Deployed, c \in Conns : Has(w[o][c], B) => Has(wire'[o][c], B)
    BY <1>4, <1>5, <1>9
  <1>13. \A o \in Deployed : Asked(d[o], B) => Asked(pending'[o], B)
    <2>1. \A o \in Deployed : d[o] \subseteq pending'[o]
      OBVIOUS
    <2> QED BY <2>1 DEF Asked
  <1>14. ASSUME ~ lost', Brought(e) \cap B # {}
         PROVE  \/ \E o \in Deployed, c \in Conns : Has(wire'[o][c], B)
                \/ \E o \in Deployed : Asked(pending'[o], B)
    <2>1. CASE Has(e.pub, B)
      BY <1>3, <1>4, <1>8, <1>14, <2>1 DEF O
    <2>2. CASE Has(e.hook, B)
      BY <1>3, <1>5, <1>8, <1>14, <2>2 DEF W
    <2>3. CASE Asked(e.db, B)
      <3>1. Asked(pending'[p], B)
        BY <2>3 DEF Asked
      <3> QED BY <3>1
    <2> QED BY <1>7, <1>14, <2>1, <2>2, <2>3
  <1> QED BY <1>10, <1>11, <1>12, <1>13, <1>14

\* What flies after a step that took TQ from the queues and TB from elsewhere,
\* and brought XQ to the queues and NB elsewhere.
FliesNext(A, B) == FlyingIn(queue', wire', pending', A, B)
LoneNext(A, B) == LoneIn(queue', wire', pending', A, B)

Traffic(TQ, TB, XQ, NB) ==
  \A A, B :
    /\ XQ \cap A = {} /\ NB \cap B = {} =>
         (Lone(A, B) => LoneNext(A, B)) /\ (FliesNext(A, B) => Flying(A, B))
    /\ /\ \/ Lone(A, B) /\ (TQ \cap A # {} \/ TB \cap B # {})
          \/ ~ Flying(A, B)
       /\ \A x, y \in NB : x \in B /\ y \in B => x = y
       /\ XQ \cap A = {} \/ NB \cap B = {}
       => LoneNext(A, B)
    /\ Lone(A, B) /\ (TQ \cap A # {} \/ TB \cap B # {}) =>
         \A C \in SUBSET A, D \in SUBSET B :
           XQ \cap C = {} /\ NB \cap D = {} => ~ FliesNext(C, D)
    /\ ~ lost' /\ (XQ \cap A # {} \/ NB \cap B # {}) => FliesNext(A, B)
    /\ ~ lost' /\ Flying(A, B) /\ TQ \cap A = {} /\ TB \cap B = {} => FliesNext(A, B)

\* Nothing of A and B comes.
LEMMA NothingComes ==
  ASSUME NEW q, NEW w, NEW d, NEW XQ, NEW NB, QueueJoins(q, XQ), WireJoins(w, d, NB),
         NEW A, NEW B, XQ \cap A = {}, NB \cap B = {}
  PROVE  /\ LoneIn(q, w, d, A, B) => LoneNext(A, B)
         /\ FliesNext(A, B) => FlyingIn(q, w, d, A, B)
  <1>1. \A k \in Queues : /\ Has(queue'[k], A) => Has(q[k], A)
                          /\ Few(q[k], A) => Few(queue'[k], A)
    BY DEF QueueJoins
  <1>2. /\ \A p \in Deployed, c \in Conns : /\ Has(wire'[p][c], B) => Has(w[p][c], B)
                                            /\ Few(w[p][c], B) => Few(wire'[p][c], B)
        /\ \A p \in Deployed : \A x \in pending'[p] : x \in B => x \in d[p]
    BY DEF WireJoins
  <1>3. \A p \in Deployed : Asked(pending'[p], B) => Asked(d[p], B)
    BY <1>2 DEF Asked
  <1>4. LoneIn(q, w, d, A, B) => LoneNext(A, B)
    BY <1>1, <1>2, <1>3 DEF LoneIn, LoneNext
  <1>5. FliesNext(A, B) => FlyingIn(q, w, d, A, B)
    BY <1>1, <1>2, <1>3 DEF FlyingIn, FliesNext
  <1> QED BY <1>4, <1>5

LEMMA OneComes ==
  ASSUME NEW q, NEW w, NEW d, NEW XQ, NEW NB, QueueJoins(q, XQ), WireJoins(w, d, NB),
         NEW A, NEW B, ~ FlyingIn(q, w, d, A, B),
         \A x, y \in NB : x \in B /\ y \in B => x = y,
         XQ \cap A = {} \/ NB \cap B = {}
  PROVE  LoneNext(A, B)
  <1>1. /\ \A k \in Queues : ~ Has(q[k], A)
        /\ \A p \in Deployed, c \in Conns : ~ Has(w[p][c], B)
        /\ \A p \in Deployed : ~ Asked(d[p], B)
    BY DEF FlyingIn
  <1>2. /\ \A k \in Queues : Few(queue'[k], A)
        /\ \A k, l \in Queues : Has(queue'[k], A) /\ Has(queue'[l], A) => k = l
    BY <1>1 DEF QueueJoins
  <1>3. /\ \A p \in Deployed, c \in Conns : Few(wire'[p][c], B)
        /\ \A p, o \in Deployed, c, a \in Conns :
             Has(wire'[p][c], B) /\ Has(wire'[o][a], B) => p = o /\ c = a
        /\ \A p, o \in Deployed : \A x \in pending'[p], y \in pending'[o] :
             x \in B /\ y \in B => p = o /\ x = y
        /\ \A p, o \in Deployed, c \in Conns : ~ (Has(wire'[p][c], B) /\ Asked(pending'[o], B))
    BY <1>1 DEF WireJoins
  <1>4. \/ \A k \in Queues : ~ Has(queue'[k], A)
        \/ /\ \A p \in Deployed, c \in Conns : ~ Has(wire'[p][c], B)
           /\ \A p \in Deployed : ~ Asked(pending'[p], B)
    <2>1. CASE XQ \cap A = {}
      BY <1>1, <2>1 DEF QueueJoins
    <2>2. CASE NB \cap B = {}
      <3>1. /\ \A p \in Deployed, c \in Conns : Has(wire'[p][c], B) => Has(w[p][c], B)
            /\ \A p \in Deployed : \A x \in pending'[p] : x \in B => x \in d[p]
        BY <2>2 DEF WireJoins
      <3> QED BY <1>1, <3>1 DEF Asked
    <2> QED BY <2>1, <2>2
  <1> QED BY <1>2, <1>3, <1>4 DEF LoneNext, LoneIn

LEMMA Traffics ==
  ASSUME NEW q, NEW w, NEW d, NEW TQ, NEW TB, NEW XQ, NEW NB,
         Leaves(q, w, d, TQ, TB), QueueJoins(q, XQ), WireJoins(w, d, NB)
  PROVE  Traffic(TQ, TB, XQ, NB)
  <1> SUFFICES ASSUME NEW A, NEW B
      PROVE  /\ XQ \cap A = {} /\ NB \cap B = {} =>
                  (Lone(A, B) => LoneNext(A, B)) /\ (FliesNext(A, B) => Flying(A, B))
             /\ /\ \/ Lone(A, B) /\ (TQ \cap A # {} \/ TB \cap B # {})
                   \/ ~ Flying(A, B)
                /\ \A x, y \in NB : x \in B /\ y \in B => x = y
                /\ XQ \cap A = {} \/ NB \cap B = {}
                => LoneNext(A, B)
             /\ Lone(A, B) /\ (TQ \cap A # {} \/ TB \cap B # {}) =>
                  \A C \in SUBSET A, D \in SUBSET B :
                    XQ \cap C = {} /\ NB \cap D = {} => ~ FliesNext(C, D)
             /\ ~ lost' /\ (XQ \cap A # {} \/ NB \cap B # {}) => FliesNext(A, B)
             /\ ~ lost' /\ Flying(A, B) /\ TQ \cap A = {} /\ TB \cap B = {} => FliesNext(A, B)
    BY DEF Traffic
  <1>1. /\ FlyingIn(q, w, d, A, B) => Flying(A, B)
        /\ Lone(A, B) => LoneIn(q, w, d, A, B)
        /\ Lone(A, B) /\ (TQ \cap A # {} \/ TB \cap B # {}) => ~ FlyingIn(q, w, d, A, B)
        /\ Flying(A, B) /\ TQ \cap A = {} /\ TB \cap B = {} => FlyingIn(q, w, d, A, B)
    BY DEF Leaves
  <1>2. XQ \cap A = {} /\ NB \cap B = {} =>
          (Lone(A, B) => LoneNext(A, B)) /\ (FliesNext(A, B) => Flying(A, B))
    BY <1>1, NothingComes
  <1>3. ASSUME (Lone(A, B) /\ (TQ \cap A # {} \/ TB \cap B # {})) \/ ~ Flying(A, B),
               \A x, y \in NB : x \in B /\ y \in B => x = y,
               XQ \cap A = {} \/ NB \cap B = {}
        PROVE  LoneNext(A, B)
    BY <1>1, <1>3, OneComes
  <1>4. ASSUME Lone(A, B), TQ \cap A # {} \/ TB \cap B # {},
               NEW C \in SUBSET A, NEW D \in SUBSET B, XQ \cap C = {}, NB \cap D = {}
        PROVE  ~ FliesNext(C, D)
    <2>1. ~ FlyingIn(q, w, d, C, D)
      BY <1>1, <1>4, FliesMore
    <2> QED BY <1>4, <2>1, NothingComes
  <1>5. ASSUME ~ lost', XQ \cap A # {} \/ NB \cap B # {} PROVE FliesNext(A, B)
    <2>1. XQ \cap A # {} => \E k \in Queues : Has(queue'[k], A)
      BY <1>5 DEF QueueJoins
    <2>2. NB \cap B # {} => \/ \E p \in Deployed, c \in Conns : Has(wire'[p][c], B)
                            \/ \E p \in Deployed : Asked(pending'[p], B)
      BY <1>5 DEF WireJoins
    <2> QED BY <1>5, <2>1, <2>2 DEF FliesNext, FlyingIn
  <1>6. FlyingIn(q, w, d, A, B) => FliesNext(A, B)
    <2>1. \A k \in Queues : Has(q[k], A) => Has(queue'[k], A)
      BY DEF QueueJoins
    <2>2. /\ \A p \in Deployed, c \in Conns : Has(w[p][c], B) => Has(wire'[p][c], B)
          /\ \A p \in Deployed : Asked(d[p], B) => Asked(pending'[p], B)
      BY DEF WireJoins
    <2> QED BY <2>1, <2>2 DEF FliesNext, FlyingIn
  <1> QED BY <1>1, <1>2, <1>3, <1>4, <1>5, <1>6

(***************************************************************************)
(* What comes of what.                                                     *)
(***************************************************************************)

\* What clients and the chat21-http-server send.
Starters ==
  {"outgoing", "delivered", "update", "is_new", "archive", "presence", "groups.update"}

\* What comes of one record about the same message and timeline.
Followers ==
  {"saveMessage", "saveConversation", "updated", "saveReceived", "saveReturned", "saveIsNew",
   "convupdated", "saveArchived", "detail", "clientdeleted", "archivedadded"}

Before(k) ==
  CASE k = "saveMessage"      -> "persist"
    [] k = "saveConversation" -> "saveMessage"
    [] k = "updated"          -> "update"
    [] k = "saveReceived"     -> "updated"
    [] k = "saveReturned"     -> "saveReceived"
    [] k = "saveIsNew"        -> "is_new"
    [] k = "convupdated"      -> "saveIsNew"
    [] k = "saveArchived"     -> "archive"
    [] k = "detail"           -> "saveArchived"
    [] k = "clientdeleted"    -> "detail"
    [] k = "archivedadded"    -> "clientdeleted"

\* What N may hold when t was taken.
Stems(t, N) ==
  \A x \in N :
    /\ x.kind \notin Starters
    /\ x.kind = "getGroup" => t.kind = "outgoing" /\ x.m = t.m /\ x.u = Group /\ scene.to = "group"
    /\ x.kind = "added" =>
         /\ x.m = t.m
         /\ \/ t.kind = "outgoing" /\ scene.to # "group" /\ (Direct => x.u = Sender)
            \/ t.kind = "delivered" /\ x.u = t.u
            \/ t.kind = "getGroup"
            \/ t.kind = "persist" /\ Direct /\ t.u = Sender /\ x.u = Receiver
    /\ x.kind = "persist" => t = R("added", x.m, x.u)
    /\ x.kind \in Followers => t = R(Before(x.kind), x.m, x.u)
    /\ x.kind = "updated" => scene.status = RECEIVED

\* What N must hold when t was taken and nothing was lost.
Goes(k, u) ==
  /\ k # "saveMessage"
  /\ k = "saveConversation" => scene.updateconversation
  /\ k = "updated" => scene.status = RECEIVED
  /\ k = "clientdeleted" => conversationDetail(u)

Leads(t, N) ==
  /\ t.kind = "added" => R("persist", t.m, t.u) \in N
  /\ t.kind = "persist" => t \in N \/ R("saveMessage", t.m, t.u) \in N
  /\ \A k \in Followers : t.kind = Before(k) /\ Goes(k, t.u) => R(k, t.m, t.u) \in N
  /\ t.kind = "groups.update" => \A u \in Users : R("groupupdated", 0, u) \in N

\* An effect that brings this, and asks MongoDB what it may be asked.
Brings(e, N) == Distinct(e) /\ Brought(e) = N /\ \A x \in e.db : x.kind \in AskedKinds

LEMMA BringsOne ==
  ASSUME NEW k, NEW m, NEW u
  PROVE  /\ Brings(Publishes(<<R(k, m, u)>>), {R(k, m, u)})
         /\ Brings(Nothing, {})
         /\ k \in AskedKinds => Brings(Asks(R(k, m, u)), {R(k, m, u)})
  <1>1. R(k, m, u).kind = k
    BY DEF R
  <1> DEFINE x == R(k, m, u)
  <1> HIDE DEF x
  <1>2. Brings(Publishes(<<x>>), {x})
    BY DEF Brings, Distinct, Brought, Publishes, Effect
  <1>3. Brings(Nothing, {})
    BY DEF Brings, Distinct, Brought, Nothing, Effect
  <1>4. k \in AskedKinds => Brings(Asks(x), {x})
    BY <1>1 DEF Brings, Distinct, Brought, Asks, Effect, x
  <1> QED BY <1>2, <1>3, <1>4 DEF x

\* A publication with a notification, and a notification with an operation.
LEMMA BringsTwo ==
  ASSUME NEW x, NEW y, NEW h, h = <<y>> \/ h = <<>>, x # y
  PROVE  \E N : (N = {x} \/ N = {x, y}) /\ Brings(Effect(<<x>>, h, {}), N)
  <1>1. CASE h = <<y>>
    <2>1. Brings(Effect(<<x>>, <<y>>, {}), {x, y})
      BY DEF Brings, Distinct, Brought, Effect
    <2> QED BY <1>1, <2>1
  <1>2. CASE h = <<>>
    <2>1. Brings(Effect(<<x>>, <<>>, {}), {x})
      BY DEF Brings, Distinct, Brought, Effect
    <2> QED BY <1>2, <2>1
  <1> QED BY <1>1, <1>2

LEMMA BringsAsked ==
  ASSUME NEW y, NEW z, NEW h, h = <<y>> \/ h = <<>>, y # z, z.kind \in AskedKinds
  PROVE  \E N : (N = {z} \/ N = {y, z}) /\ Brings(Effect(<<>>, h, {z}), N)
  <1>1. CASE h = <<y>>
    <2>1. Brings(Effect(<<>>, <<y>>, {z}), {y, z})
      BY DEF Brings, Distinct, Brought, Effect
    <2> QED BY <1>1, <2>1
  <1>2. CASE h = <<>>
    <2>1. Brings(Effect(<<>>, <<>>, {z}), {z})
      BY DEF Brings, Distinct, Brought, Effect
    <2> QED BY <1>2, <2>1
  <1> QED BY <1>1, <1>2

LEMMA BringsCopies ==
  ASSUME NEW m, NEW s \in Seq(Timelines), Len(s) <= 5,
         \A i, j \in DOMAIN s : s[i] = s[j] => i = j
  PROVE  \E N : /\ Brings(Publishes(sendMessageToGroupMembers(m, s)), N)
                /\ \A x \in N : x.kind = "added" /\ x.m = m
  <1> DEFINE h == {i \in DOMAIN s : s[i] \in scene.hidden}
             to == IF h = {} THEN s ELSE SubSeq(s, 1, Min(h) - 1)
  <1>1. Len(s) \in Nat /\ DOMAIN s = 1 .. Len(s)
    OBVIOUS
  <1>2. h \subseteq 1 .. Len(s) /\ h \in SUBSET (1 .. 5)
    BY <1>1
  <1>3. \A i, j \in DOMAIN to : to[i] = to[j] => i = j
    <2>1. CASE h = {} BY <2>1
    <2>2. CASE h # {}
      <3>1. Min(h) \in 1 .. Len(s)
        BY <1>2, <2>2, Smallest
      <3> HIDE DEF h
      <3>2. /\ DOMAIN to = 1 .. (Min(h) - 1)
            /\ \A i \in 1 .. (Min(h) - 1) : i \in DOMAIN s /\ to[i] = s[i]
        BY <1>1, <2>2, <3>1, SubSeqProperties
      <3> QED BY <3>2
    <2> QED BY <2>1, <2>2
  <1> HIDE DEF h, to
  <1> DEFINE c == [i \in DOMAIN to |-> R("added", m, to[i])]
             N == {c[i] : i \in DOMAIN to}
  <1>4. sendMessageToGroupMembers(m, s) = c
    BY DEF sendMessageToGroupMembers, h, to
  <1>5. \A i, j \in DOMAIN to : c[i] = c[j] => i = j
    BY <1>3 DEF R
  <1>6. \A x \in N : x.kind = "added" /\ x.m = m
    BY DEF R
  <1>7. DOMAIN c = DOMAIN to
    OBVIOUS
  <1>8. Brings(Publishes(c), N)
    <2> HIDE DEF c
    <2> QED BY <1>5, <1>7 DEF Brings, Distinct, Brought, Publishes, Effect
  <1> QED BY <1>4, <1>6, <1>8

\* The entries of a group's members are different.
LEMMA EntriesOnce ==
  ASSUME NEW S, NEW x
  PROVE  /\ Few(Entries(S), {x})
         /\ Has(Entries(S), {x}) => x \in S /\ x \in Users
  <1> DEFINE s == IF Sender \in S THEN <<Sender>> ELSE <<>>
             t == IF Receiver \in S THEN <<Receiver>> ELSE <<>>
  <1>1. s \in Seq(Timelines) /\ t \in Seq(Timelines) /\ Sender # Receiver
    BY People, LegacyAssumption
  <1>2. /\ Few(s, {x}) /\ (Has(s, {x}) => x = Sender /\ Sender \in S)
        /\ Few(t, {x}) /\ (Has(t, {x}) => x = Receiver /\ Receiver \in S)
    BY HasOne, HasNone
  <1>3. Entries(S) = s \o t
    BY DEF Entries
  <1> HIDE DEF s, t
  <1>4. /\ Has(s \o t, {x}) <=> Has(s, {x}) \/ Has(t, {x})
        /\ Few(s, {x}) /\ ~ Has(t, {x}) => Few(s \o t, {x})
        /\ ~ Has(s, {x}) /\ Few(t, {x}) => Few(s \o t, {x})
    BY <1>1, HasConcat
  <1> QED BY <1>1, <1>2, <1>3, <1>4 DEF Users

LEMMA EntriesDiffer ==
  ASSUME NEW S
  PROVE  /\ LET s == Entries(S) \o <<Group>> \o Entries({Sender} \ S)
            IN s \in Seq(Timelines) /\ Len(s) <= 5 /\ \A i, j \in DOMAIN s : s[i] = s[j] => i = j
         /\ LET s == Entries(S) \o <<Group>>
            IN s \in Seq(Timelines) /\ Len(s) <= 5 /\ \A i, j \in DOMAIN s : s[i] = s[j] => i = j
  <1> DEFINE s == Entries(S)
             t == Entries({Sender} \ S)
             g == <<Group>>
  <1>1. /\ s \in Seq(Timelines) /\ Len(s) \in 0 .. 2
        /\ t \in Seq(Timelines) /\ Len(t) \in 0 .. 2
        /\ g \in Seq(Timelines) /\ Len(g) = 1
    BY EntriesType, People
  <1>2. ASSUME NEW x
        PROVE  /\ Few(s, {x}) /\ Few(t, {x}) /\ Few(g, {x})
               /\ ~ (Has(s, {x}) /\ Has(g, {x})) /\ ~ (Has(g, {x}) /\ Has(t, {x}))
               /\ ~ (Has(s, {x}) /\ Has(t, {x}))
    <2>1. Few(s, {x}) /\ (Has(s, {x}) => x \in S /\ x \in Users)
      BY EntriesOnce
    <2>2. Few(t, {x}) /\ (Has(t, {x}) => x \in {Sender} \ S)
      BY EntriesOnce
    <2>3. Few(g, {x}) /\ (Has(g, {x}) => x = Group)
      BY HasOne
    <2>4. Group \notin Users /\ Sender \in Users
      BY LegacyAssumption DEF Users
    <2> HIDE DEF s, t, g
    <2> QED BY <2>1, <2>2, <2>3, <2>4
  <1> HIDE DEF s, t, g
  <1>3. /\ s \o g \in Seq(Timelines) /\ Len(s \o g) = Len(s) + 1
        /\ s \o g \o t \in Seq(Timelines) /\ Len(s \o g \o t) = Len(s) + 1 + Len(t)
    <2>1. s \o g \in Seq(Timelines) /\ Len(s \o g) = Len(s) + 1
      <3>1. s \in Seq(Timelines) /\ g \in Seq(Timelines)
        BY <1>1
      <3>2. s \o g \in Seq(Timelines) /\ Len(s \o g) = Len(s) + Len(g)
        BY <3>1, ConcatProperties
      <3> QED BY <1>1, <3>2
    <2>2. (s \o g) \o t \in Seq(Timelines) /\ Len((s \o g) \o t) = Len(s \o g) + Len(t)
      BY <1>1, <2>1, ConcatProperties
    <2> QED BY <2>1, <2>2
  <1>4. Len(s \o g) <= 5 /\ Len(s \o g \o t) <= 5
    <2>1. \A i, j \in 0 .. 2 : i + 1 <= 5 /\ i + 1 + j <= 5
      OBVIOUS
    <2> QED BY <1>1, <1>3, <2>1
  <1>5. ASSUME NEW x PROVE Few(s \o g, {x}) /\ Few(s \o g \o t, {x})
    <2>1. /\ Has(s \o g, {x}) <=> Has(s, {x}) \/ Has(g, {x})
          /\ Few(s, {x}) /\ ~ Has(g, {x}) => Few(s \o g, {x})
          /\ ~ Has(s, {x}) /\ Few(g, {x}) => Few(s \o g, {x})
      BY <1>1, HasConcat
    <2>2. /\ Few(s \o g, {x}) /\ ~ Has(t, {x}) => Few(s \o g \o t, {x})
          /\ ~ Has(s \o g, {x}) /\ Few(t, {x}) => Few(s \o g \o t, {x})
      BY <1>1, <1>3, HasConcat
    <2> QED BY <1>2, <2>1, <2>2
  <1>6. \A y : (\A x : Few(y, {x})) => \A i, j \in DOMAIN y : y[i] = y[j] => i = j
    BY DEF Few
  <1> QED BY <1>3, <1>4, <1>5, <1>6 DEF s, t, g

\* An effect in which what may come of t comes, and what must.
Follows(t, e, X) ==
  \E N : Brings(e, N) /\ Stems(t, N) /\ (~ lost' => Leads(t, X \cup N))

\* Nothing has to come of it.
Ends(t) ==
  /\ t.kind \notin {"added", "persist", "groups.update"}
  /\ \A k \in Followers : t.kind = Before(k) => ~ Goes(k, t.u)

LEMMA FollowsNothing ==
  ASSUME NEW t, Ends(t), NEW X PROVE Follows(t, Nothing, X)
  <1>1. Brings(Nothing, {})
    BY BringsOne
  <1>2. Stems(t, {}) /\ Leads(t, X \cup {})
    BY DEF Stems, Leads, Ends
  <1> QED BY <1>1, <1>2 DEF Follows

\* The next record about the same message and timeline.
LEMMA FollowsOne ==
  ASSUME NEW k \in Followers, NEW m, NEW u, NEW e, Brings(e, {R(k, m, u)}), NEW X,
         k # "saveMessage", k = "updated" => scene.status = RECEIVED
  PROVE  Follows(R(Before(k), m, u), e, X)
  <1> DEFINE t == R(Before(k), m, u)
             x == R(k, m, u)
  <1>1. t.kind = Before(k) /\ t.m = m /\ t.u = u /\ x.kind = k /\ x.m = m /\ x.u = u
    BY DEF R
  <1> HIDE DEF t, x
  <1>2. k \notin Starters /\ k \notin {"getGroup", "added", "persist"}
    BY DEF Followers, Starters
  <1>3. Stems(t, {x})
    BY <1>1, <1>2 DEF Stems, t, x
  <1>4. \A j \in Followers : Before(j) = Before(k) => j = k
    BY DEF Followers, Before
  <1>5. Before(k) \notin {"added", "persist", "groups.update"}
    BY DEF Followers, Before
  <1>6. Leads(t, X \cup {x})
    BY <1>1, <1>4, <1>5 DEF Leads, x
  <1> QED BY <1>3, <1>6 DEF Follows, t, x

\* What follows an operation, answered or failed.
LEMMA MongoFollows ==
  ASSUME NEW r \in Good, r.kind \in AskedKinds
  PROVE  /\ Follows(r, AfterMongo(r), {})
         /\ \E N : Brings(AfterMongoError(r), N) /\ Stems(r, N)
  <1>1. r = R(r.kind, r.m, r.u)
    BY GoodRecord
  <1> DEFINE k == r.kind  m == r.m  u == r.u
  <1>2. \A t : Follows(t, AfterMongo(r), {}) => \E N : Brings(AfterMongo(r), N) /\ Stems(t, N)
    BY DEF Follows
  <1>3. Brings(Nothing, {}) /\ Stems(r, {})
    BY BringsOne DEF Stems
  <1>4. CASE k = "saveMessage"
    <2>1. AfterMongoError(r) = AfterMongo(r)
      BY <1>4 DEF AfterMongoError
    <2>2. CASE scene.updateconversation
      <3>1. AfterMongo(r) = Asks(R("saveConversation", m, u))
        BY <1>4, <2>2 DEF AfterMongo
      <3>2. Brings(Asks(R("saveConversation", m, u)), {R("saveConversation", m, u)})
        BY BringsOne DEF AskedKinds
      <3>3. Follows(R(Before("saveConversation"), m, u), AfterMongo(r), {})
        BY <3>1, <3>2, FollowsOne DEF Followers
      <3>4. Follows(r, AfterMongo(r), {})
        BY <1>1, <1>4, <3>3 DEF Before
      <3> QED BY <1>2, <2>1, <3>4
    <2>3. CASE ~ scene.updateconversation
      <3>1. AfterMongo(r) = Nothing
        BY <1>4, <2>3 DEF AfterMongo
      <3>2. Ends(r)
        BY <1>4, <2>3 DEF Ends, Followers, Before, Goes
      <3> QED BY <1>3, <2>1, <3>1, <3>2, FollowsNothing
    <2> QED BY <2>2, <2>3
  <1>5. CASE k = "saveReceived"
    <2>1. AfterMongo(r) = Asks(R("saveReturned", m, u)) /\ AfterMongoError(r) = Nothing
      BY <1>5 DEF AfterMongo, AfterMongoError
    <2>2. Brings(Asks(R("saveReturned", m, u)), {R("saveReturned", m, u)})
      BY BringsOne DEF AskedKinds
    <2>3. Follows(R(Before("saveReturned"), m, u), AfterMongo(r), {})
      BY <2>1, <2>2, FollowsOne DEF Followers
    <2> QED BY <1>1, <1>3, <1>5, <2>1, <2>3 DEF Before
  <1>6. CASE k = "saveIsNew"
    <2>1. AfterMongo(r) = Publishes(<<R("convupdated", 0, u)>>) /\ AfterMongoError(r) = Nothing
      BY <1>6 DEF AfterMongo, AfterMongoError
    <2>2. Brings(Publishes(<<R("convupdated", 0, u)>>), {R("convupdated", 0, u)})
      BY BringsOne
    <2>3. Follows(R(Before("convupdated"), 0, u), AfterMongo(r), {})
      BY <2>1, <2>2, FollowsOne DEF Followers
    <2>4. m = 0
      BY <1>6 DEF Good, Right, NoteKinds
    <2> QED BY <1>1, <1>3, <1>6, <2>1, <2>3, <2>4 DEF Before
  <1>7. CASE k = "saveArchived"
    <2>1. AfterMongo(r) = Asks(R("detail", 0, u)) /\ AfterMongoError(r) = Nothing
      BY <1>7 DEF AfterMongo, AfterMongoError
    <2>2. Brings(Asks(R("detail", 0, u)), {R("detail", 0, u)})
      BY BringsOne DEF AskedKinds
    <2>3. Follows(R(Before("detail"), 0, u), AfterMongo(r), {})
      BY <2>1, <2>2, FollowsOne DEF Followers
    <2>4. m = 0
      BY <1>7 DEF Good, Right, NoteKinds
    <2> QED BY <1>1, <1>3, <1>7, <2>1, <2>3, <2>4 DEF Before
  <1>8. CASE k = "detail" /\ conversationDetail(u)
    <2>1. AfterMongo(r) = Publishes(<<R("clientdeleted", 0, u)>>) /\ AfterMongoError(r) = Nothing
      BY <1>8 DEF AfterMongo, AfterMongoError
    <2>2. Brings(Publishes(<<R("clientdeleted", 0, u)>>), {R("clientdeleted", 0, u)})
      BY BringsOne
    <2>3. Follows(R(Before("clientdeleted"), 0, u), AfterMongo(r), {})
      BY <2>1, <2>2, FollowsOne DEF Followers
    <2>4. m = 0
      BY <1>8 DEF Good, Right, NoteKinds
    <2> QED BY <1>1, <1>3, <1>8, <2>1, <2>3, <2>4 DEF Before
  <1>9. CASE k = "detail" /\ ~ conversationDetail(u)
    <2>1. AfterMongo(r) = Nothing /\ AfterMongoError(r) = Nothing
      BY <1>9 DEF AfterMongo, AfterMongoError
    <2>2. Ends(r)
      BY <1>9 DEF Ends, Followers, Before, Goes
    <2> QED BY <1>3, <2>1, <2>2, FollowsNothing
  <1>10. CASE k = "getGroup"
    <2>1. AfterMongo(r) = GroupFound(r, group) /\ AfterMongoError(r) = GroupFound(r, {})
      BY <1>10 DEF AfterMongo, AfterMongoError
    <2>2. ASSUME NEW S
          PROVE  \E N : Brings(GroupFound(r, S), N) /\ Stems(r, N)
      <3> DEFINE s == Entries(IF S = {} THEN {Sender} ELSE S) \o <<Group>>
      <3>1. GroupFound(r, S) = Publishes(sendMessageToGroupMembers(m, s))
        BY DEF GroupFound
      <3>2. s \in Seq(Timelines) /\ Len(s) <= 5 /\ \A i, j \in DOMAIN s : s[i] = s[j] => i = j
        BY EntriesDiffer
      <3> HIDE DEF s
      <3>3. PICK N : /\ Brings(Publishes(sendMessageToGroupMembers(m, s)), N)
                     /\ \A x \in N : x.kind = "added" /\ x.m = m
        BY <3>2, BringsCopies
      <3>4. Stems(r, N)
        BY <1>10, <3>3 DEF Stems, Starters, Followers
      <3> QED BY <3>1, <3>3, <3>4
    <2>3. \A N : Leads(r, {} \cup N)
      BY <1>10 DEF Leads, Followers, Before
    <2> QED BY <2>1, <2>2, <2>3 DEF Follows
  <1>11. CASE k \in {"saveConversation", "saveReturned"}
    <2>1. AfterMongo(r) = Nothing /\ AfterMongoError(r) = Nothing
      BY <1>11 DEF AfterMongo, AfterMongoError
    <2>2. Ends(r)
      BY <1>11 DEF Ends, Followers, Before
    <2> QED BY <1>3, <2>1, <2>2, FollowsNothing
  <1> QED BY <1>4, <1>5, <1>6, <1>7, <1>8, <1>9, <1>10, <1>11 DEF AskedKinds

\* What follows a confirmed publication.
LEMMA PublishFollows ==
  ASSUME NEW p, NEW r \in Published(Good)
  PROVE  Follows(r, AfterPublish(p, r), IF QueueOf(r.kind) # "none" THEN {r} ELSE {})
  <1>1. r = R(r.kind, r.m, r.u) /\ r \in Good /\ r.kind \in PublishedKinds
    BY GoodRecord DEF Published
  <1> DEFINE k == r.kind  m == r.m  u == r.u
             X == IF QueueOf(k) # "none" THEN {r} ELSE {}
  <1>2. CASE k = "added"
    <2> DEFINE x == R("persist", m, u)  y == R("message_deliver", m, u)
               h == WHnotifyMessageStatusSentOrDelivered(p, m, u)
    <2>1. AfterPublish(p, r) = Effect(<<x>>, h, {})
      BY <1>2 DEF AfterPublish
    <2>2. h = <<y>> \/ h = <<>>
      BY DEF WHnotifyMessageStatusSentOrDelivered
    <2>3. x.kind = "persist" /\ x.m = m /\ x.u = u /\ y.kind = "message_deliver"
      BY DEF R
    <2> HIDE DEF x, y, h
    <2>4. PICK N : (N = {x} \/ N = {x, y}) /\ Brings(Effect(<<x>>, h, {}), N)
      BY <2>2, <2>3, BringsTwo
    <2>5. Stems(r, N)
      BY <1>1, <1>2, <2>3, <2>4 DEF Stems, Starters, Followers
    <2>6. Leads(r, X \cup N)
      BY <1>2, <2>4 DEF Leads, x, Followers, Before
    <2> QED BY <2>1, <2>4, <2>5, <2>6 DEF Follows
  <1>3. CASE k = "persist"
    <2>1. X = {r}
      BY <1>3 DEF QueueOf
    <2>2. \A N : Leads(r, X \cup N)
      BY <1>3, <2>1 DEF Leads, Followers, Before, Goes
    <2>3. CASE Direct /\ u = Sender
      <3>1. AfterPublish(p, r) = Publishes(<<R("added", m, Receiver)>>)
        BY <1>3, <2>3 DEF AfterPublish, deliverMessage
      <3>2. Stems(r, {R("added", m, Receiver)})
        BY <1>3, <2>3 DEF Stems, R, Starters, Followers
      <3>3. Brings(AfterPublish(p, r), {R("added", m, Receiver)})
        BY <3>1, BringsOne
      <3> QED BY <2>2, <3>2, <3>3 DEF Follows
    <2>4. CASE ~ (Direct /\ u = Sender)
      <3>1. AfterPublish(p, r) = Nothing
        BY <1>3, <2>4 DEF AfterPublish
      <3>2. Stems(r, {})
        BY DEF Stems
      <3> QED BY <2>2, <3>1, <3>2, BringsOne DEF Follows
    <2> QED BY <2>3, <2>4
  <1>4. CASE k = "updated"
    <2> DEFINE z == R("saveReceived", m, u)  y == R("message_update", m, u)
               h == WHnotifyMessageStatusReturnReceipt(p, m, u)
    <2>1. AfterPublish(p, r) = Effect(<<>>, h, {z})
      BY <1>4 DEF AfterPublish
    <2>2. h = <<y>> \/ h = <<>>
      BY DEF WHnotifyMessageStatusReturnReceipt
    <2>3. z.kind = "saveReceived" /\ z.m = m /\ z.u = u /\ y.kind = "message_update"
      BY DEF R
    <2> HIDE DEF z, y, h
    <2>4. PICK N : (N = {z} \/ N = {y, z}) /\ Brings(Effect(<<>>, h, {z}), N)
      BY <2>2, <2>3, BringsAsked DEF AskedKinds
    <2>5. Before("saveReceived") = "updated"
      BY DEF Before
    <2>6. Stems(r, N)
      BY <1>1, <1>4, <2>3, <2>4, <2>5 DEF Stems, Starters, Followers
    <2>7. \A j \in Followers : k = Before(j) => j = "saveReceived"
      BY <1>4 DEF Followers, Before
    <2>8. Leads(r, X \cup N)
      BY <1>4, <2>4, <2>7 DEF Leads, z
    <2> QED BY <2>1, <2>4, <2>6, <2>8 DEF Follows
  <1>5. CASE k = "clientdeleted"
    <2>1. AfterPublish(p, r) = Publishes(<<R("archivedadded", 0, u)>>)
      BY <1>5 DEF AfterPublish
    <2>2. Brings(Publishes(<<R("archivedadded", 0, u)>>), {R("archivedadded", 0, u)})
      BY BringsOne
    <2>3. Follows(R(Before("archivedadded"), 0, u), AfterPublish(p, r), X)
      BY <2>1, <2>2, FollowsOne DEF Followers
    <2>4. m = 0
      BY <1>1, <1>5 DEF Good, Right, NoteKinds
    <2> QED BY <1>1, <1>5, <2>3, <2>4 DEF Before
  <1>6. CASE k \notin {"added", "persist", "updated", "clientdeleted"}
    <2>1. AfterPublish(p, r) = Nothing
      BY <1>6 DEF AfterPublish
    <2>2. Ends(r)
      BY <1>1, <1>6 DEF Ends, Followers, Before, PublishedKinds
    <2> QED BY <2>1, <2>2, FollowsNothing
  <1> QED BY <1>2, <1>3, <1>4, <1>5, <1>6

\* What follows a message taken from a queue.
LEMMA HandlingFollows ==
  ASSUME SceneOK, NEW p, NEW r \in Good, r.kind \in HandledKinds
  PROVE  Follows(r, Handling(p, r), {})
  <1>1. r = R(r.kind, r.m, r.u)
    BY GoodRecord
  <1> DEFINE k == r.kind  m == r.m  u == r.u  e == Handling(p, r)
  <1>2. CASE k = "outgoing"
    <2>1. \A N : Leads(r, {} \cup N)
      BY <1>2 DEF Leads, Followers, Before
    <2>2. CASE scene.to = "direct"
      <3>1. e = Publishes(<<R("added", m, Sender)>>)
        BY <1>2, <2>2 DEF Handling, deliverMessage
      <3>2. Stems(r, {R("added", m, Sender)})
        BY <1>2, <2>2 DEF Stems, R, Starters, Followers
      <3>3. Brings(e, {R("added", m, Sender)})
        BY <3>1, BringsOne
      <3> QED BY <2>1, <3>2, <3>3 DEF Follows
    <2>3. CASE scene.to = "inline"
      <3> DEFINE s == Entries(scene.members) \o <<Group>> \o Entries({Sender} \ scene.members)
      <3>1. e = Publishes(sendMessageToGroupMembers(m, s))
        BY <1>2, <2>3 DEF Handling
      <3>2. s \in Seq(Timelines) /\ Len(s) <= 5 /\ \A i, j \in DOMAIN s : s[i] = s[j] => i = j
        BY EntriesDiffer
      <3> HIDE DEF s, e
      <3>3. PICK N : /\ Brings(Publishes(sendMessageToGroupMembers(m, s)), N)
                     /\ \A x \in N : x.kind = "added" /\ x.m = m
        BY <3>2, BringsCopies
      <3>4. Stems(r, N)
        BY <1>2, <2>3, <3>3 DEF Stems, Starters, Followers, Direct
      <3> QED BY <2>1, <3>1, <3>3, <3>4 DEF Follows, e
    <2>4. CASE scene.to = "group"
      <3>1. e = Asks(R("getGroup", m, Group))
        BY <1>2, <2>4 DEF Handling
      <3>2. Stems(r, {R("getGroup", m, Group)})
        BY <1>2, <2>4 DEF Stems, R, Starters, Followers
      <3>3. Brings(e, {R("getGroup", m, Group)})
        BY <3>1, BringsOne DEF AskedKinds
      <3> QED BY <2>1, <3>2, <3>3 DEF Follows
    <2> QED BY <2>2, <2>3, <2>4, Environments
  <1>3. CASE k = "delivered"
    <2>1. \A N : Leads(r, {} \cup N)
      BY <1>3 DEF Leads, Followers, Before
    <2>2. e = Publishes(<<R("added", m, u)>>) \/ e = Nothing
      BY <1>3 DEF Handling, deliverMessage
    <2>3. Stems(r, {R("added", m, u)}) /\ Stems(r, {})
      BY <1>3 DEF Stems, R, Starters, Followers
    <2>4. Brings(e, {R("added", m, u)}) \/ Brings(e, {})
      BY <2>2, BringsOne
    <2> QED BY <2>1, <2>3, <2>4 DEF Follows
  <1>4. CASE k = "persist"
    <2>1. e = Asks(R("saveMessage", m, u))
      BY <1>4 DEF Handling
    <2>2. Brings(e, {R("saveMessage", m, u)})
      BY <2>1, BringsOne DEF AskedKinds
    <2>3. Before("saveMessage") = "persist"
      BY DEF Before
    <2>4. Stems(r, {R("saveMessage", m, u)})
      BY <1>1, <1>4, <2>3 DEF Stems, R, Starters
    <2>5. Leads(r, {} \cup {R("saveMessage", m, u)})
      BY <1>4 DEF Leads, Followers, Before, Goes
    <2> QED BY <2>2, <2>4, <2>5 DEF Follows
  <1>5. CASE k = "update" /\ scene.status = RECEIVED
    <2>1. e = Publishes(<<R("updated", m, u)>>)
      BY <1>5 DEF Handling
    <2>2. Brings(e, {R("updated", m, u)})
      BY <2>1, BringsOne
    <2>3. Follows(R(Before("updated"), m, u), e, {})
      BY <1>5, <2>2, FollowsOne DEF Followers
    <2> QED BY <1>1, <1>5, <2>3 DEF Before
  <1>6. CASE k = "update" /\ scene.status # RECEIVED
    <2>1. e = Nothing
      BY <1>6 DEF Handling
    <2>2. Ends(r)
      BY <1>6 DEF Ends, Followers, Before, Goes
    <2> QED BY <2>1, <2>2, FollowsNothing
  <1>7. CASE k = "is_new"
    <2>1. e = Asks(R("saveIsNew", 0, u))
      BY <1>7 DEF Handling
    <2>2. Brings(e, {R("saveIsNew", 0, u)})
      BY <2>1, BringsOne DEF AskedKinds
    <2>3. Follows(R(Before("saveIsNew"), 0, u), e, {})
      BY <2>2, FollowsOne DEF Followers
    <2>4. m = 0
      BY <1>7 DEF Good, Right, NoteKinds
    <2> QED BY <1>1, <1>7, <2>3, <2>4 DEF Before
  <1>8. CASE k = "archive"
    <2> DEFINE z == R("saveArchived", 0, u)  y == R("conversation_archived", 0, u)
               h == WHnotifyConversationArchived(p, u)
    <2>1. e = Effect(<<>>, h, {z})
      BY <1>8 DEF Handling
    <2>2. h = <<y>> \/ h = <<>>
      BY DEF WHnotifyConversationArchived
    <2>3. z.kind = "saveArchived" /\ z.m = 0 /\ z.u = u /\ y.kind = "conversation_archived"
      BY DEF R
    <2>4. m = 0
      BY <1>8 DEF Good, Right, NoteKinds
    <2> HIDE DEF z, y, h, e
    <2>5. PICK N : (N = {z} \/ N = {y, z}) /\ Brings(Effect(<<>>, h, {z}), N)
      BY <2>2, <2>3, BringsAsked DEF AskedKinds
    <2>6. Before("saveArchived") = "archive"
      BY DEF Before
    <2>7. Stems(r, N)
      BY <1>1, <1>8, <2>3, <2>4, <2>5, <2>6 DEF Stems, Starters, Followers
    <2>8. \A j \in Followers : k = Before(j) => j = "saveArchived"
      BY <1>8 DEF Followers, Before
    <2>9. Leads(r, {} \cup N)
      BY <1>8, <2>4, <2>5, <2>8 DEF Leads, z
    <2> QED BY <2>1, <2>5, <2>7, <2>9 DEF Follows, e
  <1>9. CASE k = "presence"
    <2>1. e = Publishes(<<R("presence_event", 0, u)>>) \/ e = Nothing
      BY <1>9 DEF Handling
    <2>2. \A N : Leads(r, {} \cup N)
      BY <1>9 DEF Leads, Followers, Before
    <2>3. Stems(r, {R("presence_event", 0, u)}) /\ Stems(r, {})
      BY DEF Stems, R, Starters, Followers
    <2>4. Brings(e, {R("presence_event", 0, u)}) \/ Brings(e, {})
      BY <2>1, BringsOne
    <2> QED BY <2>2, <2>3, <2>4 DEF Follows
  <1>10. CASE k = "groups.update"
    <2> DEFINE x == R("groupupdated", 0, Sender)  y == R("groupupdated", 0, Receiver)
    <2>1. e = Publishes(<<x, y>>)
      BY <1>10 DEF Handling, deliverGroupUpdated
    <2>2. x.kind = "groupupdated" /\ y.kind = "groupupdated" /\ x # y
      BY LegacyAssumption DEF R
    <2> HIDE DEF x, y
    <2>3. Brings(Publishes(<<x, y>>), {x, y})
      BY <2>2 DEF Brings, Distinct, Brought, Publishes, Effect
    <2>4. Stems(r, {x, y})
      BY <2>2 DEF Stems, Starters, Followers
    <2>5. \A v \in Users : R("groupupdated", 0, v) \in {x, y}
      BY DEF Users, x, y
    <2>6. Leads(r, {} \cup {x, y})
      BY <1>10, <2>5 DEF Leads, Followers, Before
    <2> QED BY <2>1, <2>3, <2>4, <2>6 DEF Follows
  <1> QED BY <1>2, <1>3, <1>4, <1>5, <1>6, <1>7, <1>8, <1>9, <1>10 DEF HandledKinds

(***************************************************************************)
(* The steps: one takes a record and brings what follows, one sends a      *)
(* message, and the others leave what is under way.                        *)
(***************************************************************************)

\* What is told to a client.
TellingKinds ==
  {"added", "updated", "convupdated", "clientdeleted", "archivedadded", "groupupdated"}

\* What a server publishes for a queue.
RoutedKinds ==
  {"persist", "message_deliver", "message_update", "conversation_archived", "presence_event"}

\* It was t that was taken, from a queue (TQ) or from elsewhere (TB).
Turn(t, TQ, TB, XQ, NB) ==
  /\ Traffic(TQ, TB, XQ, NB)
  /\ t \in Good /\ InFlight(t)
  /\ Flying(TQ, TB)
  /\ \/ TQ = {t} /\ TB = {}
     \/ TQ = {} /\ TB = {t}
  /\ \/ XQ = {}
     \/ XQ = {t} /\ t.kind \in RoutedKinds /\ \A x \in NB : x.kind = "added"
  /\ t.kind \in {"outgoing", "delivered"} => t \in TQ
  /\ t.kind \in {"getGroup", "added"} => t \in TB
  /\ t.kind = "persist" /\ t \notin TB => \A x \in NB : x.kind # "added"
  /\ Stems(t, NB)
  /\ ~ lost' => Leads(t, XQ \cup NB)

Budget == <<left.msgs, left.injected, left.groups>>

\* What it does to the views, the races and the database.
Tells(t) ==
  /\ UNCHANGED <<scene, read, group, Budget>>
  /\ view' = IF t.kind \in TellingKinds THEN [view EXCEPT ![Told(t)] = Dispatch(@, t)] ELSE view
  /\ raced' = IF t.kind = "added" /\ Busy(t.u) THEN raced \cup {t.u} ELSE raced
  /\ ~ lost' => saveOrUpdateMessage(t) /\ saveOrUpdateConversation(t)

AskedNext == \A p \in Deployed : \A r \in pending'[p] : r.kind \in AskedKinds

Turned == AskedNext /\ \E t, TQ, TB, XQ, NB : Turn(t, TQ, TB, XQ, NB) /\ Tells(t)

Idles ==
  /\ AskedNext /\ Traffic({}, {}, {}, {})
  /\ UNCHANGED <<scene, messages, conversations, group, view, read, raced, Budget>>

\* A step asks MongoDB what it may be asked.
LEMMA AskedDo ==
  ASSUME AskedOK, NEW p \in Deployed, NEW e, NEW N, Brings(e, N), NEW d, d \subseteq pending[p],
         pending' = [pending EXCEPT ![p] = d \cup e.db]
  PROVE  AskedNext
  BY DEF AskedOK, AskedNext, Brings

LEMMA HandlersTurn ==
  ASSUME CoreInv, AskedOK, NEW p \in Deployed, Handlers(p), ~ lost' PROVE Turned
  <1>1. /\ TypeInv /\ ServerOK /\ SceneOK /\ Deployed \subseteq Procs
        /\ wire \in [Procs -> [Conns -> Seq(Published(Good))]] /\ pending \in [Procs -> SUBSET Good]
    BY Environments DEF CoreInv, TypeInv, ServerOK
  <1>2. PICK q \in {"messages", "persist"}, e \in EffectsOf(Good) :
          /\ Consume(p, q, Head(queue[q]).kind) /\ Handles(p, e)
          /\ e = Handling(p, Head(queue[q])) /\ Head(queue[q]).kind \in HandledKinds
    BY <1>1, HandlersHandled DEF Handled
  <1> DEFINE t == Head(queue[q])
             r == [queue EXCEPT ![q] = Tail(@)]
  <1>3. q \in Queues
    BY DEF Queues
  <1>4. /\ queue[q] # <<>> /\ queue' = r
        /\ UNCHANGED <<scene, left, messages, conversations, group, view, read, raced>>
    BY <1>2 DEF Consume
  <1>5. t \in Good /\ QueueOf(t.kind) = q
    <2>1. t \in GoodFor(q) /\ t \in Good
      BY <1>1, <1>3, <1>4, QueueTypes
    <2> QED BY <2>1 DEF GoodFor
  <1>6. Leaves(r, wire, pending, {t}, {})
    BY <1>1, <1>3, <1>4, LeavesQueue
  <1>7. QueueJoins(r, {})
    BY <1>4, QueueSame
  <1>8. InFlight(t) /\ Flying({t}, {})
    <2>1. queue[q] \in Seq(Good)
      BY <1>1, <1>3 DEF ServerOK
    <2>2. 1 \in DOMAIN queue[q] /\ queue[q][1] = t
      BY <1>4, <2>1
    <2>3. Flying({t}, {})
      BY <1>3, <2>2 DEF Flying, FlyingIn, Has
    <2> QED BY <1>3, <2>2, <2>3 DEF InFlight
  <1> HIDE DEF t, r
  <1>9. PICK N : Brings(e, N) /\ Stems(t, N) /\ (~ lost' => Leads(t, {} \cup N))
    BY <1>1, <1>2, <1>5, HandlingFollows DEF Follows, t
  <1>10. WireJoins(wire, pending, N)
    <2>1. /\ wire'[p] = [observer |-> publish(p, "observer", wire[p]["observer"], e.pub),
                         webhooks |-> publish(p, "webhooks", wire[p]["webhooks"], e.hook)]
          /\ pending'[p] = pending[p] \cup e.db
          /\ \A o \in Deployed : o # p => wire'[o] = wire[o] /\ pending'[o] = pending[o]
      <3>1. Do(p, e, wire[p], pending[p]) /\ ~ Lose(p, e)
        BY <1>2 DEF Handles
      <3>2. /\ wire' = [wire EXCEPT ![p] =
                 [observer |-> publish(p, "observer", wire[p]["observer"], e.pub),
                  webhooks |-> publish(p, "webhooks", wire[p]["webhooks"], e.hook)]]
            /\ pending' = [pending EXCEPT ![p] = pending[p] \cup e.db]
        BY <3>1, DoWhole
      <3> QED BY <1>1, <3>2
    <2>2. wire[p] \in [Conns -> Seq(Published(Good))]
      BY <1>1
    <2>3. ~ lost' => ~ Lose(p, e)
      BY <1>2 DEF Handles
    <2>4. Distinct(e) /\ Brought(e) = N
      BY <1>9 DEF Brings
    <2> QED BY <2>1, <2>2, <2>3, <2>4, WireDoes
  <1>11. Traffic({t}, {}, {}, N)
    BY <1>6, <1>7, <1>10, Traffics
  <1>12. t.kind \notin {"getGroup", "added"} /\ t.kind \notin TellingKinds
           /\ t.kind \notin AskedKinds
    BY <1>2 DEF HandledKinds, TellingKinds, AskedKinds, t
  <1>13. t.kind = "persist" => \A x \in N : x.kind # "added"
    <2>1. ASSUME t.kind = "persist" PROVE \A x \in N : x.kind # "added"
      <3>1. e = Asks(R("saveMessage", t.m, t.u))
        BY <1>2, <2>1 DEF Handling, t
      <3>2. N = {R("saveMessage", t.m, t.u)}
        <4>1. Brings(Asks(R("saveMessage", t.m, t.u)), {R("saveMessage", t.m, t.u)})
          BY BringsOne DEF AskedKinds
        <4>2. Brought(e) = {R("saveMessage", t.m, t.u)}
          BY <3>1, <4>1 DEF Brings
        <4>3. Brought(e) = N
          BY <1>9 DEF Brings
        <4> QED BY <4>2, <4>3
      <3> QED BY <3>2 DEF R
    <2> QED BY <2>1
  <1>14. Turn(t, {t}, {}, {}, N)
    BY <1>5, <1>8, <1>9, <1>11, <1>12, <1>13 DEF Turn
  <1>15. Tells(t)
    BY <1>4, <1>12 DEF Tells, Budget, TellingKinds, AskedKinds, saveOrUpdateMessage,
       saveOrUpdateConversation
  <1>16. AskedNext
    <2>1. Do(p, e, wire[p], pending[p]) /\ ~ Lose(p, e)
      BY <1>2 DEF Handles
    <2>2. pending' = [pending EXCEPT ![p] = pending[p] \cup e.db]
      BY <2>1, DoWhole
    <2> QED BY <1>9, <2>2, AskedDo
  <1> QED BY <1>14, <1>15, <1>16 DEF Turned

LEMMA WebhooksTurn ==
  ASSUME CoreInv, AskedOK, NEW p \in Deployed, Webhooks(p) PROVE Turned
  <1>1. TypeInv /\ ServerOK
    BY DEF CoreInv, TypeInv
  <1>2. PICK k : WHwork(p, k)
    BY DEF Webhooks, WHprocess_webhook_message_deliver, WHprocess_webhook_message_update,
       WHprocess_webhook_conversation_archived, WHprocess_webhook_presence
  <1> DEFINE q == "webhooks"
             t == Head(queue[q])
             r == [queue EXCEPT ![q] = Tail(@)]
  <1>3. q \in Queues
    BY DEF Queues
  <1>4. /\ queue[q] # <<>> /\ queue' = r /\ wire' = wire /\ pending' = pending
        /\ UNCHANGED <<scene, left, messages, conversations, group, view, read, raced>>
    BY <1>2 DEF WHwork
  <1>5. t \in Good /\ QueueOf(t.kind) = q
    <2>1. t \in GoodFor(q) /\ t \in Good
      BY <1>1, <1>3, <1>4, QueueTypes
    <2> QED BY <2>1 DEF GoodFor
  <1>6. Leaves(r, wire, pending, {t}, {})
    BY <1>1, <1>3, <1>4, LeavesQueue
  <1>7. QueueJoins(r, {})
    BY <1>4, QueueSame
  <1>8. InFlight(t) /\ Flying({t}, {})
    <2>1. queue[q] \in Seq(Good)
      BY <1>1, <1>3 DEF ServerOK
    <2>2. 1 \in DOMAIN queue[q] /\ queue[q][1] = t
      BY <1>4, <2>1
    <2>3. Flying({t}, {})
      BY <1>3, <2>2 DEF Flying, FlyingIn, Has
    <2> QED BY <1>3, <2>2, <2>3 DEF InFlight
  <1>9. WireJoins(wire, pending, {})
    BY <1>4, WiresSame
  <1>10. t.kind \in {"message_deliver", "message_update", "conversation_archived",
                     "presence_event"}
    BY <1>5 DEF QueueOf
  <1> HIDE DEF t, r
  <1>11. Traffic({t}, {}, {}, {})
    BY <1>6, <1>7, <1>9, Traffics
  <1>12. Stems(t, {}) /\ Leads(t, {} \cup {})
    BY <1>10 DEF Stems, Leads, Followers, Before
  <1>13. Turn(t, {t}, {}, {}, {})
    BY <1>5, <1>8, <1>10, <1>11, <1>12 DEF Turn
  <1>14. Tells(t)
    BY <1>4, <1>10 DEF Tells, Budget, TellingKinds, saveOrUpdateMessage,
       saveOrUpdateConversation
  <1>15. AskedNext
    BY <1>4 DEF AskedOK, AskedNext
  <1> QED BY <1>13, <1>14, <1>15 DEF Turned

\* A record taken from the database, with what its callback brings.
LEMMA AskedTurn ==
  ASSUME CoreInv, AskedOK, NEW p \in Deployed, NEW r \in pending[p], NEW e, NEW N,
         Brings(e, N), Stems(r, N), ~ lost' => Leads(r, {} \cup N), e \in EffectsOf(Good),
         Do(p, e, wire[p], pending[p] \ {r}), ~ Lose(p, e), queue' = queue
  PROVE  Turn(r, {}, {r}, {}, N) /\ AskedNext
  <1>1. /\ TypeInv /\ ServerOK /\ Deployed \subseteq Procs
        /\ wire \in [Procs -> [Conns -> Seq(Published(Good))]] /\ pending \in [Procs -> SUBSET Good]
    BY Environments DEF CoreInv, TypeInv, ServerOK
  <1> DEFINE d == [pending EXCEPT ![p] = @ \ {r}]
  <1>2. Leaves(queue, wire, d, {}, {r})
    BY <1>1, LeavesBase
  <1>3. QueueJoins(queue, {})
    BY QueueSame
  <1>4. r \in Good /\ r.kind \in AskedKinds
    BY <1>1, PendingIsGood DEF AskedOK
  <1>5. WireJoins(wire, d, N)
    <2>1. /\ wire'[p] = [observer |-> publish(p, "observer", wire[p]["observer"], e.pub),
                         webhooks |-> publish(p, "webhooks", wire[p]["webhooks"], e.hook)]
          /\ pending'[p] = d[p] \cup e.db
          /\ \A o \in Deployed : o # p => wire'[o] = wire[o] /\ pending'[o] = d[o]
      BY <1>1, DoWhole
    <2>2. wire[p] \in [Conns -> Seq(Published(Good))]
      BY <1>1
    <2>3. Distinct(e) /\ Brought(e) = N
      BY DEF Brings
    <2> HIDE DEF d
    <2> QED BY <2>1, <2>2, <2>3, WireDoes
  <1> HIDE DEF d
  <1>6. Traffic({}, {r}, {}, N)
    BY <1>2, <1>3, <1>5, Traffics
  <1>7. InFlight(r) /\ Flying({}, {r})
    BY DEF InFlight, Flying, FlyingIn, Asked
  <1>8. r.kind \notin {"outgoing", "delivered", "persist"}
    BY <1>4 DEF AskedKinds
  <1>9. AskedNext
    <2> DEFINE a == pending[p] \ {r}
    <2>1. pending' = [pending EXCEPT ![p] = a \cup e.db] /\ a \subseteq pending[p]
      BY DoWhole
    <2> HIDE DEF a
    <2> QED BY <2>1, AskedDo
  <1> QED BY <1>4, <1>6, <1>7, <1>8, <1>9 DEF Turn

LEMMA MongoTurn ==
  ASSUME CoreInv, AskedOK, NEW p \in Deployed, MongoAnswers(p), ~ lost' PROVE Turned
  <1>1. TypeInv
    BY DEF CoreInv
  <1>2. \A r \in pending[p] : /\ r \in Good /\ r.kind \in AskedKinds
                              /\ r.kind \notin TellingKinds /\ r.kind # "added"
    BY <1>1, PendingIsGood DEF AskedOK, AskedKinds, TellingKinds
  <1>3. PICK r \in pending[p] :
          /\ saveOrUpdateMessage(r) /\ saveOrUpdateConversation(r)
          /\ Do(p, AfterMongo(r), wire[p], pending[p] \ {r}) /\ ~ Lose(p, AfterMongo(r))
          /\ UNCHANGED <<scene, left, queue, group, view, read, raced>>
    BY DEF MongoAnswers
  <1>4. AfterMongo(r) \in EffectsOf(Good)
    BY <1>1, <1>2, AfterMongoType
  <1>5. PICK N : Brings(AfterMongo(r), N) /\ Stems(r, N) /\ (~ lost' => Leads(r, {} \cup N))
    BY <1>2, MongoFollows DEF Follows
  <1>6. Turn(r, {}, {r}, {}, N) /\ AskedNext
    BY <1>3, <1>4, <1>5, AskedTurn
  <1>7. Tells(r)
    BY <1>2, <1>3 DEF Tells, Budget
  <1> QED BY <1>6, <1>7 DEF Turned

LEMMA ConfirmTurn ==
  ASSUME CoreInv, AskedOK, NEW p \in Deployed, NEW c \in Conns, Confirm(p, c), ~ lost'
  PROVE  Turned
  <1>1. /\ TypeInv /\ ServerOK /\ Deployed \subseteq Procs
        /\ wire \in [Procs -> [Conns -> Seq(Published(Good))]]
    BY Environments DEF CoreInv, TypeInv, ServerOK
  <1> DEFINE t == Head(wire[p][c])
             e == AfterPublish(p, t)
             w == [wire EXCEPT ![p][c] = Tail(@)]
             X == IF QueueOf(t.kind) # "none" THEN {t} ELSE {}
  <1>2. /\ wire[p][c] # <<>> /\ Do(p, e, Rest(p, c), pending[p]) /\ Enqueue(t)
        /\ lost' = (lost \/ Lose(p, e) \/ Unroutable(t))
        /\ view' = IF QueueOf(t.kind) = "none" THEN [view EXCEPT ![Told(t)] = Dispatch(@, t)]
                                               ELSE view
        /\ raced' = IF t.kind = "added" /\ Busy(Told(t)) THEN raced \cup {Told(t)} ELSE raced
        /\ UNCHANGED <<scene, left, messages, conversations, group, read>>
    BY DEF Confirm, Rest
  <1>3. /\ e \in EffectsOf(Good') /\ Rest(p, c) \in [Conns -> Seq(Published(Good'))]
        /\ p \in Procs
    BY <1>1, ConfirmEffect DEF After
  <1>4. t \in Published(Good) /\ t \in Good /\ t.kind \in PublishedKinds
    <2>1. wire[p][c] \in Seq(Published(Good))
      BY <1>1
    <2>2. t \in Published(Good)
      BY <1>2, <2>1, HeadTailProperties
    <2> QED BY <2>2 DEF Published
  <1>5. Leaves(queue, w, pending, {}, {t})
    BY <1>1, <1>2, LeavesWire
  <1>6. InFlight(t) /\ Flying({}, {t})
    <2>1. wire[p][c] \in Seq(Published(Good))
      BY <1>1
    <2>2. 1 \in DOMAIN wire[p][c] /\ wire[p][c][1] = t
      BY <1>2, <2>1
    <2> QED BY <2>2 DEF InFlight, Flying, FlyingIn, Has
  <1>7. w[p] = Rest(p, c) /\ \A o \in Deployed : o # p => w[o] = wire[o]
    BY <1>1 DEF Rest
  <1> HIDE DEF t, w
  <1>8. QueueOf(t.kind) \in Queues \cup {"none"}
    BY DEF QueueOf, Queues
  <1>9. QueueJoins(queue, X)
    <2>1. CASE QueueOf(t.kind) = "none"
      <3>1. "none" \notin declared
        BY <1>1 DEF ServerOK, Queues
      <3>2. queue' = queue
        BY <1>2, <2>1, <3>1 DEF Enqueue
      <3> QED BY <2>1, <3>2, QueueSame
    <2>2. CASE QueueOf(t.kind) # "none"
      <3>1. QueueOf(t.kind) \in Queues
        BY <1>8, <2>2
      <3>2. ~ lost' => ~ Unroutable(t)
        BY <1>2
      <3>3. QueueJoins(queue, {t})
        BY <1>1, <1>2, <3>1, <3>2, QueueEnqueues
      <3> QED BY <2>2, <3>3
    <2> QED BY <2>1, <2>2
  <1>10. PICK N : Brings(e, N) /\ Stems(t, N) /\ (~ lost' => Leads(t, X \cup N))
    BY <1>4, PublishFollows DEF Follows
  <1>11. WireJoins(w, pending, N)
    <2>1. /\ wire'[p] = [observer |-> publish(p, "observer", w[p]["observer"], e.pub),
                         webhooks |-> publish(p, "webhooks", w[p]["webhooks"], e.hook)]
          /\ pending'[p] = pending[p] \cup e.db
          /\ \A o \in Deployed : o # p => wire'[o] = w[o] /\ pending'[o] = pending[o]
      <3>1. pending \in [Procs -> SUBSET Good]
        BY <1>1 DEF ServerOK
      <3>2. ~ Lose(p, e) /\ Do(p, e, Rest(p, c), pending[p])
        BY <1>2
      <3> HIDE DEF e
      <3>3. /\ wire' = [wire EXCEPT ![p] =
                 [observer |-> publish(p, "observer", Rest(p, c)["observer"], e.pub),
                  webhooks |-> publish(p, "webhooks", Rest(p, c)["webhooks"], e.hook)]]
            /\ pending' = [pending EXCEPT ![p] = pending[p] \cup e.db]
        BY <3>2, DoWhole
      <3> QED BY <1>1, <1>3, <1>7, <3>1, <3>3
    <2>2. w[p] \in [Conns -> Seq(Published(Good'))]
      BY <1>3, <1>7
    <2>3. ~ lost' => ~ Lose(p, e)
      BY <1>2
    <2>4. Distinct(e) /\ Brought(e) = N
      BY <1>10 DEF Brings
    <2> HIDE DEF e
    <2> QED BY <1>3, <2>1, <2>2, <2>3, <2>4, WireDoes
  <1>12. Traffic({}, {t}, X, N)
    <2> HIDE DEF X
    <2> QED BY <1>5, <1>9, <1>11, Traffics
  <1>13. t.kind \notin {"outgoing", "delivered"} /\ t.kind \notin AskedKinds
           /\ (t.kind \in TellingKinds <=> QueueOf(t.kind) = "none")
    BY <1>4 DEF PublishedKinds, TellingKinds, QueueOf, AskedKinds
  <1>18. ASSUME QueueOf(t.kind) # "none"
         PROVE  t.kind \in RoutedKinds /\ \A x \in N : x.kind = "added"
    <2>1. t.kind \in RoutedKinds
      BY <1>4, <1>18 DEF PublishedKinds, RoutedKinds, QueueOf
    <2>2. e = Nothing \/ e = Publishes(<<R("added", t.m, Receiver)>>)
      BY <2>1 DEF AfterPublish, RoutedKinds, deliverMessage
    <2>3. Brought(e) = N
      BY <1>10 DEF Brings
    <2>4. Brought(e) = {} \/ Brought(e) = {R("added", t.m, Receiver)}
      BY <2>2, BringsOne DEF Brings
    <2>5. \A x \in N : x.kind = "added"
      BY <2>3, <2>4 DEF R
    <2> QED BY <2>1, <2>5
  <1>14. Turn(t, {}, {t}, X, N)
    <2>1. X = {} \/ (X = {t} /\ t.kind \in RoutedKinds /\ \A x \in N : x.kind = "added")
      BY <1>18
    <2> HIDE DEF X
    <2> QED BY <1>4, <1>6, <1>10, <1>12, <1>13, <2>1 DEF Turn
  <1>15. t.kind = "added" => Told(t) = t.u
    BY DEF Told
  <1>16. Tells(t)
    BY <1>2, <1>13, <1>15 DEF Tells, Budget, AskedKinds, saveOrUpdateMessage,
       saveOrUpdateConversation
  <1>17. AskedNext
    <2>1. pending' = [pending EXCEPT ![p] = pending[p] \cup e.db]
      <3>1. ~ Lose(p, e) /\ Do(p, e, Rest(p, c), pending[p])
        BY <1>2
      <3> HIDE DEF e
      <3> QED BY <3>1, DoWhole
    <2> QED BY <1>10, <2>1, AskedDo
  <1> QED BY <1>14, <1>16, <1>17 DEF Turned

LEMMA LinksIdle ==
  ASSUME AskedOK, UNCHANGED <<scene, Budget, queue, wire, pending, messages, conversations,
                              group, view, read, raced>>
  PROVE  Idles
  <1>1. WireJoins(wire, pending, {}) /\ QueueJoins(queue, {})
    BY WiresSame, QueueSame
  <1>2. Traffic({}, {}, {}, {})
    BY <1>1, LeavesAll, Traffics
  <1> QED BY <1>2 DEF Idles, AskedNext, AskedOK

\* What breaks takes nothing along, if nothing is lost.
LEMMA BreaksIdle ==
  ASSUME CoreInv, AskedOK, NEW p \in Deployed, Breaks(p), ~ lost' PROVE Idles
  <1>1. /\ UNCHANGED <<scene, queue, wire, pending, messages, conversations, group, view, read,
                       raced>>
        /\ left' = [left EXCEPT !.drops = @ - 1] /\ left \in [Bounds -> Nat]
    BY BreaksLeave DEF CoreInv, TypeInv, SceneOK
  <1>2. Budget' = Budget
    BY <1>1 DEF Budget, Bounds
  <1> QED BY <1>1, <1>2, LinksIdle

LEMMA MatchSteps ==
  ASSUME CoreInv, AskedOK, [Next]_vars, ~ lost' PROVE Turned \/ Idles \/ Clients
  <1>1. ASSUME NEW p \in Deployed, Handlers(p) \/ Webhooks(p) \/ MongoAnswers(p) PROVE Turned
    BY <1>1, HandlersTurn, WebhooksTurn, MongoTurn
  <1>2. ASSUME NEW p \in Deployed, NEW c \in Conns, Confirm(p, c) PROVE Turned
    BY <1>2, ConfirmTurn
  <1>3. ASSUME NEW p \in Deployed, Breaks(p) PROVE Idles
    BY <1>3, BreaksIdle
  <1>4. ASSUME NEW p \in Deployed, startServer(p) PROVE Idles
    BY <1>4, LinksIdle DEF startServer, Budget
  <1>5. ASSUME NEW p \in Deployed, NEW c \in Conns, startMQ(p, c) \/ startWorker(p, c) PROVE Idles
    BY <1>5, LinksIdle DEF startMQ, startWorker, Budget
  <1>6. CASE UNCHANGED vars
    BY <1>6, LinksIdle DEF vars, Budget
  <1>7. \A p \in Deployed : ~ MongoFails(p)
    BY DEF MongoFails
  <1> QED BY <1>1, <1>2, <1>3, <1>4, <1>5, <1>6, <1>7 DEF Next, Server

\* A client, or the chat21-http-server, sends a message.
LEMMA SendsTraffic ==
  ASSUME CoreInv, AskedOK, NEW x, NEW b, Sends(x, b), x.kind \in Starters
  PROVE  AskedNext /\ Traffic({}, {}, {x}, {})
  <1>1. ServerOK
    BY DEF CoreInv, TypeInv
  <1>2. /\ Enqueue(x) /\ (~ lost' => ~ Unroutable(x)) /\ wire' = wire /\ pending' = pending
    BY DEF Sends
  <1>3. QueueOf(x.kind) \in Queues
    BY DEF Starters, QueueOf, Queues
  <1>4. QueueJoins(queue, {x})
    BY <1>1, <1>2, <1>3, QueueEnqueues
  <1>5. WireJoins(wire, pending, {})
    BY <1>2, WiresSame
  <1> QED BY <1>2, <1>4, <1>5, LeavesAll, Traffics DEF AskedOK, AskedNext

(***************************************************************************)
(* The next state's definitions, in the terms of Traffic.                  *)
(***************************************************************************)

LEMMA FliesFrame ==
  ASSUME scene' = scene
  PROVE  /\ \A r : InFlight(r)' <=> FliesNext({r}, {r})
         /\ \A m, u : Storing(m, u)' <=>
              FliesNext({R("persist", m, u), R("saveMessage", m, u)},
                        {R("persist", m, u), R("saveMessage", m, u)})
  <1>1. Deployed' = Deployed
    BY SceneFrame
  <1>2. \A r : InFlight(r)' <=> FliesNext({r}, {r})
    BY <1>1 DEF InFlight, FliesNext, FlyingIn, Has, Asked
  <1>3. \A m, u : Storing(m, u)' <=>
          FliesNext({R("persist", m, u), R("saveMessage", m, u)},
                    {R("persist", m, u), R("saveMessage", m, u)})
    BY <1>1 DEF Storing, InFlight, FliesNext, FlyingIn, Has, Asked
  <1> QED BY <1>2, <1>3

\* One copy, and one conversation.
CopyNext(m, u) ==
  /\ LoneNext(Queued(m, u), Coming(m, u))
  /\ FliesNext(Queued(m, u), Coming(m, u)) => Sent(m)' /\ m \notin view'[u].shown
  /\ m \in view'[u].shown => Sent(m)'

LEMMA CopyFrame ==
  ASSUME scene' = scene, NEW m, NEW u, CopyNext(m, u) PROVE CopyOnce(m, u)'
  <1>1. Deployed' = Deployed
    BY SceneFrame
  <1> DEFINE A == Queued(m, u)
             B == Coming(m, u)
  <1>2. A' = A /\ B' = B
    BY DEF Queued, Coming, Direct, R
  <1>3. LoneNext(A, B) => LoneIn(queue, wire, pending, A, B)'
    BY <1>1, <1>2 DEF LoneNext, LoneIn
  <1>4. FlyingIn(queue, wire, pending, A, B)' => FliesNext(A, B)
    BY <1>1, <1>2 DEF FliesNext, FlyingIn
  <1> QED BY <1>3, <1>4 DEF CopyNext, CopyOnce, Lone, Flying

LEMMA AboutFrame ==
  ASSUME scene' = scene, NEW u
  PROVE  /\ LoneNext(About(u), About(u)) => Lone(About(u), About(u))'
         /\ Flying(About(u), About(u))' <=> FliesNext(About(u), About(u))
  <1>1. Deployed' = Deployed
    BY SceneFrame
  <1>2. About(u)' = About(u)
    BY DEF About
  <1>3. LoneNext(About(u), About(u)) => LoneIn(queue, wire, pending, About(u), About(u))'
    BY <1>1, <1>2 DEF LoneNext, LoneIn
  <1>4. FlyingIn(queue, wire, pending, About(u), About(u))' <=> FliesNext(About(u), About(u))
    BY <1>1, <1>2 DEF FliesNext, FlyingIn
  <1> QED BY <1>3, <1>4 DEF Lone, Flying

\* One record.
LEMMA TrafficRecords ==
  ASSUME scene' = scene, NEW TQ, NEW TB, NEW XQ, NEW NB, Traffic(TQ, TB, XQ, NB), NEW x
  PROVE  /\ InFlight(x)' => InFlight(x) \/ x \in XQ \cup NB
         /\ ~ lost' /\ InFlight(x) /\ x \notin TQ \cup TB => InFlight(x)'
         /\ ~ lost' /\ x \in XQ \cup NB => InFlight(x)'
         /\ \A S : Lone(S, S) /\ (TQ \cup TB) \cap S # {} /\ x \in S /\ InFlight(x)' =>
              x \in XQ \cup NB
  <1>1. (InFlight(x)' <=> FliesNext({x}, {x})) /\ (InFlight(x) <=> Flying({x}, {x}))
    BY FliesFrame, InFlightFlies
  <1>2. x \notin XQ \cup NB => XQ \cap {x} = {} /\ NB \cap {x} = {}
    OBVIOUS
  <1>3. InFlight(x)' => InFlight(x) \/ x \in XQ \cup NB
    BY <1>1, <1>2 DEF Traffic
  <1>4. x \notin TQ \cup TB => TQ \cap {x} = {} /\ TB \cap {x} = {}
    OBVIOUS
  <1>5. ~ lost' /\ InFlight(x) /\ x \notin TQ \cup TB => InFlight(x)'
    BY <1>1, <1>4 DEF Traffic
  <1>6. x \in XQ \cup NB => XQ \cap {x} # {} \/ NB \cap {x} # {}
    OBVIOUS
  <1>7. ~ lost' /\ x \in XQ \cup NB => InFlight(x)'
    BY <1>1, <1>6 DEF Traffic
  <1>8. ASSUME NEW S, Lone(S, S), (TQ \cup TB) \cap S # {}, x \in S, x \notin XQ \cup NB
        PROVE  ~ FliesNext({x}, {x})
    <2>1. TQ \cap S # {} \/ TB \cap S # {}
      BY <1>8
    <2>2. {x} \in SUBSET S
      BY <1>8
    <2> QED BY <1>2, <1>8, <2>1, <2>2 DEF Traffic
  <1> QED BY <1>1, <1>3, <1>5, <1>7, <1>8

LEMMA FlyingRecord ==
  ASSUME NEW S PROVE Flying(S, S) <=> \E x \in S : InFlight(x)
  BY DEF Flying, FlyingIn, Has, Asked, InFlight

\* What is under way is about a message that there is.
LEMMA FlyingIsGood ==
  ASSUME CoreInv, NEW r, InFlight(r) PROVE r \in Good
  <1>1. /\ ServerOK /\ Deployed \subseteq Procs
        /\ wire \in [Procs -> [Conns -> Seq(Published(Good))]]
        /\ queue \in [Queues -> Seq(Good)] /\ pending \in [Procs -> SUBSET Good]
    BY Environments DEF CoreInv, TypeInv, ServerOK
  <1>2. ASSUME NEW q \in Queues, NEW i \in DOMAIN queue[q], queue[q][i] = r PROVE r \in Good
    <2>1. queue[q] \in Seq(Good)
      BY <1>1
    <2> QED BY <1>2, <2>1
  <1>3. ASSUME NEW p \in Deployed, r \in pending[p] PROVE r \in Good
    BY <1>1, <1>3
  <1>4. ASSUME NEW p \in Deployed, NEW c \in Conns, NEW i \in DOMAIN wire[p][c], wire[p][c][i] = r
        PROVE  r \in Good
    <2>1. wire[p][c] \in Seq(Published(Good))
      BY <1>1
    <2>2. r \in Published(Good)
      BY <1>4, <2>1
    <2> QED BY <2>2 DEF Published
  <1> QED BY <1>2, <1>3, <1>4 DEF InFlight

(***************************************************************************)
(* What the clients and the chat21-http-server send.                       *)
(***************************************************************************)

Sending(x) ==
  /\ AskedNext /\ Traffic({}, {}, {x}, {})
  /\ UNCHANGED <<scene, messages, conversations, view>>
  /\ x.kind \in Starters /\ x = R(x.kind, x.m, x.u) /\ raced \subseteq raced'
  /\ \A m \in Messages : Sent(m) => Sent(m)'
  /\ x.kind \in {"outgoing", "delivered"} => ~ Sent(x.m) /\ Sent(x.m)'
  /\ x.kind = "outgoing" => x.u = Sender
  /\ x.kind = "delivered" => x.u = Receiver
  /\ x.kind = "update" =>
       /\ x.u = Receiver /\ x.m \in view[Receiver].shown
       /\ read' = IF scene.status = RECEIVED THEN [read EXCEPT ![Receiver] = @ \cup {x.m}]
                                             ELSE read
       /\ Storing(x.m, Receiver) \/ Storing(x.m, ConversWith(Receiver)) =>
            {Receiver, ConversWith(Receiver)} \subseteq raced'
  /\ x.kind # "update" => read' = read
  /\ x.kind \in {"is_new", "archive"} =>
       /\ x.m = 0 /\ view[x.u].list = "conversations" /\ x.u \in Users
       /\ Busy(x.u) => x.u \in raced'
  /\ x.kind = "groups.update" => x = R("groups.update", 0, Group) /\ group' = Users
  /\ x.kind # "groups.update" => group' = group /\ left'.groups = left.groups

LEMMA SentGrows ==
  ASSUME SceneOK, scene' = scene, NEW b \in Bounds, left[b] > 0,
         left' = [left EXCEPT ![b] = @ - 1]
  PROVE  \A m \in Messages : Sent(m) => Sent(m)'
  <1>1. /\ left \in [Bounds -> Nat] /\ scene.bound \in [Bounds -> Nat]
        /\ "msgs" \in Bounds /\ "injected" \in Bounds
    BY LegacyAssumption DEF SceneOK, Bounds
  <1>2. /\ left.msgs \in Nat /\ left.injected \in Nat
        /\ left'.msgs \in Int /\ left'.injected \in Int
        /\ left'.msgs <= left.msgs /\ left'.injected <= left.injected
        /\ scene.bound.msgs \in Nat /\ scene.bound.injected \in Nat
    BY <1>1
  <1> DEFINE n == scene.bound.msgs  k == scene.bound.injected
  <1>3. ASSUME NEW m \in Int
        PROVE  /\ m <= n + k - left.injected => m <= n + k - left'.injected
               /\ m <= n - left.msgs => m <= n - left'.msgs
    <2> HIDE DEF n, k
    <2>1. n \in Nat /\ k \in Nat
      BY <1>2 DEF n, k
    <2> QED BY <1>2, <2>1
  <1>4. ASSUME NEW m \in Messages PROVE m \in Int
    BY MessagesAreNumbers
  <1> QED BY <1>3, <1>4 DEF Sent, Injected

LEMMA ClientsSend ==
  ASSUME CoreInv, AskedOK, Clients PROVE \E x : Sending(x)
  <1>1. SceneOK /\ left \in [Bounds -> Nat] /\ scene.bound \in [Bounds -> Nat]
          /\ \A k \in Bounds : left[k] <= scene.bound[k]
    BY LegacyAssumption DEF CoreInv, TypeInv, SceneOK
  <1>2. \A k \in {"msgs", "injected", "reads", "news", "archives", "presences", "groups"} :
          k \in Bounds
    BY DEF Bounds
  <1>3. ASSUME NEW x, NEW b \in Bounds, Sends(x, b), x.kind \in Starters
        PROVE  /\ AskedNext /\ Traffic({}, {}, {x}, {})
               /\ UNCHANGED <<scene, messages, conversations, view>>
               /\ left[b] > 0 /\ left' = [left EXCEPT ![b] = @ - 1]
               /\ \A m \in Messages : Sent(m) => Sent(m)'
               /\ b # "groups" => left'.groups = left.groups
    <2>1. left[b] > 0 /\ left' = [left EXCEPT ![b] = @ - 1]
            /\ UNCHANGED <<scene, messages, conversations, view>>
      BY <1>3 DEF Sends
    <2>2. \A m \in Messages : Sent(m) => Sent(m)'
      BY <1>1, <2>1, SentGrows
    <2>3. b # "groups" => left'.groups = left.groups
      BY <1>1, <1>2, <2>1
    <2> QED BY <1>3, <2>1, <2>2, <2>3, SendsTraffic
  <1>4. \A k, m, u : R(k, m, u).kind = k /\ R(k, m, u).m = m /\ R(k, m, u).u = u
    BY DEF R
  <1> DEFINE n == scene.bound.msgs  k == scene.bound.injected
  <1>5. n \in Nat /\ k \in Nat /\ left.msgs \in Nat /\ left.injected \in Nat
    BY <1>1, <1>2
  <1>6. CASE sendMessage
    <2>0. PICK m : m = n - left.msgs + 1
      OBVIOUS
    <2> DEFINE x == R("outgoing", m, Sender)
    <2>1. Sends(x, "msgs") /\ read' = read /\ group' = group /\ raced' = raced
      BY <1>6, <2>0 DEF sendMessage
    <2>2. /\ x.kind \in Starters /\ x = R(x.kind, x.m, x.u)
          /\ x.kind = "outgoing" /\ x.m = m /\ x.u = Sender
      BY <1>4 DEF Starters
    <2>3. left.msgs > 0 /\ left'.msgs = left.msgs - 1 /\ scene' = scene /\ left.msgs <= n
      BY <1>1, <1>2, <1>3, <2>1, <2>2
    <2>4. ~ Sent(m) /\ Sent(m)'
      BY <1>5, <2>0, <2>3 DEF Sent, Injected
    <2> HIDE DEF x
    <2>5. Sending(x)
      BY <1>2, <1>3, <1>4, <2>1, <2>2, <2>4 DEF Sending
    <2> QED BY <2>5
  <1>7. CASE deliverFromHttp
    <2>0. PICK m : m = n + k - left.injected + 1
      OBVIOUS
    <2> DEFINE x == R("delivered", m, Receiver)
    <2>1. Sends(x, "injected") /\ read' = read /\ group' = group /\ raced' = raced
      BY <1>7, <2>0 DEF deliverFromHttp
    <2>2. /\ x.kind \in Starters /\ x = R(x.kind, x.m, x.u)
          /\ x.kind = "delivered" /\ x.m = m /\ x.u = Receiver
      BY <1>4 DEF Starters
    <2>3. left.injected > 0 /\ left'.injected = left.injected - 1 /\ scene' = scene
            /\ left.injected <= k
      BY <1>1, <1>2, <1>3, <2>1, <2>2
    <2>4. ~ Sent(m) /\ Sent(m)'
      BY <1>5, <2>0, <2>3 DEF Sent, Injected
    <2> HIDE DEF x
    <2>5. Sending(x)
      BY <1>2, <1>3, <1>4, <2>1, <2>2, <2>4 DEF Sending
    <2> QED BY <2>5
  <1>8. CASE updateGroup
    <2> DEFINE x == R("groups.update", 0, Group)
    <2>1. Sends(x, "groups") /\ read' = read /\ group' = Users /\ raced' = raced
      BY <1>8 DEF updateGroup
    <2>2. x.kind \in Starters /\ x = R(x.kind, x.m, x.u) /\ x.kind = "groups.update"
      BY <1>4 DEF Starters
    <2>3. Sending(x)
      BY <1>2, <1>3, <1>4, <2>1, <2>2 DEF Sending
    <2> QED BY <2>3
  <1>9. ASSUME NEW u \in Users, updateConversationIsNew(u) PROVE \E x : Sending(x)
    <2> DEFINE x == R("is_new", 0, u)
    <2>1. /\ Sends(x, "news") /\ read' = read /\ group' = group /\ view[u].list = "conversations"
          /\ raced' = IF Busy(u) THEN raced \cup {u} ELSE raced
      BY <1>9 DEF updateConversationIsNew
    <2>2. x.kind \in Starters /\ x = R(x.kind, x.m, x.u) /\ x.kind = "is_new" /\ x.m = 0 /\ x.u = u
      BY <1>4 DEF Starters
    <2> HIDE DEF x
    <2>3. Sending(x)
      BY <1>2, <1>3, <2>1, <2>2 DEF Sending
    <2> QED BY <2>3
  <1>10. ASSUME NEW u \in Users, archiveConversation(u) PROVE \E x : Sending(x)
    <2> DEFINE x == R("archive", 0, u)
    <2>1. /\ Sends(x, "archives") /\ read' = read /\ group' = group
          /\ view[u].list = "conversations"
          /\ raced' = IF Busy(u) THEN raced \cup {u} ELSE raced
      BY <1>10 DEF archiveConversation
    <2>2. x.kind \in Starters /\ x = R(x.kind, x.m, x.u) /\ x.kind = "archive" /\ x.m = 0 /\ x.u = u
      BY <1>4 DEF Starters
    <2> HIDE DEF x
    <2>3. Sending(x)
      BY <1>2, <1>3, <2>1, <2>2 DEF Sending
    <2> QED BY <2>3
  <1>11. ASSUME NEW u \in Users, announcePresence(u) PROVE \E x : Sending(x)
    <2> DEFINE x == R("presence", 0, u)
    <2>1. Sends(x, "presences") /\ read' = read /\ group' = group /\ raced' = raced
      BY <1>11 DEF announcePresence
    <2>2. x.kind \in Starters /\ x = R(x.kind, x.m, x.u) /\ x.kind = "presence"
      BY <1>4 DEF Starters
    <2> HIDE DEF x
    <2>3. Sending(x)
      BY <1>2, <1>3, <2>1, <2>2 DEF Sending
    <2> QED BY <2>3
  <1>12. ASSUME NEW u \in Users, NEW m \in Messages, updateMessageStatus(u, m)
         PROVE  \E x : Sending(x)
    <2> DEFINE x == R("update", m, u)
    <2>1. /\ Sends(x, "reads") /\ group' = group /\ m \in view[u].shown /\ u # Sender
          /\ read' = IF scene.status = RECEIVED THEN [read EXCEPT ![u] = @ \cup {m}] ELSE read
          /\ raced' = IF Storing(m, u) \/ Storing(m, ConversWith(u))
                      THEN raced \cup {u, ConversWith(u)} ELSE raced
      BY <1>12 DEF updateMessageStatus
    <2>2. /\ x.kind \in Starters /\ x = R(x.kind, x.m, x.u)
          /\ x.kind = "update" /\ x.m = m /\ x.u = u /\ u = Receiver
      BY <1>4, <2>1 DEF Starters, Users
    <2> HIDE DEF x
    <2>3. Sending(x)
      BY <1>2, <1>3, <2>1, <2>2 DEF Sending
    <2> QED BY <2>3
  <1> QED BY <1>6, <1>7, <1>8, <1>9, <1>10, <1>11, <1>12 DEF Clients

(***************************************************************************)
(* What a turn does to the view of a client.                               *)
(***************************************************************************)

LEMMA DispatchFields ==
  ASSUME NEW v \in View, NEW r
  PROVE  LET w == Dispatch(v, r) IN
         r.kind \in TellingKinds =>
           /\ w.shown = IF r.kind = "added" THEN v.shown \cup {r.m} ELSE v.shown
           /\ w.returned = IF r.kind = "updated" THEN v.returned \cup {r.m} ELSE v.returned
           /\ w.last = IF r.kind = "added" /\ scene.updateconversation THEN r.m ELSE v.last
           /\ w.list = CASE r.kind = "added" /\ scene.updateconversation -> "conversations"
                         [] r.kind = "clientdeleted" -> "none"
                         [] r.kind = "archivedadded" -> "archived"
                         [] OTHER -> v.list
           /\ w.is_new = CASE r.kind = "added" /\ scene.updateconversation -> TRUE
                           [] r.kind = "convupdated" -> FALSE
                           [] OTHER -> v.is_new
           /\ w.members = IF r.kind = "groupupdated" THEN Users ELSE v.members
  BY DEF Dispatch, View, TellingKinds

LEMMA ToldViews ==
  ASSUME TypeInv, NEW t \in Good, Tells(t), NEW u \in Timelines
  PROVE  /\ view'[u].shown = IF t.kind = "added" /\ t.u = u
                             THEN view[u].shown \cup {t.m} ELSE view[u].shown
         /\ view'[u].returned = IF t.kind = "updated" /\ ConversWith(t.u) = u
                                THEN view[u].returned \cup {t.m} ELSE view[u].returned
         /\ view'[u].last = IF t.kind = "added" /\ t.u = u /\ scene.updateconversation
                            THEN t.m ELSE view[u].last
         /\ view'[u].list =
              IF t.kind = "added" /\ t.u = u /\ scene.updateconversation THEN "conversations"
              ELSE IF t.kind = "clientdeleted" /\ t.u = u THEN "none"
              ELSE IF t.kind = "archivedadded" /\ t.u = u THEN "archived"
              ELSE view[u].list
         /\ view'[u].is_new =
              IF t.kind = "added" /\ t.u = u /\ scene.updateconversation THEN TRUE
              ELSE IF t.kind = "convupdated" /\ t.u = u THEN FALSE
              ELSE view[u].is_new
         /\ view'[u].members =
              IF t.kind = "groupupdated" /\ t.u = u THEN Users ELSE view[u].members
  <1>1. /\ view \in [Timelines -> View] /\ view[u] \in View
        /\ view' = IF t.kind \in TellingKinds THEN [view EXCEPT ![Told(t)] = Dispatch(@, t)]
                                              ELSE view
    BY DEF TypeInv, ViewOK, Tells
  <1>2. t.kind # "updated" => Told(t) = t.u
    BY DEF Told
  <1>3. t.kind = "updated" => Told(t) = ConversWith(t.u)
    BY DEF Told
  <1>4. t.kind \in TellingKinds <=>
          t.kind \in {"added", "updated", "convupdated", "clientdeleted", "archivedadded",
                      "groupupdated"}
    BY DEF TellingKinds
  <1> HIDE DEF TellingKinds
  <1>5. CASE t.kind \notin TellingKinds
    BY <1>1, <1>4, <1>5
  <1>6. CASE t.kind \in TellingKinds /\ Told(t) # u
    <2>1. view'[u] = view[u]
      BY <1>1, <1>6
    <2> QED BY <1>2, <1>3, <1>6, <2>1
  <1>7. CASE t.kind \in TellingKinds /\ Told(t) = u
    <2>1. view'[u] = Dispatch(view[u], t)
      BY <1>1, <1>7
    <2> DEFINE v == view[u]
               w == Dispatch(v, t)
    <2>2. /\ w.shown = IF t.kind = "added" THEN v.shown \cup {t.m} ELSE v.shown
          /\ w.returned = IF t.kind = "updated" THEN v.returned \cup {t.m} ELSE v.returned
          /\ w.last = IF t.kind = "added" /\ scene.updateconversation THEN t.m ELSE v.last
          /\ w.list = CASE t.kind = "added" /\ scene.updateconversation -> "conversations"
                        [] t.kind = "clientdeleted" -> "none"
                        [] t.kind = "archivedadded" -> "archived"
                        [] OTHER -> v.list
          /\ w.is_new = CASE t.kind = "added" /\ scene.updateconversation -> TRUE
                          [] t.kind = "convupdated" -> FALSE
                          [] OTHER -> v.is_new
          /\ w.members = IF t.kind = "groupupdated" THEN Users ELSE v.members
      BY <1>1, <1>7, DispatchFields
    <2>3. t.kind # "updated" => t.u = u
      BY <1>2, <1>7
    <2>4. t.kind = "updated" => ConversWith(t.u) = u
      BY <1>3, <1>7
    <2>5. view'[u] = w
      BY <2>1
    <2> HIDE DEF w
    <2>6. /\ view'[u].shown = IF t.kind = "added" /\ t.u = u
                              THEN view[u].shown \cup {t.m} ELSE view[u].shown
          /\ view'[u].returned = IF t.kind = "updated" /\ ConversWith(t.u) = u
                                 THEN view[u].returned \cup {t.m} ELSE view[u].returned
          /\ view'[u].last = IF t.kind = "added" /\ t.u = u /\ scene.updateconversation
                             THEN t.m ELSE view[u].last
      BY <1>4, <1>7, <2>2, <2>3, <2>4, <2>5
    <2>7. view'[u].list =
              IF t.kind = "added" /\ t.u = u /\ scene.updateconversation THEN "conversations"
              ELSE IF t.kind = "clientdeleted" /\ t.u = u THEN "none"
              ELSE IF t.kind = "archivedadded" /\ t.u = u THEN "archived"
              ELSE view[u].list
      BY <2>2, <2>3, <2>5
    <2>8. /\ view'[u].is_new =
              IF t.kind = "added" /\ t.u = u /\ scene.updateconversation THEN TRUE
              ELSE IF t.kind = "convupdated" /\ t.u = u THEN FALSE
              ELSE view[u].is_new
          /\ view'[u].members =
              IF t.kind = "groupupdated" /\ t.u = u THEN Users ELSE view[u].members
      BY <2>2, <2>3, <2>5
    <2> QED BY <2>6, <2>7, <2>8
  <1> QED BY <1>5, <1>6, <1>7

(***************************************************************************)
(* A copy is in one place until it is shown.                               *)
(***************************************************************************)

LEMMA SentSame ==
  ASSUME scene' = scene, Budget' = Budget, NEW m PROVE Sent(m)' <=> Sent(m)
  <1>1. left'.msgs = left.msgs /\ left'.injected = left.injected
    BY DEF Budget
  <1> QED BY <1>1 DEF Sent, Injected

LEMMA ComingTurn ==
  ASSUME CoreInv, ComingOK, OriginsOK, NEW t, NEW TQ, NEW TB, NEW XQ, NEW NB,
         Turn(t, TQ, TB, XQ, NB), Tells(t), NEW u \in Users, NEW m \in Messages
  PROVE  CopyNext(m, u)
  <1> DEFINE A == Queued(m, u)
             B == Coming(m, u)
  <1>1. CopyOnce(m, u) /\ TypeInv /\ u \in Timelines
    BY DEF ComingOK, CoreInv, TypeInv, Timelines
  <1>2. /\ t \in Good /\ InFlight(t) /\ t = R(t.kind, t.m, t.u)
        /\ t.kind \in CopyKinds \cup NoteKinds
        /\ Traffic(TQ, TB, XQ, NB) /\ Stems(t, NB) /\ Flying(TQ, TB)
    BY GoodRecord DEF Turn
  <1>3. Origin(t)
    BY <1>2 DEF OriginsOK, Good
  <1>4. Sender # Receiver /\ Sender \in Users /\ Receiver \in Users
    BY LegacyAssumption DEF Users
  <1>5. \A x \in A : x.kind \in {"outgoing", "delivered"}
    BY DEF Queued, R
  <1>6. XQ \cap A = {}
    BY <1>5 DEF Turn, RoutedKinds
  <1>7. ASSUME NEW x, x \in NB, x \in B PROVE TQ \cap A # {} \/ TB \cap B # {}
    <2>1. CASE x = R("getGroup", m, Group)
      <3>1. t.kind = "outgoing" /\ t.m = m
        BY <1>2, <1>7, <2>1 DEF Stems, R
      <3>2. t \in A /\ t \in TQ
        BY <1>2, <1>3, <3>1 DEF Origin, Queued, Turn
      <3> QED BY <3>2
    <2>2. CASE x = R("added", m, u)
      <3>1. /\ t.m = m
            /\ \/ t.kind = "outgoing"
               \/ t.kind = "delivered" /\ u = t.u
               \/ t.kind = "getGroup"
               \/ t.kind = "persist" /\ Direct /\ t.u = Sender /\ u = Receiver
        BY <1>2, <1>7, <2>2 DEF Stems, R
      <3>2. CASE t.kind \in {"outgoing", "delivered"}
        <4>1. t \in A /\ t \in TQ
          BY <1>2, <1>3, <3>1, <3>2 DEF Origin, Queued, Turn
        <4> QED BY <4>1
      <3>3. CASE t.kind = "getGroup"
        <4>1. t \in B /\ t \in TB
          BY <1>2, <1>3, <3>1, <3>3 DEF Origin, Coming, Turn
        <4> QED BY <4>1
      <3>4. CASE t.kind = "persist"
        <4>1. t \in B
          BY <1>2, <3>1, <3>4 DEF Coming
        <4>2. x.kind = "added"
          BY <2>2 DEF R
        <4>3. t \in TB
          BY <1>7, <3>4, <4>2 DEF Turn
        <4> QED BY <4>1, <4>3
      <3> QED BY <3>1, <3>2, <3>3, <3>4
    <2>3. CASE Direct /\ u = Receiver /\ x = R("added", m, Sender)
      <3>1. /\ t.m = m
            /\ \/ t.kind = "outgoing"
               \/ t.kind = "delivered" /\ Sender = t.u
               \/ t.kind = "getGroup"
               \/ t.kind = "persist" /\ Sender = Receiver
        BY <1>2, <1>7, <2>3 DEF Stems, R
      <3>2. t.kind = "outgoing"
        BY <1>3, <1>4, <2>3, <3>1 DEF Origin, Direct
      <3>3. t \in A /\ t \in TQ
        BY <1>2, <1>3, <3>1, <3>2 DEF Origin, Queued, Turn
      <3> QED BY <3>3
    <2>4. CASE Direct /\ u = Receiver /\ x = R("persist", m, Sender)
      <3>1. t = R("added", m, Sender)
        BY <1>2, <1>7, <2>4 DEF Stems, R
      <3>2. t.kind = "added"
        BY <3>1 DEF R
      <3>3. t \in B /\ t \in TB
        BY <2>4, <3>1, <3>2 DEF Coming, Turn
      <3> QED BY <3>3
    <2> QED BY <1>7, <2>1, <2>2, <2>3, <2>4 DEF Coming
  <1>8. ASSUME NEW x \in NB, NEW y \in NB, x \in B, y \in B PROVE x = y
    <2>1. /\ x.kind = "getGroup" =>
               x = R("getGroup", m, Group) /\ t.kind = "outgoing" /\ scene.to = "group"
          /\ x.kind = "persist" => x = R("persist", m, Sender) /\ t.kind = "added"
          /\ x.kind = "added" =>
               /\ x = R("added", m, u) \/ (Direct /\ u = Receiver /\ x = R("added", m, Sender))
               /\ \/ t.kind = "outgoing" /\ scene.to # "group" /\ (Direct => x.u = Sender)
                  \/ t.kind = "delivered" /\ x.u = t.u
                  \/ t.kind = "getGroup" /\ ~ Direct
                  \/ t.kind = "persist" /\ x.u = Receiver
          /\ x.kind \in {"getGroup", "added", "persist"}
      BY <1>2, <1>3, <1>8 DEF Coming, R, Stems, Origin, Direct
    <2>2. /\ y.kind = "getGroup" =>
               y = R("getGroup", m, Group) /\ t.kind = "outgoing" /\ scene.to = "group"
          /\ y.kind = "persist" => y = R("persist", m, Sender) /\ t.kind = "added"
          /\ y.kind = "added" =>
               /\ y = R("added", m, u) \/ (Direct /\ u = Receiver /\ y = R("added", m, Sender))
               /\ \/ t.kind = "outgoing" /\ scene.to # "group" /\ (Direct => y.u = Sender)
                  \/ t.kind = "delivered" /\ y.u = t.u
                  \/ t.kind = "getGroup" /\ ~ Direct
                  \/ t.kind = "persist" /\ y.u = Receiver
          /\ y.kind \in {"getGroup", "added", "persist"}
      BY <1>2, <1>3, <1>8 DEF Coming, R, Stems, Origin, Direct
    <2>3. x.kind = y.kind
      BY <2>1, <2>2
    <2>4. CASE x.kind \in {"getGroup", "persist"}
      BY <2>1, <2>2, <2>3, <2>4
    <2>5. CASE x.kind = "added"
      <3>1. R("added", m, u).u = u /\ R("added", m, Sender).u = Sender
        BY DEF R
      <3>2. x.u = y.u
        BY <1>4, <2>1, <2>2, <2>3, <2>5, <3>1
      <3> QED BY <2>1, <2>2, <2>3, <2>5, <3>1, <3>2
    <2> QED BY <2>1, <2>4, <2>5
  <1>9. LoneNext(A, B)
    <2>1. Lone(A, B)
      BY <1>1 DEF CopyOnce
    <2>2. CASE NB \cap B = {}
      BY <1>2, <1>6, <2>1, <2>2 DEF Traffic
    <2>3. CASE NB \cap B # {}
      <3>1. TQ \cap A # {} \/ TB \cap B # {}
        BY <1>7, <2>3
      <3> HIDE DEF A, B
      <3> QED BY <1>2, <1>6, <1>8, <2>1, <3>1 DEF Traffic
    <2> QED BY <2>2, <2>3
  <1>10. TQ \cap A # {} \/ TB \cap B # {} => Flying(A, B)
    <2>1. TQ \cap A # {} \/ TB \cap B # {} => TQ \subseteq A /\ TB \subseteq B
      BY DEF Turn
    <2> HIDE DEF A, B
    <2> QED BY <1>2, <2>1, FliesMore DEF Flying
  <1>11. FliesNext(A, B) => Flying(A, B)
    <2>1. CASE NB \cap B = {}
      BY <1>2, <1>6, <2>1 DEF Traffic
    <2>2. CASE NB \cap B # {}
      BY <1>7, <1>10, <2>2
    <2> QED BY <2>1, <2>2
  <1>12. scene' = scene /\ (Sent(m)' <=> Sent(m))
    BY SentSame DEF Tells
  <1>13. CASE t = R("added", m, u)
    <2>1. t.kind = "added" /\ t \in TB /\ t \in B /\ t.m = m /\ t.u = u
      BY <1>13 DEF Turn, Coming, R
    <2>2. NB \cap B = {}
      <3>1. ASSUME NEW x, x \in NB, x \in B PROVE FALSE
        <4>1. x.kind \in {"getGroup", "added", "persist"}
          BY <3>1 DEF Coming, R
        <4>2. x.kind = "persist"
          BY <1>2, <2>1, <3>1, <4>1 DEF Stems
        <4>3. x = R("persist", m, Sender) /\ u = Receiver
          BY <3>1, <4>2 DEF Coming, R
        <4>4. t = R("added", m, Sender)
          BY <1>2, <3>1, <4>2, <4>3 DEF Stems, R
        <4> QED BY <1>4, <2>1, <4>3, <4>4 DEF R
      <3> QED BY <3>1
    <2>3. ~ FliesNext(A, B)
      <3>1. TB \cap B # {} /\ Lone(A, B)
        BY <1>1, <2>1 DEF CopyOnce
      <3>2. A \in SUBSET A /\ B \in SUBSET B
        OBVIOUS
      <3> HIDE DEF A, B
      <3> QED BY <1>2, <1>6, <2>2, <3>1, <3>2 DEF Traffic
    <2>4. Sent(m)
      <3>1. TB \cap B # {}
        BY <2>1
      <3> QED BY <1>1, <1>10, <3>1 DEF CopyOnce
    <2> QED BY <1>9, <1>12, <2>3, <2>4 DEF CopyNext
  <1>14. CASE t # R("added", m, u)
    <2>1. m \in view'[u].shown => m \in view[u].shown
      <3>1. ASSUME m \in view'[u].shown, m \notin view[u].shown PROVE FALSE
        <4>1. view'[u].shown = IF t.kind = "added" /\ t.u = u
                               THEN view[u].shown \cup {t.m} ELSE view[u].shown
          BY <1>1, <1>2, ToldViews
        <4>2. t.kind = "added" /\ t.u = u /\ t.m = m
          BY <3>1, <4>1
        <4> QED BY <1>2, <1>14, <4>2
      <3> QED BY <3>1
    <2> QED BY <1>1, <1>9, <1>11, <1>12, <2>1 DEF CopyNext, CopyOnce
  <1> QED BY <1>13, <1>14

LEMMA ComingSends ==
  ASSUME CoreInv, ComingOK, NEW x, Sending(x), NEW u \in Users, NEW m \in Messages
  PROVE  CopyNext(m, u)
  <1> DEFINE A == Queued(m, u)
             B == Coming(m, u)
  <1>1. CopyOnce(m, u)
    BY DEF ComingOK
  <1>2. Traffic({}, {}, {x}, {}) /\ view' = view /\ (Sent(m) => Sent(m)')
    BY DEF Sending
  <1>3. CASE x \notin A
    <2>1. {x} \cap A = {}
      BY <1>3
    <2> HIDE DEF A, B
    <2>2. (Lone(A, B) => LoneNext(A, B)) /\ (FliesNext(A, B) => Flying(A, B))
      BY <1>2, <2>1 DEF Traffic
    <2> QED BY <1>1, <1>2, <2>2 DEF CopyOnce, CopyNext, A, B
  <1>4. CASE x \in A
    <2>1. x.kind \in {"outgoing", "delivered"} /\ x.m = m
      BY <1>4 DEF Queued, R
    <2>2. ~ Sent(m) /\ Sent(m)'
      BY <2>1 DEF Sending
    <2>3. ~ Flying(A, B) /\ m \notin view[u].shown
      BY <1>1, <2>2 DEF CopyOnce
    <2> HIDE DEF A, B
    <2>4. LoneNext(A, B)
      BY <1>2, <2>3 DEF Traffic
    <2> QED BY <1>2, <2>2, <2>3, <2>4 DEF CopyNext, A, B
  <1> QED BY <1>3, <1>4

LEMMA ComingIdles ==
  ASSUME ComingOK, Idles, NEW u \in Users, NEW m \in Messages
  PROVE  CopyNext(m, u)
  <1> DEFINE A == Queued(m, u)
             B == Coming(m, u)
  <1>1. CopyOnce(m, u)
    BY DEF ComingOK
  <1>2. view' = view /\ (Sent(m)' <=> Sent(m))
    BY SentSame DEF Idles
  <1>3. Traffic({}, {}, {}, {})
    BY DEF Idles
  <1> HIDE DEF A, B
  <1>4. (Lone(A, B) => LoneNext(A, B)) /\ (FliesNext(A, B) => Flying(A, B))
    BY <1>3 DEF Traffic
  <1> QED BY <1>1, <1>2, <1>4 DEF CopyOnce, CopyNext, A, B

\* What every step does to what the invariant is about.
LEMMA MatchCases ==
  ASSUME CoreInv, AskedOK, [Next]_vars, ~ lost'
  PROVE  /\ \/ \E t, TQ, TB, XQ, NB : Turn(t, TQ, TB, XQ, NB) /\ Tells(t)
            \/ Idles
            \/ \E x : Sending(x)
         /\ AskedNext /\ scene' = scene /\ raced \subseteq raced'
  <1>1. Turned \/ Idles \/ \E x : Sending(x)
    BY MatchSteps, ClientsSend
  <1>2. CASE Turned
    <2>1. PICK t, TQ, TB, XQ, NB : Turn(t, TQ, TB, XQ, NB) /\ Tells(t)
      BY <1>2 DEF Turned
    <2>2. scene' = scene /\ raced \subseteq raced'
      BY <2>1 DEF Tells
    <2> QED BY <1>2, <2>1, <2>2 DEF Turned
  <1>3. CASE Idles
    BY <1>3 DEF Idles
  <1>4. CASE \E x : Sending(x)
    BY <1>4 DEF Sending
  <1> QED BY <1>1, <1>2, <1>3, <1>4

LEMMA ComingSteps ==
  ASSUME CoreInv, AskedOK, ComingOK, OriginsOK, [Next]_vars, ~ lost' PROVE ComingOK'
  <1>1. scene' = scene
    BY MatchCases
  <1>2. Messages' = Messages
    BY <1>1 DEF Messages
  <1>3. ASSUME NEW u \in Users, NEW m \in Messages PROVE CopyNext(m, u)
    BY MatchCases, ComingTurn, ComingIdles, ComingSends
  <1> QED BY <1>1, <1>2, <1>3, CopyFrame DEF ComingOK

LEMMA AskedSteps ==
  ASSUME CoreInv, AskedOK, [Next]_vars, ~ lost' PROVE AskedOK'
  <1>1. AskedNext /\ Deployed' = Deployed
    BY MatchCases, SceneFrame
  <1> QED BY <1>1 DEF AskedNext, AskedOK

(***************************************************************************)
(* Where receipts, and archived conversations, come from.                  *)
(***************************************************************************)

LEMMA OriginKept ==
  ASSUME scene' = scene, read[Receiver] \subseteq read'[Receiver], NEW r, Origin(r) PROVE Origin(r)'
  BY DEF Origin

LEMMA OriginComes ==
  ASSUME NEW t, NEW NB, Stems(t, NB), Origin(t), NEW x \in NB
  PROVE  Origin(x)
  <1>1. x.kind \notin Starters
          /\ (x.kind = "getGroup" => x.u = Group /\ scene.to = "group")
          /\ (x.kind \in Followers => t = R(Before(x.kind), x.m, x.u))
          /\ (x.kind = "updated" => scene.status = RECEIVED)
    BY DEF Stems
  <1>2. CASE x.kind \in Followers
    <2>1. t.kind = Before(x.kind) /\ t.m = x.m /\ t.u = x.u
      BY <1>1, <1>2 DEF R
    <2>2. x.kind \in {"saveArchived", "detail", "clientdeleted", "archivedadded"} =>
            scene.updateconversation
      BY <2>1 DEF Origin, Before
    <2>3. x.kind \in {"updated", "saveReceived", "saveReturned"} =>
            x.u = Receiver /\ x.m \in read[Receiver]
      BY <1>1, <2>1 DEF Origin, Before
    <2> QED BY <1>1, <2>2, <2>3 DEF Origin, Starters
  <1>3. CASE x.kind \notin Followers
    BY <1>1, <1>3 DEF Origin, Starters, Followers
  <1> QED BY <1>2, <1>3

LEMMA OriginSteps ==
  ASSUME CoreInv, AskedOK, OriginsOK, ListsOK, [Next]_vars, ~ lost' PROVE OriginsOK'
  <1>1. scene' = scene /\ read \in [Timelines -> SUBSET Messages] /\ Record' = Record
          /\ Receiver \in Timelines
    BY MatchCases, People DEF CoreInv, TypeInv, ClientsOK, Record
  <1> SUFFICES ASSUME NEW r \in Record, InFlight(r)' PROVE Origin(r)'
    BY <1>1 DEF OriginsOK
  <1>2. CASE Idles
    <2>1. InFlight(r)
      BY <1>1, <1>2, TrafficRecords DEF Idles
    <2>2. Origin(r)
      BY <2>1 DEF OriginsOK
    <2> QED BY <1>1, <1>2, <2>2, OriginKept DEF Idles
  <1>3. ASSUME NEW t, NEW TQ, NEW TB, NEW XQ, NEW NB, Turn(t, TQ, TB, XQ, NB), Tells(t)
        PROVE  Origin(r)'
    <2>1. /\ Traffic(TQ, TB, XQ, NB) /\ Stems(t, NB) /\ XQ \subseteq {t}
          /\ InFlight(t) /\ t \in Record
          /\ read' = read
      BY <1>3 DEF Turn, Tells, Good
    <2>2. InFlight(r) \/ r \in XQ \cup NB
      BY <1>1, <2>1, TrafficRecords
    <2>3. InFlight(r) \/ r \in NB
      BY <2>1, <2>2
    <2>4. Origin(t)
      BY <2>1 DEF OriginsOK
    <2>5. Origin(r)
      BY <2>1, <2>3, <2>4, OriginComes DEF OriginsOK
    <2> QED BY <1>1, <2>1, <2>5, OriginKept
  <1>4. ASSUME NEW x, Sending(x) PROVE Origin(r)'
    <2>1. Traffic({}, {}, {x}, {}) /\ read[Receiver] \subseteq read'[Receiver]
      BY <1>1, <1>4 DEF Sending
    <2>2. InFlight(r) \/ r = x
      BY <1>1, <2>1, TrafficRecords
    <2>3. CASE InFlight(r)
      <3>1. Origin(r)
        BY <2>3 DEF OriginsOK
      <3> QED BY <1>1, <2>1, <3>1, OriginKept
    <2>4. CASE r = x
      <3>1. x.kind \in Starters /\ (x.kind = "outgoing" => x.u = Sender)
              /\ (x.kind = "delivered" => x.u = Receiver)
        BY <1>4 DEF Sending
      <3>2. x.kind = "archive" => scene'.updateconversation
        <4>1. x.kind = "archive" => x.u \in Users /\ view[x.u].list = "conversations"
          BY <1>4 DEF Sending
        <4> QED BY <1>1, <4>1 DEF ListsOK
      <3>3. x.kind = "update" =>
              x.u = Receiver /\ (scene'.status = RECEIVED => x.m \in read'[Receiver])
        BY <1>1, <1>4 DEF Sending
      <3> QED BY <2>4, <3>1, <3>2, <3>3 DEF Origin, Starters
    <2> QED BY <2>2, <2>3, <2>4
  <1> QED BY <1>2, <1>3, <1>4, MatchCases

LEMMA ReceiptsSteps ==
  ASSUME CoreInv, AskedOK, ReceiptsOK, [Next]_vars, ~ lost' PROVE ReceiptsOK'
  <1>1. /\ TypeInv /\ scene' = scene /\ Record' = Record
        /\ \A u : ConversWith(u)' = ConversWith(u)
    BY MatchCases DEF CoreInv, Record, ConversWith, Direct
  <1>2. \A u \in Timelines : view[u].returned \subseteq view'[u].returned
    BY <1>1, ViewFrame DEF ViewGrows
  <1> SUFFICES ASSUME NEW r \in Record, InFlight(r)', r.kind \in {"saveReceived", "saveReturned"}
               PROVE  r.m \in view'[ConversWith(r.u)].returned
    BY <1>1 DEF ReceiptsOK
  <1>3. ConversWith(r.u) \in Timelines
    BY ConversType DEF Record
  <1>4. CASE InFlight(r)
    BY <1>2, <1>3, <1>4 DEF ReceiptsOK
  <1>5. CASE Idles
    <2>1. InFlight(r)
      BY <1>1, <1>5, TrafficRecords DEF Idles
    <2> QED BY <1>4, <2>1
  <1>6. ASSUME NEW x, Sending(x) PROVE InFlight(r)
    <2>1. Traffic({}, {}, {x}, {}) /\ x.kind \in Starters
      BY <1>6 DEF Sending
    <2>2. InFlight(r) \/ r = x
      BY <1>1, <2>1, TrafficRecords
    <2> QED BY <2>1, <2>2 DEF Starters
  <1>7. ASSUME NEW t, NEW TQ, NEW TB, NEW XQ, NEW NB, Turn(t, TQ, TB, XQ, NB), Tells(t),
               ~ InFlight(r)
        PROVE  r.m \in view'[ConversWith(r.u)].returned
    <2>1. /\ Traffic(TQ, TB, XQ, NB) /\ Stems(t, NB) /\ XQ \subseteq {t}
          /\ InFlight(t) /\ t \in Good /\ t \in Record
      BY <1>7 DEF Turn, Good
    <2>2. r \in NB
      BY <1>1, <1>7, <2>1, TrafficRecords
    <2>3. t = R(Before(r.kind), r.m, r.u)
      BY <2>1, <2>2 DEF Stems, Followers
    <2>4. t.kind = Before(r.kind) /\ t.m = r.m /\ t.u = r.u
      BY <2>3 DEF R
    <2>5. CASE r.kind = "saveReceived"
      <3>1. t.kind = "updated"
        BY <2>4, <2>5 DEF Before
      <3>2. view'[ConversWith(r.u)].returned = view[ConversWith(r.u)].returned \cup {t.m}
        BY <1>1, <1>3, <1>7, <2>1, <2>4, <3>1, ToldViews
      <3> QED BY <2>4, <3>2
    <2>6. CASE r.kind = "saveReturned"
      <3>1. t.kind = "saveReceived"
        BY <2>4, <2>6 DEF Before
      <3>2. t.m \in view[ConversWith(t.u)].returned
        BY <2>1, <3>1 DEF ReceiptsOK
      <3> QED BY <1>2, <1>3, <2>4, <3>2
    <2> QED BY <2>5, <2>6
  <1> QED BY <1>4, <1>5, <1>6, <1>7, MatchCases

LEMMA ListsSteps ==
  ASSUME CoreInv, AskedOK, OriginsOK, ListsOK, [Next]_vars, ~ lost' PROVE ListsOK'
  <1>1. scene' = scene /\ TypeInv
    BY MatchCases DEF CoreInv
  <1> SUFFICES ASSUME NEW u \in Users, view'[u].list # "none" PROVE scene.updateconversation
    BY <1>1 DEF ListsOK
  <1>2. CASE view' = view
    BY <1>2 DEF ListsOK
  <1>3. ASSUME NEW t, NEW TQ, NEW TB, NEW XQ, NEW NB, Turn(t, TQ, TB, XQ, NB), Tells(t)
        PROVE  scene.updateconversation
    <2>1. InFlight(t) /\ t \in Record /\ t \in Good /\ u \in Timelines
      BY <1>3 DEF Turn, Good, Timelines
    <2>2. Origin(t)
      BY <2>1 DEF OriginsOK
    <2>3. view'[u].list =
              IF t.kind = "added" /\ t.u = u /\ scene.updateconversation THEN "conversations"
              ELSE IF t.kind = "clientdeleted" /\ t.u = u THEN "none"
              ELSE IF t.kind = "archivedadded" /\ t.u = u THEN "archived"
              ELSE view[u].list
      BY <1>1, <1>3, <2>1, ToldViews
    <2>4. t.kind = "archivedadded" => scene.updateconversation
      BY <2>2 DEF Origin
    <2> QED BY <2>3, <2>4 DEF ListsOK
  <1>4. Idles \/ (\E x : Sending(x)) => view' = view
    BY DEF Idles, Sending
  <1> QED BY <1>2, <1>3, <1>4, MatchCases

(***************************************************************************)
(* Nothing that was read is still being stored.                            *)
(***************************************************************************)

\* Only a copy sent to its client starts being stored.
LEMMA StoringComes ==
  ASSUME scene' = scene, NEW t, NEW TQ, NEW TB, NEW XQ, NEW NB, Turn(t, TQ, TB, XQ, NB),
         NEW m, NEW u, Storing(m, u)'
  PROVE  Storing(m, u) \/ t = R("added", m, u)
  <1>1. PICK k \in {"persist", "saveMessage"} : InFlight(R(k, m, u))'
    BY DEF Storing
  <1> DEFINE x == R(k, m, u)
  <1>2. x.kind = k /\ x.m = m /\ x.u = u
    BY DEF R
  <1>3. /\ Traffic(TQ, TB, XQ, NB) /\ Stems(t, NB) /\ XQ \subseteq {t} /\ InFlight(t)
    BY DEF Turn
  <1>4. InFlight(x) \/ x \in XQ \cup NB
    BY <1>1, <1>3, TrafficRecords
  <1> HIDE DEF x
  <1>5. CASE InFlight(x)
    BY <1>5 DEF Storing, x
  <1>6. CASE x \in XQ
    <2>1. x = t
      BY <1>3, <1>6
    <2> QED BY <1>3, <2>1 DEF Storing, x
  <1>7. CASE x \in NB /\ k = "persist"
    BY <1>2, <1>3, <1>7 DEF Stems
  <1>8. CASE x \in NB /\ k = "saveMessage"
    <2>1. t = R("persist", m, u)
      BY <1>2, <1>3, <1>8 DEF Stems, Followers, Before
    <2> QED BY <1>3, <2>1 DEF Storing
  <1> QED BY <1>4, <1>5, <1>6, <1>7, <1>8

LEMMA StoringSent ==
  ASSUME scene' = scene, NEW x, Traffic({}, {}, {x}, {}), x.kind \in Starters, NEW m, NEW u,
         Storing(m, u)'
  PROVE  Storing(m, u)
  <1>1. PICK k \in {"persist", "saveMessage"} : InFlight(R(k, m, u))'
    BY DEF Storing
  <1>2. InFlight(R(k, m, u)) \/ R(k, m, u) = x
    BY <1>1, TrafficRecords
  <1>3. R(k, m, u) # x
    BY DEF R, Starters
  <1> QED BY <1>2, <1>3 DEF Storing

\* A copy on its way is not shown to the receiver, who reads none before its own.
LEMMA ComingUnread ==
  ASSUME ComingOK, NEW m \in Messages, NEW u \in Users, u = Receiver \/ Direct,
         Flying({}, {R("added", m, u)})
  PROVE  m \notin view[Receiver].shown
  <1> DEFINE A == Queued(m, Receiver)
             B == Coming(m, Receiver)
  <1>1. CopyOnce(m, Receiver)
    BY DEF ComingOK, Users
  <1>2. {} \subseteq A /\ {R("added", m, u)} \subseteq B
    BY DEF Coming, Users
  <1> HIDE DEF A, B
  <1>3. Flying(A, B)
    BY <1>2, FliesMore DEF Flying
  <1> QED BY <1>1, <1>3 DEF CopyOnce, A, B

LEMMA ReadTurn ==
  ASSUME CoreInv, ComingOK, OriginsOK, ReadOK, scene' = scene, raced \subseteq raced',
         NEW t, NEW TQ, NEW TB, NEW XQ, NEW NB,
         Turn(t, TQ, TB, XQ, NB), Tells(t)
  PROVE  ReadOK'
  <1>1. /\ TypeInv /\ t \in Good /\ t \in Record /\ InFlight(t) /\ t = R(t.kind, t.m, t.u)
        /\ read' = read /\ Sender \in Timelines /\ Receiver \in Timelines /\ Sender # Receiver
        /\ Group \notin Users /\ Traffic(TQ, TB, XQ, NB)
    BY People, GoodRecord, LegacyAssumption DEF CoreInv, Turn, Tells, Good
  <1>2. Origin(t)
    BY <1>1 DEF OriginsOK
  <1>3. view[Receiver].shown \subseteq view'[Receiver].shown
    BY <1>1, ToldViews
  <1>4. /\ view'[Receiver].returned = view[Receiver].returned
        /\ \/ view'[Sender].returned = view[Sender].returned
           \/ Direct /\ view'[Sender].returned \subseteq view[Sender].returned \cup read[Receiver]
    <2>1. /\ view'[Receiver].returned = IF t.kind = "updated" /\ ConversWith(t.u) = Receiver
                THEN view[Receiver].returned \cup {t.m} ELSE view[Receiver].returned
          /\ view'[Sender].returned = IF t.kind = "updated" /\ ConversWith(t.u) = Sender
                THEN view[Sender].returned \cup {t.m} ELSE view[Sender].returned
      BY <1>1, ToldViews
    <2>2. t.kind = "updated" => t.u = Receiver /\ t.m \in read[Receiver]
      BY <1>2 DEF Origin
    <2>3. ConversWith(Receiver) = IF Direct THEN Sender ELSE Group
      BY <1>1 DEF ConversWith
    <2>4. Receiver \in Users /\ Sender \in Users
      BY DEF Users
    <2> QED BY <1>1, <2>1, <2>2, <2>3, <2>4
  <1>5. ASSUME NEW m \in read[Receiver], NEW u \in Users \ raced', u = Receiver \/ Direct,
               Storing(m, u)'
        PROVE  FALSE
    <2>1. ~ Storing(m, u)
      BY <1>5 DEF ReadOK
    <2>2. t = R("added", m, u)
      BY <1>5, <2>1, StoringComes
    <2>3. m \in view[Receiver].shown /\ m \in Messages
      BY <1>1 DEF ReadOK, TypeInv, ViewOK
    <2>4. t.kind = "added"
      BY <2>2 DEF R
    <2>5. TQ = {} /\ TB = {t} /\ Flying(TQ, TB)
      BY <2>4 DEF Turn
    <2> QED BY <1>1, <1>5, <2>2, <2>3, <2>5, ComingUnread
  <1>6. Direct' = Direct
    BY DEF Direct
  <1> QED BY <1>1, <1>3, <1>4, <1>5, <1>6 DEF ReadOK

LEMMA ReadSends ==
  ASSUME CoreInv, ReadOK, scene' = scene, raced \subseteq raced', NEW x, Sending(x)
  PROVE  ReadOK'
  <1>1. /\ TypeInv /\ read \in [Timelines -> SUBSET Messages] /\ Direct' = Direct
        /\ Sender \in Timelines /\ Receiver \in Timelines /\ Sender # Receiver
    BY People, LegacyAssumption DEF CoreInv, TypeInv, ClientsOK, Direct
  <1>2. view' = view /\ Traffic({}, {}, {x}, {}) /\ x.kind \in Starters
    BY DEF Sending
  <1>3. \A m, u : Storing(m, u)' => Storing(m, u)
    BY <1>2, StoringSent
  <1>4. CASE read' = read
    BY <1>1, <1>2, <1>3, <1>4 DEF ReadOK
  <1>5. CASE read' # read
    <2>1. /\ x.m \in view[Receiver].shown /\ scene.status = RECEIVED
          /\ read' = [read EXCEPT ![Receiver] = @ \cup {x.m}]
          /\ Storing(x.m, Receiver) \/ Storing(x.m, ConversWith(Receiver)) =>
               {Receiver, ConversWith(Receiver)} \subseteq raced'
      BY <1>5 DEF Sending
    <2>2. read'[Receiver] = read[Receiver] \cup {x.m} /\ read'[Sender] = read[Sender]
      BY <1>1, <2>1
    <2>3. ASSUME NEW m \in read'[Receiver], NEW u \in Users \ raced', u = Receiver \/ Direct,
                 Storing(m, u)'
          PROVE  FALSE
      <3>1. Storing(m, u)
        BY <1>3, <2>3
      <3>2. m = x.m
        BY <2>2, <2>3, <3>1 DEF ReadOK
      <3>3. u = Receiver \/ u = ConversWith(Receiver)
        BY <1>1, <2>3 DEF ConversWith, Users
      <3> QED BY <2>1, <2>3, <3>1, <3>2, <3>3
    <2> QED BY <1>1, <1>2, <2>1, <2>2, <2>3 DEF ReadOK
  <1> QED BY <1>4, <1>5

LEMMA ReadSteps ==
  ASSUME CoreInv, AskedOK, ComingOK, OriginsOK, ReadOK, [Next]_vars, ~ lost' PROVE ReadOK'
  <1>1. scene' = scene /\ raced \subseteq raced'
    BY MatchCases
  <1>2. CASE Idles
    <2>1. view' = view /\ read' = read /\ Direct' = Direct /\ Traffic({}, {}, {}, {})
      BY <1>1, <1>2 DEF Idles, Direct
    <2>2. \A m, u : Storing(m, u)' => Storing(m, u)
      BY <1>1, <2>1, TrafficRecords DEF Storing
    <2> QED BY <1>1, <2>1, <2>2 DEF ReadOK
  <1> QED BY <1>1, <1>2, MatchCases, ReadTurn, ReadSends

(***************************************************************************)
(* The status of what is shown is stored, or going to be.                  *)
(***************************************************************************)

LEMMA StatusStored ==
  ASSUME StoreOK, NEW t \in Good, saveOrUpdateMessage(t), NEW u \in Timelines, NEW m \in Messages
  PROVE  messages'[u][m] =
           IF t.kind = "saveMessage" /\ t.u = u /\ t.m = m THEN StatusOf(m, u)
           ELSE IF t.kind = "saveReceived" /\ t.u = u /\ t.m = m THEN RECEIVED
           ELSE IF t.kind = "saveReturned" /\ ConversWith(t.u) = u /\ t.m = m THEN RETURN_RECEIPT
           ELSE messages[u][m]
  <1>1. messages \in [Timelines -> [Messages -> Status]]
    BY DEF StoreOK
  <1>2. messages[u] \in [Messages -> Status]
    BY <1>1
  <1>3. CASE t.kind = "saveMessage"
    <2>1. messages' = [messages EXCEPT ![t.u][t.m] = StatusOf(t.m, t.u)]
      BY <1>3 DEF saveOrUpdateMessage
    <2> QED BY <1>1, <1>2, <1>3, <2>1
  <1>4. CASE t.kind = "saveReceived"
    <2>1. messages' = [messages EXCEPT ![t.u][t.m] = RECEIVED]
      BY <1>4 DEF saveOrUpdateMessage
    <2> QED BY <1>1, <1>2, <1>4, <2>1
  <1>5. CASE t.kind = "saveReturned"
    <2>1. messages' = [messages EXCEPT ![ConversWith(t.u)][t.m] = RETURN_RECEIPT]
      BY <1>5 DEF saveOrUpdateMessage
    <2> QED BY <1>1, <1>2, <1>5, <2>1
  <1>6. CASE t.kind \notin {"saveMessage", "saveReceived", "saveReturned"}
    BY <1>6 DEF saveOrUpdateMessage
  <1> QED BY <1>3, <1>4, <1>5, <1>6

\* The four ways, in the terms of the next state.
LEMMA StatusTurn ==
  ASSUME CoreInv, OriginsOK, ReceiptsOK, ReadOK, StatusesOK, ~ lost', scene' = scene,
         raced \subseteq raced',
         NEW t, NEW TQ, NEW TB, NEW XQ, NEW NB, Turn(t, TQ, TB, XQ, NB), Tells(t),
         NEW u \in Users \ raced', NEW m \in view'[u].shown
  PROVE  StatusComes(m, u)'
  <1>1. /\ TypeInv /\ StoreOK /\ t \in Good /\ t \in Record /\ InFlight(t)
        /\ t = R(t.kind, t.m, t.u) /\ Traffic(TQ, TB, XQ, NB) /\ TQ \cup TB = {t}
        /\ read' = read /\ Sender # Receiver /\ Sender \in Users /\ Receiver \in Users
        /\ u \in Timelines /\ Leads(t, XQ \cup NB) /\ Group \notin Users
        /\ u \in Users \ raced
    BY GoodRecord, LegacyAssumption DEF CoreInv, TypeInv, Turn, Tells, Good, Users, Timelines
  <1>2. Origin(t) /\ Right(t)
    BY <1>1 DEF OriginsOK, Good
  <1>3. m \in Messages
    <2>1. view'[u].shown = IF t.kind = "added" /\ t.u = u
                           THEN view[u].shown \cup {t.m} ELSE view[u].shown
      BY <1>1, ToldViews
    <2>2. t.kind = "added" => t.m \in Messages
      BY <1>2 DEF Right, CopyKinds
    <2> QED BY <1>1, <2>1, <2>2 DEF TypeInv, ViewOK
  <1>4. view'[u].returned = IF t.kind = "updated" /\ ConversWith(t.u) = u
                            THEN view[u].returned \cup {t.m} ELSE view[u].returned
    BY <1>1, ToldViews
  <1>5. messages'[u][m] =
           IF t.kind = "saveMessage" /\ t.u = u /\ t.m = m THEN StatusOf(m, u)
           ELSE IF t.kind = "saveReceived" /\ t.u = u /\ t.m = m THEN RECEIVED
           ELSE IF t.kind = "saveReturned" /\ ConversWith(t.u) = u /\ t.m = m THEN RETURN_RECEIPT
           ELSE messages[u][m]
    <2>1. saveOrUpdateMessage(t)
      BY DEF Tells
    <2> QED BY <1>1, <1>3, <2>1, StatusStored
  <1>6. \A x : /\ InFlight(x) /\ x # t => InFlight(x)'
               /\ x \in XQ \cup NB => InFlight(x)'
    BY <1>1, TrafficRecords
  <1>7. \A k \in Followers : t.kind = Before(k) /\ Goes(k, t.u) => InFlight(R(k, t.m, t.u))'
    BY <1>1, <1>6 DEF Leads
  <1>8. ConversWith(Receiver) = (IF Direct THEN Sender ELSE Group)
    BY <1>1 DEF ConversWith
  <1>9. /\ u = Sender \/ u = Receiver
        /\ u = Sender => m \notin read[u]
        /\ u = Receiver => view[u].returned = {}
        /\ u = Sender /\ m \in view[u].returned => Direct /\ m \in read[Receiver]
    BY <1>1 DEF Users, ReadOK
  <1>10. StatusTold(u, m)' =
           IF m \in read[u] THEN RECEIVED
           ELSE IF m \in view'[u].returned THEN RETURN_RECEIPT ELSE StatusOf(m, u)
    BY <1>1 DEF StatusTold, StatusOf, Direct, Injected
  <1>11. StatusTold(u, m) =
           IF m \in read[u] THEN RECEIVED
           ELSE IF m \in view[u].returned THEN RETURN_RECEIPT ELSE StatusOf(m, u)
    BY DEF StatusTold
  <1> DEFINE Ret == u = Sender /\ m \in view'[u].returned /\
                      \E k \in {"saveReceived", "saveReturned"} : InFlight(R(k, m, Receiver))'
             Rec == u = Receiver /\ m \in read[u] /\
                      \E k \in {"update", "updated", "saveReceived"} : InFlight(R(k, m, Receiver))'
  <1>12. StatusComes(m, u)' <=>
           Storing(m, u)' \/ messages'[u][m] = StatusTold(u, m)' \/ Rec \/ Ret
    BY <1>1 DEF StatusComes
  <1>13. t.kind = "updated" => t.u = Receiver /\ t.m \in read[Receiver] /\ scene.status = RECEIVED
    BY <1>2 DEF Origin, ReadOK
  <1>14. CASE t.kind = "updated" /\ t.m = m /\ ConversWith(Receiver) = u
    <2>1. u = Sender /\ m \in view'[u].returned
      BY <1>1, <1>4, <1>8, <1>13, <1>14
    <2>2. /\ "saveReceived" \in Followers /\ t.kind = Before("saveReceived")
          /\ Goes("saveReceived", t.u)
      BY <1>14 DEF Followers, Before, Goes
    <2>3. InFlight(R("saveReceived", m, Receiver))'
      BY <1>7, <1>13, <1>14, <2>2
    <2> QED BY <1>12, <2>1, <2>3
  <1>15. CASE ~ (t.kind = "updated" /\ t.m = m /\ ConversWith(Receiver) = u)
    <2>1. m \in view'[u].returned <=> m \in view[u].returned
      BY <1>4, <1>13, <1>15
    <2>2. StatusTold(u, m)' = StatusTold(u, m)
      BY <1>10, <1>11, <2>1
    <2>3. CASE m \notin view[u].shown
      <3>1. view'[u].shown = IF t.kind = "added" /\ t.u = u
                             THEN view[u].shown \cup {t.m} ELSE view[u].shown
        BY <1>1, ToldViews
      <3>2. t.kind = "added" /\ t.u = u /\ t.m = m
        BY <2>3, <3>1
      <3>3. R("persist", m, u) \in XQ \cup NB
        BY <1>1, <3>2 DEF Leads
      <3>4. Storing(m, u)'
        BY <1>6, <3>3 DEF Storing
      <3> QED BY <1>12, <3>4
    <2>4. CASE m \in view[u].shown
      <3>1. StatusComes(m, u)
        BY <1>1, <2>4 DEF StatusesOK
      <3>2. CASE Storing(m, u)
        <4>1. PICK k \in {"persist", "saveMessage"} : InFlight(R(k, m, u))
          BY <3>2 DEF Storing
        <4>2. CASE R(k, m, u) # t
          <5>1. Storing(m, u)'
            BY <1>6, <4>1, <4>2 DEF Storing
          <5> QED BY <1>12, <5>1
        <4>3. CASE t = R("persist", m, u)
          <5>1. t.kind = "persist" /\ t.m = m /\ t.u = u
            BY <4>3 DEF R
          <5>2. t \in XQ \cup NB \/ R("saveMessage", m, u) \in XQ \cup NB
            BY <1>1, <5>1 DEF Leads
          <5>3. Storing(m, u)'
            BY <1>6, <4>3, <5>2 DEF Storing
          <5> QED BY <1>12, <5>3
        <4>4. CASE t = R("saveMessage", m, u)
          <5>1. t.kind = "saveMessage" /\ t.m = m /\ t.u = u
            BY <4>4 DEF R
          <5>2. messages'[u][m] = StatusOf(m, u)
            BY <1>5, <5>1
          <5>3. m \notin read[u] /\ m \notin view[u].returned
            <6>1. m \in read[Receiver] => ~ (u = Receiver \/ Direct)
              BY <1>1, <3>2 DEF ReadOK
            <6> QED BY <1>9, <6>1
          <5>4. StatusTold(u, m) = StatusOf(m, u)
            BY <1>11, <5>3
          <5> QED BY <1>12, <2>2, <5>2, <5>4
        <4> QED BY <4>1, <4>2, <4>3, <4>4
      <3>3. CASE messages[u][m] = StatusTold(u, m) /\ ~ Storing(m, u)
        <4>1. CASE t.kind = "saveMessage" /\ t.u = u /\ t.m = m
          BY <1>1, <3>3, <4>1 DEF Storing
        <4>2. CASE t.kind = "saveReceived" /\ t.u = u /\ t.m = m
          <5>1. u = Receiver /\ m \in read[u]
            BY <1>2, <4>2 DEF Origin
          <5> QED BY <1>5, <1>11, <1>12, <2>2, <4>2, <5>1
        <4>3. CASE t.kind = "saveReturned" /\ ConversWith(t.u) = u /\ t.m = m
          <5>1. t.u = Receiver /\ m \in view[u].returned
            BY <1>1, <1>2, <4>3 DEF Origin, ReceiptsOK
          <5>2. u = Sender
            BY <1>1, <1>8, <4>3, <5>1
          <5>3. StatusTold(u, m) = RETURN_RECEIPT
            BY <1>9, <1>11, <5>1, <5>2
          <5>4. messages'[u][m] = RETURN_RECEIPT
            BY <1>5, <4>3
          <5> QED BY <1>12, <2>2, <5>3, <5>4
        <4> QED BY <1>5, <1>12, <2>2, <3>3, <4>1, <4>2, <4>3
      <3>4. ASSUME u = Receiver, m \in read[u], NEW k \in {"update", "updated", "saveReceived"},
                   InFlight(R(k, m, Receiver))
            PROVE  StatusComes(m, u)'
        <4>1. scene.status = RECEIVED
          BY <3>4 DEF ReadOK
        <4>2. CASE R(k, m, Receiver) # t
          <5>1. InFlight(R(k, m, Receiver))'
            BY <1>6, <3>4, <4>2
          <5> QED BY <1>12, <3>4, <5>1
        <4>3. CASE R(k, m, Receiver) = t /\ k \in {"update", "updated"}
          <5>1. t.kind = k /\ t.m = m /\ t.u = Receiver
            BY <4>3 DEF R
          <5>2. PICK j \in {"updated", "saveReceived"} :
                  j \in Followers /\ Before(j) = k /\ Goes(j, t.u)
            BY <4>1, <4>3 DEF Followers, Before, Goes
          <5>3. InFlight(R(j, m, Receiver))'
            BY <1>7, <5>1, <5>2
          <5> QED BY <1>12, <3>4, <5>2, <5>3
        <4>4. CASE R(k, m, Receiver) = t /\ k = "saveReceived"
          <5>1. t.kind = k /\ t.m = m /\ t.u = Receiver
            BY <4>4 DEF R
          <5>2. messages'[u][m] = RECEIVED /\ StatusTold(u, m) = RECEIVED
            BY <1>5, <1>11, <3>4, <4>4, <5>1
          <5> QED BY <1>12, <2>2, <5>2
        <4> QED BY <3>4, <4>2, <4>3, <4>4
      <3>5. ASSUME u = Sender, m \in view[u].returned, NEW k \in {"saveReceived", "saveReturned"},
                   InFlight(R(k, m, Receiver))
            PROVE  StatusComes(m, u)'
        <4>1. Direct
          BY <1>9, <3>5
        <4>2. CASE R(k, m, Receiver) # t
          <5>1. InFlight(R(k, m, Receiver))'
            BY <1>6, <3>5, <4>2
          <5> QED BY <1>12, <2>1, <3>5, <5>1
        <4>3. CASE R(k, m, Receiver) = t /\ k = "saveReceived"
          <5>1. t.kind = k /\ t.m = m /\ t.u = Receiver
            BY <4>3 DEF R
          <5>2. /\ "saveReturned" \in Followers /\ Before("saveReturned") = k
                /\ Goes("saveReturned", t.u)
            BY <4>3 DEF Followers, Before, Goes
          <5>3. InFlight(R("saveReturned", m, Receiver))'
            BY <1>7, <5>1, <5>2
          <5> QED BY <1>12, <2>1, <3>5, <5>3
        <4>4. CASE R(k, m, Receiver) = t /\ k = "saveReturned"
          <5>1. t.kind = k /\ t.m = m /\ t.u = Receiver
            BY <4>4 DEF R
          <5>2. messages'[u][m] = RETURN_RECEIPT
            BY <1>5, <1>8, <3>5, <4>1, <4>4, <5>1
          <5>3. StatusTold(u, m) = RETURN_RECEIPT
            BY <1>9, <1>11, <3>5
          <5> QED BY <1>12, <2>2, <5>2, <5>3
        <4> QED BY <3>5, <4>2, <4>3, <4>4
      <3> QED BY <3>1, <3>2, <3>3, <3>4, <3>5 DEF StatusComes
    <2> QED BY <2>3, <2>4
  <1> QED BY <1>14, <1>15

LEMMA StatusKept ==
  ASSUME scene' = scene, view' = view, messages' = messages,
         \A v \in Users : read[v] \subseteq read'[v],
         \A r : InFlight(r) => InFlight(r)',
         NEW u \in Users, NEW m, StatusComes(m, u), m \in read'[u] => m \in read[u]
  PROVE  StatusComes(m, u)'
  <1>1. StatusTold(u, m)' = StatusTold(u, m)
    BY DEF StatusTold, StatusOf, Direct, Injected
  <1> QED BY <1>1 DEF StatusComes, Storing

LEMMA StatusesSteps ==
  ASSUME CoreInv, AskedOK, OriginsOK, ReceiptsOK, ReadOK, StatusesOK, ~ lost', [Next]_vars
  PROVE  StatusesOK'
  <1>1. scene' = scene /\ raced \subseteq raced' /\ read \in [Timelines -> SUBSET Messages]
          /\ Users \subseteq Timelines
    BY MatchCases DEF CoreInv, TypeInv, ClientsOK, Timelines
  <1> SUFFICES ASSUME NEW u \in Users \ raced', NEW m \in view'[u].shown PROVE StatusComes(m, u)'
    BY DEF StatusesOK
  <1>2. CASE Idles
    <2>1. view' = view /\ messages' = messages /\ read' = read /\ Traffic({}, {}, {}, {})
      BY <1>2 DEF Idles
    <2>2. \A r : InFlight(r) => InFlight(r)'
      BY <1>1, <2>1, TrafficRecords
    <2>3. StatusComes(m, u)
      BY <1>1, <2>1 DEF StatusesOK
    <2> QED BY <1>1, <2>1, <2>2, <2>3, StatusKept
  <1>3. ASSUME NEW x, Sending(x) PROVE StatusComes(m, u)'
    <2>1. view' = view /\ messages' = messages /\ Traffic({}, {}, {x}, {})
      BY <1>3 DEF Sending
    <2>2. \A r : InFlight(r) \/ r = x => InFlight(r)'
      BY <1>1, <2>1, TrafficRecords
    <2>3. StatusComes(m, u)
      BY <1>1, <2>1 DEF StatusesOK
    <2>4. \A v \in Users : read[v] \subseteq read'[v]
      BY <1>1, <1>3 DEF Sending
    <2>5. CASE m \in read'[u] => m \in read[u]
      BY <1>1, <2>1, <2>2, <2>3, <2>4, <2>5, StatusKept
    <2>6. CASE m \in read'[u] /\ m \notin read[u]
      <3>1. x.kind = "update" /\ x.u = Receiver
              /\ read' = [read EXCEPT ![Receiver] = @ \cup {x.m}]
        BY <1>3, <2>6 DEF Sending
      <3>2. u = Receiver /\ x.m = m
        BY <1>1, <2>6, <3>1
      <3>3. InFlight(x)'
        BY <2>2
      <3>4. x = R("update", m, Receiver)
        BY <1>3, <3>1, <3>2 DEF Sending
      <3> QED BY <2>6, <3>2, <3>3, <3>4 DEF StatusComes
    <2> QED BY <2>5, <2>6
  <1> QED BY <1>1, <1>2, <1>3, StatusTurn, MatchCases

(***************************************************************************)
(* The members of the group are told to everyone.                          *)
(***************************************************************************)

LEMMA GroupTurn ==
  ASSUME CoreInv, GroupOK, ~ lost', scene' = scene,
         NEW t, NEW TQ, NEW TB, NEW XQ, NEW NB, Turn(t, TQ, TB, XQ, NB), Tells(t)
  PROVE  GroupOK'
  <1>1. /\ TypeInv /\ t \in Good /\ t = R(t.kind, t.m, t.u) /\ Traffic(TQ, TB, XQ, NB)
        /\ TQ \cup TB = {t} /\ Leads(t, XQ \cup NB) /\ group' = group
        /\ left'.groups = left.groups /\ Users \subseteq Timelines
    BY GoodRecord DEF CoreInv, Turn, Tells, Budget, Timelines
  <1>2. \A x : /\ InFlight(x) /\ x # t => InFlight(x)'
               /\ x \in XQ \cup NB => InFlight(x)'
    BY <1>1, TrafficRecords
  <1> SUFFICES ASSUME scene.bound.groups > left.groups, NEW u \in Users
               PROVE  \/ view'[u].members = Users
                      \/ InFlight(R("groups.update", 0, Group))'
                      \/ InFlight(R("groupupdated", 0, u))'
    BY <1>1 DEF GroupOK
  <1>3. view'[u].members = IF t.kind = "groupupdated" /\ t.u = u THEN Users ELSE view[u].members
    BY <1>1, ToldViews
  <1>4. CASE view[u].members = Users
    BY <1>3, <1>4
  <1>5. CASE InFlight(R("groups.update", 0, Group))
    <2>1. CASE R("groups.update", 0, Group) # t
      BY <1>2, <1>5, <2>1
    <2>2. CASE R("groups.update", 0, Group) = t
      <3>1. t.kind = "groups.update"
        BY <2>2 DEF R
      <3> QED BY <1>1, <1>2, <3>1 DEF Leads
    <2> QED BY <2>1, <2>2
  <1>6. CASE InFlight(R("groupupdated", 0, u))
    <2>1. CASE R("groupupdated", 0, u) # t
      BY <1>2, <1>6, <2>1
    <2>2. CASE R("groupupdated", 0, u) = t
      <3>1. t.kind = "groupupdated" /\ t.u = u
        BY <2>2 DEF R
      <3> QED BY <1>3, <3>1
    <2> QED BY <2>1, <2>2
  <1> QED BY <1>4, <1>5, <1>6 DEF GroupOK

LEMMA GroupSteps ==
  ASSUME CoreInv, AskedOK, GroupOK, ~ lost', [Next]_vars PROVE GroupOK'
  <1>1. scene' = scene
    BY MatchCases
  <1>2. CASE Idles
    <2>1. view' = view /\ group' = group /\ left'.groups = left.groups /\ Traffic({}, {}, {}, {})
      BY <1>2 DEF Idles, Budget
    <2>2. \A r : InFlight(r) => InFlight(r)'
      BY <1>1, <2>1, TrafficRecords
    <2> QED BY <1>1, <2>1, <2>2 DEF GroupOK
  <1>3. ASSUME NEW x, Sending(x) PROVE GroupOK'
    <2>1. view' = view /\ Traffic({}, {}, {x}, {})
      BY <1>3 DEF Sending
    <2>2. \A r : InFlight(r) \/ r = x => InFlight(r)'
      BY <1>1, <2>1, TrafficRecords
    <2>3. CASE x.kind = "groups.update"
      <3>1. x = R("groups.update", 0, Group) /\ group' = Users
        BY <1>3, <2>3 DEF Sending
      <3> QED BY <2>2, <3>1 DEF GroupOK
    <2>4. CASE x.kind # "groups.update"
      <3>1. group' = group /\ left'.groups = left.groups
        BY <1>3, <2>4 DEF Sending
      <3> QED BY <1>1, <2>1, <2>2, <3>1 DEF GroupOK
    <2> QED BY <2>3, <2>4
  <1> QED BY <1>1, <1>2, <1>3, GroupTurn, MatchCases

(***************************************************************************)
(* A conversation whose activities do not overlap.                         *)
(***************************************************************************)

LEMMA ConversationStored ==
  ASSUME StoreOK, NEW t \in Good, saveOrUpdateConversation(t), NEW u \in Timelines
  PROVE  LET d == conversations'[u]  c == conversations[u] IN
         /\ d.last = IF t.kind = "saveConversation" /\ t.u = u THEN t.m ELSE c.last
         /\ d.archived = IF t.kind = "saveConversation" /\ t.u = u THEN FALSE
                         ELSE IF t.kind = "saveArchived" /\ t.u = u THEN TRUE ELSE c.archived
         /\ d.is_new = IF t.kind = "saveConversation" /\ t.u = u THEN TRUE
                       ELSE IF t.kind = "saveIsNew" /\ t.u = u THEN FALSE ELSE c.is_new
         /\ d.app = IF t.kind = "saveConversation" /\ t.u = u THEN TRUE ELSE c.app
  <1>1. /\ conversations \in [Timelines -> Conversation]
        /\ conversations[u] \in Conversation
    BY DEF StoreOK
  <1>2. CASE t.kind = "saveConversation"
    <2>1. conversations' = [conversations EXCEPT ![t.u] =
                              [last |-> t.m, archived |-> FALSE, is_new |-> TRUE, app |-> TRUE]]
      BY <1>2 DEF saveOrUpdateConversation
    <2> QED BY <1>1, <1>2, <2>1
  <1>3. CASE t.kind = "saveIsNew"
    <2>1. conversations' = [conversations EXCEPT ![t.u].is_new = FALSE]
      BY <1>3 DEF saveOrUpdateConversation
    <2> QED BY <1>1, <1>3, <2>1 DEF Conversation
  <1>4. CASE t.kind = "saveArchived"
    <2>1. conversations' = [conversations EXCEPT ![t.u].archived = TRUE]
      BY <1>4 DEF saveOrUpdateConversation
    <2> QED BY <1>1, <1>4, <2>1 DEF Conversation
  <1>5. CASE t.kind \notin {"saveConversation", "saveIsNew", "saveArchived"}
    <2>1. conversations' = conversations
      BY <1>5 DEF saveOrUpdateConversation
    <2> QED BY <1>5, <2>1
  <1> QED BY <1>2, <1>3, <1>4, <1>5

\* The view and the conversation of u are as they were.
ConversationSame(u) ==
  /\ view'[u].last = view[u].last
  /\ view'[u].is_new = view[u].is_new
  /\ view'[u].list = view[u].list
  /\ conversations'[u].last = conversations[u].last
  /\ conversations'[u].is_new = conversations[u].is_new
  /\ conversations'[u].archived = conversations[u].archived
  /\ conversations'[u].app = conversations[u].app

LEMMA FindsSame ==
  ASSUME scene' = scene, NEW u, ConversationSame(u)
  PROVE  /\ Agrees(u)' <=> Agrees(u)
         /\ \A r : r.u = u => (Finds(r)' <=> Finds(r))
  <1>1. Agrees(u)' <=> Agrees(u)
    BY DEF Agrees, ConversationSame
  <1>2. ASSUME NEW r, r.u = u PROVE Finds(r)' <=> Finds(r)
    BY <1>1, <1>2 DEF Finds, ConversationSame
  <1> QED BY <1>1, <1>2

\* Nothing about the conversation is taken or brought.
LEMMA ConversationApart ==
  ASSUME scene' = scene, ~ lost', NEW TQ, NEW TB, NEW XQ, NEW NB, Traffic(TQ, TB, XQ, NB),
         NEW u, (TQ \cup TB \cup XQ \cup NB) \cap About(u) = {}, ConversationOK(u),
         ConversationSame(u)
  PROVE  ConversationOK(u)'
  <1> DEFINE S == About(u)
  <1>1. S' = S /\ \A r \in S : r.u = u
    BY DEF About
  <1>2. /\ XQ \cap S = {} /\ NB \cap S = {} /\ TQ \cap S = {} /\ TB \cap S = {}
    OBVIOUS
  <1>3. Lone(S, S)
    BY DEF ConversationOK
  <1> HIDE DEF S
  <1>4. LoneNext(S, S) /\ (FliesNext(S, S) <=> Flying(S, S))
    BY <1>2, <1>3 DEF Traffic
  <1>5. Lone(S, S)' /\ (Flying(S, S)' <=> Flying(S, S))
    BY <1>4, AboutFrame DEF S
  <1>6. ASSUME NEW r \in S, InFlight(r)' PROVE Finds(r)'
    <2>1. InFlight(r)
      BY <1>2, <1>6, TrafficRecords
    <2>2. Finds(r)
      BY <1>6, <2>1 DEF ConversationOK, S
    <2> QED BY <1>1, <2>2, FindsSame
  <1>7. Agrees(u)' <=> Agrees(u)
    BY FindsSame
  <1>8. view'[u].list = view[u].list
    BY DEF ConversationSame
  <1> QED BY <1>1, <1>5, <1>6, <1>7, <1>8 DEF ConversationOK, S

\* Nothing is under way about a conversation that is not busy.
LEMMA NotBusy ==
  ASSUME CoreInv, NEW u, ~ Busy(u) PROVE ~ Flying(About(u), About(u))
  <1> SUFFICES ASSUME NEW r \in About(u), InFlight(r) PROVE Busy(u)
    BY FlyingRecord
  <1>1. r \in Good /\ r = R(r.kind, r.m, r.u) /\ r.u = u /\ r.kind \in ConversationKinds
    BY FlyingIsGood, GoodRecord DEF About
  <1>2. CASE r.kind \in {"persist", "saveMessage", "saveConversation"}
    <2>1. r.m \in Messages
      BY <1>1, <1>2 DEF Good, Right, CopyKinds
    <2>2. InFlight(R(r.kind, r.m, u))
      BY <1>1
    <2> QED BY <1>2, <2>1, <2>2 DEF Busy, Storing
  <1>3. CASE r.kind \notin {"persist", "saveMessage", "saveConversation"}
    <2>1. r.m = 0
      BY <1>1, <1>3 DEF Good, Right, NoteKinds, ConversationKinds
    <2>2. InFlight(R(r.kind, 0, u))
      BY <1>1, <2>1
    <2> QED BY <1>1, <1>3, <2>2 DEF Busy, ConversationKinds
  <1> QED BY <1>2, <1>3

LEMMA ConversationSends ==
  ASSUME CoreInv, NEW u \in Users \ raced', ConversationOK(u), ~ lost', scene' = scene,
         NEW x, Sending(x)
  PROVE  ConversationOK(u)'
  <1>1. Traffic({}, {}, {x}, {}) /\ view' = view /\ conversations' = conversations
    BY DEF Sending
  <1>2. ConversationSame(u)
    BY <1>1 DEF ConversationSame
  <1> DEFINE S == About(u)
  <1>3. CASE x \notin S
    <2>1. ({} \cup {} \cup {x} \cup {}) \cap About(u) = {}
      BY <1>3
    <2> QED BY <1>1, <1>2, <2>1, ConversationApart
  <1>4. CASE x \in S
    <2>1. x.u = u /\ x.kind \in {"is_new", "archive"}
      BY <1>4 DEF Sending, About, ConversationKinds, Starters
    <2>2. view[u].list = "conversations" /\ ~ Busy(u)
      BY <2>1 DEF Sending
    <2>3. ~ Flying(S, S)
      BY <2>2, NotBusy
    <2>4. Agrees(u)
      BY <2>2, <2>3 DEF ConversationOK
    <2>5. \A r \in S : InFlight(r)' => r = x
      <3>1. ASSUME NEW r \in S, InFlight(r)' PROVE r = x
        <4>1. InFlight(r) \/ r = x
          BY <1>1, <3>1, TrafficRecords
        <4> QED BY <2>3, <3>1, <4>1, FlyingRecord
      <3> QED BY <3>1
    <2>6. Finds(x)'
      <3>1. Finds(x)
        BY <2>1, <2>2, <2>4 DEF Finds
      <3> QED BY <1>2, <2>1, <3>1, FindsSame
    <2>7. S' = S
      BY DEF About
    <2>8. {x} \cap S # {}
      BY <1>4
    <2> HIDE DEF S
    <2>9. LoneNext(S, S) /\ FliesNext(S, S)
      BY <1>1, <2>3, <2>8 DEF Traffic
    <2>10. Lone(S, S)' /\ Flying(S, S)'
      BY <2>9, AboutFrame DEF S
    <2> QED BY <2>5, <2>6, <2>7, <2>10 DEF ConversationOK, S
  <1> QED BY <1>3, <1>4

\* A copy shown starts an activity of its own.
LEMMA ConversationShows ==
  ASSUME CoreInv, NEW u \in Users \ raced', ConversationOK(u), ~ lost', scene' = scene,
         NEW t, NEW TQ, NEW TB, NEW XQ, NEW NB, Turn(t, TQ, TB, XQ, NB), Tells(t),
         t.kind = "added", t.u = u
  PROVE  ConversationOK(u)'
  <1> DEFINE S == About(u)
             x == R("persist", t.m, u)
  <1>1. /\ TypeInv /\ t \in Good /\ Traffic(TQ, TB, XQ, NB) /\ Stems(t, NB) /\ XQ = {}
        /\ x \in NB /\ u \in Timelines /\ t.m \in Nat
    BY DEF CoreInv, Turn, Leads, RoutedKinds, Timelines, Good, Record
  <1>2. ~ Busy(u)
    BY DEF Tells
  <1>3. ~ Flying(S, S)
    BY <1>2, NotBusy
  <1>4. x.kind = "persist" /\ x.m = t.m /\ x.u = u /\ x \in S
    BY <1>1 DEF R, About, Record, CopyKinds, NoteKinds, ConversationKinds
  <1>5. ASSUME NEW r \in S, r \in NB PROVE r = x
    <2>1. r.u = u /\ r.kind \in ConversationKinds
      BY <1>5 DEF About
    <2>2. r.kind = "persist" \/ r.kind \in Followers
      BY <1>1, <1>5, <2>1 DEF Stems, ConversationKinds, Starters, Followers
    <2>3. r.kind \in Followers => Before(r.kind) = t.kind
      <3>1. R(Before(r.kind), r.m, r.u).kind = Before(r.kind)
        BY DEF R
      <3> QED BY <1>1, <1>5, <3>1 DEF Stems
    <2>4. \A k \in Followers : Before(k) # "added"
      BY DEF Followers, Before
    <2>5. r.kind = "persist" /\ t = R("added", r.m, r.u)
      BY <1>1, <1>5, <2>2, <2>3, <2>4 DEF Stems
    <2>6. r.m = t.m
      BY <2>5 DEF R
    <2>7. r = R(r.kind, r.m, r.u)
      BY <1>5 DEF About, Record, R
    <2> QED BY <2>1, <2>5, <2>6, <2>7
  <1>6. \A r \in S : InFlight(r)' => r = x
    <2>1. ASSUME NEW r \in S, InFlight(r)' PROVE r = x
      <3>1. InFlight(r) \/ r \in XQ \cup NB
        BY <1>1, <2>1, TrafficRecords
      <3> QED BY <1>1, <1>3, <1>5, <2>1, <3>1, FlyingRecord
    <2> QED BY <2>1
  <1>7. S' = S
    BY DEF About
  <1>8. LoneNext(S, S) /\ FliesNext(S, S)
    <2>1. NB \cap S # {} /\ XQ \cap S = {}
      BY <1>1, <1>4
    <2> HIDE DEF S
    <2> QED BY <1>1, <1>3, <1>5, <2>1 DEF Traffic
  <1>9. Lone(S, S)' /\ Flying(S, S)'
    BY <1>8, AboutFrame
  <1>10. Finds(x)'
    <2>1. /\ view'[u].last = IF t.kind = "added" /\ t.u = u /\ scene.updateconversation
                             THEN t.m ELSE view[u].last
          /\ view'[u].list =
              IF t.kind = "added" /\ t.u = u /\ scene.updateconversation THEN "conversations"
              ELSE IF t.kind = "clientdeleted" /\ t.u = u THEN "none"
              ELSE IF t.kind = "archivedadded" /\ t.u = u THEN "archived"
              ELSE view[u].list
          /\ view'[u].is_new =
              IF t.kind = "added" /\ t.u = u /\ scene.updateconversation THEN TRUE
              ELSE IF t.kind = "convupdated" /\ t.u = u THEN FALSE
              ELSE view[u].is_new
      BY <1>1, ToldViews
    <2>2. scene.updateconversation =>
            view'[u].last = t.m /\ view'[u].list = "conversations" /\ view'[u].is_new
      BY <2>1
    <2> HIDE DEF x
    <2> QED BY <1>4, <2>2 DEF Finds
  <1> HIDE DEF x
  <1> QED BY <1>6, <1>7, <1>9, <1>10 DEF ConversationOK

\* What comes of an activity about the same conversation.
LEMMA ConversationGoesOn ==
  ASSUME NEW u, NEW t \in About(u), NEW TQ, NEW TB, NEW XQ, NEW NB, Turn(t, TQ, TB, XQ, NB),
         NEW r \in About(u), r \in XQ \cup NB
  PROVE  \/ r = t /\ r \in XQ /\ t.kind = "persist" /\ NB \cap About(u) = {}
         \/ r.kind \in Followers /\ t.kind = Before(r.kind) /\ r = R(r.kind, t.m, u) /\ XQ = {}
  <1>1. /\ Stems(t, NB)
        /\ XQ = {} \/ (XQ = {t} /\ t.kind \in RoutedKinds /\ \A x \in NB : x.kind = "added")
        /\ \A x \in About(u) : x.u = u /\ x.kind \in ConversationKinds /\ x = R(x.kind, x.m, x.u)
    BY DEF Turn, About, Record, R
  <1>2. CASE XQ = {t}
    <2>1. t.kind = "persist" /\ \A x \in NB : x.kind = "added"
      BY <1>1, <1>2 DEF RoutedKinds, ConversationKinds
    <2>2. NB \cap About(u) = {}
      BY <1>1, <2>1 DEF ConversationKinds
    <2> QED BY <1>2, <2>1, <2>2
  <1>3. CASE XQ = {}
    <2>1. r \in NB
      BY <1>3
    <2>2. r.kind = "persist" \/ r.kind \in Followers
      BY <1>1, <2>1 DEF Stems, ConversationKinds, Starters, Followers
    <2>3. r.kind # "persist"
      <3>1. r.kind = "persist" => t.kind = "added"
        BY <1>1, <2>1 DEF Stems, R
      <3> QED BY <1>1, <3>1 DEF ConversationKinds
    <2>4. t = R(Before(r.kind), r.m, r.u)
      BY <1>1, <2>1, <2>2, <2>3 DEF Stems
    <2>5. t.kind = Before(r.kind) /\ t.m = r.m
      BY <2>4 DEF R
    <2> QED BY <1>1, <1>3, <2>2, <2>3, <2>5
  <1> QED BY <1>1, <1>2, <1>3

LEMMA BeforeOnce ==
  ASSUME NEW j \in Followers, NEW k \in Followers, Before(j) = Before(k) PROVE j = k
  BY DEF Followers, Before

LEMMA ConversationTakes ==
  ASSUME CoreInv, ListsOK, NEW u \in Users \ raced', ConversationOK(u), ~ lost', scene' = scene,
         NEW t, NEW TQ, NEW TB, NEW XQ, NEW NB, Turn(t, TQ, TB, XQ, NB), Tells(t),
         t \in About(u)
  PROVE  ConversationOK(u)'
  <1> DEFINE S == About(u)
             k == t.kind
             v == view[u]
             d == conversations[u]
             w == view'[u]
             e == conversations'[u]
  <1>1. /\ TypeInv /\ StoreOK /\ t \in Good /\ Traffic(TQ, TB, XQ, NB) /\ InFlight(t)
        /\ TQ \cup TB = {t} /\ Leads(t, XQ \cup NB) /\ u \in Timelines
        /\ saveOrUpdateConversation(t) /\ t.u = u /\ k \in ConversationKinds
        /\ \A r \in S : r.u = u
    BY DEF CoreInv, TypeInv, Turn, Tells, Timelines, About
  <1>2. Lone(S, S) /\ Finds(t)
    BY <1>1 DEF ConversationOK
  <1>3. w.last = v.last
    <2>1. w.last = IF t.kind = "added" /\ t.u = u /\ scene.updateconversation
                   THEN t.m ELSE v.last
      BY <1>1, ToldViews
    <2> QED BY <1>1, <2>1 DEF ConversationKinds
  <1>4. w.list = IF k = "clientdeleted" THEN "none"
                 ELSE IF k = "archivedadded" THEN "archived" ELSE v.list
    <2>1. w.list =
              IF t.kind = "added" /\ t.u = u /\ scene.updateconversation THEN "conversations"
              ELSE IF t.kind = "clientdeleted" /\ t.u = u THEN "none"
              ELSE IF t.kind = "archivedadded" /\ t.u = u THEN "archived"
              ELSE v.list
      BY <1>1, ToldViews
    <2> QED BY <1>1, <2>1 DEF ConversationKinds
  <1>5. w.is_new = IF k = "convupdated" THEN FALSE ELSE v.is_new
    <2>1. w.is_new =
              IF t.kind = "added" /\ t.u = u /\ scene.updateconversation THEN TRUE
              ELSE IF t.kind = "convupdated" /\ t.u = u THEN FALSE
              ELSE v.is_new
      BY <1>1, ToldViews
    <2> QED BY <1>1, <2>1 DEF ConversationKinds
  <1>6. /\ e.last = IF k = "saveConversation" THEN t.m ELSE d.last
        /\ e.archived = IF k = "saveConversation" THEN FALSE
                        ELSE IF k = "saveArchived" THEN TRUE ELSE d.archived
        /\ e.is_new = IF k = "saveConversation" THEN TRUE
                      ELSE IF k = "saveIsNew" THEN FALSE ELSE d.is_new
        /\ e.app = IF k = "saveConversation" THEN TRUE ELSE d.app
    BY <1>1, ConversationStored
  <1>7. /\ d.app \in BOOLEAN /\ d.archived \in BOOLEAN /\ d.is_new \in BOOLEAN
        /\ v.is_new \in BOOLEAN /\ v.list \in {"none", "conversations", "archived"}
    <2>1. d \in Conversation /\ v \in View
      BY <1>1 DEF TypeInv, StoreOK, ViewOK
    <2> QED BY <2>1 DEF Conversation, View
  <1>8. \A r \in S : InFlight(r)' => r \in XQ \cup NB
    <2>1. (TQ \cup TB) \cap S # {}
      BY <1>1
    <2> HIDE DEF S
    <2> QED BY <1>1, <1>2, <2>1, TrafficRecords
  <1>9. \A r \in S : r \in XQ \cup NB =>
          \/ r = t /\ r \in XQ /\ k = "persist" /\ NB \cap S = {}
          \/ r.kind \in Followers /\ k = Before(r.kind) /\ r = R(r.kind, t.m, u) /\ XQ = {}
    BY ConversationGoesOn
  <1>10. S' = S
    BY DEF About
  <1>11. LoneNext(S, S)
    <2>1. \A x, y \in NB : x \in S /\ y \in S => x = y
      <3>1. ASSUME NEW x \in NB, NEW y \in NB, x \in S, y \in S PROVE x = y
        <4>1. NB \cap S # {}
          BY <3>1
        <4>2. /\ x.kind \in Followers /\ k = Before(x.kind) /\ x = R(x.kind, t.m, u)
              /\ y.kind \in Followers /\ k = Before(y.kind) /\ y = R(y.kind, t.m, u)
          BY <1>9, <3>1, <4>1
        <4>3. x.kind = y.kind
          BY <4>2, BeforeOnce
        <4> QED BY <4>2, <4>3
      <3> QED BY <3>1
    <2>2. XQ \cap S = {} \/ NB \cap S = {}
      <3>1. ASSUME NEW x, x \in XQ, x \in S PROVE NB \cap S = {}
        BY <1>9, <3>1
      <3> QED BY <3>1
    <2>3. TQ \cap S # {} \/ TB \cap S # {}
      BY <1>1
    <2> HIDE DEF S
    <2> QED BY <1>1, <1>2, <2>1, <2>2, <2>3 DEF Traffic
  <1>12. Lone(S, S)' /\ (Flying(S, S)' <=> FliesNext(S, S))
    BY <1>11, AboutFrame
  <1>13. \A x \in S : x \in XQ \cup NB => Flying(S, S)'
    <2>1. ASSUME NEW x \in S, x \in XQ \cup NB PROVE FliesNext(S, S)
      <3>1. XQ \cap S # {} \/ NB \cap S # {}
        BY <2>1
      <3> HIDE DEF S
      <3> QED BY <1>1, <3>1 DEF Traffic
    <2> QED BY <1>12, <2>1
  <1>14. \A j : R(j, t.m, u).kind = j /\ R(j, t.m, u).m = t.m /\ R(j, t.m, u).u = u
    BY DEF R
  <1>15. \A j \in Followers : k = Before(j) /\ Goes(j, u) => R(j, t.m, u) \in XQ \cup NB
    BY <1>1 DEF Leads
  <1>16. \A j \in ConversationKinds : R(j, t.m, u) \in S
    <2>1. t \in Record
      BY DEF About
    <2> QED BY <2>1, <1>1 DEF R, About, Record, CopyKinds, NoteKinds, ConversationKinds
  <1>17. \A j \in Followers \cap ConversationKinds : k = Before(j) /\ Goes(j, u) => Flying(S, S)'
    <2>1. ASSUME NEW j \in Followers, j \in ConversationKinds, k = Before(j), Goes(j, u)
          PROVE  Flying(S, S)'
      BY <1>13, <1>15, <1>16, <2>1
    <2> QED BY <2>1
  <1> SUFFICES ASSUME TRUE
               PROVE  /\ \A r \in S : r \in XQ \cup NB => Finds(r)'
                      /\ ~ Flying(S, S)' /\ w.list # "none" => Agrees(u)'
    BY <1>8, <1>10, <1>12 DEF ConversationOK
  <1> HIDE DEF S
  <1>18. Agrees(u)' <=> /\ e.app /\ e.last = w.last /\ e.is_new = w.is_new
                        /\ e.archived = (w.list = "archived")
    BY DEF Agrees
  <1>19. Agrees(u) <=> /\ d.app /\ d.last = v.last /\ d.is_new = v.is_new
                       /\ d.archived = (v.list = "archived")
    BY DEF Agrees
  <1>20. ASSUME NEW r, r.u = u
         PROVE  /\ Finds(r)' <=>
                     /\ r.kind \in {"persist", "saveMessage", "saveConversation"}
                          /\ scene.updateconversation =>
                          w.last = r.m /\ w.is_new /\ w.list = "conversations"
                     /\ r.kind \in {"is_new", "saveIsNew", "archive", "saveArchived"} =>
                          Agrees(u)' /\ w.list = "conversations"
                     /\ r.kind = "convupdated" =>
                          /\ e.app /\ e.last = w.last /\ ~ e.is_new /\ ~ e.archived
                          /\ w.list = "conversations"
                     /\ r.kind \in {"detail", "clientdeleted", "archivedadded"} =>
                          e.app /\ e.last = w.last /\ e.is_new = w.is_new /\ e.archived
                /\ Finds(r) <=>
                     /\ r.kind \in {"persist", "saveMessage", "saveConversation"}
                          /\ scene.updateconversation =>
                          v.last = r.m /\ v.is_new /\ v.list = "conversations"
                     /\ r.kind \in {"is_new", "saveIsNew", "archive", "saveArchived"} =>
                          Agrees(u) /\ v.list = "conversations"
                     /\ r.kind = "convupdated" =>
                          /\ d.app /\ d.last = v.last /\ ~ d.is_new /\ ~ d.archived
                          /\ v.list = "conversations"
                     /\ r.kind \in {"detail", "clientdeleted", "archivedadded"} =>
                          d.app /\ d.last = v.last /\ d.is_new = v.is_new /\ d.archived
    BY <1>20 DEF Finds
  <1>21. scene.updateconversation \/ v.list = "none"
    BY DEF ListsOK
  <1>22. Finds(t) <=>
           /\ k \in {"persist", "saveMessage", "saveConversation"} /\ scene.updateconversation =>
                v.last = t.m /\ v.is_new /\ v.list = "conversations"
           /\ k \in {"is_new", "saveIsNew", "archive", "saveArchived"} =>
                Agrees(u) /\ v.list = "conversations"
           /\ k = "convupdated" =>
                /\ d.app /\ d.last = v.last /\ ~ d.is_new /\ ~ d.archived
                /\ v.list = "conversations"
           /\ k \in {"detail", "clientdeleted", "archivedadded"} =>
                d.app /\ d.last = v.last /\ d.is_new = v.is_new /\ d.archived
    BY <1>1, <1>20
  <1> HIDE DEF v, d, w, e, k
  <1>23. ASSUME NEW r \in S, r \in XQ \cup NB PROVE Finds(r)'
    <2>1. r.u = u
      BY <1>1
    <2>2. CASE r = t /\ k = "persist"
      BY <1>1, <1>2, <1>3, <1>4, <1>5, <1>20, <1>22, <2>2 DEF k
    <2>3. CASE r.kind \in Followers /\ k = Before(r.kind) /\ r = R(r.kind, t.m, u)
      <3>1. r.m = t.m
        BY <1>14, <2>3
      <3>2. CASE r.kind \in {"saveMessage", "saveConversation"}
        <4>1. k \in {"persist", "saveMessage"}
          BY <2>3, <3>2 DEF Before
        <4> QED BY <1>2, <1>3, <1>4, <1>5, <1>20, <1>22, <2>1, <3>1, <3>2, <4>1
      <3>3. CASE r.kind \in {"saveIsNew", "saveArchived"}
        <4>1. k \in {"is_new", "archive"}
          BY <2>3, <3>3 DEF Before
        <4> QED BY <1>2, <1>3, <1>4, <1>5, <1>6, <1>18, <1>19, <1>20, <1>22, <2>1, <3>3, <4>1
      <3>4. CASE r.kind = "convupdated"
        <4>1. k = "saveIsNew"
          BY <2>3, <3>4 DEF Before
        <4> QED BY <1>2, <1>3, <1>4, <1>5, <1>6, <1>7, <1>19, <1>20, <1>22, <2>1, <3>4, <4>1
      <3>5. CASE r.kind = "detail"
        <4>1. k = "saveArchived"
          BY <2>3, <3>5 DEF Before
        <4> QED BY <1>2, <1>3, <1>4, <1>5, <1>6, <1>7, <1>19, <1>20, <1>22, <2>1, <3>5, <4>1
      <3>6. CASE r.kind \in {"clientdeleted", "archivedadded"}
        <4>1. k \in {"detail", "clientdeleted"}
          BY <2>3, <3>6 DEF Before
        <4> QED BY <1>2, <1>3, <1>4, <1>5, <1>6, <1>20, <1>22, <2>1, <3>6, <4>1
      <3>7. r.kind \in ConversationKinds
        BY <1>23 DEF S, About
      <3> QED BY <2>3, <3>2, <3>3, <3>4, <3>5, <3>6, <3>7 DEF Followers, ConversationKinds
    <2> QED BY <1>9, <1>23, <2>2, <2>3
  <1>24. ASSUME ~ Flying(S, S)', w.list # "none" PROVE Agrees(u)'
    <2>1. CASE k = "persist"
      <3>1. t \in XQ \cup NB \/ R("saveMessage", t.m, u) \in XQ \cup NB
        BY <1>1, <2>1 DEF Leads, k
      <3>2. R("saveMessage", t.m, u) \in S /\ t \in S
        BY <1>16 DEF ConversationKinds, S
      <3> QED BY <1>13, <1>24, <3>1, <3>2
    <2>2. CASE k = "saveMessage"
      <3>1. ~ Goes("saveConversation", u)
        BY <1>17, <1>24, <2>2 DEF Followers, ConversationKinds, Before
      <3>2. ~ scene.updateconversation
        BY <3>1 DEF Goes
      <3> QED BY <1>4, <1>21, <1>24, <2>2, <3>2
    <2>3. CASE k = "saveConversation"
      <3>1. v.list # "none" /\ scene.updateconversation
        BY <1>4, <1>21, <1>24, <2>3
      <3> QED BY <1>2, <1>3, <1>4, <1>5, <1>6, <1>7, <1>18, <1>22, <2>3, <3>1
    <2>4. CASE k \in {"is_new", "saveIsNew", "archive", "saveArchived", "clientdeleted"}
      <3>1. PICK j \in Followers \cap ConversationKinds : k = Before(j) /\ Goes(j, u)
        BY <2>4 DEF Followers, ConversationKinds, Before, Goes
      <3> QED BY <1>17, <1>24, <3>1
    <2>5. CASE k = "detail"
      <3>1. d.app /\ d.archived
        BY <1>2, <1>22, <2>5
      <3>2. Goes("clientdeleted", u)
        BY <3>1 DEF Goes, conversationDetail, d
      <3>3. "clientdeleted" \in Followers \cap ConversationKinds /\ k = Before("clientdeleted")
        BY <2>5 DEF Followers, ConversationKinds, Before
      <3> QED BY <1>17, <1>24, <3>2, <3>3
    <2>6. CASE k = "convupdated"
      BY <1>2, <1>3, <1>4, <1>5, <1>6, <1>7, <1>18, <1>22, <2>6
    <2>7. CASE k = "archivedadded"
      BY <1>2, <1>3, <1>4, <1>5, <1>6, <1>7, <1>18, <1>22, <2>7
    <2> QED BY <1>1, <2>1, <2>2, <2>3, <2>4, <2>5, <2>6, <2>7 DEF ConversationKinds, k
  <1> QED BY <1>23, <1>24

\* Nothing of the conversation of u comes of a record of another one.
LEMMA ConversationElsewhere ==
  ASSUME NEW u, NEW t \in Record, t \notin About(u), ~ (t.kind = "added" /\ t.u = u),
         NEW TQ, NEW TB, NEW XQ, NEW NB, Turn(t, TQ, TB, XQ, NB)
  PROVE  (TQ \cup TB \cup XQ \cup NB) \cap About(u) = {}
  <1>1. TQ \cup TB = {t} /\ XQ \subseteq {t} /\ Stems(t, NB)
    BY DEF Turn
  <1>2. ASSUME NEW r \in About(u), r \in NB PROVE FALSE
    <2>1. r.u = u /\ r.kind \in ConversationKinds
      BY DEF About
    <2>2. r.kind = "persist" \/ r.kind \in Followers
      BY <1>1, <1>2, <2>1 DEF Stems, ConversationKinds, Starters, Followers
    <2>3. CASE r.kind = "persist"
      <3>1. t = R("added", r.m, r.u)
        BY <1>1, <1>2, <2>3 DEF Stems
      <3> QED BY <2>1, <3>1 DEF R
    <2>4. CASE r.kind \in Followers
      <3>1. t = R(Before(r.kind), r.m, r.u)
        BY <1>1, <1>2, <2>4 DEF Stems
      <3>2. t.u = u /\ t.kind = Before(r.kind)
        BY <2>1, <3>1 DEF R
      <3>3. Before(r.kind) \in ConversationKinds
        BY <2>1, <2>4 DEF Before, Followers, ConversationKinds
      <3> QED BY <3>2, <3>3 DEF About
    <2> QED BY <2>2, <2>3, <2>4
  <1> QED BY <1>1, <1>2

LEMMA ConversationTurn ==
  ASSUME CoreInv, ListsOK, NEW u \in Users \ raced', ConversationOK(u), ~ lost', scene' = scene,
         NEW t, NEW TQ, NEW TB, NEW XQ, NEW NB, Turn(t, TQ, TB, XQ, NB), Tells(t)
  PROVE  ConversationOK(u)'
  <1>1. CASE t \in About(u)
    BY <1>1, ConversationTakes
  <1>2. CASE t.kind = "added" /\ t.u = u
    BY <1>2, ConversationShows
  <1>3. CASE t \notin About(u) /\ ~ (t.kind = "added" /\ t.u = u)
    <2>1. /\ TypeInv /\ StoreOK /\ t \in Good /\ t \in Record /\ Traffic(TQ, TB, XQ, NB)
          /\ saveOrUpdateConversation(t) /\ u \in Timelines
      BY DEF CoreInv, TypeInv, Turn, Tells, Timelines, Good
    <2>2. (TQ \cup TB \cup XQ \cup NB) \cap About(u) = {}
      BY <1>3, <2>1, ConversationElsewhere
    <2>3. t.u # u \/ t.kind \notin ConversationKinds
      BY <1>3, <2>1 DEF About
    <2>4. t.u = u => t.kind \notin {"added", "clientdeleted", "archivedadded", "convupdated",
                                   "saveConversation", "saveArchived", "saveIsNew"}
      BY <1>3, <2>3 DEF ConversationKinds
    <2>5. /\ view'[u].last = view[u].last
          /\ view'[u].list = view[u].list
          /\ view'[u].is_new = view[u].is_new
      <3>1. view'[u].last = IF t.kind = "added" /\ t.u = u /\ scene.updateconversation
                            THEN t.m ELSE view[u].last
        BY <2>1, ToldViews
      <3>2. view'[u].list =
              IF t.kind = "added" /\ t.u = u /\ scene.updateconversation THEN "conversations"
              ELSE IF t.kind = "clientdeleted" /\ t.u = u THEN "none"
              ELSE IF t.kind = "archivedadded" /\ t.u = u THEN "archived"
              ELSE view[u].list
        BY <2>1, ToldViews
      <3>3. view'[u].is_new =
              IF t.kind = "added" /\ t.u = u /\ scene.updateconversation THEN TRUE
              ELSE IF t.kind = "convupdated" /\ t.u = u THEN FALSE
              ELSE view[u].is_new
        BY <2>1, ToldViews
      <3> QED BY <2>4, <3>1, <3>2, <3>3
    <2>6. /\ conversations'[u].last = conversations[u].last
          /\ conversations'[u].archived = conversations[u].archived
          /\ conversations'[u].is_new = conversations[u].is_new
          /\ conversations'[u].app = conversations[u].app
      <3>1. LET d == conversations'[u]  c == conversations[u] IN
            /\ d.last = IF t.kind = "saveConversation" /\ t.u = u THEN t.m ELSE c.last
            /\ d.archived = IF t.kind = "saveConversation" /\ t.u = u THEN FALSE
                            ELSE IF t.kind = "saveArchived" /\ t.u = u THEN TRUE ELSE c.archived
            /\ d.is_new = IF t.kind = "saveConversation" /\ t.u = u THEN TRUE
                          ELSE IF t.kind = "saveIsNew" /\ t.u = u THEN FALSE ELSE c.is_new
            /\ d.app = IF t.kind = "saveConversation" /\ t.u = u THEN TRUE ELSE c.app
        BY <2>1, ConversationStored
      <3> QED BY <2>4, <3>1
    <2>7. ConversationSame(u)
      BY <2>5, <2>6 DEF ConversationSame
    <2> QED BY <2>1, <2>2, <2>7, ConversationApart
  <1> QED BY <1>1, <1>2, <1>3

LEMMA ConversationsSteps ==
  ASSUME CoreInv, AskedOK, ListsOK, ConversationsOK, ~ lost', [Next]_vars
  PROVE  ConversationsOK'
  <1>1. scene' = scene /\ raced \subseteq raced'
    BY MatchCases
  <1> SUFFICES ASSUME NEW u \in Users \ raced' PROVE ConversationOK(u)'
    BY DEF ConversationsOK
  <1>2. ConversationOK(u)
    BY <1>1 DEF ConversationsOK
  <1>3. CASE Idles
    <2>1. Traffic({}, {}, {}, {}) /\ view' = view /\ conversations' = conversations
      BY <1>3 DEF Idles
    <2>2. ConversationSame(u) /\ ({} \cup {} \cup {} \cup {}) \cap About(u) = {}
      BY <2>1 DEF ConversationSame
    <2> QED BY <1>1, <1>2, <2>1, <2>2, ConversationApart
  <1> QED BY <1>1, <1>2, <1>3, MatchCases, ConversationSends, ConversationTurn

(***************************************************************************)
(* When all is quiet.                                                      *)
(***************************************************************************)

LEMMA MatchInvSteps ==
  ASSUME MatchInv, [Next]_vars PROVE MatchInv'
  <1>1. CoreInv
    BY DEF MatchInv
  <1>2. CoreInv'
    BY <1>1, TypeSteps, StartedSteps DEF CoreInv
  <1>3. ASSUME ~ lost'
        PROVE  FlightOK' /\ StatusesOK' /\ GroupOK' /\ ConversationsOK'
    <2>1. FlightOK /\ StatusesOK /\ GroupOK /\ ConversationsOK
      BY <1>1, <1>3, LostStays DEF MatchInv
    <2>2. AskedOK' /\ ComingOK' /\ OriginsOK' /\ ReceiptsOK' /\ ReadOK' /\ ListsOK'
      BY <1>1, <1>3, <2>1, AskedSteps, ComingSteps, OriginSteps, ReceiptsSteps, ReadSteps,
         ListsSteps DEF FlightOK
    <2>3. StatusesOK' /\ GroupOK' /\ ConversationsOK'
      BY <1>1, <1>3, <2>1, StatusesSteps, GroupSteps, ConversationsSteps DEF FlightOK
    <2> QED BY <2>2, <2>3 DEF FlightOK
  <1> QED BY <1>2, <1>3 DEF MatchInv

\* At first nothing is under way.
LEMMA NothingFlies ==
  ASSUME Init
  PROVE  /\ \A A, B : ~ Flying(A, B) /\ Lone(A, B)
         /\ \A r : ~ InFlight(r)
  <1>1. Deployed \subseteq Procs
    BY CoreInit, Environments DEF CoreInv, TypeInv
  <1>2. /\ \A k \in Queues : queue[k] = <<>>
        /\ \A p \in Deployed, c \in Conns : wire[p][c] = <<>>
        /\ \A p \in Deployed : pending[p] = {}
    BY <1>1 DEF Init
  <1>3. \A A : ~ Has(<<>>, A) /\ Few(<<>>, A) /\ ~ Asked({}, A)
    BY DEF Has, Few, Asked
  <1>4. ASSUME NEW A, NEW B PROVE ~ Flying(A, B) /\ Lone(A, B)
    <2>1. \A k \in Queues : ~ Has(queue[k], A) /\ Few(queue[k], A)
      BY <1>2, <1>3
    <2>2. \A p \in Deployed, c \in Conns : ~ Has(wire[p][c], B) /\ Few(wire[p][c], B)
      BY <1>2, <1>3
    <2>3. \A p \in Deployed : ~ Asked(pending[p], B) /\ \A x \in pending[p] : x \notin B
      BY <1>2, <1>3
    <2>4. ~ Flying(A, B)
      BY <2>1, <2>2, <2>3 DEF Flying, FlyingIn
    <2>5. Lone(A, B)
      BY <2>1, <2>2, <2>3 DEF Lone, LoneIn
    <2> QED BY <2>4, <2>5
  <1> QED BY <1>4, InFlightFlies

LEMMA MatchInit == ASSUME Init PROVE MatchInv
  <1>1. CoreInv /\ Deployed \subseteq Procs
    BY CoreInit, Environments DEF CoreInv, TypeInv
  <1>2. AskedOK
    BY <1>1 DEF Init, AskedOK
  <1>3. \A u \in Users :
          /\ u \in Timelines /\ view[u].shown = {} /\ view[u].returned = {}
          /\ view[u].list = "none" /\ read[u] = {}
    BY DEF Init, Timelines
  <1>4. ComingOK
    BY <1>3, NothingFlies DEF ComingOK, CopyOnce
  <1>5. OriginsOK /\ ReceiptsOK
    BY NothingFlies DEF OriginsOK, ReceiptsOK
  <1>6. ReadOK
    BY <1>3 DEF ReadOK, Users
  <1>7. ListsOK
    BY <1>3 DEF ListsOK
  <1>8. StatusesOK
    BY <1>3 DEF StatusesOK
  <1>9. GroupOK
    <2>1. left.groups = scene.bound.groups /\ left.groups \in Nat
      BY <1>1 DEF Init, CoreInv, TypeInv, SceneOK, Bounds
    <2>2. ~ (scene.bound.groups > left.groups)
      BY <2>1
    <2> QED BY <2>2 DEF GroupOK
  <1>10. ConversationsOK
    BY <1>3, NothingFlies DEF ConversationsOK, ConversationOK
  <1> QED BY <1>1, <1>2, <1>4, <1>5, <1>6, <1>7, <1>8, <1>9, <1>10 DEF MatchInv, FlightOK

LEMMA QuietMatches == ASSUME MatchInv PROVE ViewMatchesStore
  <1> SUFFICES ASSUME Quiet, ~ lost, NEW u \in Users \ raced
      PROVE  /\ \A m \in view[u].shown : messages[u][m] = StatusTold(u, m)
             /\ view[u].list # "none" =>
                  /\ conversations[u].last = view[u].last
                  /\ conversations[u].is_new = view[u].is_new
                  /\ conversations[u].archived = (view[u].list = "archived")
             /\ scene.bound.groups > left.groups => view[u].members = group
    BY DEF ViewMatchesStore
  <1>1. StatusesOK /\ GroupOK /\ ConversationOK(u)
    BY DEF MatchInv, ConversationsOK
  <1>2. \A A : ~ Has(<<>>, A) /\ ~ Asked({}, A)
    BY DEF Has, Asked
  <1>3. \A A, B : ~ Flying(A, B)
    BY <1>2 DEF Flying, FlyingIn, Quiet
  <1>4. \A r : ~ InFlight(r)
    BY <1>3, InFlightFlies
  <1>5. ASSUME NEW m \in view[u].shown PROVE messages[u][m] = StatusTold(u, m)
    <2>1. StatusComes(m, u) /\ ~ Storing(m, u)
      BY <1>1, <1>4 DEF StatusesOK, Storing
    <2> QED BY <1>4, <2>1 DEF StatusComes
  <1>6. view[u].list # "none" => Agrees(u)
    BY <1>1, <1>3 DEF ConversationOK
  <1>7. scene.bound.groups > left.groups => view[u].members = group
    BY <1>1, <1>4 DEF GroupOK
  <1> QED BY <1>5, <1>6, <1>7 DEF Agrees

\* When all is quiet and nothing was lost on the way, the database agrees with
\* what each client told its application: the status of every message shown,
\* the conversation's last message, is_new and list, and the members of a
\* group that was changed; for a user no two of whose activities overlapped.
THEOREM ViewMatchesStoreHolds == Spec => []ViewMatchesStore
  <1>1. Init => MatchInv
    BY MatchInit
  <1>2. MatchInv /\ [Next]_vars => MatchInv'
    BY MatchInvSteps
  <1> QED BY <1>1, <1>2, QuietMatches, PTL DEF Spec

=============================================================================
