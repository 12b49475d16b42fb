-------------------------- MODULE Delivery_proofs --------------------------
(***************************************************************************)
(* Type correctness of Delivery and the safety of its copies, for every    *)
(* set of users and groups, every workload and any number of faults.       *)
(***************************************************************************)
EXTENDS Delivery, TLAPS, SequenceTheorems, FiniteSetTheorems

(***************************************************************************)
(* Type correctness.  Handlers look up sent[m] for the messages they hold, *)
(* so the inductive form says that those have been sent.                   *)
(***************************************************************************)

Known == DOMAIN sent

KnownCopy == [msg : Known, box : Inbox, status : {SENT, DELIVERED}, history : BOOLEAN]

KnownJob == [copy : KnownCopy, topic : {"clientadded", "persist"}]

KnownTask ==
  [kind : {"outgoing"}, msg : Known] \cup [kind : {"delivered"}, copy : KnownCopy]

KnownOK ==
  /\ messages \in Seq(KnownTask)
  /\ limiting \in Seq(Known)
  /\ looking \subseteq Known
  /\ wire \in Seq(SUBSET KnownJob)
  /\ unconfirmed \subseteq KnownJob
  /\ persist \subseteq KnownCopy

TypeInv == TypeOK /\ KnownOK

-----------------------------------------------------------------------------

LEMMA KnownTypes ==
  ASSUME TypeOK
  PROVE  /\ Known = 1 .. Len(sent)
         /\ Known \subseteq Msg
         /\ KnownCopy \subseteq Copy
         /\ KnownJob \subseteq Job
         /\ KnownTask \subseteq Task
<1>1. Len(sent) \in Nat /\ Len(sent) <= MaxMsg /\ Known = 1 .. Len(sent)
  BY DEF TypeOK, Known
<1>2. Known \subseteq Msg
  BY <1>1, DeliveryAssumption DEF Msg, DeliveryAssumption
<1>3. KnownCopy \subseteq Copy
  BY <1>2 DEF KnownCopy, Copy
<1>4. KnownJob \subseteq Job
  BY <1>3 DEF KnownJob, Job
<1>5. KnownTask \subseteq Task
  BY <1>2, <1>3 DEF KnownTask, Task
<1> QED BY <1>1, <1>2, <1>3, <1>4, <1>5

LEMMA SentTypes ==
  ASSUME TypeOK, NEW m \in Known
  PROVE  /\ sent[m] \in Envelope
         /\ sent[m].sender \in User
         /\ sent[m].recipient \in Inbox
         /\ sent[m].projectId \in {NONE} \cup Project
         /\ sent[m].group # NONE => sent[m].group \in Seq(User)
<1>1. sent[m] \in Envelope
  BY DEF TypeOK, Known
<1> QED BY <1>1, DeliveryAssumption DEF DeliveryAssumption

LEMMA FollowUpTypes ==
  ASSUME TypeOK, NEW c \in KnownCopy
  PROVE  FollowUp(c) \subseteq KnownCopy
<1>1. c.msg \in Known
  BY DEF KnownCopy
<1>2. sent[c.msg].recipient \in Inbox
  BY <1>1, SentTypes
<1>3. [c EXCEPT !.box = sent[c.msg].recipient, !.status = DELIVERED] \in KnownCopy
  BY <1>2 DEF KnownCopy
<1> QED BY <1>3 DEF FollowUp

\* The empty connection and rate limiter a lost connection or a restart leaves.
LEMMA EmptyTypes ==
  ASSUME NEW S
  PROVE  <<>> \in Seq(S)
OBVIOUS

LEMMA WireTypes ==
  ASSUME TypeOK, NEW w \in Seq(SUBSET KnownJob)
  PROVE  w \in Seq(SUBSET Job)
BY KnownTypes

\* publish() keeps the connection and the offline queue typed.
LEMMA PublishTypes ==
  ASSUME TypeInv, NEW jobs, jobs \subseteq KnownJob, Publish(jobs)
  PROVE  /\ wire' \in Seq(SUBSET KnownJob)
         /\ offlinePubQueue' \subseteq Job
<1> DEFINE valid == {j \in jobs : Fits(j)}
<1>1. valid \subseteq KnownJob /\ valid \subseteq Job
  BY KnownTypes DEF TypeInv
<1>2. CASE wire' = Append(wire, valid) /\ UNCHANGED offlinePubQueue
  <2>1. wire \in Seq(SUBSET KnownJob) /\ valid \in SUBSET KnownJob
    BY <1>1 DEF TypeInv, KnownOK
  <2>2. Append(wire, valid) \in Seq(SUBSET KnownJob)
    BY <2>1, AppendProperties
  <2> QED BY <1>2, <2>2 DEF TypeInv, TypeOK
<1>3. CASE offlinePubQueue' = offlinePubQueue \cup valid /\ UNCHANGED wire
  BY <1>1, <1>3 DEF TypeInv, TypeOK, KnownOK
<1>4. CASE UNCHANGED <<wire, offlinePubQueue>>
  BY <1>4 DEF TypeInv, TypeOK, KnownOK
<1> QED BY <1>2, <1>3, <1>4 DEF Publish

NoticesOK ==
  /\ sentHooks \in [Msg -> Nat]
  /\ messageProjectCache \in [Msg -> {NONE} \cup Project]
  /\ userProjectCache \in [Inbox -> {NONE} \cup Project]

LEMMA AnnounceTypes ==
  ASSUME TypeInv, NEW m \in Known, NEW ok, IsFiniteSet(ok), NEW done,
         Announce(m, ok, done)
  PROVE  NoticesOK'
<1>1. m \in Msg /\ sent[m].projectId \in {NONE} \cup Project
  BY KnownTypes, SentTypes DEF TypeInv
<1>2. Cardinality({c \in ok : c.status = SENT}) \in Nat
  BY FS_Subset, FS_CardinalityType
<1>3. sentHooks' \in [Msg -> Nat]
  BY <1>1, <1>2 DEF Announce, TypeInv, TypeOK
<1>4. messageProjectCache' \in [Msg -> {NONE} \cup Project]
  BY <1>1 DEF Announce, TypeInv, TypeOK
<1>5. userProjectCache' \in [Inbox -> {NONE} \cup Project]
  BY <1>1 DEF Announce, TypeInv, TypeOK
<1> QED BY <1>3, <1>4, <1>5 DEF NoticesOK

LEMMA JobTypes ==
  ASSUME NEW c \in KnownCopy
  PROVE  Added(c) \in KnownJob /\ Persist(c) \in KnownJob
BY DEF Added, Persist, KnownJob

LEMMA DeliverTypes ==
  ASSUME TypeInv, NEW m \in Known,
         NEW copies, copies \subseteq KnownCopy, IsFiniteSet(copies),
         Deliver(m, copies)
  PROVE  /\ wire' \in Seq(SUBSET KnownJob)
         /\ offlinePubQueue' \subseteq Job
         /\ NoticesOK'
<1> DEFINE long == {c \in copies : ~ Fits(Added(c))}
           failed == IF pubChannel THEN {} ELSE UNION {FollowUp(c) : c \in copies}
           jobs == {Added(c) : c \in copies \cup failed} \cup {Persist(c) : c \in long}
<1>1. Publish(jobs) /\ Announce(m, long, {c \in long : c.status = DELIVERED})
  BY DEF Deliver
<1>2. failed \subseteq KnownCopy
  BY FollowUpTypes DEF TypeInv
<1>3. jobs \subseteq KnownJob
  BY <1>2, JobTypes
<1>4. IsFiniteSet(long)
  BY FS_Subset
<1>5. wire' \in Seq(SUBSET KnownJob) /\ offlinePubQueue' \subseteq Job
  <2> HIDE DEF jobs
  <2> QED BY <1>1, <1>3, PublishTypes
<1>6. NoticesOK'
  <2> HIDE DEF long
  <2> QED BY <1>1, <1>4, AnnounceTypes
<1> QED BY <1>5, <1>6

LEMMA GroupCopyTypes ==
  ASSUME TypeOK, NEW m \in Known, NEW box \in Inbox
  PROVE  GroupCopy(m, box) \in KnownCopy /\ StatusFor(m, box) \in {SENT, DELIVERED}
BY DEF GroupCopy, StatusFor, KnownCopy

LEMMA SetKeyTypes ==
  ASSUME NEW S, NEW keys \in Seq(S), NEW key \in S
  PROVE  SetKey(keys, key) \in Seq(S)
BY AppendProperties DEF SetKey

LEMMA FanOutTypes ==
  ASSUME TypeInv, NEW m \in Known, NEW mem \in Seq(Inbox), FanOut(m, mem)
  PROVE  /\ members' \in [Msg -> Seq(Inbox)]
         /\ status' \in [Msg -> {NONE, SENT, DELIVERED}]
         /\ wire' \in Seq(SUBSET KnownJob)
         /\ offlinePubQueue' \subseteq Job
         /\ NoticesOK'
<1>1. PICK n \in 0 .. Len(mem) :
        /\ members' = [members EXCEPT ![m] = mem]
        /\ status' = [status EXCEPT ![m] = IF n = 0 THEN @ ELSE StatusFor(m, mem[n])]
        /\ Deliver(m, {GroupCopy(m, mem[i]) : i \in 1 .. n})
  BY DEF FanOut
<1> DEFINE copies == {GroupCopy(m, mem[i]) : i \in 1 .. n}
<1>2. m \in Msg
  BY KnownTypes DEF TypeInv
<1>3. Len(mem) \in Nat /\ n \in Nat /\ \A i \in 1 .. n : mem[i] \in Inbox
  BY <1>1
<1>4. members' \in [Msg -> Seq(Inbox)]
  BY <1>1, <1>2 DEF TypeInv, TypeOK
<1>5. status' \in [Msg -> {NONE, SENT, DELIVERED}]
  <2>1. n # 0 => StatusFor(m, mem[n]) \in {SENT, DELIVERED}
    BY <1>3, GroupCopyTypes DEF TypeInv
  <2> QED BY <1>1, <1>2, <2>1 DEF TypeInv, TypeOK
<1>6. copies \subseteq KnownCopy
  BY <1>3, GroupCopyTypes DEF TypeInv
<1>7. IsFiniteSet(copies)
  <2> DEFINE f == [i \in 1 .. n |-> GroupCopy(m, mem[i])]
  <2>1. f \in Surjection(1 .. n, copies)
    BY DEF Surjection
  <2>2. IsFiniteSet(1 .. n)
    BY <1>3, FS_Interval
  <2> QED BY <2>1, <2>2, FS_Surjection
<1>8. Deliver(m, copies)
  BY <1>1
<1> HIDE DEF copies
<1> QED BY <1>4, <1>5, <1>6, <1>7, <1>8, DeliverTypes

LEMMA TrackTypes ==
  ASSUME TypeInv, NEW m \in Known, NEW n \in Nat, Track(m, n)
  PROVE  analytics' \in [Msg -> Nat]
BY KnownTypes DEF TypeInv, TypeOK, Track

LEMMA OutgoingTypes ==
  ASSUME TypeInv, NEW m \in Known, Outgoing(m)
  PROVE  /\ looking' \subseteq Known
         /\ members' \in [Msg -> Seq(Inbox)]
         /\ status' \in [Msg -> {NONE, SENT, DELIVERED}]
         /\ wire' \in Seq(SUBSET KnownJob)
         /\ offlinePubQueue' \subseteq Job
         /\ NoticesOK'
         /\ analytics' \in [Msg -> Nat]
<1>1. CASE /\ Deliver(m, {[msg |-> m, box |-> sent[m].sender, status |-> SENT,
                          history |-> FALSE]})
           /\ UNCHANGED <<looking, members, status, analytics>>
  <2> DEFINE c == [msg |-> m, box |-> sent[m].sender, status |-> SENT, history |-> FALSE]
  <2>1. c \in KnownCopy
    BY SentTypes DEF TypeInv, KnownCopy, Inbox
  <2>2. {c} \subseteq KnownCopy /\ IsFiniteSet({c}) /\ Deliver(m, {c})
    BY <1>1, <2>1, FS_Singleton
  <2> HIDE DEF c
  <2>3. wire' \in Seq(SUBSET KnownJob) /\ offlinePubQueue' \subseteq Job /\ NoticesOK'
    BY <2>2, DeliverTypes
  <2> QED BY <1>1, <2>3 DEF TypeInv, TypeOK, KnownOK
<1>2. CASE /\ sent[m].group # NONE
           /\ Track(m, 1)
           /\ FanOut(m, SetKey(SetKey(sent[m].group, sent[m].recipient),
                               sent[m].sender))
           /\ UNCHANGED looking
  <2>1. /\ sent[m].group \in Seq(User)
        /\ sent[m].recipient \in Inbox
        /\ sent[m].sender \in Inbox
    BY <1>2, SentTypes DEF TypeInv, Inbox
  <2>2. sent[m].group \in Seq(Inbox)
    BY <2>1 DEF Inbox
  <2>3. SetKey(SetKey(sent[m].group, sent[m].recipient), sent[m].sender) \in Seq(Inbox)
    BY <2>1, <2>2, SetKeyTypes
  <2>4. analytics' \in [Msg -> Nat]
    BY <1>2, TrackTypes
  <2> QED BY <1>2, <2>3, <2>4, FanOutTypes DEF TypeInv, KnownOK
<1>3. CASE /\ Track(m, 1)
           /\ looking' = looking \cup {m}
           /\ UNCHANGED <<members, status, offlinePubQueue, wire, sentHooks,
                          messageProjectCache, userProjectCache>>
  <2>1. analytics' \in [Msg -> Nat]
    BY <1>3, TrackTypes
  <2> QED BY <1>3, <2>1 DEF TypeInv, TypeOK, KnownOK, NoticesOK
<1> QED BY <1>1, <1>2, <1>3 DEF Outgoing

LEMMA ArriveTypes ==
  ASSUME TypeInv, NEW jobs, jobs \subseteq KnownJob, Arrive(jobs)
  PROVE  inbox' \in [Inbox -> Seq(Copy)] /\ persist' \subseteq KnownCopy
<1> DEFINE ShownTo(b) == {j \in jobs : j.topic = "clientadded" /\ j.copy.box = b}
<1>1. \A b \in Inbox : ShownTo(b) # {} => (CHOOSE j \in ShownTo(b) : TRUE).copy \in Copy
  BY KnownTypes DEF TypeInv, KnownJob
<1>2. \A b \in Inbox : inbox[b] \in Seq(Copy)
  BY DEF TypeInv, TypeOK
<1>3. \A b \in Inbox : ShownTo(b) # {} =>
         Append(inbox[b], (CHOOSE j \in ShownTo(b) : TRUE).copy) \in Seq(Copy)
  BY <1>1, <1>2, AppendProperties
<1>4. inbox' = [b \in Inbox |->
                 IF ShownTo(b) = {} THEN inbox[b]
                 ELSE Append(inbox[b], (CHOOSE j \in ShownTo(b) : TRUE).copy)]
  BY DEF Arrive
<1>5. inbox' \in [Inbox -> Seq(Copy)]
  <2> HIDE DEF ShownTo
  <2> QED BY <1>2, <1>3, <1>4
<1>6. persist' \subseteq KnownCopy
  BY DEF Arrive, TypeInv, KnownOK, KnownJob
<1> QED BY <1>5, <1>6

LEMMA SeverTypes ==
  ASSUME TypeInv, NEW failed, failed \subseteq KnownJob, Sever(failed)
  PROVE  /\ inbox' \in [Inbox -> Seq(Copy)] /\ persist' \subseteq KnownCopy
         /\ messages' \in Seq(KnownTask)
         /\ offlinePubQueue' \subseteq Job
<1>1. PICK part \in SUBSET (IF wire = <<>> THEN {} ELSE Head(wire)) : Arrive(part)
  BY DEF Sever
<1>2. part \subseteq KnownJob
  BY <1>1, HeadTailProperties DEF TypeInv, KnownOK
<1>3. inbox' \in [Inbox -> Seq(Copy)] /\ persist' \subseteq KnownCopy
  BY <1>1, <1>2, ArriveTypes
<1>4. messages' \in Seq(KnownTask)
  BY DEF Sever, LosePushed, TypeInv, KnownOK
<1>5. \A j \in failed : j.copy \in KnownCopy
  BY DEF KnownJob
<1>6. UNION {FollowUp(j.copy) : j \in failed} \subseteq KnownCopy
  BY <1>5, FollowUpTypes DEF TypeInv
<1>7. {Added(d) : d \in UNION {FollowUp(j.copy) : j \in failed}} \subseteq KnownJob
  BY <1>6, JobTypes
<1>8. offlinePubQueue' \subseteq Job
  BY <1>7, KnownTypes DEF Sever, TypeInv, TypeOK
<1> QED BY <1>3, <1>4, <1>8

LEMMA PendingTypes ==
  ASSUME TypeInv
  PROVE  Pending \subseteq KnownJob
BY DEF Pending, Range, TypeInv, KnownOK

LEMMA KnownUnchanged ==
  ASSUME sent' = sent
  PROVE  /\ Known' = Known /\ KnownCopy' = KnownCopy
         /\ KnownJob' = KnownJob /\ KnownTask' = KnownTask
BY DEF Known, KnownCopy, KnownJob, KnownTask

\* Sending a message makes more messages known and none unknown.
LEMMA KnownGrows ==
  ASSUME TypeOK, NEW e \in Envelope, sent' = Append(sent, e)
  PROVE  /\ Known \subseteq Known' /\ KnownCopy \subseteq KnownCopy'
         /\ KnownJob \subseteq KnownJob' /\ KnownTask \subseteq KnownTask'
         /\ Len(sent) + 1 \in Known'
<1>1. Known = 1 .. Len(sent) /\ Known' = 1 .. (Len(sent) + 1) /\ Len(sent) \in Nat
  BY AppendProperties DEF TypeOK, Known
<1>2. Known \subseteq Known' /\ Len(sent) + 1 \in Known'
  BY <1>1
<1>3. KnownCopy \subseteq KnownCopy'
  BY <1>2 DEF KnownCopy
<1> QED BY <1>2, <1>3 DEF KnownJob, KnownTask

-----------------------------------------------------------------------------

LEMMA InitTypes ==
  ASSUME Init
  PROVE  TypeInv
BY DeliveryAssumption DEF Init, TypeInv, TypeOK, KnownOK, DeliveryAssumption

LEMMA SendTypes ==
  ASSUME TypeInv, NEW e \in Envelope, Send(e)
  PROVE  TypeInv'
<1> USE DEF Send, handlers, channel, broker, notices
<1>1. /\ sent' = Append(sent, e)
      /\ messages' = Append(messages, [kind |-> "outgoing", msg |-> Len(sent) + 1])
      /\ UNCHANGED <<asked, handlers, channel, broker, notices, faults>>
  OBVIOUS
<1>2. /\ Known \subseteq Known' /\ KnownCopy \subseteq KnownCopy'
      /\ KnownJob \subseteq KnownJob' /\ KnownTask \subseteq KnownTask'
      /\ Len(sent) + 1 \in Known'
  BY <1>1, KnownGrows DEF TypeInv
<1>3. sent' \in Seq(Envelope) /\ Len(sent') <= MaxMsg
  BY <1>1, AppendProperties, DeliveryAssumption DEF TypeInv, TypeOK, DeliveryAssumption
<1>4. messages' \in Seq(KnownTask')
  <2>1. messages \in Seq(KnownTask')
    BY <1>2 DEF TypeInv, KnownOK
  <2>2. [kind |-> "outgoing", msg |-> Len(sent) + 1] \in KnownTask'
    BY <1>2 DEF KnownTask
  <2> QED BY <1>1, <2>1, <2>2, AppendProperties
<1>5. limiting' \in Seq(Known') /\ wire' \in Seq(SUBSET KnownJob')
  BY <1>1, <1>2 DEF TypeInv, KnownOK
<1>6. KnownOK'
  BY <1>1, <1>2, <1>4, <1>5 DEF TypeInv, KnownOK
<1>7. KnownTask' \subseteq Task
  <2>1. Known' = 1 .. Len(sent') /\ Known' \subseteq Msg
    BY <1>3, DeliveryAssumption DEF Known, Msg, DeliveryAssumption
  <2> QED BY <2>1 DEF KnownTask, KnownCopy, Task, Copy
<1>8. messages' \in Seq(Task)
  BY <1>4, <1>7
<1>9. TypeOK'
  BY <1>1, <1>3, <1>8 DEF TypeInv, TypeOK
<1> QED BY <1>6, <1>9 DEF TypeInv

LEMMA AskHistoryTypes ==
  ASSUME TypeInv, NEW m \in Msg, NEW u \in User, NEW st \in {SENT, DELIVERED},
         AskHistory(m, u, st)
  PROVE  TypeInv'
<1> USE DEF AskHistory, handlers, channel, broker, notices
<1> DEFINE c == [msg |-> m, box |-> u, status |-> st, history |-> TRUE]
           task == [kind |-> "delivered", copy |-> c]
<1>1. task \in KnownTask
  <2>1. m \in Known
    BY KnownTypes DEF TypeInv
  <2>2. c \in KnownCopy
    BY <2>1 DEF KnownCopy, Inbox
  <2> QED BY <2>2 DEF KnownTask
<1>2. messages' = Append(messages, task)
  OBVIOUS
<1>3. messages' \in Seq(KnownTask) /\ messages' \in Seq(Task)
  <2> HIDE DEF task, AskHistory
  <2>1. messages \in Seq(KnownTask) /\ messages \in Seq(Task) /\ task \in Task
    BY <1>1, KnownTypes DEF TypeInv, TypeOK, KnownOK
  <2> QED BY <1>1, <1>2, <2>1, AppendProperties
<1>4. asked' \subseteq Msg \X User
  BY DEF TypeInv, TypeOK
<1> HIDE DEF c, task
<1> QED BY <1>3, <1>4, KnownUnchanged DEF TypeInv, TypeOK, KnownOK

\* Taking a task off the "messages" queue.
LEMMA TakeTypes ==
  ASSUME TypeInv, messages # <<>>
  PROVE  /\ Head(messages) \in KnownTask
         /\ Tail(messages) \in Seq(KnownTask)
         /\ Tail(messages) \in Seq(Task)
         /\ Head(messages).kind = "outgoing" => Head(messages).msg \in Known
         /\ Head(messages).kind = "delivered" => Head(messages).copy \in KnownCopy
<1>1. Head(messages) \in KnownTask /\ Tail(messages) \in Seq(KnownTask)
  BY HeadTailProperties DEF TypeInv, KnownOK
<1>2. Tail(messages) \in Seq(Task)
  BY HeadTailProperties DEF TypeInv, TypeOK
<1> QED BY <1>1, <1>2 DEF KnownTask

LEMMA ReceiveOutgoingTypes ==
  ASSUME TypeInv, ReceiveOutgoing
  PROVE  TypeInv'
<1> USE DEF ReceiveOutgoing, clients, handlers, channel, broker, notices
<1> DEFINE m == Head(messages).msg
<1>1. m \in Known /\ m \in Msg /\ messages' \in Seq(KnownTask) /\ messages' \in Seq(Task)
  BY TakeTypes, KnownTypes DEF TypeInv
<1>2. CASE /\ limiting' = Append(limiting, m)
           /\ UNCHANGED <<looking, members, status, channel, notices>>
  <2>1. limiting' \in Seq(Known) /\ limiting' \in Seq(Msg)
    BY <1>1, <1>2, AppendProperties DEF TypeInv, TypeOK, KnownOK
  <2> QED BY <1>1, <1>2, <2>1, KnownUnchanged DEF TypeInv, TypeOK, KnownOK
<1>3. CASE Outgoing(m) /\ UNCHANGED <<limiting, pubChannel, unconfirmed, rejected>>
  <2> HIDE DEF m
  <2>1. /\ looking' \subseteq Known
        /\ members' \in [Msg -> Seq(Inbox)]
        /\ status' \in [Msg -> {NONE, SENT, DELIVERED}]
        /\ wire' \in Seq(SUBSET KnownJob)
        /\ offlinePubQueue' \subseteq Job
        /\ NoticesOK'
        /\ analytics' \in [Msg -> Nat]
    BY <1>1, <1>3, OutgoingTypes
  <2>2. wire' \in Seq(SUBSET Job) /\ looking' \subseteq Msg
    BY <2>1, WireTypes, KnownTypes DEF TypeInv
  <2>3. TypeOK'
    BY <1>1, <1>3, <2>1, <2>2 DEF TypeInv, TypeOK, NoticesOK
  <2>4. KnownOK'
    BY <1>1, <1>3, <2>1, KnownUnchanged DEF TypeInv, KnownOK
  <2> QED BY <2>3, <2>4 DEF TypeInv
<1> QED BY <1>2, <1>3

LEMMA AdmitTypes ==
  ASSUME TypeInv, Admit
  PROVE  TypeInv'
<1> USE DEF Admit, clients, handlers, channel, broker, notices
<1>1. Head(limiting) \in Known /\ limiting' \in Seq(Known) /\ limiting' \in Seq(Msg)
  BY HeadTailProperties DEF TypeInv, TypeOK, KnownOK
<1>2. /\ looking' \subseteq Known
      /\ members' \in [Msg -> Seq(Inbox)]
      /\ status' \in [Msg -> {NONE, SENT, DELIVERED}]
      /\ wire' \in Seq(SUBSET KnownJob)
      /\ offlinePubQueue' \subseteq Job
      /\ NoticesOK'
      /\ analytics' \in [Msg -> Nat]
  BY <1>1, OutgoingTypes
<1>3. wire' \in Seq(SUBSET Job) /\ looking' \subseteq Msg
  BY <1>2, WireTypes, KnownTypes DEF TypeInv
<1>4. TypeOK'
  BY <1>1, <1>2, <1>3 DEF TypeInv, TypeOK, NoticesOK
<1>5. KnownOK'
  BY <1>1, <1>2, KnownUnchanged DEF TypeInv, KnownOK
<1> QED BY <1>4, <1>5 DEF TypeInv

LEMMA RefuseTypes ==
  ASSUME TypeInv, Refuse
  PROVE  TypeInv'
<1> USE DEF Refuse, clients, handlers, channel, broker, notices
<1>1. limiting' \in Seq(Known) /\ limiting' \in Seq(Msg)
  BY HeadTailProperties DEF TypeInv, TypeOK, KnownOK
<1> QED BY <1>1, KnownUnchanged DEF TypeInv, TypeOK, KnownOK

LEMMA LookupTypes ==
  ASSUME TypeInv, NEW m \in looking, Lookup(m)
  PROVE  TypeInv'
<1> USE DEF clients, handlers, channel, broker, notices
<1>1. m \in Known
  BY DEF TypeInv, KnownOK
<1>2. PICK mem \in Seq(Inbox) :
        /\ looking' = looking \ {m}
        /\ FanOut(m, mem)
        /\ UNCHANGED <<clients, messages, limiting, pubChannel, unconfirmed, rejected,
                       broker, analytics, faults>>
  <2>1. CASE GroupMissing(m)
    <3>1. <<sent[m].sender, sent[m].recipient>> \in Seq(Inbox)
      BY <1>1, SentTypes DEF TypeInv, Inbox
    <3> QED BY <2>1, <3>1 DEF GroupMissing
  <2>2. CASE \E roster \in Roster : GroupFound(m, roster)
    <3>1. PICK roster \in Roster : GroupFound(m, roster)
      BY <2>2
    <3>2. roster \in Seq(Inbox) /\ sent[m].recipient \in Inbox
      BY <1>1, SentTypes, DeliveryAssumption DEF TypeInv, DeliveryAssumption, Inbox
    <3>3. SetKey(roster, sent[m].recipient) \in Seq(Inbox)
      BY <3>2, SetKeyTypes
    <3> QED BY <3>1, <3>3 DEF GroupFound
  <2> QED BY <2>1, <2>2 DEF Lookup
<1>3. /\ members' \in [Msg -> Seq(Inbox)]
      /\ status' \in [Msg -> {NONE, SENT, DELIVERED}]
      /\ wire' \in Seq(SUBSET KnownJob)
      /\ offlinePubQueue' \subseteq Job
      /\ NoticesOK'
  BY <1>1, <1>2, FanOutTypes
<1>4. wire' \in Seq(SUBSET Job)
  BY <1>3, WireTypes DEF TypeInv
<1>5. TypeOK'
  BY <1>2, <1>3, <1>4 DEF TypeInv, TypeOK, NoticesOK
<1>6. KnownOK'
  BY <1>2, <1>3, KnownUnchanged DEF TypeInv, KnownOK
<1> QED BY <1>5, <1>6 DEF TypeInv

LEMMA ReceiveDeliveredTypes ==
  ASSUME TypeInv, ReceiveDelivered
  PROVE  TypeInv'
<1> USE DEF ReceiveDelivered, clients, handlers, channel, broker, notices
<1> DEFINE c == Head(messages).copy
<1>1. c \in KnownCopy /\ messages' \in Seq(KnownTask) /\ messages' \in Seq(Task)
  BY TakeTypes
<1>2. CASE UNCHANGED <<wire, offlinePubQueue, sentHooks, messageProjectCache,
                       userProjectCache>>
  BY <1>1, <1>2, KnownUnchanged DEF TypeInv, TypeOK, KnownOK
<1>3. CASE Deliver(c.msg, {c})
  <2>1. c.msg \in Known /\ {c} \subseteq KnownCopy /\ IsFiniteSet({c})
    BY <1>1, FS_Singleton DEF KnownCopy
  <2> HIDE DEF c
  <2>2. /\ wire' \in Seq(SUBSET KnownJob) /\ offlinePubQueue' \subseteq Job
        /\ NoticesOK'
    BY <1>3, <2>1, DeliverTypes
  <2>3. wire' \in Seq(SUBSET Job)
    BY <2>2, WireTypes DEF TypeInv
  <2>4. TypeOK'
    BY <1>1, <2>2, <2>3 DEF TypeInv, TypeOK, NoticesOK
  <2>5. KnownOK'
    BY <1>1, <2>2, KnownUnchanged DEF TypeInv, KnownOK
  <2> QED BY <2>4, <2>5 DEF TypeInv
<1> QED BY <1>2, <1>3

LEMMA RouteTypes ==
  ASSUME TypeInv, Route
  PROVE  TypeInv'
<1> USE DEF Route, clients, handlers, channel, notices
<1>1. Head(wire) \subseteq KnownJob /\ wire' \in Seq(SUBSET KnownJob)
  BY HeadTailProperties DEF TypeInv, KnownOK
<1>2. wire' \in Seq(SUBSET Job) /\ unconfirmed' \subseteq KnownJob /\ unconfirmed' \subseteq Job
  BY <1>1, KnownTypes DEF TypeInv, KnownOK
<1>3. inbox' \in [Inbox -> Seq(Copy)] /\ persist' \subseteq KnownCopy /\ persist' \subseteq Copy
  BY <1>1, ArriveTypes, KnownTypes DEF TypeInv
<1> QED BY <1>1, <1>2, <1>3, KnownUnchanged DEF TypeInv, TypeOK, KnownOK

LEMMA RejectTypes ==
  ASSUME TypeInv, NEW j, Reject(j)
  PROVE  TypeInv'
<1> USE DEF Reject, clients, handlers, channel, notices
<1>1. Head(wire) \subseteq KnownJob /\ wire' \in Seq(SUBSET KnownJob)
  BY HeadTailProperties DEF TypeInv, KnownOK
<1>2. /\ wire' \in Seq(SUBSET Job)
      /\ unconfirmed' \subseteq KnownJob /\ unconfirmed' \subseteq Job
      /\ rejected' \subseteq unconfirmed'
  BY <1>1, KnownTypes DEF TypeInv, TypeOK, KnownOK
<1>3. Head(wire) \ {j} \subseteq KnownJob
  BY <1>1
<1>4. inbox' \in [Inbox -> Seq(Copy)] /\ persist' \subseteq KnownCopy /\ persist' \subseteq Copy
  BY <1>3, ArriveTypes, KnownTypes DEF TypeInv
<1>5. faults' \in 0 .. MaxFaults
  BY DeliveryAssumption DEF DeliveryAssumption, TypeInv, TypeOK
<1>6. TypeOK'
  BY <1>2, <1>4, <1>5 DEF TypeInv, TypeOK
<1>7. KnownOK'
  BY <1>1, <1>2, <1>4, KnownUnchanged DEF TypeInv, KnownOK
<1> QED BY <1>6, <1>7 DEF TypeInv

LEMMA ConfirmTypes ==
  ASSUME TypeInv, NEW j \in unconfirmed, ConfirmAdded(j.copy) \/ ConfirmPersist(j.copy)
  PROVE  TypeInv'
<1> USE DEF clients, handlers, broker, notices
<1> DEFINE c == j.copy
<1>1. c \in KnownCopy /\ c.msg \in Known /\ c.msg \in Msg
  BY KnownTypes DEF TypeInv, KnownOK, KnownJob, KnownCopy
<1>2. {Added(d) : d \in FollowUp(c)} \subseteq KnownJob /\ Persist(c) \in KnownJob
  BY <1>1, FollowUpTypes, JobTypes DEF TypeInv
<1>3. PICK jobs \in SUBSET KnownJob : Publish(jobs)
  <2>1. CASE ConfirmAdded(c)
    <3>1. Publish(IF Fits(Persist(c)) THEN {Persist(c)}
                                      ELSE {Added(d) : d \in FollowUp(c)})
      BY <2>1 DEF ConfirmAdded
    <3> QED BY <1>2, <3>1
  <2>2. CASE ConfirmPersist(c)
    BY <1>2, <2>2 DEF ConfirmPersist
  <2> QED BY <2>1, <2>2
<1>4. /\ wire' \in Seq(SUBSET KnownJob) /\ wire' \in Seq(SUBSET Job)
      /\ offlinePubQueue' \subseteq Job
  BY <1>3, PublishTypes, WireTypes DEF TypeInv
<1>5. /\ rejected' \subseteq unconfirmed'
      /\ unconfirmed' \subseteq unconfirmed
      /\ UNCHANGED <<clients, messages, handlers, pubChannel, broker, faults>>
  BY DEF ConfirmAdded, ConfirmPersist, TypeInv, TypeOK
<1>6. NoticesOK' /\ analytics' \in [Msg -> Nat]
  <2>1. CASE ConfirmAdded(c)
    <3> DEFINE done == IF StatusSeen(c) = DELIVERED THEN {c} ELSE {}
               n == IF IsGroup(c.msg) THEN 0 ELSE Cardinality(done)
    <3>1. Announce(c.msg, {c}, done) /\ Track(c.msg, n)
      BY <2>1 DEF ConfirmAdded
    <3>2. IsFiniteSet({c}) /\ Cardinality({c}) = 1
      <4> HIDE DEF c
      <4> QED BY FS_Singleton
    <3>3. n \in Nat
      BY <3>2, FS_EmptySet
    <3> HIDE DEF c, done, n
    <3> QED BY <1>1, <3>1, <3>2, <3>3, AnnounceTypes, TrackTypes
  <2>2. CASE ConfirmPersist(c)
    BY <2>2 DEF ConfirmPersist, NoticesOK, TypeInv, TypeOK
  <2> QED BY <2>1, <2>2
<1>7. TypeOK'
  BY <1>4, <1>5, <1>6 DEF TypeInv, TypeOK, NoticesOK
<1>8. KnownOK'
  BY <1>4, <1>5, KnownUnchanged DEF TypeInv, KnownOK
<1> QED BY <1>7, <1>8 DEF TypeInv

\* The connection's end, by basic.nack or by itself.
LEMMA SeverPreservesTypes ==
  ASSUME TypeInv, NEW failed, failed \subseteq KnownJob, Sever(failed),
         UNCHANGED <<clients, handlers, notices>>, faults' \in 0 .. MaxFaults
  PROVE  TypeInv'
<1> USE DEF clients, handlers, notices
<1>1. /\ inbox' \in [Inbox -> Seq(Copy)] /\ persist' \subseteq KnownCopy
      /\ messages' \in Seq(KnownTask)
      /\ offlinePubQueue' \subseteq Job
  BY SeverTypes
<1>2. persist' \subseteq Copy /\ messages' \in Seq(Task)
  BY <1>1, KnownTypes DEF TypeInv
<1>3. /\ pubChannel' \in BOOLEAN
      /\ wire' \in Seq(SUBSET Job) /\ wire' \in Seq(SUBSET KnownJob)
      /\ unconfirmed' = {} /\ rejected' = {}
  <2>1. pubChannel' = FALSE /\ wire' = <<>> /\ unconfirmed' = {} /\ rejected' = {}
    BY DEF Sever
  <2>2. wire' \in Seq(SUBSET Job) /\ wire' \in Seq(SUBSET KnownJob)
    BY <2>1, EmptyTypes
  <2> QED BY <2>1, <2>2
<1>4. TypeOK'
  BY <1>1, <1>2, <1>3 DEF TypeInv, TypeOK
<1>5. KnownOK'
  BY <1>1, <1>3, KnownUnchanged DEF TypeInv, KnownOK
<1> QED BY <1>4, <1>5 DEF TypeInv

LEMMA NackTypes ==
  ASSUME TypeInv, NEW j, Nack(j)
  PROVE  TypeInv'
<1>1. j \in KnownJob
  BY DEF Nack, TypeInv, TypeOK, KnownOK
<1>2. PICK failed \in {{j}, Pending} : Sever(failed)
  BY DEF Nack
<1>3. failed \subseteq KnownJob
  BY <1>1, <1>2, PendingTypes
<1>4. UNCHANGED <<clients, handlers, notices>> /\ faults' \in 0 .. MaxFaults
  BY DEF Nack, TypeInv, TypeOK
<1> QED BY <1>2, <1>3, <1>4, SeverPreservesTypes

LEMMA DisconnectTypes ==
  ASSUME TypeInv, Disconnect
  PROVE  TypeInv'
<1>1. PICK failed \in {{}, Pending} : Sever(failed)
  BY DEF Disconnect
<1>2. failed \subseteq KnownJob
  BY <1>1, PendingTypes
<1>3. UNCHANGED <<clients, handlers, notices>> /\ faults' \in 0 .. MaxFaults
  BY DeliveryAssumption DEF Disconnect, TypeInv, TypeOK, DeliveryAssumption
<1> QED BY <1>1, <1>2, <1>3, SeverPreservesTypes

LEMMA CrashTypes ==
  ASSUME TypeInv, Crash
  PROVE  TypeInv'
<1> USE DEF clients
<1>1. PICK part \in SUBSET (IF wire = <<>> THEN {} ELSE Head(wire)) : Arrive(part)
  BY DEF Crash
<1>2. part \subseteq KnownJob
  BY <1>1, HeadTailProperties DEF TypeInv, KnownOK
<1>3. inbox' \in [Inbox -> Seq(Copy)] /\ persist' \subseteq KnownCopy /\ persist' \subseteq Copy
  BY <1>1, <1>2, ArriveTypes, KnownTypes DEF TypeInv
<1>4. messages' \in Seq(KnownTask) /\ messages' \in Seq(Task)
  BY KnownTypes DEF Crash, LosePushed, TypeInv, KnownOK
<1>5. faults' \in 0 .. MaxFaults
  BY DeliveryAssumption DEF Crash, TypeInv, TypeOK, DeliveryAssumption
<1>6. /\ pubChannel' \in BOOLEAN
      /\ wire' \in Seq(SUBSET Job) /\ wire' \in Seq(SUBSET KnownJob)
      /\ unconfirmed' = {} /\ rejected' = {} /\ offlinePubQueue' = {}
      /\ limiting' \in Seq(Msg) /\ limiting' \in Seq(Known) /\ looking' = {}
  <2>1. /\ pubChannel' = FALSE /\ wire' = <<>> /\ unconfirmed' = {} /\ rejected' = {}
        /\ offlinePubQueue' = {} /\ limiting' = <<>> /\ looking' = {}
    BY DEF Crash
  <2>2. /\ wire' \in Seq(SUBSET Job) /\ wire' \in Seq(SUBSET KnownJob)
        /\ limiting' \in Seq(Msg) /\ limiting' \in Seq(Known)
    BY <2>1, EmptyTypes
  <2> QED BY <2>1, <2>2
<1>7. /\ messageProjectCache' \in [Msg -> {NONE} \cup Project]
      /\ userProjectCache' \in [Inbox -> {NONE} \cup Project]
      /\ UNCHANGED <<clients, members, status, sentHooks, analytics>>
  BY DEF Crash
<1>8. TypeOK'
  BY <1>3, <1>4, <1>5, <1>6, <1>7 DEF TypeInv, TypeOK
<1>9. KnownOK'
  BY <1>3, <1>4, <1>6, <1>7, KnownUnchanged DEF TypeInv, KnownOK
<1> QED BY <1>8, <1>9 DEF TypeInv

LEMMA ReconnectTypes ==
  ASSUME TypeInv, Reconnect
  PROVE  TypeInv'
BY KnownUnchanged
   DEF Reconnect, clients, handlers, broker, notices, TypeInv, TypeOK, KnownOK

LEMMA NextTypes ==
  ASSUME TypeInv, [Next]_vars
  PROVE  TypeInv'
<1>1. CASE \E e \in Envelope : Send(e)
  BY <1>1, SendTypes
<1>2. CASE \E m \in Msg, u \in User, st \in {SENT, DELIVERED} : AskHistory(m, u, st)
  BY <1>2, AskHistoryTypes
<1>3. CASE \E m \in looking : Lookup(m)
  BY <1>3, LookupTypes
<1>4. CASE Confirm
  BY <1>4, ConfirmTypes DEF Confirm
<1>5. CASE \E j \in Pending : Reject(j) \/ Nack(j)
  BY <1>5, RejectTypes, NackTypes
<1>6. CASE UNCHANGED vars
  BY <1>6, KnownUnchanged
     DEF vars, clients, handlers, channel, broker, notices, TypeInv, TypeOK, KnownOK
<1> QED BY <1>1, <1>2, <1>3, <1>4, <1>5, <1>6, ReceiveOutgoingTypes,
           ReceiveDeliveredTypes, AdmitTypes, RefuseTypes, RouteTypes,
           DisconnectTypes, CrashTypes, ReconnectTypes DEF Next

\* Every variable keeps its type, and every handler, queue and publish is about a
\* message that was sent.
THEOREM TypeCorrect == Spec => []TypeInv
<1>1. Init => TypeInv
  BY InitTypes
<1>2. TypeInv /\ [Next]_vars => TypeInv'
  BY NextTypes
<1> QED BY <1>1, <1>2, PTL DEF Spec

\* TypeOK alone, as the runs check it.
THEOREM TypeOKHolds == Spec => []TypeOK
<1>1. TypeInv => TypeOK
  BY DEF TypeInv
<1> QED BY <1>1, TypeCorrect, PTL

-----------------------------------------------------------------------------
(***************************************************************************)
(* The safety of the copies of Delivery: what is stored was shown, the     *)
(* recipient of a direct message comes after its sender, and a hidden      *)
(* member is never shown the message.  All three follow from CopyInv, which *)
(* says of every publish on its way what the three say of those arrived.   *)
(***************************************************************************)

RecipientCopy(m) ==
  [msg |-> m, box |-> sent[m].recipient, status |-> DELIVERED, history |-> FALSE]

\* A copy that somebody is entitled to, now.
CopyOK(c) ==
  /\ IsGroup(c.msg) /\ ~ c.history => c.box # sent[c.msg].hiddenFor
  /\ ~ IsGroup(c.msg) => c \in {SenderCopy(c.msg), RecipientCopy(c.msg)}
  /\ ~ IsGroup(c.msg) /\ c.status = DELIVERED => SenderCopy(c.msg) \in persist

\* At most one copy for each timeline among the publishes of one turn.
OnePerBox(jobs) ==
  \A j, k \in jobs :
    j.topic = "clientadded" /\ k.topic = "clientadded" /\ j.copy.box = k.copy.box
      => j = k

BurstOK(jobs) ==
  /\ OnePerBox(jobs)
  /\ \A j \in jobs : CopyOK(j.copy) /\ (j.topic = "persist" => Shown(j.copy))

WireOK == \A i \in DOMAIN wire : BurstOK(wire[i])

\* A publish that will be confirmed has arrived.
ArrivedOK ==
  \A j \in unconfirmed \ rejected :
    /\ CopyOK(j.copy) /\ Shown(j.copy)
    /\ j.topic = "persist" => j.copy \in persist

InboxOK == \A c \in Copies : CopyOK(c)

CopiesKnown == Copies \subseteq KnownCopy

\* The HTTP server replays group messages only.
TasksOK ==
  \A i \in DOMAIN messages :
    messages[i].kind = "delivered" =>
      IsGroup(messages[i].copy.msg) /\ messages[i].copy.history

\* An outgoing topic that fits leaves room for every key of a direct message.
SentOK ==
  \A m \in Known : 48 + IdLen[sent[m].sender] + IdLen[sent[m].recipient] <= 255

\* Only the handlers of group messages wait for getGroup().
LookingOK == \A m \in looking : IsGroup(m)

CopyInv ==
  /\ WireOK /\ ArrivedOK /\ InboxOK /\ CopiesKnown /\ TasksOK /\ SentOK
  /\ PersistedWasShown

\* No step takes back a message, a stored copy or a copy shown.
Grows ==
  /\ \A m \in Known : m \in Known' /\ sent'[m] = sent[m]
  /\ persist \subseteq persist'
  /\ \A c \in Copy : Shown(c) => Shown(c)'

-----------------------------------------------------------------------------

LEMMA CopyStays ==
  ASSUME Grows, NEW c \in KnownCopy, CopyOK(c)
  PROVE  CopyOK(c)'
<1>1. c.msg \in Known
  BY DEF KnownCopy
<1>2. sent'[c.msg] = sent[c.msg]
  BY <1>1 DEF Grows
<1>3. persist \subseteq persist'
  BY DEF Grows
<1> QED BY <1>2, <1>3 DEF CopyOK, IsGroup, SenderCopy, RecipientCopy

LEMMA BurstStays ==
  ASSUME TypeInv, Grows, NEW jobs \in SUBSET KnownJob, BurstOK(jobs)
  PROVE  BurstOK(jobs)'
<1>1. \A j \in jobs : j.copy \in KnownCopy /\ j.copy \in Copy
  BY KnownTypes DEF TypeInv, KnownJob
<1>2. \A j \in jobs : CopyOK(j.copy)'
  BY <1>1, CopyStays DEF BurstOK
<1>3. \A j \in jobs : j.topic = "persist" => Shown(j.copy)'
  BY <1>1 DEF BurstOK, Grows
<1> QED BY <1>2, <1>3 DEF BurstOK, OnePerBox

LEMMA WireStays ==
  ASSUME TypeInv, WireOK, Grows,
         \A i \in DOMAIN wire' :
           wire'[i] \in {wire[k] : k \in DOMAIN wire}
             \/ (wire'[i] \in SUBSET KnownJob /\ BurstOK(wire'[i]))
  PROVE  WireOK'
<1>1. \A k \in DOMAIN wire : wire[k] \in SUBSET KnownJob /\ BurstOK(wire[k])
  BY DEF TypeInv, KnownOK, WireOK
<1>2. \A i \in DOMAIN wire' : wire'[i] \in SUBSET KnownJob /\ BurstOK(wire'[i])
  BY <1>1
<1>3. ASSUME NEW i \in DOMAIN wire', NEW b, b = wire'[i]
      PROVE  BurstOK(b)'
  <2>1. b \in SUBSET KnownJob /\ BurstOK(b)
    BY <1>2, <1>3
  <2> QED BY <2>1, BurstStays
<1> QED BY <1>3 DEF WireOK

LEMMA SameGrows ==
  ASSUME sent' = sent, inbox' = inbox, persist' = persist
  PROVE  Grows
BY DEF Grows, Known, Shown

\* publish() puts one good burst on the connection, or nothing.
LEMMA PublishOK ==
  ASSUME TypeInv, WireOK, Grows, NEW jobs \in SUBSET KnownJob, Publish(jobs),
         pubChannel => BurstOK({j \in jobs : Fits(j)})
  PROVE  WireOK'
<1> DEFINE valid == {j \in jobs : Fits(j)}
<1>1. CASE wire' = wire
  BY <1>1, WireStays
<1>2. CASE pubChannel /\ wire' = Append(wire, valid)
  <2>1. valid \in SUBSET KnownJob /\ BurstOK(valid)
    BY <1>2
  <2> HIDE DEF valid
  <2>2. wire \in Seq(SUBSET KnownJob)
    BY DEF TypeInv, KnownOK
  <2>3. \A i \in DOMAIN wire' :
          wire'[i] = valid \/ (i \in DOMAIN wire /\ wire'[i] = wire[i])
    BY <1>2, <2>1, <2>2, AppendProperties
  <2> QED BY <2>1, <2>3, WireStays
<1> QED BY <1>1, <1>2 DEF Publish

-----------------------------------------------------------------------------
(* Arrivals.                                                               *)

ArrivedCopy(jobs, b) ==
  (CHOOSE j \in {k \in jobs : k.topic = "clientadded" /\ k.copy.box = b} : TRUE).copy

\* What a timeline holds after an arrival: what it held, and the copy for it.
LEMMA ArriveInbox ==
  ASSUME TypeInv, NEW jobs \in SUBSET KnownJob, Arrive(jobs), NEW b \in Inbox
  PROVE  LET ShownTo == {k \in jobs : k.topic = "clientadded" /\ k.copy.box = b} IN
         Range(inbox'[b]) =
           Range(inbox[b]) \cup (IF ShownTo = {} THEN {} ELSE {ArrivedCopy(jobs, b)})
<1> DEFINE ShownTo == {k \in jobs : k.topic = "clientadded" /\ k.copy.box = b}
<1>1. inbox'[b] = IF ShownTo = {} THEN inbox[b]
                  ELSE Append(inbox[b], ArrivedCopy(jobs, b))
  BY DEF Arrive, ArrivedCopy
<1>2. inbox[b] \in Seq(Copy)
  BY DEF TypeInv, TypeOK
<1>3. CASE ShownTo = {}
  BY <1>1, <1>3
<1>4. CASE ShownTo # {}
  <2>1. ArrivedCopy(jobs, b) \in Copy
    BY <1>4, KnownTypes DEF ArrivedCopy, TypeInv, KnownJob
  <2> DEFINE a == ArrivedCopy(jobs, b)
             s == inbox[b]
             t == inbox'[b]
  <2>2. s \in Seq(Copy) /\ a \in Copy /\ t = Append(s, a)
    BY <1>1, <1>2, <1>4, <2>1
  <2> HIDE DEF a, s, t
  <2>3. /\ DOMAIN s = 1 .. Len(s) /\ DOMAIN t = 1 .. Len(s) + 1 /\ Len(s) \in Nat
        /\ \A i \in 1 .. Len(s) : t[i] = s[i]
        /\ t[Len(s) + 1] = a
    BY <2>2, AppendProperties
  <2>4. Range(t) = Range(s) \cup {a}
    BY <2>3 DEF Range
  <2> QED BY <1>4, <2>4 DEF s, t, a
<1> QED BY <1>3, <1>4

LEMMA ArriveGrows ==
  ASSUME TypeInv, NEW jobs \in SUBSET KnownJob, Arrive(jobs), sent' = sent
  PROVE  Grows
<1>1. \A c \in Copy : Shown(c) => Shown(c)'
  <2>1. \A b \in Inbox : Range(inbox[b]) \subseteq Range(inbox'[b])
    BY ArriveInbox
  <2> QED BY <2>1 DEF Shown, Copy
<1>2. persist \subseteq persist'
  BY DEF Arrive
<1> QED BY <1>1, <1>2 DEF Grows, Known

\* Every copy published in a good burst is shown by its arrival.
LEMMA ArriveShows ==
  ASSUME TypeInv, NEW jobs \in SUBSET KnownJob, OnePerBox(jobs), Arrive(jobs),
         NEW j \in jobs, j.topic = "clientadded"
  PROVE  Shown(j.copy)'
<1> DEFINE b == j.copy.box
           ShownTo == {k \in jobs : k.topic = "clientadded" /\ k.copy.box = b}
<1>1. b \in Inbox
  BY DEF KnownJob, KnownCopy
<1>2. ShownTo = {j}
  BY DEF OnePerBox
<1>3. ArrivedCopy(jobs, b) = j.copy
  BY <1>2 DEF ArrivedCopy
<1>4. Range(inbox'[b]) = Range(inbox[b]) \cup {ArrivedCopy(jobs, b)}
  BY <1>1, <1>2, ArriveInbox
<1> QED BY <1>3, <1>4 DEF Shown

\* Nothing else is shown.
LEMMA ArriveOnly ==
  ASSUME TypeInv, NEW jobs \in SUBSET KnownJob, Arrive(jobs), NEW c \in Copies'
  PROVE  c \in Copies \/ \E j \in jobs : j.topic = "clientadded" /\ c = j.copy
<1>1. PICK b \in Inbox : c \in Range(inbox'[b])
  BY DEF Copies
<1> DEFINE ShownTo == {k \in jobs : k.topic = "clientadded" /\ k.copy.box = b}
<1>2. Range(inbox'[b]) =
        Range(inbox[b]) \cup (IF ShownTo = {} THEN {} ELSE {ArrivedCopy(jobs, b)})
  BY ArriveInbox
<1>3. CASE c \in Range(inbox[b])
  BY <1>3 DEF Copies
<1>4. CASE ShownTo # {} /\ c = ArrivedCopy(jobs, b)
  BY <1>4 DEF ArrivedCopy
<1> QED BY <1>1, <1>2, <1>3, <1>4

\* The arrival of a good burst, or of a part of one.
LEMMA ArriveOK ==
  ASSUME TypeInv, CopyInv, sent' = sent,
         NEW burst \in SUBSET KnownJob, BurstOK(burst),
         NEW jobs \in SUBSET burst, Arrive(jobs)
  PROVE  /\ Grows /\ InboxOK' /\ CopiesKnown' /\ PersistedWasShown'
         /\ \A j \in jobs : /\ CopyOK(j.copy)' /\ Shown(j.copy)'
                            /\ j.topic = "persist" => j.copy \in persist'
<1>1. jobs \in SUBSET KnownJob /\ OnePerBox(jobs)
  BY DEF BurstOK, OnePerBox
<1>2. \A j \in jobs : /\ j.copy \in KnownCopy /\ j.copy \in Copy
                      /\ j.topic \in {"clientadded", "persist"}
  BY <1>1, KnownTypes DEF TypeInv, KnownJob
<1>3. Grows
  BY <1>1, ArriveGrows
<1>4. \A j \in jobs : CopyOK(j.copy) /\ CopyOK(j.copy)'
  BY <1>2, <1>3, CopyStays DEF BurstOK
<1>5. \A j \in jobs : Shown(j.copy)'
  <2>1. ASSUME NEW j \in jobs, j.topic = "clientadded"
        PROVE  Shown(j.copy)'
    BY <1>1, <2>1, ArriveShows
  <2>2. ASSUME NEW j \in jobs, j.topic = "persist"
        PROVE  Shown(j.copy)'
    BY <1>2, <1>3, <2>2 DEF BurstOK, Grows
  <2> QED BY <1>2, <2>1, <2>2
<1>6. \A j \in jobs : j.topic = "persist" => j.copy \in persist'
  BY DEF Arrive
<1>7. InboxOK'
  <2> SUFFICES ASSUME NEW c \in Copies' PROVE CopyOK(c)'
    BY DEF InboxOK
  <2>1. CASE \E j \in jobs : j.topic = "clientadded" /\ c = j.copy
    BY <1>4, <2>1
  <2>2. CASE c \in Copies
    <3>1. CopyOK(c)
      BY <2>2 DEF CopyInv, InboxOK
    <3>2. sent' = sent /\ persist \subseteq persist'
      BY <1>3 DEF Grows
    <3> QED BY <3>1, <3>2 DEF CopyOK, IsGroup, SenderCopy, RecipientCopy
  <2> QED BY <1>1, <2>1, <2>2, ArriveOnly
<1>8. PersistedWasShown'
  <2> SUFFICES ASSUME NEW c \in persist' PROVE Shown(c)'
    BY DEF PersistedWasShown
  <2>1. CASE c \in persist
    <3>1. Shown(c) /\ c \in Copy
      BY <2>1, KnownTypes DEF CopyInv, PersistedWasShown, TypeInv, TypeOK
    <3> QED BY <1>3, <3>1 DEF Grows
  <2>2. CASE \E j \in jobs : c = j.copy
    BY <1>5, <2>2
  <2> QED BY <2>1, <2>2 DEF Arrive
<1>9. CopiesKnown'
  <2>1. Copies' \subseteq Copies \cup KnownCopy
    BY <1>1, <1>2, ArriveOnly
  <2> QED BY <2>1, KnownUnchanged DEF CopyInv, CopiesKnown
<1> QED BY <1>3, <1>4, <1>5, <1>6, <1>7, <1>8, <1>9

-----------------------------------------------------------------------------
(* Handlers.                                                               *)

\* The keys of a copy: the persist key is the longer one.
LEMMA KeyTypes ==
  ASSUME TypeInv, NEW c \in KnownCopy
  PROVE  /\ ConversWith(c) \in Inbox /\ c.box \in Inbox
         /\ \A b \in Inbox : IdLen[b] \in Nat
         /\ KeyLength(Added(c)) = 42 + IdLen[c.box] + IdLen[ConversWith(c)]
         /\ KeyLength(Persist(c)) = 47 + IdLen[c.box] + IdLen[ConversWith(c)]
<1>1. c.msg \in Known /\ c.box \in Inbox
  BY DEF KnownCopy
<1>2. ConversWith(c) \in Inbox
  BY <1>1, SentTypes DEF TypeInv, ConversWith, Inbox
<1>3. \A b \in Inbox : IdLen[b] \in Nat
  BY DeliveryAssumption DEF DeliveryAssumption
<1> QED BY <1>1, <1>2, <1>3 DEF KeyLength, Added, Persist

LEMMA LongKeys ==
  ASSUME TypeInv, NEW c \in KnownCopy, ~ Fits(Added(c))
  PROVE  ~ Fits(Persist(c))
<1> DEFINE x == IdLen[c.box]
           y == IdLen[ConversWith(c)]
<1>1. /\ x \in Nat /\ y \in Nat
      /\ KeyLength(Added(c)) = 42 + x + y /\ KeyLength(Persist(c)) = 47 + x + y
  BY KeyTypes
<1> HIDE DEF x, y
<1> QED BY <1>1 DEF Fits

\* deliverMessage() of good copies, one for each timeline.
LEMMA DeliverOK ==
  ASSUME TypeInv, CopyInv, Grows, NEW m \in Known,
         NEW copies \in SUBSET KnownCopy, Deliver(m, copies),
         \A c \in copies : CopyOK(c),
         \A c, d \in copies : c.box = d.box => c = d
  PROVE  WireOK'
<1> DEFINE long == {c \in copies : ~ Fits(Added(c))}
           failed == IF pubChannel THEN {} ELSE UNION {FollowUp(c) : c \in copies}
           jobs == {Added(c) : c \in copies \cup failed} \cup {Persist(c) : c \in long}
           valid == {j \in jobs : Fits(j)}
<1>1. Publish(jobs)
  BY DEF Deliver
<1>2. failed \subseteq KnownCopy
  BY FollowUpTypes DEF TypeInv
<1>3. jobs \in SUBSET KnownJob
  BY <1>2, JobTypes
<1>4. ASSUME pubChannel
      PROVE  BurstOK(valid)
  <2>1. \A j \in valid : \E c \in copies : j = Added(c)
    <3>1. \A c \in long : ~ Fits(Persist(c))
      BY LongKeys
    <3> QED BY <1>4, <3>1
  <2> HIDE DEF valid
  <2>2. \A j \in valid : CopyOK(j.copy) /\ j.topic = "clientadded"
    BY <2>1 DEF Added
  <2>3. OnePerBox(valid)
    BY <2>1 DEF OnePerBox, Added
  <2> QED BY <2>2, <2>3 DEF BurstOK
<1>5. WireOK
  BY DEF CopyInv
<1> HIDE DEF jobs
<1> QED BY <1>1, <1>3, <1>4, <1>5, PublishOK

LEMMA FanOutOK ==
  ASSUME TypeInv, CopyInv, Grows, NEW m \in Known, IsGroup(m),
         NEW mem \in Seq(Inbox), FanOut(m, mem)
  PROVE  WireOK'
<1>1. PICK n \in 0 .. Len(mem) :
        LoopEnds(m, mem, n) /\ Deliver(m, {GroupCopy(m, mem[i]) : i \in 1 .. n})
  BY DEF FanOut
<1> DEFINE copies == {GroupCopy(m, mem[i]) : i \in 1 .. n}
<1>2. Len(mem) \in Nat /\ n \in Nat /\ \A i \in 1 .. n : mem[i] \in Inbox
  BY <1>1
<1>3. copies \in SUBSET KnownCopy
  BY <1>2, GroupCopyTypes DEF TypeInv
<1>4. \A i \in 1 .. n : mem[i] # sent[m].hiddenFor
  BY <1>1 DEF LoopEnds
<1>5. \A c \in copies : CopyOK(c)
  BY <1>4 DEF CopyOK, GroupCopy, IsGroup
<1>6. \A c, d \in copies : c.box = d.box => c = d
  <2>1. \A b : GroupCopy(m, b).box = b
    BY DEF GroupCopy
  <2>2. \A c \in copies : c = GroupCopy(m, c.box)
    BY <2>1
  <2> HIDE DEF copies
  <2> QED BY <2>2
<1> HIDE DEF copies
<1> QED BY <1>1, <1>3, <1>5, <1>6, DeliverOK DEF copies

LEMMA OutgoingOK ==
  ASSUME TypeInv, CopyInv, Grows, NEW m \in Known, Outgoing(m)
  PROVE  WireOK'
<1>1. CASE ~ IsGroup(m) /\ Deliver(m, {SenderCopy(m)})
  <2>1. SenderCopy(m) \in KnownCopy
    BY SentTypes DEF TypeInv, SenderCopy, KnownCopy, Inbox
  <2>2. CopyOK(SenderCopy(m))
    BY <1>1 DEF CopyOK, SenderCopy, SENT, DELIVERED
  <2> QED BY <1>1, <2>1, <2>2, DeliverOK
<1>2. CASE /\ IsGroup(m) /\ sent[m].group # NONE
           /\ FanOut(m, SetKey(SetKey(sent[m].group, sent[m].recipient),
                               sent[m].sender))
  <2>1. /\ sent[m].group \in Seq(User)
        /\ sent[m].recipient \in Inbox
        /\ sent[m].sender \in Inbox
    BY <1>2, SentTypes DEF TypeInv, Inbox
  <2>2. sent[m].group \in Seq(Inbox)
    BY <2>1 DEF Inbox
  <2>3. SetKey(SetKey(sent[m].group, sent[m].recipient), sent[m].sender) \in Seq(Inbox)
    BY <2>1, <2>2, SetKeyTypes
  <2> QED BY <1>2, <2>3, FanOutOK
<1>3. CASE wire' = wire
  BY <1>3, WireStays DEF CopyInv
<1> QED BY <1>1, <1>2, <1>3 DEF Outgoing, SenderCopy

\* A step that leaves the broker alone and keeps the wire good.
LEMMA HandlerOK ==
  ASSUME TypeInv, CopyInv, WireOK', TasksOK',
         sent' = sent, inbox' = inbox, persist' = persist,
         unconfirmed' \ rejected' \subseteq unconfirmed \ rejected
  PROVE  CopyInv'
<1>1. ArrivedOK'
  <2>1. \A c : CopyOK(c)' <=> CopyOK(c)
    BY DEF CopyOK, IsGroup, SenderCopy, RecipientCopy
  <2>2. \A c : Shown(c)' <=> Shown(c)
    BY DEF Shown
  <2> QED BY <2>1, <2>2 DEF CopyInv, ArrivedOK
<1>2. InboxOK'
  BY DEF CopyInv, InboxOK, Copies, CopyOK, IsGroup, SenderCopy, RecipientCopy
<1>3. SentOK' /\ PersistedWasShown'
  BY DEF CopyInv, SentOK, Known, PersistedWasShown, Shown
<1>4. CopiesKnown'
  BY KnownUnchanged DEF CopyInv, CopiesKnown, Copies
<1> QED BY <1>1, <1>2, <1>3, <1>4 DEF CopyInv

LEMMA TasksStay ==
  ASSUME TypeInv, TasksOK, sent' = sent,
         messages' = messages \/ (messages # <<>> /\ messages' = Tail(messages))
           \/ \E k \in 0 .. Len(messages) : messages' = SubSeq(messages, k + 1, Len(messages))
  PROVE  TasksOK'
<1>1. messages \in Seq(KnownTask)
  BY DEF TypeInv, KnownOK
<1>2. \A i \in DOMAIN messages' : \E k \in DOMAIN messages : messages'[i] = messages[k]
  <2>1. CASE messages' = messages
    BY <2>1
  <2>2. CASE messages # <<>> /\ messages' = Tail(messages)
    BY <1>1, <2>2, HeadTailProperties
  <2>3. CASE \E k \in 0 .. Len(messages) : messages' = SubSeq(messages, k + 1, Len(messages))
    <3>1. PICK k \in 0 .. Len(messages) : messages' = SubSeq(messages, k + 1, Len(messages))
      BY <2>3
    <3>2. Len(messages) \in Nat /\ DOMAIN messages = 1 .. Len(messages)
      BY <1>1
    <3>3. DOMAIN messages' = 1 .. Len(messages) - k
          /\ \A i \in 1 .. Len(messages) - k : messages'[i] = messages[k + i]
      BY <1>1, <3>1, <3>2, SubSeqProperties
    <3> QED BY <3>2, <3>3
  <2> QED BY <2>1, <2>2, <2>3
<1> QED BY <1>2 DEF TasksOK, IsGroup

\* What had arrived stays so; what arrives in this step is added to it.
LEMMA ArrivedStay ==
  ASSUME TypeInv, CopyInv, Grows,
         \A j \in unconfirmed' \ rejected' :
           \/ j \in unconfirmed \ rejected
           \/ /\ CopyOK(j.copy)' /\ Shown(j.copy)'
              /\ j.topic = "persist" => j.copy \in persist'
  PROVE  ArrivedOK'
<1>1. ASSUME NEW j \in unconfirmed \ rejected
      PROVE  /\ CopyOK(j.copy)' /\ Shown(j.copy)'
             /\ j.topic = "persist" => j.copy \in persist'
  <2>1. j.copy \in KnownCopy /\ j.copy \in Copy
    BY KnownTypes DEF TypeInv, KnownOK, KnownJob
  <2>2. CopyOK(j.copy) /\ Shown(j.copy) /\ (j.topic = "persist" => j.copy \in persist)
    BY DEF CopyInv, ArrivedOK
  <2>3. CopyOK(j.copy)'
    BY <2>1, <2>2, CopyStays
  <2> QED BY <2>1, <2>2, <2>3 DEF Grows
<1> QED BY <1>1 DEF ArrivedOK

-----------------------------------------------------------------------------

LEMMA InitOK ==
  ASSUME Init
  PROVE  CopyInv
<1>1. Copies = {}
  BY DEF Init, Copies, Range
<1> QED BY <1>1 DEF Init, CopyInv, WireOK, ArrivedOK, InboxOK, CopiesKnown, TasksOK, SentOK, Known,
                    PersistedWasShown

LEMMA SendOK ==
  ASSUME TypeInv, CopyInv, NEW e \in Envelope, Send(e)
  PROVE  CopyInv'
<1> USE DEF Send, handlers, channel, broker, notices
<1>1. sent \in Seq(Envelope) /\ messages \in Seq(KnownTask)
  BY DEF TypeInv, TypeOK, KnownOK
<1>2. /\ Known = 1 .. Len(sent) /\ Known' = 1 .. Len(sent) + 1 /\ Len(sent) \in Nat
      /\ \A m \in Known : sent'[m] = sent[m]
      /\ sent'[Len(sent) + 1] = e
  BY <1>1, AppendProperties DEF Known
<1>3. Grows
  BY <1>2 DEF Grows, Shown
<1>4. WireOK'
  BY <1>3, WireStays DEF CopyInv
<1>5. ArrivedOK'
  <2>1. \A j \in unconfirmed : j.copy \in KnownCopy
    BY DEF TypeInv, KnownOK, KnownJob
  <2>2. \A j \in unconfirmed \ rejected : CopyOK(j.copy)'
    BY <1>3, <2>1, CopyStays DEF CopyInv, ArrivedOK
  <2> QED BY <2>2 DEF CopyInv, ArrivedOK, Shown
<1>6. InboxOK'
  <2> SUFFICES ASSUME NEW c \in Copies' PROVE CopyOK(c)'
    BY DEF InboxOK
  <2>1. c \in Copies
    BY DEF Copies
  <2>2. c \in KnownCopy
    BY <2>1 DEF CopyInv, CopiesKnown
  <2> QED BY <1>3, <2>1, <2>2, CopyStays DEF CopyInv, InboxOK
<1>7. TasksOK'
  <2>1. \A i \in DOMAIN messages' :
          \/ i \in DOMAIN messages /\ messages'[i] = messages[i]
          \/ messages'[i] = [kind |-> "outgoing", msg |-> Len(sent) + 1]
    BY <1>1, AppendProperties
  <2>2. \A i \in DOMAIN messages : messages[i].kind = "delivered" =>
          messages[i].copy.msg \in Known
    BY <1>1 DEF KnownTask, KnownCopy
  <2> QED BY <1>2, <2>1, <2>2 DEF CopyInv, TasksOK, IsGroup
<1>8. SentOK'
  BY <1>2 DEF CopyInv, SentOK
<1>9. PersistedWasShown'
  BY DEF CopyInv, PersistedWasShown, Shown
<1>10. CopiesKnown'
  <2>1. KnownCopy \subseteq KnownCopy'
    BY KnownGrows DEF TypeInv
  <2> QED BY <2>1 DEF CopyInv, CopiesKnown, Copies
<1> QED BY <1>4, <1>5, <1>6, <1>7, <1>8, <1>9, <1>10 DEF CopyInv

LEMMA AskHistoryOK ==
  ASSUME TypeInv, CopyInv, NEW m \in Msg, NEW u \in User, NEW st \in {SENT, DELIVERED},
         AskHistory(m, u, st)
  PROVE  CopyInv'
<1> USE DEF AskHistory, handlers, channel, broker, notices
<1> DEFINE task == [kind |-> "delivered",
                    copy |-> [msg |-> m, box |-> u, status |-> st, history |-> TRUE]]
<1>1. messages \in Seq(KnownTask) /\ messages' = Append(messages, task)
  BY DEF TypeInv, KnownOK
<1>2. \A i \in DOMAIN messages' :
        \/ i \in DOMAIN messages /\ messages'[i] = messages[i]
        \/ messages'[i] = task
  <2> HIDE DEF task
  <2> QED BY <1>1, AppendProperties
<1>3. TasksOK'
  BY <1>2 DEF CopyInv, TasksOK, IsGroup
<1>4. WireOK'
  BY SameGrows, WireStays DEF CopyInv
<1> QED BY <1>3, <1>4, HandlerOK

LEMMA ReceiveOutgoingOK ==
  ASSUME TypeInv, CopyInv, ReceiveOutgoing
  PROVE  CopyInv'
<1> USE DEF ReceiveOutgoing, clients, handlers, channel, broker, notices
<1>1. Grows
  BY SameGrows
<1>2. Head(messages).msg \in Known
  BY TakeTypes
<1>3. WireOK'
  <2>1. CASE Outgoing(Head(messages).msg)
    BY <1>1, <1>2, <2>1, OutgoingOK
  <2>2. CASE wire' = wire
    BY <1>1, <2>2, WireStays DEF CopyInv
  <2> QED BY <2>1, <2>2
<1>4. TasksOK'
  BY TasksStay DEF CopyInv
<1> QED BY <1>3, <1>4, HandlerOK

LEMMA AdmitOK ==
  ASSUME TypeInv, CopyInv, Admit
  PROVE  CopyInv'
<1> USE DEF Admit, clients, handlers, channel, broker, notices
<1>1. Head(limiting) \in Known
  BY HeadTailProperties DEF TypeInv, KnownOK
<1>2. WireOK'
  BY <1>1, SameGrows, OutgoingOK
<1>3. TasksOK'
  BY TasksStay DEF CopyInv
<1> QED BY <1>2, <1>3, HandlerOK

LEMMA LookupOK ==
  ASSUME TypeInv, CopyInv, NEW m \in looking, IsGroup(m), Lookup(m)
  PROVE  CopyInv'
<1> USE DEF clients, handlers, channel, broker, notices
<1>1. m \in Known
  BY DEF TypeInv, KnownOK
<1>2. PICK mem \in Seq(Inbox) :
        /\ FanOut(m, mem)
        /\ UNCHANGED <<clients, messages, unconfirmed, rejected, broker>>
  <2>1. CASE GroupMissing(m)
    <3>1. <<sent[m].sender, sent[m].recipient>> \in Seq(Inbox)
      BY <1>1, SentTypes DEF TypeInv, Inbox
    <3> QED BY <2>1, <3>1 DEF GroupMissing
  <2>2. CASE \E roster \in Roster : GroupFound(m, roster)
    <3>1. PICK roster \in Roster : GroupFound(m, roster)
      BY <2>2
    <3>2. roster \in Seq(Inbox) /\ sent[m].recipient \in Inbox
      BY <1>1, SentTypes, DeliveryAssumption DEF TypeInv, DeliveryAssumption, Inbox
    <3>3. SetKey(roster, sent[m].recipient) \in Seq(Inbox)
      BY <3>2, SetKeyTypes
    <3> QED BY <3>1, <3>3 DEF GroupFound
  <2> QED BY <2>1, <2>2 DEF Lookup
<1>3. WireOK'
  BY <1>1, <1>2, SameGrows, FanOutOK
<1>4. TasksOK'
  BY <1>2, TasksStay DEF CopyInv
<1> QED BY <1>2, <1>3, <1>4, HandlerOK

LEMMA ReceiveDeliveredOK ==
  ASSUME TypeInv, CopyInv, ReceiveDelivered
  PROVE  CopyInv'
<1> USE DEF ReceiveDelivered, clients, handlers, channel, broker, notices
<1> DEFINE c == Head(messages).copy
<1>1. c \in KnownCopy /\ c.msg \in Known
  BY TakeTypes DEF KnownCopy
<1>2. IsGroup(c.msg) /\ c.history
  <2>1. messages \in Seq(KnownTask) /\ messages # <<>>
    BY DEF TypeInv, KnownOK
  <2>2. Head(messages) = messages[1] /\ 1 \in DOMAIN messages
    BY <2>1, HeadTailProperties
  <2> QED BY <2>2 DEF CopyInv, TasksOK
<1>3. Grows
  BY SameGrows
<1>4. WireOK'
  <2>1. CASE wire' = wire
    BY <1>3, <2>1, WireStays DEF CopyInv
  <2>2. CASE Deliver(c.msg, {c})
    <3>1. CopyOK(c) /\ {c} \in SUBSET KnownCopy
      BY <1>1, <1>2 DEF CopyOK
    <3> HIDE DEF c
    <3> QED BY <1>1, <1>3, <2>2, <3>1, DeliverOK
  <2> QED BY <2>1, <2>2
<1>5. TasksOK'
  BY TasksStay DEF CopyInv
<1> QED BY <1>4, <1>5, HandlerOK

LEMMA RouteOK ==
  ASSUME TypeInv, CopyInv, Route
  PROVE  CopyInv'
<1> USE DEF Route, clients, handlers, channel, notices
<1>1. wire \in Seq(SUBSET KnownJob) /\ Head(wire) = wire[1] /\ 1 \in DOMAIN wire
  BY HeadTailProperties DEF TypeInv, KnownOK
<1>2. Head(wire) \in SUBSET KnownJob /\ BurstOK(Head(wire))
  BY <1>1 DEF CopyInv, WireOK
<1>3. /\ Grows /\ InboxOK' /\ CopiesKnown' /\ PersistedWasShown'
      /\ \A j \in Head(wire) : /\ CopyOK(j.copy)' /\ Shown(j.copy)'
                               /\ j.topic = "persist" => j.copy \in persist'
  BY <1>2, ArriveOK
<1>4. WireOK'
  BY <1>1, <1>3, WireStays, HeadTailProperties DEF CopyInv
<1>5. ArrivedOK'
  BY <1>3, ArrivedStay
<1>6. TasksOK' /\ SentOK'
  BY TasksStay DEF CopyInv, SentOK, Known
<1> QED BY <1>3, <1>4, <1>5, <1>6 DEF CopyInv

LEMMA RejectOK ==
  ASSUME TypeInv, CopyInv, NEW j, Reject(j)
  PROVE  CopyInv'
<1> USE DEF Reject, clients, handlers, channel, notices
<1>1. wire \in Seq(SUBSET KnownJob) /\ Head(wire) = wire[1] /\ 1 \in DOMAIN wire
  BY HeadTailProperties DEF TypeInv, KnownOK
<1>2. Head(wire) \in SUBSET KnownJob /\ BurstOK(Head(wire))
  BY <1>1 DEF CopyInv, WireOK
<1>3. /\ Grows /\ InboxOK' /\ CopiesKnown' /\ PersistedWasShown'
      /\ \A k \in Head(wire) \ {j} :
           /\ CopyOK(k.copy)' /\ Shown(k.copy)'
           /\ k.topic = "persist" => k.copy \in persist'
  BY <1>2, ArriveOK
<1>4. WireOK'
  BY <1>1, <1>3, WireStays, HeadTailProperties DEF CopyInv
<1>5. ArrivedOK'
  BY <1>3, ArrivedStay
<1>6. TasksOK' /\ SentOK'
  BY TasksStay DEF CopyInv, SentOK, Known
<1> QED BY <1>3, <1>4, <1>5, <1>6 DEF CopyInv

LEMMA RefuseOK ==
  ASSUME TypeInv, CopyInv, Refuse
  PROVE  CopyInv'
<1> USE DEF Refuse, clients, handlers, channel, broker, notices
<1>1. WireOK'
  BY SameGrows, WireStays DEF CopyInv
<1>2. TasksOK'
  BY TasksStay DEF CopyInv
<1> QED BY <1>1, <1>2, HandlerOK

\* The persist key of a direct message's copy is short enough, so its follow-up
\* waits for the persist confirm.
LEMMA DirectFits ==
  ASSUME TypeInv, CopyInv, NEW c \in KnownCopy, CopyOK(c), ~ IsGroup(c.msg)
  PROVE  Fits(Persist(c))
<1> DEFINE m == c.msg
           x == IdLen[sent[m].sender]
           y == IdLen[sent[m].recipient]
<1>1. m \in Known
  BY DEF KnownCopy
<1>2. x \in Nat /\ y \in Nat
  BY <1>1, SentTypes, DeliveryAssumption DEF TypeInv, DeliveryAssumption, Inbox
<1>3. 48 + x + y <= 255
  BY <1>1 DEF CopyInv, SentOK
<1>4. IdLen[c.box] + IdLen[ConversWith(c)] = x + y
  <2>1. CASE c = SenderCopy(m)
    BY <1>2, <2>1 DEF SenderCopy, ConversWith, SENT, DELIVERED
  <2>2. CASE c = RecipientCopy(m)
    BY <1>2, <2>2 DEF RecipientCopy, ConversWith
  <2> QED BY <2>1, <2>2 DEF CopyOK
<1> DEFINE p == IdLen[c.box]
           q == IdLen[ConversWith(c)]
<1>5. p \in Nat /\ q \in Nat /\ KeyLength(Persist(c)) = 47 + p + q /\ p + q = x + y
  BY <1>4, KeyTypes
<1> HIDE DEF p, q, x, y
<1> QED BY <1>2, <1>3, <1>5 DEF Fits

LEMMA ConfirmOK ==
  ASSUME TypeInv, CopyInv, NEW j \in unconfirmed,
         ConfirmAdded(j.copy) \/ ConfirmPersist(j.copy)
  PROVE  CopyInv'
<1> USE DEF clients, handlers, broker, notices
<1> DEFINE c == j.copy
<1>1. c \in KnownCopy /\ c.msg \in Known
  BY DEF TypeInv, KnownOK, KnownJob, KnownCopy
<1>2. /\ UNCHANGED <<clients, messages, handlers, rejected, broker>>
      /\ unconfirmed' \subseteq unconfirmed
  BY DEF ConfirmAdded, ConfirmPersist
<1>3. Grows
  BY <1>2, SameGrows
<1>4. {Added(d) : d \in FollowUp(c)} \subseteq KnownJob /\ Persist(c) \in KnownJob
  BY <1>1, FollowUpTypes, JobTypes DEF TypeInv
<1>5. WireOK'
  <2>1. CASE ConfirmAdded(c)
    <3>1. CopyOK(c) /\ Shown(c)
      <4>1. Added(c) \in unconfirmed \ rejected /\ Added(c).copy = c
        BY <2>1 DEF ConfirmAdded, Added
      <4> QED BY <4>1 DEF CopyInv, ArrivedOK
    <3> DEFINE jobs == IF Fits(Persist(c)) THEN {Persist(c)}
                                           ELSE {Added(d) : d \in FollowUp(c)}
    <3>2. Publish(jobs) /\ jobs \in SUBSET KnownJob
      BY <1>4, <2>1 DEF ConfirmAdded
    <3>3. jobs \subseteq {Persist(c)}
      <4>1. CASE IsGroup(c.msg)
        BY <4>1 DEF FollowUp
      <4>2. CASE ~ IsGroup(c.msg)
        BY <1>1, <3>1, <4>2, DirectFits
      <4> QED BY <4>1, <4>2
    <3>4. BurstOK({k \in jobs : Fits(k)})
      <4>1. Persist(c).copy = c /\ Persist(c).topic = "persist"
        BY DEF Persist
      <4> HIDE DEF jobs, c
      <4> QED BY <3>1, <3>3, <4>1 DEF BurstOK, OnePerBox
    <3> HIDE DEF jobs
    <3> QED BY <1>3, <3>2, <3>4, PublishOK DEF CopyInv
  <2>2. CASE ConfirmPersist(c)
    <3>1. CopyOK(c) /\ c \in persist
      <4>1. Persist(c) \in unconfirmed \ rejected
            /\ Persist(c).copy = c /\ Persist(c).topic = "persist"
        BY <2>2 DEF ConfirmPersist, Persist
      <4> QED BY <4>1 DEF CopyInv, ArrivedOK
    <3> DEFINE jobs == {Added(d) : d \in FollowUp(c)}
    <3>2. Publish(jobs) /\ jobs \in SUBSET KnownJob
      BY <1>4, <2>2 DEF ConfirmPersist
    <3>3. \A d \in FollowUp(c) : d = RecipientCopy(c.msg) /\ CopyOK(d)
      <4> SUFFICES ASSUME NEW d \in FollowUp(c)
                   PROVE  d = RecipientCopy(c.msg) /\ CopyOK(d)
        OBVIOUS
      <4>1. ~ IsGroup(c.msg) /\ c.status = SENT
            /\ d = [c EXCEPT !.box = sent[c.msg].recipient, !.status = DELIVERED]
        BY DEF FollowUp
      <4>2. c = SenderCopy(c.msg)
        BY <3>1, <4>1 DEF CopyOK, RecipientCopy, SENT, DELIVERED
      <4>3. d = RecipientCopy(c.msg)
        <5>1. d \in KnownCopy /\ RecipientCopy(c.msg) \in KnownCopy
          BY <1>1, <4>1, FollowUpTypes, SentTypes
             DEF TypeInv, RecipientCopy, KnownCopy
        <5>2. c.history = FALSE
          BY <4>2 DEF SenderCopy
        <5>3. /\ d.msg = c.msg /\ d.box = sent[c.msg].recipient
              /\ d.status = DELIVERED /\ d.history = FALSE
          BY <1>1, <4>1, <5>2 DEF KnownCopy
        <5> QED BY <5>1, <5>3 DEF KnownCopy, RecipientCopy
      <4>4. d.msg = c.msg
        BY <4>3 DEF RecipientCopy
      <4> QED BY <3>1, <4>1, <4>2, <4>3, <4>4 DEF CopyOK
    <3>4. BurstOK({k \in jobs : Fits(k)})
      <4>1. \A k \in jobs : /\ k = Added(RecipientCopy(c.msg)) /\ CopyOK(k.copy)
                            /\ k.topic = "clientadded"
        BY <3>3 DEF Added
      <4> HIDE DEF jobs, c
      <4> QED BY <4>1 DEF BurstOK, OnePerBox
    <3> HIDE DEF jobs
    <3> QED BY <1>3, <3>2, <3>4, PublishOK DEF CopyInv
  <2> QED BY <2>1, <2>2
<1>6. TasksOK'
  BY <1>2, TasksStay DEF CopyInv
<1> QED BY <1>2, <1>5, <1>6, HandlerOK

\* The connection's end, by basic.nack, by itself or with the process.
LEMMA CutOK ==
  ASSUME TypeInv, CopyInv, UNCHANGED clients, LosePushed,
         wire' = <<>>, unconfirmed' = {},
         NEW part \in SUBSET (IF wire = <<>> THEN {} ELSE Head(wire)), Arrive(part)
  PROVE  CopyInv'
<1> USE DEF clients
<1>1. PICK burst \in SUBSET KnownJob : part \in SUBSET burst /\ BurstOK(burst)
  <2>1. CASE wire = <<>>
    <3>1. BurstOK({})
      BY DEF BurstOK, OnePerBox
    <3> QED BY <2>1, <3>1
  <2>2. CASE wire # <<>>
    <3>1. wire \in Seq(SUBSET KnownJob) /\ Head(wire) = wire[1] /\ 1 \in DOMAIN wire
      BY <2>2, HeadTailProperties DEF TypeInv, KnownOK
    <3> QED BY <2>2, <3>1 DEF CopyInv, WireOK
  <2> QED BY <2>1, <2>2
<1>2. InboxOK' /\ CopiesKnown' /\ PersistedWasShown'
  BY <1>1, ArriveOK
<1>3. WireOK' /\ ArrivedOK'
  BY DEF WireOK, ArrivedOK
<1>4. TasksOK' /\ SentOK'
  BY TasksStay DEF LosePushed, CopyInv, SentOK, Known
<1> QED BY <1>2, <1>3, <1>4 DEF CopyInv

LEMMA ReconnectOK ==
  ASSUME TypeInv, CopyInv, Reconnect
  PROVE  CopyInv'
<1> USE DEF Reconnect, clients, handlers, broker, notices
<1>1. WireOK'
  BY SameGrows, WireStays DEF CopyInv
<1>2. TasksOK'
  BY TasksStay DEF CopyInv
<1> QED BY <1>1, <1>2, HandlerOK

LEMMA IdleOK ==
  ASSUME TypeInv, CopyInv, UNCHANGED vars
  PROVE  CopyInv'
<1> USE DEF vars, clients, channel, broker
<1>1. WireOK'
  BY SameGrows, WireStays DEF CopyInv
<1>2. TasksOK'
  BY TasksStay DEF CopyInv
<1> QED BY <1>1, <1>2, HandlerOK

LEMMA NextOK ==
  ASSUME TypeInv, LookingOK, CopyInv, [Next]_vars
  PROVE  CopyInv'
<1>1. CASE \E e \in Envelope : Send(e)
  BY <1>1, SendOK
<1>2. CASE \E m \in Msg, u \in User, st \in {SENT, DELIVERED} : AskHistory(m, u, st)
  BY <1>2, AskHistoryOK
<1>3. CASE \E m \in looking : Lookup(m)
  BY <1>3, LookupOK DEF LookingOK
<1>4. CASE Confirm
  BY <1>4, ConfirmOK DEF Confirm
<1>5. CASE \E j \in Pending : Reject(j)
  BY <1>5, RejectOK
<1>6. CASE \E failed : Sever(failed) /\ UNCHANGED clients
  BY <1>6, CutOK DEF Sever
<1>7. CASE Crash
  BY <1>7, CutOK DEF Crash
<1>8. CASE (\E j \in Pending : Nack(j)) \/ Disconnect
  BY <1>6, <1>8 DEF Nack, Disconnect
<1>9. CASE UNCHANGED vars
  BY <1>9, IdleOK
<1> QED BY <1>1, <1>2, <1>3, <1>4, <1>5, <1>7, <1>8, <1>9, ReceiveOutgoingOK,
           ReceiveDeliveredOK, AdmitOK, RefuseOK, RouteOK, ReconnectOK DEF Next

-----------------------------------------------------------------------------
(* getGroup() is asked for group messages.                                 *)

LEMMA OutgoingLooks ==
  ASSUME NEW m, Outgoing(m)
  PROVE  looking' = looking \/ (looking' = looking \cup {m} /\ IsGroup(m))
BY DEF Outgoing

LEMMA LookingNext ==
  ASSUME TypeInv, LookingOK, [Next]_vars
  PROVE  LookingOK'
<1> USE DEF clients, handlers
<1>1. CASE \E e \in Envelope : Send(e)
  <2>1. sent \in Seq(Envelope) /\ looking \subseteq Known
    BY DEF TypeInv, TypeOK, KnownOK
  <2>2. \A m \in Known : sent'[m] = sent[m]
    BY <1>1, <2>1, AppendProperties DEF Send, Known
  <2>3. looking' = looking
    BY <1>1 DEF Send
  <2> QED BY <2>1, <2>2, <2>3 DEF LookingOK, IsGroup
<1>2. CASE sent' = sent /\ looking' \subseteq looking
  BY <1>2 DEF LookingOK, IsGroup
<1>3. CASE \E m : Outgoing(m) /\ sent' = sent
  BY <1>3, OutgoingLooks DEF LookingOK, IsGroup
<1>4. CASE \E m \in Msg, u \in User, st \in {SENT, DELIVERED} : AskHistory(m, u, st)
  BY <1>2, <1>4 DEF AskHistory
<1>5. CASE ReceiveOutgoing
  BY <1>2, <1>3, <1>5 DEF ReceiveOutgoing
<1>6. CASE Admit
  BY <1>3, <1>6 DEF Admit
<1>7. CASE \E m \in looking : Lookup(m)
  BY <1>2, <1>7 DEF Lookup, GroupFound, GroupMissing
<1>8. CASE Confirm
  BY <1>2, <1>8 DEF Confirm, ConfirmAdded, ConfirmPersist
<1>9. CASE \E j \in Pending : Reject(j) \/ Nack(j)
  BY <1>2, <1>9 DEF Reject, Nack
<1>10. CASE ReceiveDelivered \/ Refuse \/ Route \/ Disconnect \/ Crash \/ Reconnect
  BY <1>2, <1>10
     DEF ReceiveDelivered, Refuse, Route, Disconnect, Crash, Reconnect
<1>11. CASE UNCHANGED vars
  BY <1>2, <1>11 DEF vars
<1> QED BY <1>1, <1>4, <1>5, <1>6, <1>7, <1>8, <1>9, <1>10, <1>11 DEF Next

\* Only group messages are looked up: a direct one never reaches getGroup().
THEOREM LookingHolds == Spec => []LookingOK
<1>1. Init => LookingOK
  BY DEF Init, LookingOK
<1>2. TypeInv /\ LookingOK /\ [Next]_vars => LookingOK'
  BY LookingNext
<1> QED BY <1>1, <1>2, TypeCorrect, PTL DEF Spec

-----------------------------------------------------------------------------

\* Every copy on the connection, confirmed, shown or stored is one somebody is
\* entitled to, and no storage publish is ahead of its clientadded publish.
THEOREM CopiesCorrect == Spec => []CopyInv
<1>1. Init => CopyInv
  BY InitOK
<1>2. TypeInv /\ LookingOK /\ CopyInv /\ [Next]_vars => CopyInv'
  BY NextOK
<1> QED BY <1>1, <1>2, TypeCorrect, LookingHolds, PTL DEF Spec

\* A copy is queued for storage only if the subscriber was given it first.
THEOREM PersistedWasShownHolds == Spec => []PersistedWasShown
<1>1. CopyInv => PersistedWasShown
  BY DEF CopyInv
<1> QED BY <1>1, CopiesCorrect, PTL

\* The recipient of a direct message never has it before the sender's own copy is
\* shown and queued for storage.
THEOREM RecipientAfterSenderHolds == Spec => []RecipientAfterSender
<1>1. CopyInv => RecipientAfterSender
  <2> SUFFICES ASSUME CopyInv, NEW c \in Copies,
                      ~ IsGroup(c.msg), c.status = DELIVERED
               PROVE  SenderCopy(c.msg) \in persist /\ Shown(SenderCopy(c.msg))
    BY DEF RecipientAfterSender
  <2>1. SenderCopy(c.msg) \in persist
    BY DEF CopyInv, InboxOK, CopyOK
  <2> QED BY <2>1 DEF CopyInv, PersistedWasShown
<1> QED BY <1>1, CopiesCorrect, PTL

\* The live fan-out of a group message never reaches the hidden member.
THEOREM HiddenNeverShownHolds == Spec => []HiddenNeverShown
<1>1. CopyInv => HiddenNeverShown
  BY DEF CopyInv, InboxOK, CopyOK, HiddenNeverShown
<1> QED BY <1>1, CopiesCorrect, PTL

-----------------------------------------------------------------------------
(***************************************************************************)
(* Delivery implements Timeline: no copy is published twice on its         *)
(* clientadded topic, whatever is suspended, lost or restarted, so every   *)
(* step of the observer shows, stores or sends what Timeline allows, or    *)
(* changes nothing Timeline speaks of.                                     *)
(***************************************************************************)

\* A copy is on its way or waits for a confirm.
OnWire(c) == \E i \in DOMAIN wire : \E j \in wire[i] : j.copy = c
Held(c) == \E j \in unconfirmed : j.copy = c
Untouched(c) == ~ OnWire(c) /\ ~ Held(c) /\ ~ Shown(c)

\* A copy is in one place at most, and is not shown while it is on its way there.
Single ==
  /\ \A i, k \in DOMAIN wire : \A a \in wire[i], b \in wire[k] :
       a.copy = b.copy => i = k /\ a = b
  /\ \A i \in DOMAIN wire : \A a \in wire[i] :
       /\ ~ Held(a.copy)
       /\ a.topic = "clientadded" => ~ Shown(a.copy)
       /\ \A b \in wire[i] : a.topic = b.topic
  /\ \A a, b \in unconfirmed : a.copy = b.copy => a = b

\* While the sender's copy is in some place, the recipient's is in none.
FollowsOnce ==
  \A m \in Known :
    ~ IsGroup(m) /\ (OnWire(SenderCopy(m)) \/ Held(SenderCopy(m)))
      => Untouched(RecipientCopy(m))

\* A message is handled once.
OutgoingTask(m) == [kind |-> "outgoing", msg |-> m]
Queued(m) == \E i \in DOMAIN messages : messages[i] = OutgoingTask(m)
Limited(m) == \E i \in DOMAIN limiting : limiting[i] = m
Waiting(m) == Queued(m) \/ Limited(m) \/ m \in looking

HandledOnce ==
  /\ \A i, k \in DOMAIN messages : messages[i] = messages[k] => i = k
  /\ \A i, k \in DOMAIN limiting : limiting[i] = limiting[k] => i = k
  /\ \A m \in Known : Queued(m) => ~ Limited(m) /\ m \notin looking
  /\ \A m \in looking : ~ Limited(m)

\* Until it is, none of its copies is anywhere.
FirstTime ==
  \A c \in Copy : ~ c.history /\ Waiting(c.msg) => Untouched(c)

\* A replay is asked for once, of a stored copy, and for a user.
ReplayOK(c) ==
  /\ c.history /\ c.box \in User /\ <<c.msg, c.box>> \in asked
  /\ GroupCopy(c.msg, sent[c.msg].recipient) \in persist
  /\ Untouched(c)

Replays ==
  /\ \A i \in DOMAIN messages : messages[i].kind = "delivered" => ReplayOK(messages[i].copy)
  /\ \A i, k \in DOMAIN messages :
       /\ messages[i].kind = "delivered" /\ messages[k].kind = "delivered"
       /\ messages[i].copy.msg = messages[k].copy.msg
       /\ messages[i].copy.box = messages[k].copy.box
       => i = k
  /\ \A c \in Copy : c.history /\ <<c.msg, c.box>> \notin asked => Untouched(c)

\* Timeline's condition on the copies of group messages.
Entitled(c) ==
  IsGroup(c.msg) =>
    IF c.history
    THEN /\ c.status = DELIVERED /\ c.box \in User
         /\ GroupCopy(c.msg, sent[c.msg].recipient) \in persist
    ELSE c.status = StatusFor(c.msg, c.box)

WireEntitled ==
  \A i \in DOMAIN wire : \A j \in wire[i] : j.topic = "clientadded" => Entitled(j.copy)

OnceInv ==
  Single /\ FollowsOnce /\ HandledOnce /\ FirstTime /\ Replays /\ WireEntitled

-----------------------------------------------------------------------------
(* Queues lose their first elements.                                       *)

Drops(s, t) ==
  \E k \in Nat : \A i \in DOMAIN t : i \in Nat /\ i + k \in DOMAIN s /\ t[i] = s[i + k]

LEMMA DropsNothing ==
  ASSUME NEW S, NEW s \in Seq(S)
  PROVE  Drops(s, s)
<1>1. \A i \in DOMAIN s : i \in Nat /\ i + 0 \in DOMAIN s /\ s[i] = s[i + 0]
  BY LenProperties
<1> QED BY <1>1 DEF Drops

LEMMA DropsHead ==
  ASSUME NEW S, NEW s \in Seq(S), s # <<>>
  PROVE  Drops(s, Tail(s))
<1>1. /\ Tail(s) \in Seq(S) /\ Len(Tail(s)) = Len(s) - 1
      /\ \A i \in 1 .. Len(Tail(s)) : Tail(s)[i] = s[i + 1]
  BY HeadTailProperties
<1>2. DOMAIN Tail(s) = 1 .. Len(Tail(s)) /\ DOMAIN s = 1 .. Len(s) /\ Len(s) \in Nat
  BY <1>1, LenProperties
<1>3. \A i \in DOMAIN Tail(s) : i \in Nat /\ i + 1 \in DOMAIN s /\ Tail(s)[i] = s[i + 1]
  BY <1>1, <1>2
<1> QED BY <1>3 DEF Drops

LEMMA DropsSome ==
  ASSUME NEW S, NEW s \in Seq(S), NEW k \in 0 .. Len(s)
  PROVE  Drops(s, SubSeq(s, k + 1, Len(s)))
<1> DEFINE t == SubSeq(s, k + 1, Len(s))
           n == Len(s)
<1>1. n \in Nat /\ DOMAIN s = 1 .. n /\ k \in Nat /\ k <= n
  BY LenProperties
<1>2. k + 1 \in Int /\ n \in Int /\ \A i \in k + 1 .. n : s[i] \in S
  BY <1>1
<1>3. /\ t \in Seq(S) /\ Len(t) = IF k + 1 <= n THEN n - (k + 1) + 1 ELSE 0
      /\ \A i \in 1 .. n - (k + 1) + 1 : t[i] = s[(k + 1) + i - 1]
  BY <1>2, SubSeqProperties
<1>4. DOMAIN t = 1 .. Len(t)
  BY <1>3, LenProperties
<1> HIDE DEF t, n
<1>5. ASSUME NEW i \in DOMAIN t PROVE i \in Nat /\ i + k \in DOMAIN s /\ t[i] = s[i + k]
  <2>1. i \in 1 .. n - (k + 1) + 1 /\ (k + 1) + i - 1 = i + k /\ i + k \in 1 .. n
    BY <1>1, <1>3, <1>4
  <2> QED BY <2>1, <1>1, <1>3
<1> QED BY <1>1, <1>5 DEF Drops, t, n

LEMMA DropsAll ==
  ASSUME NEW s
  PROVE  Drops(s, <<>>)
<1>1. \A i \in DOMAIN <<>> : i \in Nat /\ i + 0 \in DOMAIN s /\ <<>>[i] = s[i + 0]
  OBVIOUS
<1> QED BY <1>1 DEF Drops

\* What is left of a queue without repetitions was in it, once.
LEMMA DropsKeeps ==
  ASSUME NEW S, NEW s \in Seq(S), NEW t, Drops(s, t)
  PROVE  /\ \A i \in DOMAIN t : \E n \in DOMAIN s : t[i] = s[n]
         /\ (\A i, n \in DOMAIN s : s[i] = s[n] => i = n)
              => \A i, n \in DOMAIN t : t[i] = t[n] => i = n
<1>1. PICK k \in Nat : \A i \in DOMAIN t : i \in Nat /\ i + k \in DOMAIN s /\ t[i] = s[i + k]
  BY DEF Drops
<1>2. \A i \in DOMAIN t : \E n \in DOMAIN s : t[i] = s[n]
  BY <1>1
<1>3. ASSUME \A i, n \in DOMAIN s : s[i] = s[n] => i = n,
             NEW i \in DOMAIN t, NEW n \in DOMAIN t, t[i] = t[n]
      PROVE  i = n
  <2>1. i \in Nat /\ n \in Nat /\ i + k \in DOMAIN s /\ n + k \in DOMAIN s
        /\ s[i + k] = s[n + k]
    BY <1>1, <1>3
  <2>2. i + k = n + k
    BY <1>3, <2>1
  <2> QED BY <2>1, <2>2, <1>1
<1> QED BY <1>2, <1>3

\* The first of a queue without repetitions is not among the others.
LEMMA HeadLeaves ==
  ASSUME NEW S, NEW s \in Seq(S), s # <<>>, \A i, n \in DOMAIN s : s[i] = s[n] => i = n
  PROVE  /\ 1 \in DOMAIN s /\ Head(s) = s[1]
         /\ \A i \in DOMAIN Tail(s) : Tail(s)[i] # Head(s)
<1>1. /\ Tail(s) \in Seq(S) /\ Len(Tail(s)) = Len(s) - 1 /\ Head(s) = s[1]
      /\ \A i \in 1 .. Len(Tail(s)) : Tail(s)[i] = s[i + 1]
  BY HeadTailProperties
<1>2. DOMAIN Tail(s) = 1 .. Len(Tail(s)) /\ DOMAIN s = 1 .. Len(s) /\ Len(s) \in Nat
  BY <1>1, LenProperties
<1>3. 1 \in DOMAIN s
  BY <1>2, EmptySeq
<1>4. ASSUME NEW i \in DOMAIN Tail(s) PROVE Tail(s)[i] # Head(s)
  <2>1. i + 1 \in DOMAIN s /\ i + 1 # 1 /\ Tail(s)[i] = s[i + 1]
    BY <1>1, <1>2
  <2> QED BY <2>1, <1>1, <1>3
<1> QED BY <1>1, <1>3, <1>4

-----------------------------------------------------------------------------
(* Where copies are.                                                       *)

\* The publishes that reach the connection, and their copies.
Out(jobs) == {j \in jobs : pubChannel /\ Fits(j)}
CopiesOf(jobs) == {j.copy : j \in jobs}

LEMMA WireSeq ==
  ASSUME TypeInv
  PROVE  /\ wire \in Seq(SUBSET KnownJob) /\ Len(wire) \in Nat /\ DOMAIN wire = 1 .. Len(wire)
         /\ \A i \in DOMAIN wire : wire[i] \subseteq KnownJob
<1>1. wire \in Seq(SUBSET KnownJob)
  BY DEF TypeInv, KnownOK
<1> QED BY <1>1, LenProperties

\* After publish() the connection has its bursts and, perhaps, a new one.
LEMMA PublishWire ==
  ASSUME TypeInv, NEW jobs \in SUBSET KnownJob, Publish(jobs)
  PROVE  \/ wire' = wire /\ Out(jobs) = {}
         \/ /\ wire' = Append(wire, Out(jobs)) /\ Out(jobs) # {}
            /\ DOMAIN wire' = DOMAIN wire \cup {Len(wire) + 1}
            /\ Len(wire) + 1 \notin DOMAIN wire
            /\ \A i \in DOMAIN wire : wire'[i] = wire[i]
            /\ wire'[Len(wire) + 1] = Out(jobs)
<1> DEFINE valid == {j \in jobs : Fits(j)}
<1>1. CASE valid # {} /\ pubChannel
  <2>1. Out(jobs) = valid /\ wire' = Append(wire, Out(jobs))
    BY <1>1 DEF Publish, Out
  <2>2. Out(jobs) \in SUBSET KnownJob /\ wire \in Seq(SUBSET KnownJob)
    BY WireSeq DEF Out
  <2>3. Append(wire, Out(jobs)) \in Seq(SUBSET KnownJob)
        /\ Len(Append(wire, Out(jobs))) = Len(wire) + 1
        /\ (\A i \in 1 .. Len(wire) : Append(wire, Out(jobs))[i] = wire[i])
        /\ Append(wire, Out(jobs))[Len(wire) + 1] = Out(jobs)
    BY <2>2, AppendProperties
  <2>4. DOMAIN Append(wire, Out(jobs)) = 1 .. Len(wire) + 1
    BY <2>3, LenProperties
  <2>5. 1 .. Len(wire) + 1 = (1 .. Len(wire)) \cup {Len(wire) + 1}
        /\ Len(wire) + 1 \notin 1 .. Len(wire)
    BY WireSeq
  <2> HIDE DEF valid
  <2> QED BY <1>1, <2>1, <2>3, <2>4, <2>5, WireSeq
<1>2. CASE ~ (valid # {} /\ pubChannel)
  BY <1>2 DEF Publish, Out
<1> QED BY <1>1, <1>2

\* What a publish needs so that its copies stay in one place each.
New(jobs) ==
  \A a \in Out(jobs) :
    /\ ~ OnWire(a.copy) /\ ~ Held(a.copy)'
    /\ a.topic = "clientadded" => ~ Shown(a.copy)
    /\ \A b \in Out(jobs) : a.topic = b.topic

LEMMA PublishSingle ==
  ASSUME TypeInv, Single, NEW jobs \in SUBSET KnownJob, Publish(jobs), New(jobs),
         unconfirmed' \subseteq unconfirmed, inbox' = inbox
  PROVE  /\ Single'
         /\ \A c : OnWire(c)' => OnWire(c) \/ c \in CopiesOf(Out(jobs))
         /\ \A c : Held(c)' => Held(c)
         /\ \A c : c \notin CopiesOf(Out(jobs)) /\ Untouched(c) => Untouched(c)'
<1>1. \A c : Held(c)' => Held(c)
  BY DEF Held
<1>2. \A c : Shown(c)' <=> Shown(c)
  BY DEF Shown
<1>3. CASE wire' = wire /\ Out(jobs) = {}
  <2>1. \A c : OnWire(c)' <=> OnWire(c)
    BY <1>3 DEF OnWire
  <2>2. Single'
    BY <1>1, <1>2, <1>3 DEF Single
  <2> QED BY <1>1, <1>2, <2>1, <2>2 DEF Untouched
<1>4. CASE wire' = Append(wire, Out(jobs)) /\ Out(jobs) # {}
  <2> DEFINE n == Len(wire) + 1
  <2>1. /\ DOMAIN wire' = DOMAIN wire \cup {n} /\ n \notin DOMAIN wire
        /\ \A i \in DOMAIN wire : wire'[i] = wire[i]
        /\ wire'[n] = Out(jobs)
    BY <1>4, PublishWire
  <2> HIDE DEF n
  <2>2. \A c : OnWire(c)' => OnWire(c) \/ c \in CopiesOf(Out(jobs))
    BY <2>1 DEF OnWire, CopiesOf
  <2>3. \A a, b \in Out(jobs) : a.copy = b.copy => a = b
    <3>1. Out(jobs) \subseteq KnownJob
      BY DEF Out
    <3>2. \A a, b \in KnownJob : a.copy = b.copy /\ a.topic = b.topic => a = b
      BY DEF KnownJob
    <3> QED BY <3>1, <3>2 DEF New
  <2>4. ASSUME NEW i \in DOMAIN wire', NEW k \in DOMAIN wire',
               NEW a \in wire'[i], NEW b \in wire'[k], a.copy = b.copy
        PROVE  i = k /\ a = b
    <3>1. CASE i \in DOMAIN wire /\ k \in DOMAIN wire
      BY <2>1, <2>4, <3>1 DEF Single
    <3>2. CASE i = n /\ k = n
      BY <2>1, <2>3, <2>4, <3>2
    <3>3. CASE i = n /\ k \in DOMAIN wire
      BY <2>1, <2>4, <3>3 DEF New, OnWire
    <3>4. CASE k = n /\ i \in DOMAIN wire
      BY <2>1, <2>4, <3>4 DEF New, OnWire
    <3> QED BY <2>1, <3>1, <3>2, <3>3, <3>4
  <2>5. ASSUME NEW i \in DOMAIN wire', NEW a \in wire'[i]
        PROVE  /\ ~ Held(a.copy)'
               /\ a.topic = "clientadded" => ~ Shown(a.copy)
               /\ \A b \in wire'[i] : a.topic = b.topic
    <3>1. CASE i \in DOMAIN wire
      BY <1>1, <2>1, <3>1 DEF Single
    <3>2. CASE i = n
      BY <2>1, <3>2 DEF New
    <3> QED BY <2>1, <3>1, <3>2
  <2>6. \A a, b \in unconfirmed' : a.copy = b.copy => a = b
    BY DEF Single
  <2>7. Single'
    BY <1>2, <2>4, <2>5, <2>6 DEF Single
  <2> QED BY <1>1, <1>2, <2>2, <2>7 DEF Untouched
<1> QED BY <1>3, <1>4, PublishWire

\* An arrival shows copies of its burst only.
LEMMA ArriveShown ==
  ASSUME TypeInv, NEW jobs \in SUBSET KnownJob, Arrive(jobs), NEW c \in Copy, Shown(c)'
  PROVE  Shown(c) \/ \E j \in jobs : j.topic = "clientadded" /\ j.copy = c
<1> DEFINE b == c.box
           ShownTo == {k \in jobs : k.topic = "clientadded" /\ k.copy.box = b}
<1>1. b \in Inbox
  BY DEF Copy
<1>2. Range(inbox'[b]) =
        Range(inbox[b]) \cup (IF ShownTo = {} THEN {} ELSE {ArrivedCopy(jobs, b)})
  BY <1>1, ArriveInbox
<1>3. c \in Range(inbox'[b])
  BY DEF Shown
<1>4. CASE c \in Range(inbox[b])
  BY <1>4 DEF Shown
<1>5. CASE ShownTo # {} /\ c = ArrivedCopy(jobs, b)
  <2>1. \E j \in ShownTo : c = j.copy
    BY <1>5 DEF ArrivedCopy
  <2> QED BY <2>1
<1> QED BY <1>2, <1>3, <1>4, <1>5

\* The oldest burst leaves the connection, and some of it arrives.
LEMMA ArriveSingle ==
  ASSUME TypeInv, Single, wire # <<>>, wire' = Tail(wire),
         unconfirmed' = unconfirmed \cup Head(wire),
         NEW jobs \in SUBSET Head(wire), Arrive(jobs)
  PROVE  /\ Single'
         /\ \A c : OnWire(c)' => OnWire(c)
         /\ \A c : Held(c)' => Held(c) \/ OnWire(c)
         /\ \A c \in Copy : Untouched(c) => Untouched(c)'
<1> DEFINE h == Head(wire)
<1>1. /\ wire \in Seq(SUBSET KnownJob) /\ h = wire[1] /\ 1 \in DOMAIN wire
      /\ Tail(wire) \in Seq(SUBSET KnownJob) /\ Len(Tail(wire)) = Len(wire) - 1
      /\ \A i \in 1 .. Len(Tail(wire)) : Tail(wire)[i] = wire[i + 1]
  BY WireSeq, HeadTailProperties, EmptySeq
<1>2. ASSUME NEW i \in DOMAIN wire'
      PROVE  i \in Nat /\ i + 1 \in DOMAIN wire /\ wire'[i] = wire[i + 1] /\ i + 1 # 1
  <2>1. DOMAIN Tail(wire) = 1 .. Len(Tail(wire))
    BY <1>1, LenProperties
  <2> QED BY <1>1, <2>1, WireSeq
<1>3. h \subseteq KnownJob /\ jobs \in SUBSET KnownJob
  BY <1>1, WireSeq
<1> HIDE DEF h
<1>4. unconfirmed' = unconfirmed \cup h /\ jobs \subseteq h
  BY DEF h
<1>5. \A c : OnWire(c)' => OnWire(c)
  BY <1>2 DEF OnWire
<1>6. \A c : Held(c)' => Held(c) \/ OnWire(c)
  BY <1>1, <1>4 DEF Held, OnWire
<1>7. ASSUME NEW c \in Copy, Shown(c)' PROVE Shown(c) \/ \E j \in h : j.copy = c
  BY <1>3, <1>4, <1>7, ArriveShown
<1>8. ASSUME NEW c \in Copy, Untouched(c) PROVE Untouched(c)'
  BY <1>1, <1>5, <1>6, <1>7, <1>8 DEF Untouched, OnWire
<1>9. \A i \in DOMAIN wire', k \in DOMAIN wire' : \A a \in wire'[i], b \in wire'[k] :
        a.copy = b.copy => i = k /\ a = b
  BY <1>2 DEF Single
<1>10. ASSUME NEW i \in DOMAIN wire', NEW a \in wire'[i]
       PROVE  /\ ~ Held(a.copy)'
              /\ a.topic = "clientadded" => ~ Shown(a.copy)'
              /\ \A b \in wire'[i] : a.topic = b.topic
  <2>1. a \in wire[i + 1] /\ i + 1 \in DOMAIN wire /\ i + 1 # 1
    BY <1>2
  <2>2. a.copy \in Copy
    BY <2>1, WireSeq, KnownTypes DEF TypeInv, KnownJob
  <2>3. \A b \in h : a.copy # b.copy
    BY <1>1, <2>1 DEF Single
  <2>4. ~ Held(a.copy) /\ (a.topic = "clientadded" => ~ Shown(a.copy))
    BY <2>1 DEF Single
  <2>5. ~ Held(a.copy)'
    BY <1>4, <2>3, <2>4 DEF Held
  <2>6. \A b \in wire'[i] : a.topic = b.topic
    BY <1>2, <2>1 DEF Single
  <2> QED BY <1>7, <2>2, <2>3, <2>4, <2>5, <2>6
<1>11. ASSUME NEW a \in unconfirmed', NEW b \in unconfirmed', a.copy = b.copy PROVE a = b
  <2>1. \A x \in h, y \in unconfirmed : x.copy # y.copy
    BY <1>1 DEF Single, Held
  <2>2. \A x, y \in h : x.copy = y.copy => x = y
    BY <1>1 DEF Single
  <2> QED BY <1>4, <1>11, <2>1, <2>2 DEF Single
<1>12. Single'
  BY <1>9, <1>10, <1>11 DEF Single
<1> QED BY <1>5, <1>6, <1>8, <1>12

\* The connection ends, and part of the oldest burst arrives.
LEMMA CutSingle ==
  ASSUME TypeInv, wire' = <<>>, unconfirmed' = {},
         NEW part \in SUBSET (IF wire = <<>> THEN {} ELSE Head(wire)), Arrive(part)
  PROVE  /\ Single'
         /\ \A c : ~ OnWire(c)' /\ ~ Held(c)'
         /\ \A c \in Copy : Untouched(c) => Untouched(c)'
<1>1. Single' /\ \A c : ~ OnWire(c)' /\ ~ Held(c)'
  BY DEF Single, OnWire, Held
<1>2. CASE wire = <<>>
  <2>1. part = {} /\ part \in SUBSET KnownJob
    BY <1>2
  <2>2. \A c \in Copy : Shown(c)' => Shown(c)
    BY <2>1, ArriveShown
  <2> QED BY <1>1, <2>2 DEF Untouched
<1>3. CASE wire # <<>>
  <2>1. Head(wire) = wire[1] /\ 1 \in DOMAIN wire
    BY <1>3, WireSeq, HeadTailProperties, EmptySeq
  <2>2. part \in SUBSET KnownJob /\ part \subseteq wire[1]
    BY <1>3, <2>1, WireSeq
  <2>3. \A c \in Copy : Shown(c)' => Shown(c) \/ \E j \in part : j.copy = c
    BY <2>2, ArriveShown
  <2> QED BY <1>1, <2>1, <2>2, <2>3 DEF Untouched, OnWire
<1> QED BY <1>2, <1>3

-----------------------------------------------------------------------------
(* What keeps the invariant.                                               *)

LEMMA Queues ==
  ASSUME TypeInv
  PROVE  /\ messages \in Seq(KnownTask) /\ limiting \in Seq(Known) /\ looking \subseteq Known
         /\ Known \subseteq Msg /\ KnownCopy \subseteq Copy
         /\ \A m : Waiting(m) => m \in Known
<1>1. messages \in Seq(KnownTask) /\ limiting \in Seq(Known) /\ looking \subseteq Known
      /\ Known \subseteq Msg /\ KnownCopy \subseteq Copy
  BY KnownTypes DEF TypeInv, KnownOK
<1>2. ASSUME NEW m, Queued(m) PROVE m \in Known
  <2>1. PICK i \in DOMAIN messages : messages[i] = OutgoingTask(m)
    BY <1>2 DEF Queued
  <2>2. messages[i] \in KnownTask
    BY <1>1, <2>1
  <2>3. OutgoingTask(m).kind = "outgoing" /\ OutgoingTask(m).msg = m
    BY DEF OutgoingTask
  <2>4. \A t \in KnownTask : t.kind = "outgoing" => t.msg \in Known
    BY DEF KnownTask
  <2> QED BY <2>1, <2>2, <2>3, <2>4
<1>3. \A m : Limited(m) => m \in Known
  BY <1>1 DEF Limited
<1> QED BY <1>1, <1>2, <1>3 DEF Waiting

LEMMA QueuesDrop ==
  ASSUME TypeInv, HandledOnce, sent' = sent,
         Drops(messages, messages'), Drops(limiting, limiting'), looking' \subseteq looking
  PROVE  HandledOnce' /\ \A m : Waiting(m)' => Waiting(m)
<1>1. /\ \A i \in DOMAIN messages' : \E n \in DOMAIN messages : messages'[i] = messages[n]
      /\ \A i, n \in DOMAIN messages' : messages'[i] = messages'[n] => i = n
  BY Queues, DropsKeeps DEF HandledOnce
<1>2. /\ \A i \in DOMAIN limiting' : \E n \in DOMAIN limiting : limiting'[i] = limiting[n]
      /\ \A i, n \in DOMAIN limiting' : limiting'[i] = limiting'[n] => i = n
  BY Queues, DropsKeeps DEF HandledOnce
<1>3. \A m : Queued(m)' => Queued(m)
  BY <1>1 DEF Queued, OutgoingTask
<1>4. \A m : Limited(m)' => Limited(m)
  BY <1>2 DEF Limited
<1> QED BY <1>1, <1>2, <1>3, <1>4 DEF HandledOnce, Waiting, Known

\* A step that publishes the copies P, of messages that no longer wait and of
\* replays that were asked for and are no longer queued.
LEMMA FirstTimeStays ==
  ASSUME TypeInv, OnceInv, Grows, sent' = sent, asked' = asked,
         Drops(messages, messages'), \A m : Waiting(m)' => Waiting(m),
         NEW P, \A c \in Copy : c \notin P /\ Untouched(c) => Untouched(c)',
         \A c \in P : IF c.history
                      THEN /\ <<c.msg, c.box>> \in asked
                           /\ \A i \in DOMAIN messages' :
                                messages'[i].kind = "delivered" => messages'[i].copy # c
                      ELSE ~ Waiting(c.msg)'
  PROVE  FirstTime' /\ Replays'
<1>1. FirstTime'
  BY DEF OnceInv, FirstTime
<1>2. PICK k \in Nat :
        \A i \in DOMAIN messages' :
          i \in Nat /\ i + k \in DOMAIN messages /\ messages'[i] = messages[i + k]
  BY DEF Drops
<1>3. ASSUME NEW i \in DOMAIN messages', messages'[i].kind = "delivered",
             NEW c, c = messages'[i].copy
      PROVE  ReplayOK(c)'
  <2>1. i + k \in DOMAIN messages /\ c = messages[i + k].copy
        /\ messages[i + k].kind = "delivered"
    BY <1>2, <1>3
  <2>2. c \in Copy
    <3>1. messages[i + k] \in KnownTask
      BY <2>1, Queues
    <3>2. \A t \in KnownTask : t.kind = "delivered" => t.copy \in KnownCopy
      BY DEF KnownTask
    <3> QED BY <2>1, <3>1, <3>2, Queues
  <2>3. ReplayOK(c)
    BY <2>1 DEF OnceInv, Replays
  <2>4. Untouched(c)'
    BY <1>3, <2>2, <2>3 DEF ReplayOK
  <2>5. GroupCopy(c.msg, sent[c.msg].recipient)' \in persist'
    BY <2>3 DEF Grows, GroupCopy, StatusFor, ReplayOK
  <2> QED BY <2>3, <2>4, <2>5 DEF ReplayOK
<1>4. ASSUME NEW i \in DOMAIN messages', messages'[i].kind = "delivered"
      PROVE  ReplayOK(messages[i].copy)'
  BY <1>3, <1>4 DEF ReplayOK, Untouched, OnWire, Held, Shown, GroupCopy, StatusFor
<1>5. ASSUME NEW i \in DOMAIN messages', NEW n \in DOMAIN messages',
             messages'[i].kind = "delivered", messages'[n].kind = "delivered",
             messages'[i].copy.msg = messages'[n].copy.msg,
             messages'[i].copy.box = messages'[n].copy.box
      PROVE  i = n
  <2>1. /\ i \in Nat /\ i + k \in DOMAIN messages /\ messages'[i] = messages[i + k]
        /\ n \in Nat /\ n + k \in DOMAIN messages /\ messages'[n] = messages[n + k]
    BY <1>2
  <2>2. i + k = n + k
    BY <1>5, <2>1 DEF OnceInv, Replays
  <2> QED BY <2>1, <2>2
<1>6. \A c \in Copy : c.history /\ <<c.msg, c.box>> \notin asked' => Untouched(c)'
  BY DEF OnceInv, Replays
<1>7. Replays'
  BY <1>4, <1>5, <1>6 DEF Replays
<1> QED BY <1>1, <1>7

LEMMA SameCopies ==
  ASSUME sent' = sent
  PROVE  \A m : /\ SenderCopy(m)' = SenderCopy(m) /\ RecipientCopy(m)' = RecipientCopy(m)
                /\ IsGroup(m)' <=> IsGroup(m)
BY DEF SenderCopy, RecipientCopy, IsGroup

LEMMA DirectCopies ==
  ASSUME TypeInv, NEW m \in Known
  PROVE  /\ SenderCopy(m) \in KnownCopy /\ SenderCopy(m) \in Copy
         /\ RecipientCopy(m) \in KnownCopy /\ RecipientCopy(m) \in Copy
         /\ SenderCopy(m) # RecipientCopy(m)
         /\ ~ SenderCopy(m).history /\ SenderCopy(m).msg = m
         /\ ~ RecipientCopy(m).history /\ RecipientCopy(m).msg = m
<1>1. SenderCopy(m) \in KnownCopy /\ RecipientCopy(m) \in KnownCopy
  BY SentTypes DEF TypeInv, SenderCopy, RecipientCopy, KnownCopy, Inbox
<1>2. SenderCopy(m).status # RecipientCopy(m).status
      /\ ~ SenderCopy(m).history /\ SenderCopy(m).msg = m
      /\ ~ RecipientCopy(m).history /\ RecipientCopy(m).msg = m
  BY DEF SenderCopy, RecipientCopy, SENT, DELIVERED
<1> QED BY <1>1, <1>2, Queues

LEMMA EntitledStays ==
  ASSUME TypeInv, OnceInv, Grows, sent' = sent
  PROVE  \A i \in DOMAIN wire : \A j \in wire[i] :
           j.topic = "clientadded" => Entitled(j.copy)'
<1>1. ASSUME NEW i \in DOMAIN wire, NEW j \in wire[i], j.topic = "clientadded"
      PROVE  Entitled(j.copy)'
  <2>1. Entitled(j.copy)
    BY <1>1 DEF OnceInv, WireEntitled
  <2> QED BY <2>1 DEF Entitled, IsGroup, StatusFor, GroupCopy, Grows
<1> QED BY <1>1

\* A step that publishes new copies.
LEMMA PublishOnce ==
  ASSUME TypeInv, CopyInv, OnceInv, NEW jobs \in SUBSET KnownJob, Publish(jobs), New(jobs),
         unconfirmed' \subseteq unconfirmed, inbox' = inbox, persist' = persist,
         sent' = sent, asked' = asked,
         Drops(messages, messages'), HandledOnce', \A m : Waiting(m)' => Waiting(m),
         \A c \in CopiesOf(Out(jobs)) :
           IF c.history
           THEN /\ <<c.msg, c.box>> \in asked
                /\ \A i \in DOMAIN messages' :
                     messages'[i].kind = "delivered" => messages'[i].copy # c
           ELSE ~ Waiting(c.msg)',
         \A j \in Out(jobs) : j.topic = "clientadded" => Entitled(j.copy),
         \A m \in Known : ~ IsGroup(m) =>
           /\ SenderCopy(m) \in CopiesOf(Out(jobs)) =>
                \/ OnWire(SenderCopy(m)) \/ Held(SenderCopy(m))
                \/ Untouched(RecipientCopy(m))
           /\ RecipientCopy(m) \in CopiesOf(Out(jobs)) =>
                /\ ~ OnWire(SenderCopy(m)) /\ ~ Held(SenderCopy(m))'
                /\ SenderCopy(m) \notin CopiesOf(Out(jobs))
  PROVE  OnceInv'
<1> DEFINE P == CopiesOf(Out(jobs))
<1>1. /\ Single'
      /\ \A c : OnWire(c)' => OnWire(c) \/ c \in P
      /\ \A c : Held(c)' => Held(c)
      /\ \A c : c \notin P /\ Untouched(c) => Untouched(c)'
  BY PublishSingle DEF OnceInv
<1>2. Grows
  BY SameGrows
<1>3. FirstTime' /\ Replays'
  <2> HIDE DEF P
  <2>1. \A c \in P : IF c.history
                     THEN /\ <<c.msg, c.box>> \in asked
                          /\ \A i \in DOMAIN messages' :
                               messages'[i].kind = "delivered" => messages'[i].copy # c
                     ELSE ~ Waiting(c.msg)'
    BY DEF P
  <2> QED BY <1>1, <1>2, <2>1, FirstTimeStays
<1>4. FollowsOnce'
  <2> SUFFICES ASSUME NEW m \in Known, ~ IsGroup(m), NEW sc, sc = SenderCopy(m),
                      NEW rc, rc = RecipientCopy(m), OnWire(sc)' \/ Held(sc)'
               PROVE  Untouched(rc)'
    BY SameCopies DEF FollowsOnce, Known, Untouched, OnWire, Held, Shown
  <2> HIDE DEF P
  <2>1. rc \in P => ~ OnWire(sc) /\ ~ Held(sc)' /\ sc \notin P
    <3>1. Held(SenderCopy(m))' <=> Held(sc)'
      BY SameCopies DEF Held
    <3> QED BY <3>1 DEF P
  <2>2. rc \notin P
    BY <1>1, <2>1
  <2>3. OnWire(sc) \/ Held(sc) \/ sc \in P
    BY <1>1
  <2>4. Untouched(rc)
    BY <2>3 DEF OnceInv, FollowsOnce, P
  <2> QED BY <1>1, <2>2, <2>4
<1>5. WireEntitled'
  <2>1. \A i \in DOMAIN wire : \A j \in wire[i] :
          j.topic = "clientadded" => Entitled(j.copy)'
    BY <1>2, EntitledStays
  <2>2. \A j \in Out(jobs) : j.topic = "clientadded" => Entitled(j.copy)'
    BY DEF Entitled, IsGroup, StatusFor, GroupCopy
  <2>3. \A i \in DOMAIN wire' :
          wire'[i] = Out(jobs) \/ (i \in DOMAIN wire /\ wire'[i] = wire[i])
    BY PublishWire
  <2>4. ASSUME NEW i \in DOMAIN wire', NEW j \in wire'[i], j.topic = "clientadded"
        PROVE  Entitled(j.copy)'
    BY <2>1, <2>2, <2>3, <2>4
  <2> QED BY <2>4 DEF WireEntitled
<1> QED BY <1>1, <1>3, <1>4, <1>5 DEF OnceInv

\* A step that publishes nothing and shows nothing new.
LEMMA QuietOnce ==
  ASSUME TypeInv, OnceInv, Grows, sent' = sent, asked' = asked,
         Single', \A c : (OnWire(c)' \/ Held(c)') => OnWire(c) \/ Held(c),
         \A c \in Copy : Untouched(c) => Untouched(c)',
         WireEntitled', HandledOnce',
         Drops(messages, messages'), \A m : Waiting(m)' => Waiting(m)
  PROVE  OnceInv'
<1>1. FirstTime' /\ Replays'
  <2> DEFINE P == {}
  <2>1. \A c \in Copy : c \notin P /\ Untouched(c) => Untouched(c)'
    OBVIOUS
  <2>2. \A c \in P : IF c.history
                     THEN /\ <<c.msg, c.box>> \in asked
                          /\ \A i \in DOMAIN messages' :
                               messages'[i].kind = "delivered" => messages'[i].copy # c
                     ELSE ~ Waiting(c.msg)'
    OBVIOUS
  <2> HIDE DEF P
  <2> QED BY <2>1, <2>2, FirstTimeStays
<1>2. FollowsOnce'
  <2> SUFFICES ASSUME NEW m \in Known, ~ IsGroup(m), NEW sc, sc = SenderCopy(m),
                      NEW rc, rc = RecipientCopy(m), OnWire(sc)' \/ Held(sc)'
               PROVE  Untouched(rc)'
    BY SameCopies DEF FollowsOnce, Known, Untouched, OnWire, Held, Shown
  <2>1. Untouched(rc)
    BY DEF OnceInv, FollowsOnce
  <2> QED BY <2>1, DirectCopies
<1> QED BY <1>1, <1>2 DEF OnceInv

\* A step that leaves the connection and the broker alone.
LEMMA SameOnce ==
  ASSUME TypeInv, OnceInv, wire' = wire, unconfirmed' = unconfirmed, inbox' = inbox,
         persist' = persist, sent' = sent, asked' = asked, HandledOnce',
         Drops(messages, messages'), \A m : Waiting(m)' => Waiting(m)
  PROVE  OnceInv'
<1>1. Grows
  BY SameGrows
<1>2. \A c : /\ OnWire(c)' <=> OnWire(c)
             /\ Held(c)' <=> Held(c)
             /\ Shown(c)' <=> Shown(c)
  BY DEF OnWire, Held, Shown
<1>3. Single'
  BY <1>2 DEF OnceInv, Single
<1>4. WireEntitled'
  BY <1>1, EntitledStays DEF WireEntitled
<1>5. \A c \in Copy : Untouched(c) => Untouched(c)'
  BY <1>2 DEF Untouched
<1> QED BY <1>1, <1>2, <1>3, <1>4, <1>5, QuietOnce

\* deliverMessage() of copies that are nowhere yet.
LEMMA DeliverOnce ==
  ASSUME TypeInv, CopyInv, OnceInv, NEW m \in Known, NEW copies \in SUBSET KnownCopy,
         Deliver(m, copies), unconfirmed' = unconfirmed, inbox' = inbox, persist' = persist,
         sent' = sent, asked' = asked,
         HandledOnce', Drops(messages, messages'), \A k : Waiting(k)' => Waiting(k),
         \A c \in copies :
           /\ Untouched(c) /\ Entitled(c)
           /\ ~ IsGroup(c.msg) => c = SenderCopy(c.msg) /\ Untouched(RecipientCopy(c.msg))
           /\ IF c.history
              THEN /\ <<c.msg, c.box>> \in asked
                   /\ \A i \in DOMAIN messages' :
                        messages'[i].kind = "delivered" => messages'[i].copy # c
              ELSE ~ Waiting(c.msg)'
  PROVE  OnceInv'
<1> DEFINE long == {c \in copies : ~ Fits(Added(c))}
           failed == IF pubChannel THEN {} ELSE UNION {FollowUp(c) : c \in copies}
           jobs == {Added(c) : c \in copies \cup failed} \cup {Persist(c) : c \in long}
<1>1. Publish(jobs)
  BY DEF Deliver
<1>2. jobs \in SUBSET KnownJob
  <2>1. failed \subseteq KnownCopy
    BY FollowUpTypes DEF TypeInv
  <2> HIDE DEF failed
  <2> QED BY <2>1, JobTypes
<1>3. ASSUME NEW j \in Out(jobs) PROVE j.copy \in copies /\ j.topic = "clientadded"
  <2>1. pubChannel /\ Fits(j) /\ j \in jobs
    BY <1>3 DEF Out
  <2>2. CASE \E c \in copies : j = Added(c)
    BY <2>2 DEF Added
  <2>3. CASE \E c \in long : j = Persist(c)
    BY <2>1, <2>3, LongKeys
  <2> QED BY <2>1, <2>2, <2>3
<1> HIDE DEF jobs
<1>4. New(jobs)
  BY <1>3 DEF New, Untouched, Held
<1>5. CopiesOf(Out(jobs)) \subseteq copies
  BY <1>3 DEF CopiesOf
<1>6. ASSUME NEW k \in Known, ~ IsGroup(k)
      PROVE  /\ SenderCopy(k) \in copies => Untouched(RecipientCopy(k))
             /\ RecipientCopy(k) \notin copies
  BY <1>6, DirectCopies
<1> QED BY <1>1, <1>2, <1>3, <1>4, <1>5, <1>6, PublishOnce

LEMMA FanOutOnce ==
  ASSUME TypeInv, CopyInv, OnceInv, NEW m \in Known, IsGroup(m), Waiting(m), ~ Waiting(m)',
         NEW mem \in Seq(Inbox), FanOut(m, mem),
         unconfirmed' = unconfirmed, inbox' = inbox, persist' = persist,
         sent' = sent, asked' = asked,
         HandledOnce', Drops(messages, messages'), \A k : Waiting(k)' => Waiting(k)
  PROVE  OnceInv'
<1>1. PICK n \in 0 .. Len(mem) : Deliver(m, {GroupCopy(m, mem[i]) : i \in 1 .. n})
  BY DEF FanOut
<1> DEFINE copies == {GroupCopy(m, mem[i]) : i \in 1 .. n}
<1>2. \A i \in 1 .. n : mem[i] \in Inbox
  BY LenProperties
<1>3. ASSUME NEW c \in copies
      PROVE  /\ c \in KnownCopy /\ c.msg = m /\ ~ c.history
             /\ c.status = StatusFor(m, c.box)
  <2>1. PICK i \in 1 .. n : c = GroupCopy(m, mem[i])
    BY <1>3
  <2> QED BY <1>2, <2>1, GroupCopyTypes DEF TypeInv, GroupCopy
<1> HIDE DEF copies
<1>4. \A c \in copies : Untouched(c) /\ Entitled(c)
  BY <1>3, Queues DEF OnceInv, FirstTime, Entitled
<1>5. copies \in SUBSET KnownCopy /\ Deliver(m, copies)
  BY <1>1, <1>3 DEF copies
<1> QED BY <1>3, <1>4, <1>5, DeliverOnce

\* process_outgoing of a message that leaves the queue or the rate limiter.
LEMMA OutgoingOnce ==
  ASSUME TypeInv, CopyInv, OnceInv, NEW m \in Known, Waiting(m), Outgoing(m),
         unconfirmed' = unconfirmed, inbox' = inbox, persist' = persist,
         sent' = sent, asked' = asked,
         Drops(messages, messages'), Drops(limiting, limiting'),
         ~ Queued(m)', ~ Limited(m)', m \notin looking
  PROVE  OnceInv'
<1>1. looking' = looking \/ looking' = looking \cup {m}
  BY OutgoingLooks
<1>2. HandledOnce' /\ \A k : Waiting(k)' => Waiting(k)
  <2>1. /\ \A i \in DOMAIN messages' : \E n \in DOMAIN messages : messages'[i] = messages[n]
        /\ \A i, n \in DOMAIN messages' : messages'[i] = messages'[n] => i = n
    BY Queues, DropsKeeps DEF OnceInv, HandledOnce
  <2>2. /\ \A i \in DOMAIN limiting' : \E n \in DOMAIN limiting : limiting'[i] = limiting[n]
        /\ \A i, n \in DOMAIN limiting' : limiting'[i] = limiting'[n] => i = n
    BY Queues, DropsKeeps DEF OnceInv, HandledOnce
  <2>3. \A k : Queued(k)' => Queued(k)
    BY <2>1 DEF Queued, OutgoingTask
  <2>4. \A k : Limited(k)' => Limited(k)
    BY <2>2 DEF Limited
  <2>5. \A k : Waiting(k)' => Waiting(k)
    BY <1>1, <2>3, <2>4 DEF Waiting
  <2>6. \A k \in Known : Queued(k)' => ~ Limited(k)' /\ k \notin looking'
    BY <1>1, <2>3, <2>4 DEF OnceInv, HandledOnce
  <2>7. \A k \in looking' : ~ Limited(k)'
    BY <1>1, <2>4 DEF OnceInv, HandledOnce
  <2>8. HandledOnce'
    BY <2>1, <2>2, <2>6, <2>7 DEF HandledOnce, Known
  <2> QED BY <2>5, <2>8
<1>3. CASE ~ IsGroup(m) /\ looking' = looking /\ Deliver(m, {SenderCopy(m)})
  <2>0. PICK sc : sc = SenderCopy(m)
    OBVIOUS
  <2>1. sc \in KnownCopy /\ sc \in Copy /\ sc.msg = m /\ ~ sc.history
        /\ RecipientCopy(m) \in Copy /\ RecipientCopy(m).msg = m /\ ~ RecipientCopy(m).history
    BY <2>0, DirectCopies
  <2>2. Untouched(sc) /\ Untouched(RecipientCopy(m))
    BY <2>1 DEF OnceInv, FirstTime
  <2>3. Entitled(sc) /\ sc = SenderCopy(sc.msg) /\ RecipientCopy(sc.msg) = RecipientCopy(m)
    BY <1>3, <2>0, <2>1 DEF Entitled
  <2>4. ~ Waiting(sc.msg)'
    BY <1>3, <2>1 DEF Waiting
  <2>5. {sc} \in SUBSET KnownCopy /\ Deliver(m, {sc})
    BY <1>3, <2>0, <2>1
  <2> QED BY <1>2, <2>1, <2>2, <2>3, <2>4, <2>5, DeliverOnce
<1>4. CASE /\ IsGroup(m) /\ sent[m].group # NONE /\ looking' = looking
           /\ FanOut(m, SetKey(SetKey(sent[m].group, sent[m].recipient), sent[m].sender))
  <2>1. /\ sent[m].group \in Seq(Inbox) /\ sent[m].recipient \in Inbox
        /\ sent[m].sender \in Inbox
    BY <1>4, SentTypes DEF TypeInv, Inbox
  <2>2. SetKey(SetKey(sent[m].group, sent[m].recipient), sent[m].sender) \in Seq(Inbox)
    BY <2>1, SetKeyTypes
  <2>3. ~ Waiting(m)'
    BY <1>4 DEF Waiting
  <2> QED BY <1>2, <1>4, <2>2, <2>3, FanOutOnce
<1>5. CASE wire' = wire
  BY <1>2, <1>5, SameOnce
<1>6. \/ ~ IsGroup(m) /\ looking' = looking /\ Deliver(m, {SenderCopy(m)})
      \/ /\ IsGroup(m) /\ sent[m].group # NONE /\ looking' = looking
         /\ FanOut(m, SetKey(SetKey(sent[m].group, sent[m].recipient), sent[m].sender))
      \/ wire' = wire
  BY DEF Outgoing, SenderCopy
<1> QED BY <1>3, <1>4, <1>5, <1>6

-----------------------------------------------------------------------------
(* The actions.                                                            *)

LEMMA InitOnce ==
  ASSUME Init
  PROVE  OnceInv
<1>1. DOMAIN wire = {} /\ DOMAIN messages = {} /\ DOMAIN limiting = {} /\ looking = {}
      /\ unconfirmed = {} /\ Known = {}
  BY EmptySeq DEF Init, Known
<1>2. \A c \in Copy : Untouched(c)
  <2> SUFFICES ASSUME NEW c \in Copy PROVE ~ Shown(c)
    BY <1>1 DEF Untouched, OnWire, Held
  <2>1. c.box \in Inbox
    BY DEF Copy
  <2>2. inbox[c.box] = <<>>
    BY <2>1 DEF Init
  <2> QED BY <2>2 DEF Shown, Range
<1> QED BY <1>1, <1>2 DEF OnceInv, Single, FollowsOnce, HandledOnce, FirstTime, Replays,
                          WireEntitled

\* Nothing is anywhere of a message that was not sent.
LEMMA UnknownUntouched ==
  ASSUME TypeInv, CopyInv, NEW c \in Copy, c.msg \notin Known
  PROVE  Untouched(c)
<1>1. c \notin KnownCopy
  BY DEF KnownCopy
<1>2. ~ OnWire(c)
  BY <1>1, WireSeq DEF OnWire, KnownJob
<1>3. ~ Held(c)
  BY <1>1 DEF Held, TypeInv, KnownOK, KnownJob
<1>4. ~ Shown(c)
  <2>1. Shown(c) => c \in Copies
    BY DEF Shown, Copies, Copy
  <2> QED BY <1>1, <2>1 DEF CopyInv, CopiesKnown
<1> QED BY <1>2, <1>3, <1>4 DEF Untouched

LEMMA SendOnce ==
  ASSUME TypeInv, CopyInv, OnceInv, NEW e \in Envelope, Send(e)
  PROVE  OnceInv'
<1> DEFINE n == Len(sent) + 1
           new == OutgoingTask(n)
<1>1. /\ sent' = Append(sent, e) /\ messages' = Append(messages, new)
      /\ UNCHANGED <<asked, limiting, looking, wire, unconfirmed, inbox, persist>>
  BY DEF Send, OutgoingTask, handlers, channel, broker
<1>2. sent \in Seq(Envelope) /\ messages \in Seq(KnownTask)
  BY DEF TypeInv, TypeOK, KnownOK
<1>3. /\ Known' = Known \cup {n} /\ n \notin Known
      /\ \A m \in Known : sent'[m] = sent[m]
  <2>1. Known = 1 .. Len(sent) /\ Len(sent) \in Nat
    BY <1>2, LenProperties DEF Known
  <2>2. Known' = 1 .. Len(sent) + 1 /\ \A m \in 1 .. Len(sent) : sent'[m] = sent[m]
    BY <1>1, <1>2, AppendProperties, LenProperties DEF Known
  <2> QED BY <2>1, <2>2
<1>4. /\ DOMAIN messages' = DOMAIN messages \cup {Len(messages) + 1}
      /\ Len(messages) + 1 \notin DOMAIN messages
      /\ \A i \in DOMAIN messages : messages'[i] = messages[i]
      /\ messages'[Len(messages) + 1] = new
  <2>1. DOMAIN messages = 1 .. Len(messages) /\ Len(messages) \in Nat
    BY <1>2, LenProperties
  <2>2. new \in KnownTask \cup {new} /\ messages \in Seq(KnownTask \cup {new})
    BY <1>2
  <2> HIDE DEF new
  <2>3. /\ messages' \in Seq(KnownTask \cup {new}) /\ Len(messages') = Len(messages) + 1
        /\ \A i \in 1 .. Len(messages) : messages'[i] = messages[i]
        /\ messages'[Len(messages) + 1] = new
    BY <1>1, <2>2, AppendProperties
  <2>4. DOMAIN messages' = 1 .. Len(messages) + 1
    BY <2>3, LenProperties
  <2> QED BY <2>1, <2>3, <2>4
<1> DEFINE l == Len(messages) + 1
<1> HIDE DEF l
<1>5. new.kind = "outgoing" /\ new.msg = n
  BY DEF OutgoingTask
<1>6. \A i \in DOMAIN messages : messages[i] # new
  <2>1. ~ Queued(n)
    BY <1>3, Queues DEF Waiting
  <2> QED BY <2>1 DEF Queued
<1>7. \A c : /\ OnWire(c)' <=> OnWire(c)
             /\ Held(c)' <=> Held(c)
             /\ Shown(c)' <=> Shown(c)
             /\ Untouched(c)' <=> Untouched(c)
  BY <1>1 DEF OnWire, Held, Shown, Untouched
<1>8. Single'
  BY <1>1, <1>7 DEF OnceInv, Single
<1>9. \A m \in Known : /\ SenderCopy(m)' = SenderCopy(m)
                       /\ RecipientCopy(m)' = RecipientCopy(m)
                       /\ IsGroup(m)' <=> IsGroup(m)
  BY <1>3 DEF SenderCopy, RecipientCopy, IsGroup
<1>10. FollowsOnce'
  <2> SUFFICES ASSUME NEW m \in Known', ~ IsGroup(m)',
                      NEW sc, sc = SenderCopy(m)', NEW rc, rc = RecipientCopy(m)',
                      OnWire(sc) \/ Held(sc)
               PROVE  Untouched(rc)
    BY <1>1 DEF FollowsOnce, OnWire, Held, Shown, Untouched
  <2>1. sc.msg = m
    BY DEF SenderCopy
  <2>2. m \in Known
    <3>1. sc \in KnownCopy
      BY WireSeq DEF OnWire, Held, TypeInv, KnownOK, KnownJob
    <3> QED BY <2>1, <3>1 DEF KnownCopy
  <2> QED BY <1>9, <2>2 DEF OnceInv, FollowsOnce
<1>11. /\ \A m \in Known' : Queued(m)' <=> Queued(m) \/ m = n
       /\ \A m : Limited(m)' <=> Limited(m)
  <2>1. \A m : Queued(m)' <=> Queued(m) \/ OutgoingTask(m) = new
    BY <1>4 DEF Queued, OutgoingTask
  <2>2. \A m : OutgoingTask(m) = new <=> m = n
    BY DEF OutgoingTask
  <2> QED BY <1>1, <2>1, <2>2 DEF Limited
<1>12. HandledOnce'
  <2>1. \A i, k \in DOMAIN messages' : messages'[i] = messages'[k] => i = k
    BY <1>4, <1>6 DEF OnceInv, HandledOnce
  <2>2. ~ Limited(n) /\ n \notin looking
    BY <1>3, Queues DEF Waiting
  <2>3. \A m \in Known' : Queued(m)' => ~ Limited(m)' /\ m \notin looking'
    BY <1>1, <1>3, <1>11, <2>2 DEF OnceInv, HandledOnce
  <2>4. /\ \A i, k \in DOMAIN limiting' : limiting'[i] = limiting'[k] => i = k
        /\ \A m \in looking' : ~ Limited(m)'
    BY <1>1, <1>11 DEF OnceInv, HandledOnce
  <2> QED BY <2>1, <2>3, <2>4 DEF HandledOnce
<1>13. FirstTime'
  <2> SUFFICES ASSUME NEW c \in Copy, ~ c.history, Waiting(c.msg)'
               PROVE  Untouched(c)
    BY <1>7 DEF FirstTime
  <2>1. CASE c.msg \in Known
    <3>1. Waiting(c.msg)
      BY <1>1, <1>3, <1>11, <2>1 DEF Waiting
    <3> QED BY <3>1 DEF OnceInv, FirstTime
  <2>2. CASE c.msg \notin Known
    BY <2>2, UnknownUntouched
  <2> QED BY <2>1, <2>2
<1>14. Replays'
  <2>1. ASSUME NEW i \in DOMAIN messages', messages'[i].kind = "delivered"
        PROVE  i \in DOMAIN messages /\ messages'[i] = messages[i]
    BY <1>4, <1>5, <2>1
  <2>2. ASSUME NEW i \in DOMAIN messages, messages[i].kind = "delivered",
               NEW c, c = messages[i].copy
        PROVE  ReplayOK(c)'
    <3>1. ReplayOK(c) /\ c.msg \in Known
      <4>1. messages[i] \in KnownTask
        BY <1>2
      <4>2. \A t \in KnownTask : t.kind = "delivered" => t.copy.msg \in Known
        BY DEF KnownTask, KnownCopy
      <4> QED BY <2>2, <4>1, <4>2 DEF OnceInv, Replays
    <3>2. GroupCopy(c.msg, sent[c.msg].recipient)' = GroupCopy(c.msg, sent[c.msg].recipient)
      BY <1>3, <3>1 DEF GroupCopy, StatusFor
    <3> QED BY <1>1, <1>7, <3>1, <3>2 DEF ReplayOK
  <2>3. ASSUME NEW i \in DOMAIN messages', messages'[i].kind = "delivered"
        PROVE  ReplayOK(messages[i].copy)'
    <3>1. ASSUME NEW c, c = messages'[i].copy PROVE ReplayOK(c)'
      BY <2>1, <2>2, <2>3, <3>1
    <3> QED BY <3>1 DEF ReplayOK, Untouched, OnWire, Held, Shown, GroupCopy, StatusFor
  <2>4. \A c \in Copy : c.history /\ <<c.msg, c.box>> \notin asked' => Untouched(c)'
    BY <1>1, <1>7 DEF OnceInv, Replays
  <2>5. ASSUME NEW i \in DOMAIN messages', NEW k \in DOMAIN messages',
               messages'[i].kind = "delivered", messages'[k].kind = "delivered",
               messages'[i].copy.msg = messages'[k].copy.msg,
               messages'[i].copy.box = messages'[k].copy.box
        PROVE  i = k
    BY <2>1, <2>5 DEF OnceInv, Replays
  <2> QED BY <2>3, <2>4, <2>5 DEF Replays
<1>15. WireEntitled'
  <2> SUFFICES ASSUME NEW i \in DOMAIN wire, NEW j \in wire[i], j.topic = "clientadded"
               PROVE  Entitled(j.copy)'
    BY <1>1 DEF WireEntitled
  <2>1. j.copy.msg \in Known
    BY WireSeq DEF KnownJob, KnownCopy
  <2>2. Entitled(j.copy)
    BY DEF OnceInv, WireEntitled
  <2> QED BY <1>1, <1>3, <2>1, <2>2 DEF Entitled, IsGroup, StatusFor, GroupCopy
<1> QED BY <1>8, <1>10, <1>12, <1>13, <1>14, <1>15 DEF OnceInv

LEMMA AskHistoryOnce ==
  ASSUME TypeInv, CopyInv, OnceInv,
         NEW m \in Msg, NEW u \in User, NEW st \in {SENT, DELIVERED}, AskHistory(m, u, st)
  PROVE  OnceInv'
<1>0. PICK new : new = [msg |-> m, box |-> u, status |-> st, history |-> TRUE]
  OBVIOUS
<1>1. PICK task : task = [kind |-> "delivered", copy |-> new]
  OBVIOUS
<1>2. /\ messages' = Append(messages, task) /\ asked' = asked \cup {<<m, u>>}
      /\ <<m, u>> \notin asked /\ m \in Known
      /\ GroupCopy(m, sent[m].recipient) \in persist
      /\ UNCHANGED <<sent, limiting, looking, wire, unconfirmed, inbox, persist>>
  BY <1>0, <1>1, KnownTypes DEF AskHistory, handlers, channel, broker, TypeInv
<1>3. /\ task.kind = "delivered" /\ task.copy = new
      /\ new.msg = m /\ new.box = u /\ new.history /\ new \in Copy
  BY <1>0, <1>1, <1>2, KnownTypes DEF Copy, Inbox, TypeInv
<1>4. /\ DOMAIN messages' = DOMAIN messages \cup {Len(messages) + 1}
      /\ Len(messages) + 1 \notin DOMAIN messages
      /\ \A i \in DOMAIN messages : messages'[i] = messages[i]
      /\ messages'[Len(messages) + 1] = task
  <2>1. messages \in Seq(KnownTask)
    BY Queues
  <2>2. DOMAIN messages = 1 .. Len(messages) /\ Len(messages) \in Nat
    BY <2>1, LenProperties
  <2>3. task \in KnownTask \cup {task} /\ messages \in Seq(KnownTask \cup {task})
    BY <2>1
  <2>4. /\ messages' \in Seq(KnownTask \cup {task}) /\ Len(messages') = Len(messages) + 1
        /\ \A i \in 1 .. Len(messages) : messages'[i] = messages[i]
        /\ messages'[Len(messages) + 1] = task
    BY <1>2, <2>3, AppendProperties
  <2>5. DOMAIN messages' = 1 .. Len(messages) + 1
    BY <2>4, LenProperties
  <2> QED BY <2>2, <2>4, <2>5
<1>5. \A c : /\ OnWire(c)' <=> OnWire(c)
             /\ Held(c)' <=> Held(c)
             /\ Shown(c)' <=> Shown(c)
             /\ Untouched(c)' <=> Untouched(c)
  BY <1>2 DEF OnWire, Held, Shown, Untouched
\* No replay of m to u is queued: it would have been asked for.
<1>6. \A i \in DOMAIN messages : messages[i].kind = "delivered" =>
        ~ (messages[i].copy.msg = m /\ messages[i].copy.box = u)
  BY <1>2 DEF OnceInv, Replays, ReplayOK
<1>7. \A k : Queued(k)' => Queued(k)
  <2>1. \A k : OutgoingTask(k) # task
    BY <1>3 DEF OutgoingTask
  <2> QED BY <1>4, <2>1 DEF Queued, OutgoingTask
<1>8. Single'
  BY <1>2, <1>5 DEF OnceInv, Single
<1>9. FollowsOnce'
  BY <1>2, <1>5, SameCopies DEF OnceInv, FollowsOnce, Known, OnWire, Held, Untouched, Shown
<1>10. HandledOnce'
  <2>1. \A i, k \in DOMAIN messages' : messages'[i] = messages'[k] => i = k
    BY <1>3, <1>4, <1>6 DEF OnceInv, HandledOnce
  <2>2. \A k : Limited(k)' <=> Limited(k)
    BY <1>2 DEF Limited
  <2> QED BY <1>2, <1>7, <2>1, <2>2 DEF OnceInv, HandledOnce, Known
<1>11. FirstTime'
  <2>1. \A k : Waiting(k)' => Waiting(k)
    BY <1>2, <1>7 DEF Waiting, Limited
  <2> QED BY <1>5, <2>1 DEF OnceInv, FirstTime
<1>12. Replays'
  <2>1. ASSUME NEW i \in DOMAIN messages', messages'[i].kind = "delivered",
               NEW c, c = messages'[i].copy
        PROVE  ReplayOK(c)'
    <3>1. c.history /\ c.box \in User /\ <<c.msg, c.box>> \in asked' /\ Untouched(c)
          /\ GroupCopy(c.msg, sent[c.msg].recipient) \in persist
      <4>1. CASE i \in DOMAIN messages
        BY <1>2, <1>4, <2>1, <4>1 DEF OnceInv, Replays, ReplayOK
      <4>2. CASE i = Len(messages) + 1
        <5>1. c = new
          BY <1>3, <1>4, <2>1, <4>2
        <5> QED BY <5>1, <1>2, <1>3 DEF OnceInv, Replays
      <4> QED BY <1>4, <4>1, <4>2
    <3>2. GroupCopy(c.msg, sent[c.msg].recipient)' = GroupCopy(c.msg, sent[c.msg].recipient)
      BY <1>2 DEF GroupCopy, StatusFor
    <3> QED BY <1>2, <1>5, <3>1, <3>2 DEF ReplayOK
  <2>2. ASSUME NEW i \in DOMAIN messages', messages'[i].kind = "delivered"
        PROVE  ReplayOK(messages[i].copy)'
    BY <2>1, <2>2 DEF ReplayOK, Untouched, OnWire, Held, Shown, GroupCopy, StatusFor
  <2>3. ASSUME NEW i \in DOMAIN messages', NEW k \in DOMAIN messages',
               messages'[i].kind = "delivered", messages'[k].kind = "delivered",
               messages'[i].copy.msg = messages'[k].copy.msg,
               messages'[i].copy.box = messages'[k].copy.box
        PROVE  i = k
    <3>1. CASE i \in DOMAIN messages /\ k \in DOMAIN messages
      BY <1>4, <2>3, <3>1 DEF OnceInv, Replays
    <3>2. CASE i = Len(messages) + 1 \/ k = Len(messages) + 1
      BY <1>3, <1>4, <1>6, <2>3, <3>2
    <3> QED BY <1>4, <3>1, <3>2
  <2>4. \A c \in Copy : c.history /\ <<c.msg, c.box>> \notin asked' => Untouched(c)'
    BY <1>2, <1>5 DEF OnceInv, Replays
  <2> QED BY <2>2, <2>3, <2>4 DEF Replays
<1>13. WireEntitled'
  BY <1>2 DEF OnceInv, WireEntitled, Entitled, IsGroup, StatusFor, GroupCopy
<1> QED BY <1>8, <1>9, <1>10, <1>11, <1>12, <1>13 DEF OnceInv

LEMMA ReceiveOutgoingOnce ==
  ASSUME TypeInv, CopyInv, OnceInv, ReceiveOutgoing
  PROVE  OnceInv'
<1>0. PICK m : m = Head(messages).msg
  OBVIOUS
<1>1. /\ messages # <<>> /\ Head(messages).kind = "outgoing" /\ messages' = Tail(messages)
      /\ UNCHANGED <<sent, asked, inbox, persist, unconfirmed>>
      /\ \/ /\ limiting' = Append(limiting, m) /\ UNCHANGED <<looking, wire>>
         \/ Outgoing(m) /\ limiting' = limiting
  BY <1>0 DEF ReceiveOutgoing, clients, broker, channel
<1>2. messages \in Seq(KnownTask) /\ limiting \in Seq(Known) /\ m \in Known
  BY <1>0, <1>1, Queues, TakeTypes
<1>3. Head(messages) = OutgoingTask(m)
  <2>1. Head(messages) \in KnownTask
    BY <1>1, TakeTypes
  <2> QED BY <1>0, <1>1, <2>1 DEF KnownTask, OutgoingTask
<1>4. /\ 1 \in DOMAIN messages /\ messages[1] = OutgoingTask(m)
      /\ \A i \in DOMAIN messages' : messages'[i] # OutgoingTask(m)
  BY <1>1, <1>2, <1>3, HeadLeaves DEF OnceInv, HandledOnce
<1>5. Queued(m) /\ ~ Queued(m)' /\ Drops(messages, messages')
  BY <1>1, <1>2, <1>4, DropsHead DEF Queued, OutgoingTask
<1>6. ~ Limited(m) /\ m \notin looking
  BY <1>2, <1>5 DEF OnceInv, HandledOnce
<1>7. CASE Outgoing(m) /\ limiting' = limiting
  <2>1. Drops(limiting, limiting') /\ ~ Limited(m)'
    BY <1>2, <1>6, <1>7, DropsNothing DEF Limited
  <2> QED BY <1>1, <1>2, <1>5, <1>6, <1>7, <2>1, OutgoingOnce DEF Waiting
<1>8. CASE limiting' = Append(limiting, m) /\ UNCHANGED <<looking, wire>>
  <2>1. /\ DOMAIN limiting' = DOMAIN limiting \cup {Len(limiting) + 1}
        /\ Len(limiting) + 1 \notin DOMAIN limiting
        /\ \A i \in DOMAIN limiting : limiting'[i] = limiting[i]
        /\ limiting'[Len(limiting) + 1] = m
    <3>1. /\ limiting' \in Seq(Known) /\ Len(limiting') = Len(limiting) + 1
          /\ \A i \in 1 .. Len(limiting) : limiting'[i] = limiting[i]
          /\ limiting'[Len(limiting) + 1] = m
      BY <1>2, <1>8, AppendProperties
    <3>2. DOMAIN limiting = 1 .. Len(limiting) /\ Len(limiting) \in Nat
          /\ DOMAIN limiting' = 1 .. Len(limiting) + 1
      BY <1>2, <3>1, LenProperties
    <3> QED BY <3>1, <3>2
  <2>2. \A k : Limited(k)' <=> Limited(k) \/ k = m
    BY <2>1 DEF Limited
  <2>3. /\ \A i \in DOMAIN messages' : \E n \in DOMAIN messages : messages'[i] = messages[n]
        /\ \A i, n \in DOMAIN messages' : messages'[i] = messages'[n] => i = n
    BY <1>2, <1>5, DropsKeeps DEF OnceInv, HandledOnce
  <2>4. \A k : Queued(k)' => Queued(k) /\ k # m
    BY <1>5, <2>3 DEF Queued, OutgoingTask
  <2>5. \A k : Waiting(k)' => Waiting(k)
    BY <1>5, <1>8, <2>2, <2>4 DEF Waiting
  <2>6. \A i, n \in DOMAIN limiting' : limiting'[i] = limiting'[n] => i = n
    BY <1>6, <2>1 DEF OnceInv, HandledOnce, Limited
  <2>7. HandledOnce'
    <3>1. \A k \in Known : Queued(k)' => ~ Limited(k)' /\ k \notin looking'
      BY <1>8, <2>2, <2>4 DEF OnceInv, HandledOnce
    <3>2. \A k \in looking' : ~ Limited(k)'
      BY <1>6, <1>8, <2>2 DEF OnceInv, HandledOnce
    <3> QED BY <1>1, <2>3, <2>6, <3>1, <3>2 DEF HandledOnce, Known
  <2> QED BY <1>1, <1>5, <1>8, <2>5, <2>7, SameOnce
<1> QED BY <1>1, <1>7, <1>8

LEMMA AdmitOnce ==
  ASSUME TypeInv, CopyInv, OnceInv, Admit
  PROVE  OnceInv'
<1>0. PICK m : m = Head(limiting)
  OBVIOUS
<1>1. /\ limiting # <<>> /\ limiting' = Tail(limiting) /\ Outgoing(m)
      /\ UNCHANGED <<sent, asked, messages, inbox, persist, unconfirmed>>
  BY <1>0 DEF Admit, clients, broker
<1>2. messages \in Seq(KnownTask) /\ limiting \in Seq(Known)
  BY Queues
<1>3. /\ 1 \in DOMAIN limiting /\ limiting[1] = m
      /\ \A i \in DOMAIN limiting' : limiting'[i] # m
  BY <1>0, <1>1, <1>2, HeadLeaves DEF OnceInv, HandledOnce
<1>4. Limited(m) /\ ~ Limited(m)' /\ m \in Known
  BY <1>2, <1>3 DEF Limited
<1>5. ~ Queued(m) /\ m \notin looking
  BY <1>4 DEF OnceInv, HandledOnce
<1>6. ~ Queued(m)' /\ Drops(messages, messages') /\ Drops(limiting, limiting')
  BY <1>1, <1>2, <1>5, DropsNothing, DropsHead DEF Queued
<1> QED BY <1>1, <1>4, <1>5, <1>6, OutgoingOnce DEF Waiting

LEMMA RefuseOnce ==
  ASSUME TypeInv, OnceInv, Refuse
  PROVE  OnceInv'
<1>1. /\ limiting # <<>> /\ limiting' = Tail(limiting)
      /\ UNCHANGED <<sent, asked, messages, looking, wire, unconfirmed, inbox, persist>>
  BY DEF Refuse, clients, broker, channel
<1>2. Drops(messages, messages') /\ Drops(limiting, limiting')
  BY <1>1, Queues, DropsNothing, DropsHead
<1>3. HandledOnce' /\ \A m : Waiting(m)' => Waiting(m)
  BY <1>1, <1>2, QueuesDrop DEF OnceInv
<1> QED BY <1>1, <1>2, <1>3, SameOnce

LEMMA LookupOnce ==
  ASSUME TypeInv, CopyInv, OnceInv, NEW m \in looking, IsGroup(m), Lookup(m)
  PROVE  OnceInv'
<1>1. m \in Known
  BY Queues
<1>2. PICK mem \in Seq(Inbox) :
        /\ FanOut(m, mem) /\ looking' = looking \ {m}
        /\ UNCHANGED <<sent, asked, messages, limiting, unconfirmed, inbox, persist>>
  <2>1. CASE GroupMissing(m)
    <3>1. <<sent[m].sender, sent[m].recipient>> \in Seq(Inbox)
      BY <1>1, SentTypes DEF TypeInv, Inbox
    <3> QED BY <2>1, <3>1 DEF GroupMissing, clients, broker
  <2>2. CASE \E roster \in Roster : GroupFound(m, roster)
    <3>1. PICK roster \in Roster : GroupFound(m, roster)
      BY <2>2
    <3>2. roster \in Seq(Inbox) /\ sent[m].recipient \in Inbox
      BY <1>1, SentTypes, DeliveryAssumption DEF TypeInv, DeliveryAssumption, Inbox
    <3>3. SetKey(roster, sent[m].recipient) \in Seq(Inbox)
      BY <3>2, SetKeyTypes
    <3> QED BY <3>1, <3>3 DEF GroupFound, clients, broker
  <2> QED BY <2>1, <2>2 DEF Lookup
<1>3. Drops(messages, messages') /\ Drops(limiting, limiting')
  BY <1>2, Queues, DropsNothing
<1>4. HandledOnce' /\ \A k : Waiting(k)' => Waiting(k)
  BY <1>2, <1>3, QueuesDrop DEF OnceInv
<1>5. ~ Queued(m) /\ ~ Limited(m)
  BY <1>1 DEF OnceInv, HandledOnce
<1>6. Waiting(m) /\ ~ Waiting(m)'
  BY <1>2, <1>5 DEF Waiting, Queued, Limited
<1> QED BY <1>1, <1>2, <1>3, <1>4, <1>6, FanOutOnce

LEMMA ReceiveDeliveredOnce ==
  ASSUME TypeInv, CopyInv, OnceInv, ReceiveDelivered
  PROVE  OnceInv'
<1>0. PICK c : c = Head(messages).copy
  OBVIOUS
<1>1. /\ messages # <<>> /\ Head(messages).kind = "delivered" /\ messages' = Tail(messages)
      /\ UNCHANGED <<sent, asked, limiting, looking, inbox, persist, unconfirmed>>
      /\ wire' = wire \/ (c.status = DELIVERED /\ Deliver(c.msg, {c}))
  BY <1>0 DEF ReceiveDelivered, clients, handlers, broker
<1>2. messages \in Seq(KnownTask) /\ limiting \in Seq(Known)
  BY Queues
<1>3. Drops(messages, messages') /\ Drops(limiting, limiting')
  BY <1>1, <1>2, DropsNothing, DropsHead
<1>4. HandledOnce' /\ \A k : Waiting(k)' => Waiting(k)
  BY <1>1, <1>3, QueuesDrop DEF OnceInv
<1>5. CASE wire' = wire
  BY <1>1, <1>3, <1>4, <1>5, SameOnce
<1>6. CASE c.status = DELIVERED /\ Deliver(c.msg, {c})
  <2>1. /\ 1 \in DOMAIN messages /\ Head(messages) = messages[1]
        /\ \A i \in DOMAIN messages' : messages'[i] # Head(messages)
    BY <1>1, <1>2, HeadLeaves DEF OnceInv, HandledOnce
  <2>2. ReplayOK(c) /\ IsGroup(c.msg)
    BY <1>0, <1>1, <2>1 DEF OnceInv, Replays, CopyInv, TasksOK
  <2>3. c \in KnownCopy /\ c.msg \in Known
    BY <1>0, <1>1, TakeTypes DEF KnownCopy
  <2>4. Entitled(c)
    BY <1>6, <2>2 DEF Entitled, ReplayOK
  <2>5. ASSUME NEW i \in DOMAIN messages', messages'[i].kind = "delivered"
        PROVE  messages'[i].copy # c
    <3>1. messages'[i] \in KnownTask
      BY <1>2, <1>3, DropsKeeps
    <3>2. Head(messages) \in KnownTask
      BY <1>2, <2>1
    <3>3. \A t, r \in KnownTask :
            t.kind = "delivered" /\ r.kind = "delivered" /\ t.copy = r.copy => t = r
      BY DEF KnownTask
    <3> QED BY <1>0, <1>1, <2>1, <2>5, <3>1, <3>2, <3>3
  <2>6. {c} \in SUBSET KnownCopy
    BY <2>3
  <2> QED BY <1>1, <1>3, <1>4, <1>6, <2>2, <2>3, <2>4, <2>5, <2>6, DeliverOnce DEF ReplayOK
<1> QED BY <1>1, <1>5, <1>6

\* The oldest burst reaches the broker, without the publishes it fails to take.
LEMMA ArriveOnce ==
  ASSUME TypeInv, OnceInv, wire # <<>>, wire' = Tail(wire),
         unconfirmed' = unconfirmed \cup Head(wire),
         NEW jobs \in SUBSET Head(wire), Arrive(jobs),
         UNCHANGED <<sent, asked, messages, limiting, looking>>
  PROVE  OnceInv'
<1>1. /\ Single'
      /\ \A c : (OnWire(c)' \/ Held(c)') => OnWire(c) \/ Held(c)
      /\ \A c \in Copy : Untouched(c) => Untouched(c)'
  BY ArriveSingle DEF OnceInv
<1>2. Head(wire) = wire[1] /\ 1 \in DOMAIN wire
  BY WireSeq, HeadTailProperties, EmptySeq
<1>3. jobs \in SUBSET KnownJob
  BY <1>2, WireSeq
<1>4. Grows
  BY <1>3, ArriveGrows
<1>5. WireEntitled'
  <2>1. \A i \in DOMAIN wire' : \E k \in DOMAIN wire : wire'[i] = wire[k]
    BY WireSeq, DropsHead, DropsKeeps
  <2>2. \A i \in DOMAIN wire : \A j \in wire[i] :
          j.topic = "clientadded" => Entitled(j.copy)'
    BY <1>4, EntitledStays
  <2>3. ASSUME NEW i \in DOMAIN wire', NEW j \in wire'[i], j.topic = "clientadded"
        PROVE  Entitled(j.copy)'
    BY <2>1, <2>2, <2>3
  <2> QED BY <2>3 DEF WireEntitled
<1>6. Drops(messages, messages') /\ Drops(limiting, limiting')
  BY Queues, DropsNothing
<1>7. HandledOnce' /\ \A m : Waiting(m)' => Waiting(m)
  BY <1>6, QueuesDrop DEF OnceInv
<1> QED BY <1>1, <1>4, <1>5, <1>6, <1>7, QuietOnce

LEMMA RouteOnce ==
  ASSUME TypeInv, OnceInv, Route
  PROVE  OnceInv'
<1>1. Head(wire) \in SUBSET Head(wire)
  OBVIOUS
<1> QED BY <1>1, ArriveOnce DEF Route, clients, handlers

LEMMA RejectOnce ==
  ASSUME TypeInv, OnceInv, NEW j, Reject(j)
  PROVE  OnceInv'
<1>1. Head(wire) \ {j} \in SUBSET Head(wire)
  OBVIOUS
<1> QED BY <1>1, ArriveOnce DEF Reject, clients, handlers

\* A copy that waits for a confirm belongs to a message that was handled, or to a
\* replay that was taken.
LEMMA HeldOnce ==
  ASSUME TypeInv, OnceInv, NEW c \in Copy, Held(c)
  PROVE  IF c.history
         THEN /\ <<c.msg, c.box>> \in asked
              /\ \A i \in DOMAIN messages : messages[i].kind = "delivered" => messages[i].copy # c
         ELSE ~ Waiting(c.msg)
BY DEF OnceInv, FirstTime, Replays, ReplayOK, Untouched

LEMMA ConfirmOnce ==
  ASSUME TypeInv, CopyInv, OnceInv, NEW j \in unconfirmed,
         ConfirmAdded(j.copy) \/ ConfirmPersist(j.copy)
  PROVE  OnceInv'
<1>0. PICK c : c = j.copy
  OBVIOUS
<1>1. c \in KnownCopy /\ c.msg \in Known /\ c \in Copy /\ Held(c)
  BY <1>0, Queues DEF TypeInv, KnownOK, KnownJob, KnownCopy, Held
<1>2. UNCHANGED <<sent, asked, messages, limiting, looking, inbox, persist>>
  BY DEF ConfirmAdded, ConfirmPersist, clients, handlers, broker
<1>3. Drops(messages, messages') /\ Drops(limiting, limiting')
  BY <1>2, Queues, DropsNothing
<1>4. HandledOnce' /\ \A m : Waiting(m)' => Waiting(m)
  BY <1>2, <1>3, QueuesDrop DEF OnceInv
<1>5. unconfirmed' \subseteq unconfirmed /\ ~ Held(c)' /\ \A d : Held(d)' => Held(d)
  <2>1. \E k \in unconfirmed : k.copy = c /\ unconfirmed' = unconfirmed \ {k}
    BY <1>0 DEF ConfirmAdded, ConfirmPersist, Added, Persist
  <2> QED BY <2>1 DEF Held, OnceInv, Single
<1>6. ~ OnWire(c)
  BY <1>1 DEF OnWire, OnceInv, Single
<1>7. CASE ConfirmAdded(c)
  <2>1. CopyOK(c)
    <3>1. Added(c) \in unconfirmed \ rejected /\ Added(c).copy = c
      BY <1>7 DEF ConfirmAdded, Added
    <3> QED BY <3>1 DEF CopyInv, ArrivedOK
  <2>2. PICK jobs : /\ Publish(jobs)
                    /\ jobs = IF Fits(Persist(c)) THEN {Persist(c)}
                                                  ELSE {Added(d) : d \in FollowUp(c)}
    BY <1>7 DEF ConfirmAdded
  <2>3. jobs \subseteq {Persist(c)}
    <3>1. CASE IsGroup(c.msg)
      BY <2>2, <3>1 DEF FollowUp
    <3>2. CASE ~ IsGroup(c.msg)
      BY <1>1, <2>1, <2>2, <3>2, DirectFits
    <3> QED BY <3>1, <3>2
  <2>4. jobs \in SUBSET KnownJob
    BY <1>1, <2>3, JobTypes
  <2>5. \A a \in Out(jobs) : a.copy = c /\ a.topic = "persist"
    BY <2>3 DEF Out, Persist
  <2>6. New(jobs)
    <3>1. ASSUME NEW a \in Out(jobs)
          PROVE  /\ ~ OnWire(a.copy) /\ ~ Held(a.copy)'
                 /\ a.topic # "clientadded"
                 /\ \A b \in Out(jobs) : a.topic = b.topic
      <4>1. Held(a.copy)' <=> Held(c)'
        BY <2>5 DEF Held
      <4> QED BY <1>5, <1>6, <2>5, <4>1
    <3> QED BY <3>1 DEF New
  <2>7. CopiesOf(Out(jobs)) \subseteq {c}
    BY <2>5 DEF CopiesOf
  <2>8. IF c.history
        THEN /\ <<c.msg, c.box>> \in asked
             /\ \A i \in DOMAIN messages' :
                  messages'[i].kind = "delivered" => messages'[i].copy # c
        ELSE ~ Waiting(c.msg)'
    BY <1>1, <1>2, <1>4, HeldOnce
  <2>9. ASSUME NEW m \in Known, ~ IsGroup(m), RecipientCopy(m) \in CopiesOf(Out(jobs))
        PROVE  /\ ~ OnWire(SenderCopy(m)) /\ ~ Held(SenderCopy(m))'
               /\ SenderCopy(m) \notin CopiesOf(Out(jobs))
    <3>1. RecipientCopy(m) = c /\ SenderCopy(m) # c
      BY <2>7, <2>9, DirectCopies
    <3>2. ~ OnWire(SenderCopy(m)) /\ ~ Held(SenderCopy(m))
      BY <1>1, <2>9, <3>1 DEF OnceInv, FollowsOnce, Untouched
    <3>3. ~ Held(SenderCopy(m))'
      <4>1. \A sc : sc = SenderCopy(m) => (Held(SenderCopy(m))' <=> Held(sc)')
        BY <1>2, SameCopies DEF Held
      <4> QED BY <1>5, <3>2, <4>1
    <3> QED BY <2>7, <3>1, <3>2, <3>3
  <2> QED BY <1>1, <1>2, <1>3, <1>4, <1>5, <2>2, <2>4, <2>5, <2>6, <2>7, <2>8, <2>9,
             PublishOnce
<1>8. CASE ConfirmPersist(c)
  <2>1. CopyOK(c)
    <3>1. Persist(c) \in unconfirmed \ rejected /\ Persist(c).copy = c
      BY <1>8 DEF ConfirmPersist, Persist
    <3> QED BY <3>1 DEF CopyInv, ArrivedOK
  <2>2. PICK jobs : Publish(jobs) /\ jobs = {Added(d) : d \in FollowUp(c)}
    BY <1>8 DEF ConfirmPersist
  <2>3. jobs \in SUBSET KnownJob
    BY <1>1, <2>2, FollowUpTypes, JobTypes DEF TypeInv
  <2>4. PICK n : n = c.msg
    OBVIOUS
  <2>5. PICK rc : rc = RecipientCopy(n)
    OBVIOUS
  <2>6. \A a \in jobs : /\ a = Added(rc) /\ ~ IsGroup(n) /\ c = SenderCopy(n)
    <3> SUFFICES ASSUME NEW d \in FollowUp(c)
                 PROVE  d = rc /\ ~ IsGroup(n) /\ c = SenderCopy(n)
      BY <2>2
    <3>1. ~ IsGroup(n) /\ c.status = SENT
          /\ d = [c EXCEPT !.box = sent[n].recipient, !.status = DELIVERED]
      BY <2>4 DEF FollowUp
    <3>2. c = SenderCopy(n)
      BY <2>1, <2>4, <3>1 DEF CopyOK, RecipientCopy, SENT, DELIVERED
    <3>3. d = rc
      <4>1. d \in KnownCopy /\ rc \in KnownCopy
        BY <1>1, <2>4, <2>5, FollowUpTypes, DirectCopies DEF TypeInv
      <4>2. c.history = FALSE /\ c.msg = n
        BY <3>2 DEF SenderCopy
      <4>3. /\ d.msg = n /\ d.box = sent[n].recipient
            /\ d.status = DELIVERED /\ d.history = FALSE
        BY <1>1, <3>1, <4>2 DEF KnownCopy
      <4> QED BY <2>5, <4>1, <4>3 DEF KnownCopy, RecipientCopy
    <3> QED BY <3>1, <3>2, <3>3
  <2>7. CASE Out(jobs) = {}
    <3>1. New(jobs) /\ CopiesOf(Out(jobs)) = {}
      BY <2>7 DEF New, CopiesOf
    <3> QED BY <1>2, <1>3, <1>4, <1>5, <2>2, <2>3, <2>7, <3>1, PublishOnce
  <2>8. CASE Out(jobs) # {}
    <3>1. ~ IsGroup(n) /\ c = SenderCopy(n) /\ n \in Known
      BY <1>1, <2>4, <2>6, <2>8 DEF Out
    <3>2. Untouched(rc)
      BY <1>1, <2>5, <3>1 DEF OnceInv, FollowsOnce
    <3>3. \A a \in Out(jobs) : a.copy = rc /\ a.topic = "clientadded"
      BY <2>6 DEF Out, Added
    <3>4. ~ Held(rc)'
      BY <1>5, <3>2 DEF Untouched
    <3>5. New(jobs)
      <4>1. ASSUME NEW a \in Out(jobs)
            PROVE  /\ ~ OnWire(a.copy) /\ ~ Held(a.copy)' /\ ~ Shown(a.copy)
                   /\ \A b \in Out(jobs) : a.topic = b.topic
        <5>1. Held(a.copy)' <=> Held(rc)'
          BY <3>3 DEF Held
        <5> QED BY <3>2, <3>3, <3>4, <5>1 DEF Untouched
      <4> QED BY <4>1 DEF New
    <3>6. CopiesOf(Out(jobs)) \subseteq {rc}
      BY <3>3 DEF CopiesOf
    <3>7. rc.msg = n /\ ~ rc.history /\ ~ c.history /\ rc # c
      BY <2>5, <3>1, DirectCopies
    <3>8. ~ Waiting(rc.msg)'
      BY <1>1, <1>4, <2>4, <3>7, HeldOnce
    <3>9. Entitled(rc)
      BY <3>1, <3>7 DEF Entitled
    <3>10. ASSUME NEW m \in Known, ~ IsGroup(m)
           PROVE  /\ SenderCopy(m) \notin CopiesOf(Out(jobs))
                  /\ RecipientCopy(m) \in CopiesOf(Out(jobs)) =>
                       ~ OnWire(SenderCopy(m)) /\ ~ Held(SenderCopy(m))'
      <4>1. SenderCopy(m) # rc
        <5>1. SenderCopy(m).status # rc.status
          BY <2>5 DEF SenderCopy, RecipientCopy, SENT, DELIVERED
        <5> QED BY <5>1
      <4>2. ASSUME RecipientCopy(m) \in CopiesOf(Out(jobs))
            PROVE  ~ OnWire(SenderCopy(m)) /\ ~ Held(SenderCopy(m))'
        <5>1. m = n
          BY <3>6, <3>7, <4>2, DirectCopies
        <5>2. SenderCopy(m) = c
          BY <3>1, <5>1
        <5>3. Held(SenderCopy(m))' <=> Held(c)'
          BY <1>2, <5>2, SameCopies DEF Held
        <5> QED BY <1>5, <1>6, <5>2, <5>3
      <4> QED BY <3>6, <4>1, <4>2
    <3> QED BY <1>2, <1>3, <1>4, <1>5, <2>2, <2>3, <3>3, <3>5, <3>6, <3>7, <3>8, <3>9,
               <3>10, PublishOnce
  <2> QED BY <2>7, <2>8
<1> QED BY <1>0, <1>7, <1>8

\* The connection's end, by basic.nack, by itself or with the process.
LEMMA CutOnce ==
  ASSUME TypeInv, OnceInv, UNCHANGED clients, LosePushed,
         wire' = <<>>, unconfirmed' = {},
         limiting' = limiting \/ limiting' = <<>>, looking' = looking \/ looking' = {},
         NEW part \in SUBSET (IF wire = <<>> THEN {} ELSE Head(wire)), Arrive(part)
  PROVE  OnceInv'
<1>1. /\ Single'
      /\ \A c : ~ OnWire(c)' /\ ~ Held(c)'
      /\ \A c \in Copy : Untouched(c) => Untouched(c)'
  BY CutSingle
<1>2. sent' = sent /\ asked' = asked
  BY DEF clients
<1>3. Grows
  <2>1. part \in SUBSET KnownJob
    BY WireSeq, HeadTailProperties, EmptySeq
  <2> QED BY <1>2, <2>1, ArriveGrows
<1>4. WireEntitled'
  BY DEF WireEntitled
<1>5. Drops(messages, messages')
  BY Queues, DropsSome DEF LosePushed
<1>6. Drops(limiting, limiting')
  BY Queues, DropsNothing, DropsAll
<1>7. HandledOnce' /\ \A m : Waiting(m)' => Waiting(m)
  <2>1. looking' \subseteq looking
    OBVIOUS
  <2> QED BY <1>2, <1>5, <1>6, <2>1, QueuesDrop DEF OnceInv
<1> QED BY <1>1, <1>2, <1>3, <1>4, <1>5, <1>7, QuietOnce

LEMMA IdleOnce ==
  ASSUME TypeInv, OnceInv, Reconnect \/ UNCHANGED vars
  PROVE  OnceInv'
<1>1. UNCHANGED <<sent, asked, messages, limiting, looking, wire, unconfirmed, inbox, persist>>
  BY DEF Reconnect, vars, clients, handlers, channel, broker
<1>2. Drops(messages, messages') /\ Drops(limiting, limiting')
  BY <1>1, Queues, DropsNothing
<1>3. HandledOnce' /\ \A m : Waiting(m)' => Waiting(m)
  BY <1>1, <1>2, QueuesDrop DEF OnceInv
<1> QED BY <1>1, <1>2, <1>3, SameOnce

LEMMA NextOnce ==
  ASSUME TypeInv, LookingOK, CopyInv, OnceInv, [Next]_vars
  PROVE  OnceInv'
<1>1. CASE \E e \in Envelope : Send(e)
  BY <1>1, SendOnce
<1>2. CASE \E m \in Msg, u \in User, st \in {SENT, DELIVERED} : AskHistory(m, u, st)
  BY <1>2, AskHistoryOnce
<1>3. CASE \E m \in looking : Lookup(m)
  BY <1>3, LookupOnce DEF LookingOK
<1>4. CASE Confirm
  BY <1>4, ConfirmOnce DEF Confirm
<1>5. CASE \E j \in Pending : Reject(j)
  BY <1>5, RejectOnce
<1>6. CASE \E failed : Sever(failed) /\ UNCHANGED <<clients, handlers>>
  BY <1>6, CutOnce DEF Sever, handlers
<1>7. CASE Crash
  BY <1>7, CutOnce DEF Crash
<1>8. CASE (\E j \in Pending : Nack(j)) \/ Disconnect
  BY <1>6, <1>8 DEF Nack, Disconnect
<1> QED BY <1>1, <1>2, <1>3, <1>4, <1>5, <1>7, <1>8, ReceiveOutgoingOnce, AdmitOnce,
           RefuseOnce, ReceiveDeliveredOnce, RouteOnce, IdleOnce DEF Next

\* No copy is in two places, on its way twice or shown again.
THEOREM OnceInvHolds == Spec => []OnceInv
<1>1. Init => OnceInv
  BY InitOnce
<1>2. TypeInv /\ LookingOK /\ CopyInv /\ OnceInv /\ [Next]_vars => OnceInv'
  BY NextOnce
<1> QED BY <1>1, <1>2, TypeCorrect, LookingHolds, CopiesCorrect, PTL DEF Spec

-----------------------------------------------------------------------------
(* The refinement.                                                         *)

SameTimelines == sent' = sent /\ inbox' = inbox /\ persist' = persist

LEMMA SameStutters ==
  ASSUME SameTimelines
  PROVE  [Timelines!Next]_(Timelines!vars)
BY DEF SameTimelines, Timelines!vars

LEMMA InitMaps ==
  ASSUME Init
  PROVE  Timelines!Init
BY DEF Init, Timelines!Init, Timelines!Box, Inbox

LEMMA SendMaps ==
  ASSUME NEW e \in Envelope, Send(e)
  PROVE  Timelines!Next
<1>1. Len(sent) < MaxMsg /\ sent' = Append(sent, e) /\ inbox' = inbox /\ persist' = persist
  BY DEF Send, broker
<1>2. Timelines!Send
  BY <1>1 DEF Timelines!Send
<1> QED BY <1>2 DEF Timelines!Next

\* Timeline lets a copy be shown that is on the connection for that.
LEMMA WireMayShow ==
  ASSUME TypeInv, CopyInv, OnceInv,
         NEW i \in DOMAIN wire, NEW j \in wire[i], j.topic = "clientadded"
  PROVE  j.copy \in Timelines!Copy /\ Timelines!MayShow(j.copy)
<1>0. PICK c : c = j.copy
  OBVIOUS
<1>1. c \in KnownCopy /\ c \in Copy
  BY <1>0, WireSeq, Queues DEF KnownJob
<1>2. c \in Timelines!Copy
  BY <1>1 DEF Timelines!Copy, Timelines!Box, Copy, Msg, Inbox, SENT, DELIVERED,
              Timelines!SENT, Timelines!DELIVERED
<1>3. c.msg \in DOMAIN sent /\ c.box \in Inbox
  BY <1>1 DEF KnownCopy, Known
<1>4. ~ Timelines!WasShown(c)
  BY <1>0 DEF OnceInv, Single, Shown, Timelines!WasShown, Range, Timelines!Range
<1>5. CopyOK(c)
  BY <1>0 DEF CopyInv, WireOK, BurstOK
<1>6. Entitled(c)
  BY <1>0 DEF OnceInv, WireEntitled
<1>7. CASE IsGroup(c.msg)
  <2>1. Timelines!MemberCopy(c)
    <3>1. CASE c.history
      <4>1. c.status = DELIVERED /\ c.box \in User
            /\ GroupCopy(c.msg, sent[c.msg].recipient) \in persist
        BY <1>6, <1>7, <3>1 DEF Entitled
      <4> QED BY <3>1, <4>1 DEF Timelines!MemberCopy, GroupCopy, StatusFor, SENT, DELIVERED,
                               Timelines!SENT, Timelines!DELIVERED
    <3>2. CASE ~ c.history
      <4>1. c.status = StatusFor(c.msg, c.box) /\ c.box # sent[c.msg].hiddenFor
        BY <1>5, <1>6, <1>7, <3>2 DEF Entitled, CopyOK
      <4> QED BY <3>2, <4>1 DEF Timelines!MemberCopy, StatusFor, SENT, DELIVERED,
                               Timelines!SENT, Timelines!DELIVERED
    <3> QED BY <3>1, <3>2
  <2> QED BY <1>0, <1>2, <1>3, <1>4, <1>7, <2>1 DEF Timelines!MayShow, IsGroup
<1>8. CASE ~ IsGroup(c.msg)
  <2>1. CASE c = SenderCopy(c.msg)
    <3>1. Timelines!DirectCopy(c)
      BY <2>1 DEF Timelines!DirectCopy, Timelines!SenderCopy, SenderCopy, SENT, Timelines!SENT
    <3> QED BY <1>0, <1>2, <1>3, <1>4, <1>8, <3>1 DEF Timelines!MayShow, IsGroup
  <2>2. CASE c = RecipientCopy(c.msg)
    <3>1. c.status = DELIVERED
      BY <2>2 DEF RecipientCopy
    <3>2. SenderCopy(c.msg) \in persist
      BY <1>5, <1>8, <3>1 DEF CopyOK
    <3>3. Timelines!DirectCopy(c)
      BY <2>2, <3>2 DEF Timelines!DirectCopy, Timelines!SenderCopy, SenderCopy, RecipientCopy,
                        SENT, DELIVERED, Timelines!SENT, Timelines!DELIVERED
    <3> QED BY <1>0, <1>2, <1>3, <1>4, <1>8, <3>3 DEF Timelines!MayShow, IsGroup
  <2> QED BY <1>5, <1>8, <2>1, <2>2 DEF CopyOK
<1> QED BY <1>7, <1>8

\* The arrival of a burst, or of a part of it, shows copies, stores copies, or
\* does nothing.
LEMMA ArriveMaps ==
  ASSUME TypeInv, CopyInv, OnceInv, wire # <<>>, sent' = sent,
         NEW jobs \in SUBSET Head(wire), Arrive(jobs)
  PROVE  [Timelines!Next]_(Timelines!vars)
<1>1. 1 \in DOMAIN wire /\ Head(wire) = wire[1] /\ jobs \subseteq wire[1]
  BY WireSeq, HeadTailProperties, EmptySeq
<1>2. jobs \in SUBSET KnownJob /\ BurstOK(wire[1])
  BY <1>1, WireSeq DEF CopyInv, WireOK
<1>3. \A a, b \in jobs : a.topic = b.topic
  BY <1>1 DEF OnceInv, Single
<1>4. inbox \in [Inbox -> Seq(Copy)]
  BY DEF TypeInv, TypeOK
<1>5. CASE \A a \in jobs : a.topic = "persist"
  <2>1. inbox' = inbox
    BY <1>4, <1>5 DEF Arrive
  <2>2. PICK batch : batch = {a.copy : a \in jobs} \ persist
    OBVIOUS
  <2>3. persist' = persist \cup batch
    BY <1>5, <2>2 DEF Arrive
  <2>4. CASE batch = {}
    BY <2>1, <2>3, <2>4, SameStutters DEF SameTimelines
  <2>5. CASE batch # {}
    <3>1. ASSUME NEW c \in batch
          PROVE  c \in Timelines!Copy /\ Timelines!WasShown(c) /\ c \notin persist
      <4>1. PICK a \in jobs : a.copy = c
        BY <2>2
      <4>2. Shown(c) /\ c \in Copy
        BY <1>1, <1>2, <1>5, <4>1, Queues DEF BurstOK, KnownJob
      <4> QED BY <2>2, <4>2
              DEF Shown, Timelines!WasShown, Range, Timelines!Range, Timelines!Copy,
                  Timelines!Box, Copy, Msg, Inbox, SENT, DELIVERED, Timelines!SENT, Timelines!DELIVERED
    <3>2. batch \in SUBSET ({c \in Timelines!Copy : Timelines!WasShown(c)} \ persist)
      BY <3>1
    <3>3. Timelines!Store
      BY <2>1, <2>3, <2>5, <3>2 DEF Timelines!Store
    <3> QED BY <3>3 DEF Timelines!Next
  <2> QED BY <2>4, <2>5
<1>6. CASE \A a \in jobs : a.topic = "clientadded"
  <2>1. persist' = persist
    BY <1>6 DEF Arrive
  <2>2. PICK batch : batch = {a.copy : a \in jobs}
    OBVIOUS
  <2>3. CASE jobs = {}
    <3>1. inbox' = inbox
      BY <1>4, <2>3 DEF Arrive
    <3> QED BY <2>1, <3>1, SameStutters DEF SameTimelines
  <2>4. CASE jobs # {}
    <3>1. batch \in SUBSET {c \in Timelines!Copy : Timelines!MayShow(c)}
      BY <1>1, <1>6, <2>2, WireMayShow
    <3>2. \A c, d \in batch : c.box = d.box => c = d
      <4>1. OnePerBox(jobs)
        BY <1>1, <1>2 DEF BurstOK, OnePerBox
      <4> QED BY <1>6, <2>2, <4>1 DEF OnePerBox
    <3>3. ASSUME NEW b \in Inbox
          PROVE  inbox'[b] = IF \E c \in batch : c.box = b
                             THEN Append(inbox[b], CHOOSE c \in batch : c.box = b)
                             ELSE inbox[b]
      <4> DEFINE ShownTo == {k \in jobs : k.topic = "clientadded" /\ k.copy.box = b}
      <4>1. inbox'[b] = IF ShownTo = {} THEN inbox[b]
                        ELSE Append(inbox[b], ArrivedCopy(jobs, b))
        BY DEF Arrive, ArrivedCopy
      <4>2. CASE ShownTo = {}
        <5>1. ~ \E c \in batch : c.box = b
          BY <1>6, <2>2, <4>2
        <5> QED BY <4>1, <4>2, <5>1
      <4>3. CASE ShownTo # {}
        <5>1. ArrivedCopy(jobs, b) \in batch /\ ArrivedCopy(jobs, b).box = b
          <6>1. PICK k : k = CHOOSE x \in ShownTo : TRUE
            OBVIOUS
          <6>2. k \in ShownTo
            BY <4>3, <6>1
          <6>3. k \in jobs /\ k.copy.box = b
            BY <6>2
          <6>4. ArrivedCopy(jobs, b) = k.copy
            BY <6>1 DEF ArrivedCopy
          <6> QED BY <2>2, <6>3, <6>4
        <5>2. PICK a : a = ArrivedCopy(jobs, b)
          OBVIOUS
        <5>3. (CHOOSE c \in batch : c.box = b) = a
          BY <3>2, <5>1, <5>2
        <5> QED BY <4>1, <4>3, <5>1, <5>2, <5>3
      <4> QED BY <4>2, <4>3
    <3>4. inbox' = [b \in Inbox |-> IF \E c \in batch : c.box = b
                                    THEN Append(inbox[b], CHOOSE c \in batch : c.box = b)
                                    ELSE inbox[b]]
      <4>1. PICK f : f = [b \in Inbox |-> inbox'[b]]
        OBVIOUS
      <4>2. inbox' = f
        BY <4>1 DEF Arrive
      <4> QED BY <3>3, <4>1, <4>2
    <3>5. Timelines!Box = Inbox
      BY DEF Timelines!Box, Inbox
    <3>6. batch # {}
      BY <2>2, <2>4
    <3>7. Timelines!Show
      BY <2>1, <3>1, <3>2, <3>4, <3>5, <3>6 DEF Timelines!Show
    <3> QED BY <3>7 DEF Timelines!Next
  <2> QED BY <2>3, <2>4
<1>7. \A a \in jobs : a.topic \in {"clientadded", "persist"}
  BY <1>2 DEF KnownJob
<1> QED BY <1>3, <1>5, <1>6, <1>7

\* The end of the connection may be the arrival of a part of its oldest burst.
LEMMA CutMaps ==
  ASSUME TypeInv, CopyInv, OnceInv, sent' = sent,
         NEW part \in SUBSET (IF wire = <<>> THEN {} ELSE Head(wire)), Arrive(part)
  PROVE  [Timelines!Next]_(Timelines!vars)
<1>1. CASE wire # <<>>
  BY <1>1, ArriveMaps
<1>2. CASE wire = <<>>
  <2>1. inbox \in [Inbox -> Seq(Copy)] /\ part = {}
    BY <1>2 DEF TypeInv, TypeOK
  <2>2. inbox' = inbox /\ persist' = persist
    BY <2>1 DEF Arrive
  <2> QED BY <2>2, SameStutters DEF SameTimelines
<1> QED BY <1>1, <1>2

LEMMA NextMaps ==
  ASSUME TypeInv, CopyInv, OnceInv, [Next]_vars
  PROVE  [Timelines!Next]_(Timelines!vars)
<1>1. CASE \E e \in Envelope : Send(e)
  BY <1>1, SendMaps
<1>2. CASE Route
  <2>1. Head(wire) \in SUBSET Head(wire) /\ wire # <<>> /\ Arrive(Head(wire)) /\ sent' = sent
    BY <1>2 DEF Route, clients
  <2> QED BY <2>1, ArriveMaps
<1>3. CASE \E j \in Pending : Reject(j)
  <2>1. PICK j \in Pending : Reject(j)
    BY <1>3
  <2>2. Head(wire) \ {j} \in SUBSET Head(wire) /\ wire # <<>> /\ Arrive(Head(wire) \ {j})
        /\ sent' = sent
    BY <2>1 DEF Reject, clients
  <2> QED BY <2>2, ArriveMaps
<1>4. CASE \E failed : Sever(failed) /\ UNCHANGED clients
  BY <1>4, CutMaps DEF Sever, clients
<1>5. CASE Crash
  BY <1>5, CutMaps DEF Crash, clients
<1>6. CASE (\E j \in Pending : Nack(j)) \/ Disconnect
  BY <1>4, <1>6 DEF Nack, Disconnect
<1>7. CASE \E m \in Msg, u \in User, st \in {SENT, DELIVERED} : AskHistory(m, u, st)
  BY <1>7, SameStutters DEF AskHistory, SameTimelines, broker
<1>8. CASE ReceiveOutgoing \/ ReceiveDelivered \/ Admit \/ Refuse \/ Reconnect
  BY <1>8, SameStutters
     DEF ReceiveOutgoing, ReceiveDelivered, Admit, Refuse, Reconnect, SameTimelines, clients,
         broker
<1>9. CASE \E m \in looking : Lookup(m)
  BY <1>9, SameStutters DEF Lookup, GroupFound, GroupMissing, SameTimelines, clients, broker
<1>10. CASE Confirm
  BY <1>10, SameStutters DEF Confirm, ConfirmAdded, ConfirmPersist, SameTimelines, clients, broker
<1>11. CASE UNCHANGED vars
  BY <1>11, SameStutters DEF vars, SameTimelines, clients, broker
<1> QED BY <1>1, <1>2, <1>3, <1>5, <1>6, <1>7, <1>8, <1>9, <1>10, <1>11 DEF Next

\* Every behaviour of the observer is one Timeline allows: whatever is lost,
\* rejected or restarted, a copy is shown at most once, to somebody entitled to
\* it, and stored only after it was shown.
THEOREM ImplementsTimelineHolds == Spec => ImplementsTimeline
<1>1. Init => Timelines!Init
  BY InitMaps
<1>2. TypeInv /\ CopyInv /\ OnceInv /\ [Next]_vars => [Timelines!Next]_(Timelines!vars)
  BY NextMaps
<1> QED BY <1>1, <1>2, TypeCorrect, CopiesCorrect, OnceInvHolds, PTL
        DEF Spec, ImplementsTimeline, Timelines!Spec

-----------------------------------------------------------------------------
(***************************************************************************)
(* What the handlers of Delivery leave behind: webhook notifications and   *)
(* analytics events are counted once for each message, a receipt finds its *)
(* project, and timelines are in order.  Each is a fact about a message    *)
(* that has been handled, proved by what is not left of it: a copy that    *)
(* was counted, cached or shown is neither waiting nor on its way.         *)
(***************************************************************************)

\* A publish is written to the connection; or waits for a confirm too.
InWire(j) == \E i \in DOMAIN wire : j \in wire[i]
OnTheWay(j) == InWire(j) \/ j \in unconfirmed

\* The copy of a message that is marked SENT: the sender's, or the group's own.
LiveCopy(m) ==
  [msg |-> m, box |-> IF IsGroup(m) THEN sent[m].recipient ELSE sent[m].sender,
   status |-> SENT, history |-> FALSE]

\* What waits for a confirm was rightly published (see WireEntitled).
HeldEntitled == \A j \in unconfirmed : j.topic = "clientadded" => Entitled(j.copy)

\* A message that was notified as sent is not going to be again.
HooksOnce ==
  \A m \in Msg :
    /\ sentHooks[m] <= 1
    /\ sentHooks[m] > 0 => m \in Known /\ ~ Waiting(m) /\ ~ OnTheWay(Added(LiveCopy(m)))

\* A message that was counted as delivered is not going to be again.
AnalyticsOnce ==
  \A m \in Msg :
    /\ analytics[m] <= 1
    /\ analytics[m] > 0 =>
         /\ m \in Known /\ ~ Queued(m) /\ ~ Limited(m)
         /\ ~ IsGroup(m) =>
              Shown(RecipientCopy(m)) /\ Added(RecipientCopy(m)) \notin unconfirmed

-----------------------------------------------------------------------------
(* Steps.                                                                  *)

LEMMA StepGrows ==
  ASSUME TypeInv, CopyInv, [Next]_vars
  PROVE  Grows
<1>1. CASE \E e \in Envelope : Send(e)
  <2>1. PICK e \in Envelope : Send(e)
    BY <1>1
  <2>2. sent' = Append(sent, e) /\ inbox' = inbox /\ persist' = persist
    BY <2>1 DEF Send, broker
  <2>3. sent \in Seq(Envelope) /\ Known \subseteq Known'
    BY <2>2, KnownGrows DEF TypeInv, TypeOK
  <2>4. \A m \in Known : sent'[m] = sent[m]
    <3>1. \A m \in 1 .. Len(sent) : Append(sent, e)[m] = sent[m]
      BY <2>3, AppendProperties
    <3> QED BY <2>2, <2>3, <3>1, LenProperties DEF Known
  <2> QED BY <2>2, <2>3, <2>4 DEF Grows, Shown
<1>2. ASSUME sent' = sent, wire # <<>>, NEW jobs \in SUBSET Head(wire), Arrive(jobs)
      PROVE  Grows
  <2>1. jobs \in SUBSET KnownJob
    BY <1>2, WireSeq, HeadTailProperties
  <2> QED BY <1>2, <2>1, ArriveGrows
<1>3. CASE Route \/ \E j \in Pending : Reject(j)
  <2>1. /\ sent' = sent /\ wire # <<>>
        /\ \E jobs \in SUBSET Head(wire) : Arrive(jobs)
    BY <1>3 DEF Route, Reject, clients
  <2> QED BY <1>2, <2>1
<1>4. ASSUME sent' = sent,
             NEW part \in SUBSET (IF wire = <<>> THEN {} ELSE Head(wire)), Arrive(part)
      PROVE  Grows
  <2>1. part \in SUBSET KnownJob
    BY WireSeq, HeadTailProperties, EmptySeq
  <2> QED BY <1>4, <2>1, ArriveGrows
<1>5. CASE (\E j \in Pending : Nack(j)) \/ Disconnect \/ Crash
  BY <1>4, <1>5 DEF Nack, Disconnect, Crash, Sever, clients
<1>6. CASE sent' = sent /\ inbox' = inbox /\ persist' = persist
  BY <1>6, SameGrows
<1>7. CASE \E m \in Msg, u \in User, st \in {SENT, DELIVERED} : AskHistory(m, u, st)
  BY <1>6, <1>7 DEF AskHistory, broker
<1>8. CASE ReceiveOutgoing \/ ReceiveDelivered \/ Admit \/ Refuse \/ Reconnect
  BY <1>6, <1>8
     DEF ReceiveOutgoing, ReceiveDelivered, Admit, Refuse, Reconnect, clients, broker
<1>9. CASE \E m \in looking : Lookup(m)
  BY <1>6, <1>9 DEF Lookup, GroupFound, GroupMissing, clients, broker
<1>10. CASE Confirm
  BY <1>6, <1>10 DEF Confirm, ConfirmAdded, ConfirmPersist, clients, broker
<1>11. CASE UNCHANGED vars
  BY <1>6, <1>11 DEF vars, clients, broker
<1> QED BY <1>1, <1>3, <1>5, <1>7, <1>8, <1>9, <1>10, <1>11 DEF Next

\* What is said of a message that was sent stays.
LEMMA MessageStays ==
  ASSUME Grows, NEW m \in Known
  PROVE  /\ m \in Known' /\ sent'[m] = sent[m]
         /\ IsGroup(m)' <=> IsGroup(m)
         /\ LiveCopy(m)' = LiveCopy(m) /\ RecipientCopy(m)' = RecipientCopy(m)
BY DEF Grows, IsGroup, LiveCopy, RecipientCopy

LEMMA LiveTypes ==
  ASSUME TypeInv, NEW m \in Known
  PROVE  LiveCopy(m) \in KnownCopy
<1>1. IF IsGroup(m) THEN sent[m].recipient \in Inbox ELSE sent[m].sender \in Inbox
  BY SentTypes DEF TypeInv, Inbox
<1> QED BY <1>1 DEF LiveCopy, KnownCopy

LEMMA EntitledKept ==
  ASSUME Grows, NEW c \in KnownCopy, Entitled(c)
  PROVE  Entitled(c)'
<1>1. c.msg \in Known
  BY DEF KnownCopy
<1>2. sent'[c.msg] = sent[c.msg] /\ persist \subseteq persist'
  BY <1>1 DEF Grows
<1>3. GroupCopy(c.msg, sent[c.msg].recipient)' = GroupCopy(c.msg, sent[c.msg].recipient)
  BY <1>2 DEF GroupCopy, StatusFor
<1> QED BY <1>2, <1>3 DEF Entitled, IsGroup, StatusFor

\* Only one copy of a message is marked SENT on its way to a timeline.
LEMMA OnlyLive ==
  ASSUME TypeInv, NEW c \in KnownCopy, CopyOK(c), Entitled(c), c.status = SENT
  PROVE  c = LiveCopy(c.msg)
<1>1. CASE IsGroup(c.msg)
  <2>1. ~ c.history /\ c.box = sent[c.msg].recipient
    BY <1>1 DEF Entitled, StatusFor, SENT, DELIVERED
  <2> QED BY <1>1, <2>1 DEF KnownCopy, LiveCopy
<1>2. CASE ~ IsGroup(c.msg)
  <2>1. c = SenderCopy(c.msg)
    BY <1>2 DEF CopyOK, RecipientCopy, SENT, DELIVERED
  <2> QED BY <1>2, <2>1 DEF SenderCopy, LiveCopy
<1> QED BY <1>1, <1>2

LEMMA WayArrives ==
  ASSUME TypeInv, wire # <<>>, wire' = Tail(wire), unconfirmed' = unconfirmed \cup Head(wire)
  PROVE  /\ \A j : InWire(j)' => InWire(j)
         /\ \A j \in unconfirmed' : j \in unconfirmed \/ InWire(j)
         /\ \A j : OnTheWay(j)' => OnTheWay(j)
<1>1. /\ wire \in Seq(SUBSET KnownJob) /\ DOMAIN wire = 1 .. Len(wire) /\ Len(wire) \in Nat
  BY WireSeq
<1>2. /\ Tail(wire) \in Seq(SUBSET KnownJob) /\ Len(Tail(wire)) = Len(wire) - 1
      /\ Head(wire) = wire[1] /\ \A i \in 1 .. Len(Tail(wire)) : Tail(wire)[i] = wire[i + 1]
  BY <1>1, HeadTailProperties
<1>3. DOMAIN Tail(wire) = 1 .. Len(wire) - 1 /\ 1 \in DOMAIN wire
  BY <1>1, <1>2, LenProperties, EmptySeq
<1>4. ASSUME NEW j, InWire(j)' PROVE InWire(j)
  <2>1. PICK i \in DOMAIN Tail(wire) : j \in Tail(wire)[i]
    BY <1>4 DEF InWire
  <2>2. i + 1 \in DOMAIN wire /\ j \in wire[i + 1]
    BY <1>1, <1>2, <1>3, <2>1
  <2> QED BY <2>2 DEF InWire
<1>5. \A j \in unconfirmed' : j \in unconfirmed \/ InWire(j)
  BY <1>2, <1>3 DEF InWire
<1> QED BY <1>4, <1>5 DEF OnTheWay

LEMMA WayPublished ==
  ASSUME TypeInv, NEW jobs \in SUBSET KnownJob, Publish(jobs)
  PROVE  \A j : InWire(j)' => InWire(j) \/ j \in Out(jobs)
BY PublishWire DEF InWire

-----------------------------------------------------------------------------
(* Announcing.                                                             *)

\* The message-sent notification is raised once, by the copy marked SENT, and
\* only the project of the message itself is cached for it.
LEMMA AnnounceEffects ==
  ASSUME TypeInv, NEW m \in Known, NEW ok, NEW done, Announce(m, ok, done),
         NEW x, \A c \in ok : c.status = SENT => c = x
  PROVE  /\ sentHooks'[m] \in {sentHooks[m], sentHooks[m] + 1}
         /\ (\A c \in ok : c.status # SENT) => sentHooks' = sentHooks
         /\ \A k \in Msg \ {m} : /\ sentHooks'[k] = sentHooks[k]
                                 /\ messageProjectCache'[k] = messageProjectCache[k]
         /\ messageProjectCache'[m] = IF sent[m].projectId = NONE \/ done = {}
                                      THEN messageProjectCache[m] ELSE sent[m].projectId
<1> DEFINE S == {c \in ok : c.status = SENT}
<1>1. m \in Msg /\ sentHooks \in [Msg -> Nat] /\ DOMAIN messageProjectCache = Msg
  BY KnownTypes DEF TypeInv, TypeOK
<1>2. sentHooks' = [sentHooks EXCEPT ![m] = @ + Cardinality(S)]
  BY DEF Announce
<1>3. S = {} \/ S = {x}
  OBVIOUS
<1>4. S = {} => Cardinality(S) = 0
  BY FS_EmptySet
<1>5. S = {x} => Cardinality(S) = 1
  BY FS_Singleton
<1>6. (\A c \in ok : c.status # SENT) => S = {}
  OBVIOUS
<1> HIDE DEF S
<1>7. /\ sentHooks'[m] \in {sentHooks[m], sentHooks[m] + 1}
      /\ (\A c \in ok : c.status # SENT) => sentHooks' = sentHooks
      /\ \A k \in Msg \ {m} : sentHooks'[k] = sentHooks[k]
  BY <1>1, <1>2, <1>3, <1>4, <1>5, <1>6
<1>8. /\ \A k \in Msg \ {m} : messageProjectCache'[k] = messageProjectCache[k]
      /\ messageProjectCache'[m] = IF sent[m].projectId = NONE \/ done = {}
                                   THEN messageProjectCache[m] ELSE sent[m].projectId
  BY <1>1 DEF Announce
<1> QED BY <1>7, <1>8

\* deliverMessage() publishes the copies whose keys fit, and only them.
LEMMA DeliverPublishes ==
  ASSUME TypeInv, NEW m, NEW copies \in SUBSET KnownCopy, Deliver(m, copies)
  PROVE  \E jobs \in SUBSET KnownJob :
           /\ Publish(jobs)
           /\ \A j \in Out(jobs) : \E c \in copies : j = Added(c) /\ Fits(j)
<1> DEFINE long == {c \in copies : ~ Fits(Added(c))}
           failed == IF pubChannel THEN {} ELSE UNION {FollowUp(c) : c \in copies}
           jobs == {Added(c) : c \in copies \cup failed} \cup {Persist(c) : c \in long}
<1>1. Publish(jobs)
  BY DEF Deliver
<1>2. jobs \in SUBSET KnownJob
  <2>1. failed \subseteq KnownCopy
    BY FollowUpTypes DEF TypeInv
  <2> HIDE DEF failed
  <2> QED BY <2>1, JobTypes
<1>3. ASSUME NEW j \in Out(jobs) PROVE \E c \in copies : j = Added(c) /\ Fits(j)
  <2>1. pubChannel /\ Fits(j) /\ j \in jobs
    BY <1>3 DEF Out
  <2>2. CASE \E c \in copies : j = Added(c)
    BY <2>1, <2>2
  <2>3. CASE \E c \in long : j = Persist(c)
    BY <2>1, <2>3, LongKeys
  <2> QED BY <2>1, <2>2, <2>3
<1> HIDE DEF jobs
<1> QED BY <1>1, <1>2, <1>3

\* It announces what it drops.
LEMMA DeliverEffects ==
  ASSUME TypeInv, NEW m \in Known, NEW copies \in SUBSET KnownCopy, Deliver(m, copies),
         NEW x, \A c \in copies : c.status = SENT => c = x
  PROVE  /\ \A j : InWire(j)' => InWire(j) \/ \E c \in copies : j = Added(c) /\ Fits(j)
         /\ sentHooks'[m] \in {sentHooks[m], sentHooks[m] + 1}
         /\ (\A c \in copies : c.status = SENT => Fits(Added(c))) => sentHooks' = sentHooks
         /\ \A k \in Msg \ {m} : /\ sentHooks'[k] = sentHooks[k]
                                 /\ messageProjectCache'[k] = messageProjectCache[k]
         /\ messageProjectCache'[m] \in {messageProjectCache[m], sent[m].projectId}
<1> DEFINE long == {c \in copies : ~ Fits(Added(c))}
           done == {c \in long : c.status = DELIVERED}
<1>1. Announce(m, long, done)
  BY DEF Deliver
<1>4. \A c \in long : c.status = SENT => c = x
  OBVIOUS
<1>5. (\A c \in copies : c.status = SENT => Fits(Added(c))) => \A c \in long : c.status # SENT
  OBVIOUS
<1> HIDE DEF long, done
<1>6. \A j : InWire(j)' => InWire(j) \/ \E c \in copies : j = Added(c) /\ Fits(j)
  BY DeliverPublishes, WayPublished
<1> QED BY <1>1, <1>4, <1>5, <1>6, AnnounceEffects

-----------------------------------------------------------------------------
(* The invariant, and what a step must not do to it.                       *)

EffectsInv == HeldEntitled /\ HooksOnce /\ AnalyticsOnce

\* A handled message does not come back to a queue.
QueuesStay ==
  \A m \in Known :
    /\ Queued(m)' => Queued(m)
    /\ Limited(m)' => Limited(m) \/ Queued(m)
    /\ Waiting(m)' => Waiting(m)

\* What is on its way was, or is for storage, or is not the copy that is notified.
WayStays ==
  /\ \A j \in unconfirmed' : j \in unconfirmed \/ InWire(j)
  /\ \A j \in KnownJob : OnTheWay(j)' =>
       OnTheWay(j) \/ j.topic = "persist" \/ j.copy.status = DELIVERED \/ Waiting(j.copy.msg)

\* Counters grow by one, from zero.
HooksStep ==
  \A m \in Msg :
    \/ sentHooks'[m] = sentHooks[m]
    \/ /\ sentHooks[m] = 0 /\ sentHooks'[m] <= 1
       /\ m \in Known /\ ~ Waiting(m)'
       /\ \A c : c = LiveCopy(m) => ~ OnTheWay(Added(c))'

AnalyticsStep ==
  \A m \in Msg :
    \/ analytics'[m] = analytics[m]
    \/ /\ analytics[m] = 0 /\ analytics'[m] <= 1
       /\ m \in Known /\ ~ Queued(m)' /\ ~ Limited(m)'
       /\ ~ IsGroup(m) =>
            \A c : c = RecipientCopy(m) => Shown(c)' /\ Added(c) \notin unconfirmed'

LEMMA EffectsKept ==
  ASSUME TypeInv, OnceInv, EffectsInv, Grows, sent' = sent,
         QueuesStay, WayStays, HooksStep, AnalyticsStep
  PROVE  EffectsInv'
<1>1. \A m \in Known : /\ m \in Known' /\ sent'[m] = sent[m]
                       /\ IsGroup(m)' <=> IsGroup(m)
                       /\ LiveCopy(m)' = LiveCopy(m) /\ RecipientCopy(m)' = RecipientCopy(m)
  BY MessageStays
<1>2. HeldEntitled'
  <2>1. ASSUME NEW j \in unconfirmed', j.topic = "clientadded" PROVE Entitled(j.copy)'
    <3>1. Entitled(j.copy)
      BY <2>1 DEF WayStays, InWire, EffectsInv, HeldEntitled, OnceInv, WireEntitled
    <3>2. j \in KnownJob
      BY <2>1, WireSeq DEF WayStays, InWire, TypeInv, KnownOK
    <3> QED BY <3>1, <3>2, EntitledKept DEF KnownJob
  <2> QED BY <2>1 DEF HeldEntitled
<1>3. HooksOnce'
  <2> SUFFICES ASSUME NEW m \in Msg
               PROVE  /\ sentHooks'[m] <= 1
                      /\ sentHooks'[m] > 0 =>
                           m \in Known' /\ ~ Waiting(m)' /\ ~ OnTheWay(Added(LiveCopy(m)))'
    BY DEF HooksOnce
  <2>0. PICK c : c = LiveCopy(m)
    OBVIOUS
  <2>1. m \in Known => (OnTheWay(Added(LiveCopy(m)))' <=> OnTheWay(Added(c))')
    BY <1>1, <2>0 DEF OnTheWay, InWire, Added
  <2>2. CASE sentHooks'[m] = sentHooks[m]
    <3>1. sentHooks[m] <= 1
      BY DEF EffectsInv, HooksOnce
    <3>2. ASSUME sentHooks[m] > 0
          PROVE  m \in Known /\ ~ Waiting(m)' /\ ~ OnTheWay(Added(c))'
      <4>1. m \in Known /\ ~ Waiting(m) /\ ~ OnTheWay(Added(c))
        BY <2>0, <3>2 DEF EffectsInv, HooksOnce
      <4>2. Added(c) \in KnownJob /\ Added(c).topic # "persist" /\ Added(c).copy.msg = m
            /\ Added(c).copy.status # DELIVERED
        BY <2>0, <4>1, LiveTypes, JobTypes DEF Added, LiveCopy, SENT, DELIVERED
      <4> QED BY <4>1, <4>2 DEF QueuesStay, WayStays
    <3> QED BY <1>1, <2>1, <2>2, <3>1, <3>2
  <2>3. CASE /\ sentHooks'[m] <= 1 /\ m \in Known /\ ~ Waiting(m)'
             /\ \A d : d = LiveCopy(m) => ~ OnTheWay(Added(d))'
    BY <1>1, <2>0, <2>1, <2>3
  <2> QED BY <2>2, <2>3 DEF HooksStep
<1>4. AnalyticsOnce'
  <2> SUFFICES ASSUME NEW m \in Msg
               PROVE  /\ analytics'[m] <= 1
                      /\ analytics'[m] > 0 =>
                           /\ m \in Known' /\ ~ Queued(m)' /\ ~ Limited(m)'
                           /\ ~ IsGroup(m)' =>
                                /\ Shown(RecipientCopy(m))'
                                /\ Added(RecipientCopy(m))' \notin unconfirmed'
    BY DEF AnalyticsOnce
  <2>0. PICK c : c = RecipientCopy(m)
    OBVIOUS
  <2>1. m \in Known => /\ Shown(RecipientCopy(m))' <=> Shown(c)'
                       /\ Added(RecipientCopy(m))' = Added(c)
    BY <1>1, <2>0 DEF Shown, Added
  <2>2. CASE analytics'[m] = analytics[m]
    <3>1. analytics[m] <= 1
      BY DEF EffectsInv, AnalyticsOnce
    <3>2. ASSUME analytics[m] > 0
          PROVE  /\ m \in Known /\ ~ Queued(m)' /\ ~ Limited(m)'
                 /\ ~ IsGroup(m) => Shown(c)' /\ Added(c) \notin unconfirmed'
      <4>1. /\ m \in Known /\ ~ Queued(m) /\ ~ Limited(m)
            /\ ~ IsGroup(m) => Shown(c) /\ Added(c) \notin unconfirmed
        BY <2>0, <3>2 DEF EffectsInv, AnalyticsOnce
      <4>2. ~ Queued(m)' /\ ~ Limited(m)'
        BY <4>1 DEF QueuesStay
      <4>3. ASSUME ~ IsGroup(m) PROVE Shown(c)' /\ Added(c) \notin unconfirmed'
        <5>1. c \in Copy
          BY <2>0, <4>1, DirectCopies
        <5>2. Shown(c)' /\ ~ InWire(Added(c))
          BY <4>1, <4>3, <5>1 DEF Grows, InWire, OnceInv, Single, Added
        <5> QED BY <4>1, <4>3, <5>2 DEF WayStays
      <4> QED BY <4>1, <4>2, <4>3
    <3> QED BY <1>1, <2>1, <2>2, <3>1, <3>2
  <2>3. CASE /\ analytics'[m] <= 1 /\ m \in Known /\ ~ Queued(m)' /\ ~ Limited(m)'
             /\ ~ IsGroup(m) =>
                  \A d : d = RecipientCopy(m) => Shown(d)' /\ Added(d) \notin unconfirmed'
    BY <1>1, <2>0, <2>1, <2>3
  <2> QED BY <2>2, <2>3 DEF AnalyticsStep
<1> QED BY <1>2, <1>3, <1>4 DEF EffectsInv

-----------------------------------------------------------------------------
(* Queues.                                                                 *)

LEMMA QueuedDrops ==
  ASSUME TypeInv, Drops(messages, messages')
  PROVE  \A m : Queued(m)' => Queued(m)
<1>1. \A i \in DOMAIN messages' : \E n \in DOMAIN messages : messages'[i] = messages[n]
  BY Queues, DropsKeeps
<1> QED BY <1>1 DEF Queued, OutgoingTask

LEMMA LimitedDrops ==
  ASSUME TypeInv, Drops(limiting, limiting')
  PROVE  \A m : Limited(m)' => Limited(m)
<1>1. \A i \in DOMAIN limiting' : \E n \in DOMAIN limiting : limiting'[i] = limiting[n]
  BY Queues, DropsKeeps
<1> QED BY <1>1 DEF Limited

LEMMA DropStays ==
  ASSUME TypeInv, Drops(messages, messages'), Drops(limiting, limiting'),
         NEW m \in Known, Queued(m) \/ Limited(m), looking' \subseteq looking \cup {m}
  PROVE  QueuesStay
<1>1. \A k : (Queued(k)' => Queued(k)) /\ (Limited(k)' => Limited(k))
  BY QueuedDrops, LimitedDrops
<1> QED BY <1>1 DEF QueuesStay, Waiting

LEMMA OnlyDropStays ==
  ASSUME TypeInv, Drops(messages, messages'), Drops(limiting, limiting'),
         looking' \subseteq looking
  PROVE  QueuesStay
<1>1. \A k : (Queued(k)' => Queued(k)) /\ (Limited(k)' => Limited(k))
  BY QueuedDrops, LimitedDrops
<1> QED BY <1>1 DEF QueuesStay, Waiting

\* The message a handler takes has left the queue and is nowhere else.
LEMMA TakesOutgoing ==
  ASSUME TypeInv, OnceInv, messages # <<>>, Head(messages).kind = "outgoing",
         messages' = Tail(messages), NEW m, m = Head(messages).msg
  PROVE  /\ m \in Known /\ Queued(m) /\ ~ Queued(m)' /\ ~ Limited(m) /\ m \notin looking
         /\ 1 \in DOMAIN messages /\ messages[1] = OutgoingTask(m)
         /\ Drops(messages, messages')
<1>1. messages \in Seq(KnownTask) /\ m \in Known
  BY Queues, TakeTypes
<1>2. Head(messages) = OutgoingTask(m)
  <2>1. Head(messages) \in KnownTask
    BY TakeTypes
  <2> QED BY <2>1 DEF KnownTask, OutgoingTask
<1>3. /\ 1 \in DOMAIN messages /\ messages[1] = OutgoingTask(m)
      /\ \A i \in DOMAIN messages' : messages'[i] # OutgoingTask(m)
  BY <1>1, <1>2, HeadLeaves DEF OnceInv, HandledOnce
<1>4. Queued(m) /\ ~ Queued(m)' /\ Drops(messages, messages')
  BY <1>1, <1>3, DropsHead DEF Queued, OutgoingTask
<1>5. ~ Limited(m) /\ m \notin looking
  BY <1>1, <1>4 DEF OnceInv, HandledOnce
<1> QED BY <1>1, <1>3, <1>4, <1>5

\* The first handler the rate limiter answers has left it and is nowhere else.
LEMMA LeavesLimiter ==
  ASSUME TypeInv, OnceInv, limiting # <<>>, limiting' = Tail(limiting),
         NEW m, m = Head(limiting)
  PROVE  /\ m \in Known /\ Limited(m) /\ ~ Limited(m)' /\ ~ Queued(m) /\ m \notin looking
         /\ 1 \in DOMAIN limiting /\ limiting[1] = m
         /\ Drops(limiting, limiting')
<1>1. limiting \in Seq(Known)
  BY Queues
<1>2. /\ 1 \in DOMAIN limiting /\ limiting[1] = m
      /\ \A i \in DOMAIN limiting' : limiting'[i] # m
  BY <1>1, HeadLeaves DEF OnceInv, HandledOnce
<1>3. Limited(m) /\ ~ Limited(m)' /\ m \in Known
  BY <1>1, <1>2 DEF Limited
<1>4. ~ Queued(m) /\ m \notin looking
  BY <1>3 DEF OnceInv, HandledOnce
<1>5. Drops(limiting, limiting')
  BY <1>1, DropsHead
<1> QED BY <1>2, <1>3, <1>4, <1>5

\* A longer queue.
LEMMA Appended ==
  ASSUME NEW S, NEW s \in Seq(S), NEW x \in S, NEW t, t = Append(s, x)
  PROVE  /\ DOMAIN s = 1 .. Len(s) /\ Len(s) \in Nat
         /\ DOMAIN t = DOMAIN s \cup {Len(s) + 1} /\ Len(s) + 1 \notin DOMAIN s
         /\ \A i \in DOMAIN s : t[i] = s[i]
         /\ t[Len(s) + 1] = x
<1>1. /\ t \in Seq(S) /\ Len(t) = Len(s) + 1
      /\ \A i \in 1 .. Len(s) : t[i] = s[i]
      /\ t[Len(s) + 1] = x
  BY AppendProperties
<1>2. DOMAIN s = 1 .. Len(s) /\ Len(s) \in Nat /\ DOMAIN t = 1 .. Len(s) + 1
  BY <1>1, LenProperties
<1> QED BY <1>1, <1>2

-----------------------------------------------------------------------------
(* Steps that raise and count nothing.                                     *)

SameNotices == sentHooks' = sentHooks /\ analytics' = analytics

LEMMA SilentKept ==
  ASSUME TypeInv, OnceInv, EffectsInv, Grows, sent' = sent, QueuesStay, SameNotices,
         \A j \in unconfirmed' : j \in unconfirmed \/ InWire(j),
         \A j : OnTheWay(j)' => OnTheWay(j),
         \A c \in persist' : c \in persist \/ OnTheWay(Persist(c))
  PROVE  EffectsInv'
<1>1. WayStays
  BY DEF WayStays
<1>2. HooksStep /\ AnalyticsStep
  BY DEF SameNotices, HooksStep, AnalyticsStep
<1> QED BY <1>1, <1>2, EffectsKept

LEMMA StillKept ==
  ASSUME TypeInv, OnceInv, EffectsInv, sent' = sent, QueuesStay, SameNotices,
         UNCHANGED <<wire, unconfirmed, inbox, persist>>
  PROVE  EffectsInv'
<1>1. \A j : OnTheWay(j)' <=> OnTheWay(j)
  BY DEF OnTheWay, InWire
<1> QED BY <1>1, SameGrows, SilentKept

LEMMA IdleEffects ==
  ASSUME TypeInv, OnceInv, EffectsInv, Reconnect \/ UNCHANGED vars
  PROVE  EffectsInv'
<1>1. /\ UNCHANGED <<sent, messages, limiting, looking, wire, unconfirmed, inbox, persist>>
      /\ SameNotices
  BY DEF Reconnect, vars, clients, handlers, channel, broker, notices, SameNotices
<1>2. Drops(messages, messages') /\ Drops(limiting, limiting')
  BY <1>1, Queues, DropsNothing
<1>3. QueuesStay
  BY <1>1, <1>2, OnlyDropStays
<1> QED BY <1>1, <1>3, StillKept

LEMMA RefuseEffects ==
  ASSUME TypeInv, OnceInv, EffectsInv, Refuse
  PROVE  EffectsInv'
<1>1. /\ limiting # <<>> /\ limiting' = Tail(limiting)
      /\ UNCHANGED <<sent, messages, looking, wire, unconfirmed, inbox, persist>>
      /\ SameNotices
  BY DEF Refuse, clients, broker, channel, notices, SameNotices
<1>2. Drops(messages, messages') /\ Drops(limiting, limiting')
  BY <1>1, Queues, DropsNothing, DropsHead
<1>3. QueuesStay
  BY <1>1, <1>2, OnlyDropStays
<1> QED BY <1>1, <1>3, StillKept

LEMMA AskHistoryEffects ==
  ASSUME TypeInv, OnceInv, EffectsInv,
         NEW m \in Msg, NEW u \in User, NEW st \in {SENT, DELIVERED}, AskHistory(m, u, st)
  PROVE  EffectsInv'
<1>1. PICK task : /\ task = [kind |-> "delivered",
                             copy |-> [msg |-> m, box |-> u, status |-> st, history |-> TRUE]]
                  /\ messages' = Append(messages, task)
  BY DEF AskHistory
<1>2. /\ UNCHANGED <<sent, limiting, looking, wire, unconfirmed, inbox, persist>>
      /\ SameNotices
  BY DEF AskHistory, handlers, channel, broker, notices, SameNotices
<1>3. task \in KnownTask /\ messages \in Seq(KnownTask)
  <2>1. m \in Known
    BY KnownTypes DEF AskHistory, TypeInv
  <2> QED BY <1>1, <2>1, Queues DEF KnownTask, KnownCopy, Inbox
<1>4. \A k : Queued(k)' => Queued(k)
  <2>1. \A i \in DOMAIN messages' : i \in DOMAIN messages \/ messages'[i] = task
    BY <1>1, <1>3, Appended
  <2>2. \A i \in DOMAIN messages : messages'[i] = messages[i]
    BY <1>1, <1>3, Appended
  <2> QED BY <1>1, <2>1, <2>2 DEF Queued, OutgoingTask
<1>5. QueuesStay
  BY <1>2, <1>4 DEF QueuesStay, Waiting, Limited
<1> QED BY <1>2, <1>5, StillKept

-----------------------------------------------------------------------------
(* The broker and the faults.                                              *)

LEMMA ArriveEffects ==
  ASSUME TypeInv, OnceInv, EffectsInv, Grows, wire # <<>>, wire' = Tail(wire),
         unconfirmed' = unconfirmed \cup Head(wire),
         NEW jobs \in SUBSET Head(wire), Arrive(jobs),
         UNCHANGED <<sent, messages, limiting, looking>>, SameNotices
  PROVE  EffectsInv'
<1>1. /\ \A j \in unconfirmed' : j \in unconfirmed \/ InWire(j)
      /\ \A j : OnTheWay(j)' => OnTheWay(j)
  BY WayArrives
<1>2. ASSUME NEW c \in persist', c \notin persist PROVE OnTheWay(Persist(c))
  <2>1. PICK j \in jobs : j.topic = "persist" /\ j.copy = c
    BY <1>2 DEF Arrive
  <2>2. 1 \in DOMAIN wire /\ j \in wire[1] /\ j \in KnownJob
    BY <2>1, WireSeq, HeadTailProperties, EmptySeq
  <2>3. j = Persist(c)
    BY <2>1, <2>2 DEF KnownJob, Persist
  <2> QED BY <2>2, <2>3 DEF OnTheWay, InWire
<1>3. Drops(messages, messages') /\ Drops(limiting, limiting')
  BY Queues, DropsNothing
<1>4. QueuesStay
  BY <1>3, OnlyDropStays
<1> QED BY <1>1, <1>2, <1>4, SilentKept

LEMMA RouteEffects ==
  ASSUME TypeInv, OnceInv, EffectsInv, Grows, Route
  PROVE  EffectsInv'
<1>1. /\ Head(wire) \in SUBSET Head(wire) /\ SameNotices
      /\ UNCHANGED <<sent, messages, limiting, looking>>
  BY DEF Route, clients, handlers, notices, SameNotices
<1> QED BY <1>1, ArriveEffects DEF Route

LEMMA RejectEffects ==
  ASSUME TypeInv, OnceInv, EffectsInv, Grows, NEW j, Reject(j)
  PROVE  EffectsInv'
<1>1. /\ Head(wire) \ {j} \in SUBSET Head(wire)
      /\ UNCHANGED <<sent, messages, limiting, looking>>
      /\ UNCHANGED <<sentHooks, analytics, messageProjectCache>> /\ faults' = faults + 1
  BY DEF Reject, clients, handlers, notices
<1>2. SameNotices
  BY <1>1 DEF SameNotices, TypeInv, TypeOK
<1> QED BY <1>1, <1>2, ArriveEffects DEF Reject

LEMMA CutEffects ==
  ASSUME TypeInv, OnceInv, EffectsInv, Grows, UNCHANGED clients, LosePushed,
         wire' = <<>>, unconfirmed' = {},
         limiting' = limiting \/ limiting' = <<>>, looking' = looking \/ looking' = {},
         NEW part \in SUBSET (IF wire = <<>> THEN {} ELSE Head(wire)), Arrive(part),
         SameNotices
  PROVE  EffectsInv'
<1>1. \A j : ~ OnTheWay(j)'
  BY DEF OnTheWay, InWire
<1>2. ASSUME NEW c \in persist', c \notin persist PROVE OnTheWay(Persist(c))
  <2>1. PICK j \in part : j.topic = "persist" /\ j.copy = c
    BY <1>2 DEF Arrive
  <2>2. 1 \in DOMAIN wire /\ j \in wire[1] /\ j \in KnownJob
    BY <2>1, WireSeq, HeadTailProperties, EmptySeq
  <2>3. j = Persist(c)
    BY <2>1, <2>2 DEF KnownJob, Persist
  <2> QED BY <2>2, <2>3 DEF OnTheWay, InWire
<1>3. Drops(messages, messages') /\ Drops(limiting, limiting')
  BY Queues, DropsSome, DropsNothing, DropsAll DEF LosePushed
<1>4. looking' \subseteq looking
  OBVIOUS
<1>5. QueuesStay
  BY <1>3, <1>4, OnlyDropStays
<1>6. sent' = sent
  BY DEF clients
<1> QED BY <1>1, <1>2, <1>5, <1>6, SilentKept

LEMMA FaultEffects ==
  ASSUME TypeInv, OnceInv, EffectsInv, Grows,
         (\E j \in Pending : Nack(j)) \/ Disconnect \/ Crash
  PROVE  EffectsInv'
<1>1. CASE Crash
  <2>1. sentHooks' = sentHooks /\ analytics' = analytics /\ faults' # 0
    BY <1>1 DEF Crash, TypeInv, TypeOK
  <2> QED BY <1>1, <2>1, CutEffects DEF Crash, SameNotices
<1>2. CASE (\E j \in Pending : Nack(j)) \/ Disconnect
  <2>1. SameNotices /\ UNCHANGED <<clients, handlers>>
    <3>1. ASSUME NEW j, Nack(j) PROVE SameNotices /\ UNCHANGED <<clients, handlers>>
      BY <3>1 DEF Nack, notices, SameNotices
    <3>2. CASE Disconnect
      BY <3>2 DEF Disconnect, notices, SameNotices, TypeInv, TypeOK
    <3> QED BY <1>2, <3>1, <3>2
  <2>2. PICK failed : Sever(failed)
    BY <1>2 DEF Nack, Disconnect
  <2> QED BY <2>1, <2>2, CutEffects DEF Sever, handlers
<1> QED BY <1>1, <1>2

-----------------------------------------------------------------------------
(* The handlers.                                                           *)

LEMMA DeliverSteps ==
  ASSUME TypeInv, OnceInv, EffectsInv, NEW m \in Known,
         NEW copies \in SUBSET KnownCopy, Deliver(m, copies),
         \A c \in copies : /\ c.msg = m
                           /\ c.status = SENT => c = LiveCopy(m) /\ Waiting(m) /\ ~ Waiting(m)',
         UNCHANGED <<unconfirmed, persist, faults>>
  PROVE  WayStays /\ HooksStep
<1>0. PICK x : x = LiveCopy(m)
  OBVIOUS
<1>1. /\ \A j : InWire(j)' => InWire(j) \/ \E c \in copies : j = Added(c) /\ Fits(j)
      /\ sentHooks'[m] \in {sentHooks[m], sentHooks[m] + 1}
      /\ (\A c \in copies : c.status = SENT => Fits(Added(c))) => sentHooks' = sentHooks
      /\ \A k \in Msg \ {m} : /\ sentHooks'[k] = sentHooks[k]
                              /\ messageProjectCache'[k] = messageProjectCache[k]
      /\ messageProjectCache'[m] \in {messageProjectCache[m], sent[m].projectId}
  BY <1>0, DeliverEffects
<1>2. WayStays
  BY <1>1 DEF WayStays, OnTheWay, Added, KnownCopy
<1>3. HooksStep
  <2>1. CASE \A c \in copies : c.status = SENT => Fits(Added(c))
    BY <1>1, <2>1 DEF HooksStep
  <2>2. CASE \E c \in copies : c.status = SENT /\ ~ Fits(Added(c))
    <3>1. x \in copies /\ ~ Fits(Added(x)) /\ Waiting(m) /\ ~ Waiting(m)'
      BY <1>0, <2>2
    <3>2. sentHooks[m] = 0 /\ m \in Msg
      BY <3>1, KnownTypes DEF EffectsInv, HooksOnce, TypeInv, TypeOK
    <3>3. x \in Copy /\ ~ x.history /\ x.msg = m
      BY <1>0, <3>1, KnownTypes DEF LiveCopy, TypeInv
    <3>4. Untouched(x)
      BY <3>1, <3>3 DEF OnceInv, FirstTime
    <3>5. ~ OnTheWay(Added(x))
      BY <3>4 DEF Untouched, OnWire, Held, OnTheWay, InWire, Added
    <3>6. ~ OnTheWay(Added(x))'
      BY <1>1, <3>1, <3>5 DEF OnTheWay, Added
    <3> QED BY <1>0, <1>1, <3>1, <3>2, <3>6 DEF HooksStep
  <2> QED BY <2>1, <2>2
<1> QED BY <1>2, <1>3

LEMMA FanOutSteps ==
  ASSUME TypeInv, OnceInv, EffectsInv, NEW m \in Known, IsGroup(m),
         NEW mem \in Seq(Inbox), FanOut(m, mem), Waiting(m), ~ Waiting(m)',
         UNCHANGED <<unconfirmed, persist, faults>>
  PROVE  WayStays /\ HooksStep
<1>1. PICK n \in 0 .. Len(mem) : Deliver(m, {GroupCopy(m, mem[i]) : i \in 1 .. n})
  BY DEF FanOut
<1> DEFINE copies == {GroupCopy(m, mem[i]) : i \in 1 .. n}
<1>2. copies \in SUBSET KnownCopy
  <2>1. \A i \in 1 .. n : mem[i] \in Inbox
    BY LenProperties
  <2> QED BY <2>1, GroupCopyTypes DEF TypeInv
<1>3. ASSUME NEW c \in copies
      PROVE  c.msg = m /\ (c.status = SENT => c = LiveCopy(m))
  BY DEF GroupCopy, StatusFor, LiveCopy, SENT, DELIVERED
<1>4. Deliver(m, copies)
  BY <1>1
<1> HIDE DEF copies
<1> QED BY <1>2, <1>3, <1>4, DeliverSteps

LEMMA TrackSteps ==
  ASSUME TypeInv, NEW m \in Known, NEW n \in {0, 1}, Track(m, n)
  PROVE  /\ analytics'[m] \in {analytics[m], analytics[m] + n}
         /\ \A k \in Msg \ {m} : analytics'[k] = analytics[k]
<1>1. m \in Msg /\ analytics \in [Msg -> Nat]
  BY KnownTypes DEF TypeInv, TypeOK
<1> QED BY <1>1 DEF Track

\* process_outgoing once the message is let in.
LEMMA OutgoingEffects ==
  ASSUME TypeInv, OnceInv, EffectsInv, Grows, NEW m \in Known,
         Queued(m) \/ Limited(m), Outgoing(m),
         UNCHANGED <<sent, unconfirmed, inbox, persist, faults>>,
         Drops(messages, messages'), Drops(limiting, limiting'),
         ~ Queued(m)', ~ Limited(m)', m \notin looking
  PROVE  EffectsInv'
<1>1. looking' = looking \/ looking' = looking \cup {m}
  BY OutgoingLooks
<1>2. QueuesStay
  BY <1>1, DropStays
<1>3. m \in Msg /\ analytics[m] = 0
  BY KnownTypes DEF EffectsInv, AnalyticsOnce, TypeInv, TypeOK
<1>4. CASE ~ IsGroup(m)
  <2>0. PICK sc : sc = SenderCopy(m)
    OBVIOUS
  <2>1. Deliver(m, {sc}) /\ looking' = looking /\ analytics' = analytics
    BY <1>4, <2>0 DEF Outgoing, SenderCopy
  <2>2. sc \in KnownCopy /\ sc.msg = m /\ sc = LiveCopy(m)
    BY <1>4, <2>0, DirectCopies DEF SenderCopy, LiveCopy
  <2>3. Waiting(m) /\ ~ Waiting(m)' /\ {sc} \in SUBSET KnownCopy
    BY <2>1, <2>2 DEF Waiting
  <2>4. WayStays /\ HooksStep
    BY <2>1, <2>2, <2>3, DeliverSteps
  <2>5. AnalyticsStep
    BY <2>1 DEF AnalyticsStep
  <2> QED BY <1>2, <2>4, <2>5, EffectsKept
<1>5. CASE IsGroup(m)
  <2>1. Track(m, 1)
    BY <1>5 DEF Outgoing
  <2>2. AnalyticsStep
    BY <1>3, <1>5, <2>1, TrackSteps DEF AnalyticsStep
  <2>3. CASE sent[m].group # NONE
    <3>1. /\ looking' = looking
          /\ FanOut(m, SetKey(SetKey(sent[m].group, sent[m].recipient), sent[m].sender))
      BY <1>5, <2>3 DEF Outgoing
    <3>2. /\ sent[m].group \in Seq(Inbox) /\ sent[m].recipient \in Inbox
          /\ sent[m].sender \in Inbox
      BY <2>3, SentTypes DEF TypeInv, Inbox
    <3>3. SetKey(SetKey(sent[m].group, sent[m].recipient), sent[m].sender) \in Seq(Inbox)
      BY <3>2, SetKeyTypes
    <3>4. Waiting(m) /\ ~ Waiting(m)'
      BY <3>1 DEF Waiting
    <3>5. WayStays /\ HooksStep
      BY <1>5, <3>1, <3>3, <3>4, FanOutSteps
    <3> QED BY <1>2, <2>2, <3>5, EffectsKept
  <2>4. CASE sent[m].group = NONE
    <3>1. UNCHANGED <<wire, sentHooks, messageProjectCache>>
      BY <1>5, <2>4 DEF Outgoing
    <3>2. \A j : OnTheWay(j)' <=> OnTheWay(j)
      BY <3>1 DEF OnTheWay, InWire
    <3>3. WayStays /\ HooksStep
      BY <3>1, <3>2 DEF WayStays, HooksStep
    <3> QED BY <1>2, <2>2, <3>3, EffectsKept
  <2> QED BY <2>3, <2>4
<1> QED BY <1>4, <1>5

LEMMA ReceiveOutgoingEffects ==
  ASSUME TypeInv, OnceInv, EffectsInv, Grows, ReceiveOutgoing
  PROVE  EffectsInv'
<1>0. PICK m : m = Head(messages).msg
  OBVIOUS
<1>1. /\ messages # <<>> /\ Head(messages).kind = "outgoing" /\ messages' = Tail(messages)
      /\ UNCHANGED <<sent, inbox, persist, unconfirmed, faults>>
      /\ \/ /\ limiting' = Append(limiting, m) /\ UNCHANGED <<looking, wire, notices>>
         \/ Outgoing(m) /\ limiting' = limiting
  BY <1>0 DEF ReceiveOutgoing, clients, broker, channel
<1>2. /\ m \in Known /\ Queued(m) /\ ~ Queued(m)' /\ ~ Limited(m) /\ m \notin looking
      /\ Drops(messages, messages')
  BY <1>0, <1>1, TakesOutgoing
<1>3. limiting \in Seq(Known)
  BY Queues
<1>4. CASE Outgoing(m) /\ limiting' = limiting
  <2>1. Drops(limiting, limiting') /\ ~ Limited(m)'
    BY <1>2, <1>3, <1>4, DropsNothing DEF Limited
  <2> QED BY <1>1, <1>2, <1>4, <2>1, OutgoingEffects
<1>5. CASE limiting' = Append(limiting, m) /\ UNCHANGED <<looking, wire, notices>>
  <2>1. /\ \A i \in DOMAIN limiting' : i \in DOMAIN limiting \/ limiting'[i] = m
        /\ \A i \in DOMAIN limiting : limiting'[i] = limiting[i]
    BY <1>2, <1>3, <1>5, Appended
  <2>2. \A k : Limited(k)' => Limited(k) \/ k = m
    BY <2>1 DEF Limited
  <2>3. \A k : Queued(k)' => Queued(k)
    BY <1>2, QueuedDrops
  <2>4. QueuesStay
    BY <1>2, <1>5, <2>2, <2>3 DEF QueuesStay, Waiting
  <2>5. SameNotices
    BY <1>1, <1>5 DEF notices, SameNotices
  <2> QED BY <1>1, <1>5, <2>4, <2>5, StillKept
<1> QED BY <1>1, <1>4, <1>5

LEMMA AdmitEffects ==
  ASSUME TypeInv, OnceInv, EffectsInv, Grows, Admit
  PROVE  EffectsInv'
<1>0. PICK m : m = Head(limiting)
  OBVIOUS
<1>1. /\ limiting # <<>> /\ limiting' = Tail(limiting) /\ Outgoing(m)
      /\ UNCHANGED <<sent, messages, inbox, persist, unconfirmed, faults>>
  BY <1>0 DEF Admit, clients, broker
<1>2. /\ m \in Known /\ Limited(m) /\ ~ Limited(m)' /\ ~ Queued(m) /\ m \notin looking
      /\ Drops(limiting, limiting')
  BY <1>0, <1>1, LeavesLimiter
<1>3. Drops(messages, messages') /\ ~ Queued(m)'
  BY <1>1, <1>2, Queues, DropsNothing DEF Queued
<1> QED BY <1>1, <1>2, <1>3, OutgoingEffects

\* getGroup() answers.
LEMMA LookupEffects ==
  ASSUME TypeInv, OnceInv, EffectsInv, Grows, NEW m \in looking, IsGroup(m), Lookup(m)
  PROVE  EffectsInv'
<1>1. m \in Known
  BY Queues
<1>2. PICK mem \in Seq(Inbox) :
        /\ FanOut(m, mem) /\ looking' = looking \ {m} /\ analytics' = analytics
        /\ UNCHANGED <<sent, messages, limiting, unconfirmed, inbox, persist, faults>>
  <2>1. CASE GroupMissing(m)
    <3>1. <<sent[m].sender, sent[m].recipient>> \in Seq(Inbox)
      BY <1>1, SentTypes DEF TypeInv, Inbox
    <3> QED BY <2>1, <3>1 DEF GroupMissing, clients, broker
  <2>2. CASE \E roster \in Roster : GroupFound(m, roster)
    <3>1. PICK roster \in Roster : GroupFound(m, roster)
      BY <2>2
    <3>2. roster \in Seq(Inbox) /\ sent[m].recipient \in Inbox
      BY <1>1, SentTypes, DeliveryAssumption DEF TypeInv, DeliveryAssumption, Inbox
    <3>3. SetKey(roster, sent[m].recipient) \in Seq(Inbox)
      BY <3>2, SetKeyTypes
    <3> QED BY <3>1, <3>3 DEF GroupFound, clients, broker
  <2> QED BY <2>1, <2>2 DEF Lookup
<1>3. Drops(messages, messages') /\ Drops(limiting, limiting')
  BY <1>2, Queues, DropsNothing
<1>4. QueuesStay
  BY <1>2, <1>3, OnlyDropStays
<1>5. ~ Queued(m) /\ ~ Limited(m)
  BY <1>1 DEF OnceInv, HandledOnce
<1>6. Waiting(m) /\ ~ Waiting(m)'
  BY <1>2, <1>5 DEF Waiting, Queued, Limited
<1>7. WayStays /\ HooksStep
  BY <1>1, <1>2, <1>6, FanOutSteps
<1>8. AnalyticsStep
  BY <1>2 DEF AnalyticsStep
<1> QED BY <1>2, <1>4, <1>7, <1>8, EffectsKept

\* A replay is marked DELIVERED: it raises nothing.
LEMMA ReceiveDeliveredEffects ==
  ASSUME TypeInv, OnceInv, EffectsInv, Grows, ReceiveDelivered
  PROVE  EffectsInv'
<1>0. PICK c : c = Head(messages).copy
  OBVIOUS
<1>1. /\ messages # <<>> /\ Head(messages).kind = "delivered" /\ messages' = Tail(messages)
      /\ UNCHANGED <<sent, limiting, looking, inbox, persist, unconfirmed, faults, analytics>>
      /\ \/ UNCHANGED <<wire, sentHooks, messageProjectCache>>
         \/ c.status = DELIVERED /\ Deliver(c.msg, {c})
  BY <1>0 DEF ReceiveDelivered, clients, handlers, broker
<1>2. Drops(messages, messages') /\ Drops(limiting, limiting')
  BY <1>1, Queues, DropsNothing, DropsHead
<1>3. QueuesStay
  BY <1>1, <1>2, OnlyDropStays
<1>4. CASE UNCHANGED <<wire, sentHooks, messageProjectCache>>
  <2>1. SameNotices
    BY <1>1, <1>4 DEF SameNotices
  <2> QED BY <1>1, <1>3, <1>4, <2>1, StillKept
<1>5. CASE c.status = DELIVERED /\ Deliver(c.msg, {c})
  <2>1. c.msg \in Known /\ {c} \in SUBSET KnownCopy /\ c.status # SENT
    BY <1>0, <1>1, <1>5, TakeTypes DEF KnownCopy, SENT, DELIVERED
  <2>2. WayStays /\ HooksStep
    BY <1>1, <1>5, <2>1, DeliverSteps
  <2>3. AnalyticsStep
    BY <1>1 DEF AnalyticsStep
  <2> QED BY <1>1, <1>3, <2>2, <2>3, EffectsKept
<1> QED BY <1>1, <1>4, <1>5

\* Whatever a confirm publishes is for storage or marked DELIVERED.
LEMMA ConfirmWay ==
  ASSUME TypeInv, NEW c \in KnownCopy, unconfirmed' \subseteq unconfirmed,
         NEW jobs, jobs \subseteq {Persist(c)} \cup {Added(d) : d \in FollowUp(c)},
         Publish(jobs)
  PROVE  /\ WayStays
         /\ \A j \in KnownJob : InWire(j)' =>
              InWire(j) \/ j = Persist(c) \/ j.copy.status = DELIVERED
         /\ \A d : OnTheWay(Persist(d))' =>
              OnTheWay(Persist(d)) \/ (Persist(c) \in jobs /\ d = c)
<1>1. FollowUp(c) \subseteq KnownCopy /\ \A d \in FollowUp(c) : d.status = DELIVERED
  <2>1. FollowUp(c) \subseteq KnownCopy
    BY FollowUpTypes DEF TypeInv
  <2>2. \A d \in FollowUp(c) : d.status = DELIVERED
    BY DEF FollowUp, KnownCopy
  <2> QED BY <2>1, <2>2
<1>2. jobs \in SUBSET KnownJob
  BY <1>1, JobTypes
<1>3. \A j : InWire(j)' => InWire(j) \/ j \in jobs
  BY <1>2, WayPublished DEF Out
<1>4. \A j \in jobs : j = Persist(c) \/ (j.topic = "clientadded" /\ j.copy.status = DELIVERED)
  BY <1>1 DEF Added
<1>5. WayStays
  BY <1>3, <1>4 DEF WayStays, OnTheWay, Persist
<1>6. \A d : OnTheWay(Persist(d))' => OnTheWay(Persist(d)) \/ (Persist(c) \in jobs /\ d = c)
  BY <1>3, <1>4 DEF OnTheWay, Persist
<1> QED BY <1>3, <1>4, <1>5, <1>6

LEMMA ConfirmPersistEffects ==
  ASSUME TypeInv, OnceInv, EffectsInv, Grows, NEW c \in KnownCopy, ConfirmPersist(c), QueuesStay
  PROVE  EffectsInv'
<1>1. /\ UNCHANGED <<sent, persist, faults>> /\ unconfirmed' \subseteq unconfirmed
      /\ UNCHANGED <<sentHooks, analytics, messageProjectCache>>
      /\ Publish({Added(d) : d \in FollowUp(c)})
  BY DEF ConfirmPersist, clients, broker, notices
<1>2. /\ WayStays
      /\ \A d : OnTheWay(Persist(d))' =>
           OnTheWay(Persist(d)) \/ (Persist(c) \in {Added(e) : e \in FollowUp(c)} /\ d = c)
  <2> DEFINE jobs == {Added(d) : d \in FollowUp(c)}
  <2>1. jobs \subseteq {Persist(c)} \cup {Added(d) : d \in FollowUp(c)} /\ Publish(jobs)
    BY <1>1
  <2> HIDE DEF jobs
  <2>2. /\ WayStays
        /\ \A d : OnTheWay(Persist(d))' => OnTheWay(Persist(d)) \/ (Persist(c) \in jobs /\ d = c)
    BY <1>1, <2>1, ConfirmWay
  <2> QED BY <2>2 DEF jobs
<1>3. Persist(c) \notin {Added(e) : e \in FollowUp(c)}
  BY DEF Added, Persist
<1>4. HooksStep /\ AnalyticsStep
  BY <1>1 DEF HooksStep, AnalyticsStep
<1> QED BY <1>1, <1>2, <1>4, EffectsKept

\* The callback of a confirmed copy notifies, counts and caches; none of that
\* was done for it before, since it was on its way until now.
LEMMA ConfirmAddedEffects ==
  ASSUME TypeInv, CopyInv, OnceInv, EffectsInv, Grows, NEW c \in KnownCopy, ConfirmAdded(c),
         QueuesStay
  PROVE  EffectsInv'
<1>0. PICK m : m = c.msg
  OBVIOUS
<1> DEFINE done == IF StatusSeen(c) = DELIVERED THEN {c} ELSE {}
           jobs == IF Fits(Persist(c)) THEN {Persist(c)} ELSE {Added(d) : d \in FollowUp(c)}
<1>1. /\ UNCHANGED <<sent, messages, limiting, looking, inbox, persist, faults>>
      /\ Added(c) \in unconfirmed \ rejected /\ unconfirmed' = unconfirmed \ {Added(c)}
      /\ Announce(m, {c}, done)
      /\ Track(m, IF IsGroup(m) THEN 0 ELSE Cardinality(done))
      /\ Publish(jobs)
  BY <1>0 DEF ConfirmAdded, clients, broker, handlers
<1>2. m \in Known /\ m \in Msg /\ c \in Copy
  BY <1>0, KnownTypes DEF KnownCopy, TypeInv
<1>3. CopyOK(c) /\ Shown(c) /\ Entitled(c) /\ Held(c)
  BY <1>1 DEF CopyInv, ArrivedOK, EffectsInv, HeldEntitled, Held, Added
<1>4. ~ c.history => ~ Waiting(m)
  BY <1>0, <1>2, <1>3, HeldOnce
<1>5. done \in {{}, {c}} /\ Cardinality(done) \in {0, 1} /\ (done = {} => Cardinality(done) = 0)
  BY FS_EmptySet, FS_Singleton
<1>6. jobs \subseteq {Persist(c)} \cup {Added(d) : d \in FollowUp(c)}
  OBVIOUS
<1>7. ~ InWire(Added(c))
  BY <1>1 DEF InWire, OnceInv, Single, Held
<1>8. c.status = SENT => c = LiveCopy(m) /\ ~ c.history
  BY <1>0, <1>3, OnlyLive DEF LiveCopy
<1>9. /\ ~ IsGroup(m) => (done # {} => c = RecipientCopy(m) /\ ~ c.history)
      /\ ~ IsGroup(m) /\ c.status # SENT => done = {c}
  <2>1. ~ IsGroup(m) => StatusSeen(c) = c.status
    BY <1>0 DEF StatusSeen
  <2>2. ~ IsGroup(m) /\ c.status = DELIVERED => c = RecipientCopy(m) /\ ~ c.history
    BY <1>0, <1>3 DEF CopyOK, SenderCopy, RecipientCopy, SENT, DELIVERED
  <2> QED BY <2>1, <2>2 DEF KnownCopy
<1> HIDE DEF done, jobs
<1>10. /\ WayStays
       /\ \A j \in KnownJob : InWire(j)' =>
            InWire(j) \/ j = Persist(c) \/ j.copy.status = DELIVERED
       /\ \A d : OnTheWay(Persist(d))' => OnTheWay(Persist(d)) \/ (Persist(c) \in jobs /\ d = c)
  BY <1>1, <1>6, ConfirmWay
<1>11. /\ sentHooks'[m] \in {sentHooks[m], sentHooks[m] + 1}
       /\ (\A d \in {c} : d.status # SENT) => sentHooks' = sentHooks
       /\ \A k \in Msg \ {m} : /\ sentHooks'[k] = sentHooks[k]
                               /\ messageProjectCache'[k] = messageProjectCache[k]
       /\ messageProjectCache'[m] = IF sent[m].projectId = NONE \/ done = {}
                                    THEN messageProjectCache[m] ELSE sent[m].projectId
  <2>1. \A d \in {c} : d.status = SENT => d = c
    OBVIOUS
  <2> QED BY <1>1, <1>2, <2>1, AnnounceEffects
<1>12. HooksStep
  <2>1. CASE c.status # SENT
    BY <1>11, <2>1 DEF HooksStep
  <2>2. CASE c.status = SENT
    <3>1. sentHooks[m] = 0
      BY <1>1, <1>2, <1>8, <2>2 DEF EffectsInv, HooksOnce, OnTheWay, TypeInv, TypeOK
    <3>2. ~ Waiting(m)'
      BY <1>2, <1>4, <1>8, <2>2 DEF QueuesStay
    <3>3. ~ OnTheWay(Added(c))'
      <4>1. Added(c) \in KnownJob /\ Added(c) # Persist(c) /\ Added(c).copy.status # DELIVERED
        BY <2>2, JobTypes DEF Added, Persist, SENT, DELIVERED
      <4> QED BY <1>1, <1>7, <1>10, <4>1 DEF OnTheWay
    <3> QED BY <1>2, <1>8, <1>11, <2>2, <3>1, <3>2, <3>3 DEF HooksStep
  <2> QED BY <2>1, <2>2
<1>13. AnalyticsStep
  <2>1. CASE IsGroup(m) \/ done = {}
    <3>1. Track(m, 0)
      BY <1>1, <1>5, <2>1
    <3>2. /\ analytics'[m] \in {analytics[m], analytics[m] + 0}
          /\ \A k \in Msg \ {m} : analytics'[k] = analytics[k]
      BY <1>2, <3>1, TrackSteps
    <3>3. analytics[m] \in Nat
      BY <1>2 DEF TypeInv, TypeOK
    <3> QED BY <1>2, <3>2, <3>3 DEF AnalyticsStep
  <2>2. CASE ~ IsGroup(m) /\ done # {}
    <3>1. c = RecipientCopy(m) /\ ~ Waiting(m)
      BY <1>4, <1>9, <2>2
    <3>2. analytics[m] = 0
      BY <1>1, <1>2, <2>2, <3>1 DEF EffectsInv, AnalyticsOnce, TypeInv, TypeOK
    <3>3. ~ Queued(m)' /\ ~ Limited(m)'
      BY <1>2, <3>1 DEF QueuesStay, Waiting
    <3>4. Shown(c)' /\ Added(c) \notin unconfirmed'
      BY <1>1, <1>2, <1>3 DEF Grows
    <3>5. /\ analytics'[m] \in {analytics[m], analytics[m] + Cardinality(done)}
          /\ \A k \in Msg \ {m} : analytics'[k] = analytics[k]
      BY <1>1, <1>2, <1>5, <2>2, TrackSteps
    <3>6. analytics'[m] <= 1
      BY <1>5, <3>2, <3>5
    <3> QED BY <1>2, <3>1, <3>2, <3>3, <3>4, <3>5, <3>6 DEF AnalyticsStep
  <2> QED BY <2>1, <2>2
<1> QED BY <1>1, <1>10, <1>12, <1>13, EffectsKept

LEMMA ConfirmEffects ==
  ASSUME TypeInv, CopyInv, OnceInv, EffectsInv, Grows, NEW j \in unconfirmed,
         ConfirmAdded(j.copy) \/ ConfirmPersist(j.copy)
  PROVE  EffectsInv'
<1>1. j.copy \in KnownCopy
  BY DEF TypeInv, KnownOK, KnownJob
<1>2. UNCHANGED <<messages, limiting, looking>>
  BY DEF ConfirmAdded, ConfirmPersist, handlers
<1>3. Drops(messages, messages') /\ Drops(limiting, limiting')
  BY <1>2, Queues, DropsNothing
<1>4. QueuesStay
  BY <1>2, <1>3, OnlyDropStays
<1> QED BY <1>1, <1>4, ConfirmAddedEffects, ConfirmPersistEffects

-----------------------------------------------------------------------------
(* A new message, and the start.                                           *)

LEMMA SendEffects ==
  ASSUME TypeInv, OnceInv, EffectsInv, Grows, NEW e \in Envelope, Send(e)
  PROVE  EffectsInv'
<1>0. PICK new : new = Len(sent) + 1
  OBVIOUS
<1>1. /\ sent' = Append(sent, e)
      /\ messages' = Append(messages, OutgoingTask(new))
      /\ UNCHANGED <<limiting, looking, wire, unconfirmed, inbox, persist, faults,
                     sentHooks, analytics, messageProjectCache>>
  BY <1>0 DEF Send, handlers, channel, broker, notices, OutgoingTask
<1>2. /\ Known = 1 .. Len(sent) /\ sent \in Seq(Envelope) /\ new \notin Known
      /\ Known' = Known \cup {new}
  <2>1. sent \in Seq(Envelope) /\ Known = 1 .. Len(sent) /\ Len(sent) \in Nat
    BY KnownTypes DEF TypeInv, TypeOK
  <2>2. DOMAIN sent' = DOMAIN sent \cup {Len(sent) + 1}
    BY <1>1, <2>1, Appended
  <2> QED BY <1>0, <2>1, <2>2 DEF Known
<1>3. messages \in Seq(KnownTask)
  BY Queues
<1>4. \A k \in Known : Queued(k)' => Queued(k)
  <2>1. /\ \A i \in DOMAIN messages' : i \in DOMAIN messages \/ messages'[i] = OutgoingTask(new)
        /\ \A i \in DOMAIN messages : messages'[i] = messages[i]
    <3>1. messages \in Seq(KnownTask \cup {OutgoingTask(new)})
      BY <1>3, LenProperties, IsASeq
    <3> QED BY <1>1, <3>1, Appended
  <2> QED BY <1>2, <2>1 DEF Queued, OutgoingTask
<1>5. \A j : (OnTheWay(j)' <=> OnTheWay(j)) /\ (j \in unconfirmed => j \in KnownJob)
  BY <1>1 DEF OnTheWay, InWire, TypeInv, KnownOK
<1>6. HeldEntitled'
  BY <1>1, <1>5, EntitledKept DEF HeldEntitled, EffectsInv, KnownJob
<1>7. \A m \in Known : /\ m \in Known' /\ (Waiting(m)' => Waiting(m))
                       /\ (Limited(m)' <=> Limited(m))
                       /\ (IsGroup(m)' <=> IsGroup(m)) /\ sent'[m] = sent[m]
                       /\ LiveCopy(m)' = LiveCopy(m) /\ RecipientCopy(m)' = RecipientCopy(m)
  BY <1>1, <1>4, MessageStays DEF Waiting, Limited
<1>8. HooksOnce'
  <2> SUFFICES ASSUME NEW m \in Msg
               PROVE  /\ sentHooks'[m] <= 1
                      /\ sentHooks'[m] > 0 =>
                           m \in Known' /\ ~ Waiting(m)' /\ ~ OnTheWay(Added(LiveCopy(m)))'
    BY DEF HooksOnce
  <2>1. /\ sentHooks[m] <= 1
        /\ sentHooks[m] > 0 => m \in Known /\ ~ Waiting(m) /\ ~ OnTheWay(Added(LiveCopy(m)))
    BY DEF EffectsInv, HooksOnce
  <2>2. m \in Known => (OnTheWay(Added(LiveCopy(m)))' <=> OnTheWay(Added(LiveCopy(m))))
    BY <1>1, <1>7 DEF OnTheWay, InWire, Added
  <2> QED BY <1>1, <1>7, <2>1, <2>2
<1>9. AnalyticsOnce'
  <2> SUFFICES ASSUME NEW m \in Msg
               PROVE  /\ analytics'[m] <= 1
                      /\ analytics'[m] > 0 =>
                           /\ m \in Known' /\ ~ Queued(m)' /\ ~ Limited(m)'
                           /\ ~ IsGroup(m)' =>
                                /\ Shown(RecipientCopy(m))'
                                /\ Added(RecipientCopy(m))' \notin unconfirmed'
    BY DEF AnalyticsOnce
  <2>1. /\ analytics[m] <= 1
        /\ analytics[m] > 0 =>
             /\ m \in Known /\ ~ Queued(m) /\ ~ Limited(m)
             /\ ~ IsGroup(m) =>
                  Shown(RecipientCopy(m)) /\ Added(RecipientCopy(m)) \notin unconfirmed
    BY DEF EffectsInv, AnalyticsOnce
  <2>2. m \in Known => /\ Shown(RecipientCopy(m))' <=> Shown(RecipientCopy(m))
                       /\ Added(RecipientCopy(m))' = Added(RecipientCopy(m))
    BY <1>1, <1>7 DEF Shown, Added
  <2> QED BY <1>1, <1>4, <1>7, <2>1, <2>2
<1> QED BY <1>6, <1>8, <1>9 DEF EffectsInv

LEMMA InitEffects ==
  ASSUME Init
  PROVE  EffectsInv
<1>1. /\ DOMAIN wire = {} /\ unconfirmed = {} /\ persist = {} /\ Known = {}
      /\ \A m \in Msg : sentHooks[m] = 0 /\ analytics[m] = 0
  BY EmptySeq DEF Init, Known
<1> QED BY <1>1 DEF EffectsInv, HeldEntitled, HooksOnce, AnalyticsOnce

LEMMA NextEffects ==
  ASSUME TypeInv, LookingOK, CopyInv, OnceInv, EffectsInv, [Next]_vars
  PROVE  EffectsInv'
<1>0. Grows
  BY StepGrows
<1>1. CASE \E e \in Envelope : Send(e)
  BY <1>0, <1>1, SendEffects
<1>2. CASE \E m \in Msg, u \in User, st \in {SENT, DELIVERED} : AskHistory(m, u, st)
  BY <1>2, AskHistoryEffects
<1>3. CASE \E m \in looking : Lookup(m)
  BY <1>0, <1>3, LookupEffects DEF LookingOK
<1>4. CASE Confirm
  BY <1>0, <1>4, ConfirmEffects DEF Confirm
<1>5. CASE \E j \in Pending : Reject(j)
  BY <1>0, <1>5, RejectEffects
<1>6. CASE (\E j \in Pending : Nack(j)) \/ Disconnect \/ Crash
  BY <1>0, <1>6, FaultEffects
<1> QED BY <1>0, <1>1, <1>2, <1>3, <1>4, <1>5, <1>6, ReceiveOutgoingEffects, AdmitEffects,
           RefuseEffects, ReceiveDeliveredEffects, RouteEffects, IdleEffects DEF Next

\* What was notified, counted or cached for a message was so once and for good.
THEOREM EffectsInvHolds == Spec => []EffectsInv
<1>1. Init => EffectsInv
  BY InitEffects
<1>2. TypeInv /\ LookingOK /\ CopyInv /\ OnceInv /\ EffectsInv /\ [Next]_vars => EffectsInv'
  BY NextEffects
<1> QED BY <1>1, <1>2, TypeCorrect, LookingHolds, CopiesCorrect, OnceInvHolds, PTL DEF Spec

\* One message-sent webhook and one message.delivered event for each message, at
\* most, whatever is lost, refused, replayed or started again.
THEOREM CountedOnceHolds == Spec => []CountedOnce
<1>1. EffectsInv => CountedOnce
  BY DEF EffectsInv, HooksOnce, AnalyticsOnce, CountedOnce
<1> QED BY <1>1, EffectsInvHolds, PTL

-----------------------------------------------------------------------------
(* What the observer learns of a message's project.                        *)

Learnt(c) ==
  /\ messageProjectCache[c.msg] = sent[c.msg].projectId
  /\ NONE \notin {userProjectCache[b] : b \in {c.box, sent[c.msg].sender}}

\* A fan-out leaves the status of its last copy in the message object.
LastStatus ==
  \A m \in Msg :
    /\ members[m] # <<>> => m \in Known
    /\ \A i \in Addressees(m) :
         i + 1 \notin Addressees(m) => status[m] = StatusFor(m, members[m][i])

\* What resolves has done so before its copy is on its way to the store.
LearntFirst ==
  \A c \in KnownCopy : OnTheWay(Persist(c)) /\ Resolves(c) => Learnt(c)

RightProject ==
  \A m \in Msg : messageProjectCache[m] # NONE =>
    m \in Known /\ messageProjectCache[m] = sent[m].projectId

CacheInv == LastStatus /\ LearntFirst /\ RightProject

\* The caches forget nothing.
CachesGrow ==
  /\ \A m \in Msg : \/ messageProjectCache'[m] = messageProjectCache[m]
                    \/ m \in Known /\ messageProjectCache'[m] = sent[m].projectId
  /\ \A b \in Inbox : userProjectCache[b] # NONE => userProjectCache'[b] # NONE

\* What is queued for storage was on its way there.
StoresArrive == \A c \in persist' \ persist : c \in KnownCopy /\ OnTheWay(Persist(c))

LEMMA LearntStays ==
  ASSUME TypeInv, NEW c \in KnownCopy, Learnt(c), sent' = sent, CachesGrow
  PROVE  Learnt(c)'
<1>1. c.msg \in Msg /\ c.box \in Inbox /\ sent[c.msg].sender \in Inbox
  BY SentTypes, KnownTypes DEF KnownCopy, TypeInv, Inbox
<1> QED BY <1>1 DEF Learnt, CachesGrow

\* A step that leaves the fan-outs alone and puts nothing on its way to the store
\* but what resolves.
LEMMA CacheKept ==
  ASSUME TypeInv, CacheInv, UNCHANGED <<sent, members, status>>, CachesGrow,
         \A c \in KnownCopy :
           OnTheWay(Persist(c))' /\ Resolves(c) => OnTheWay(Persist(c)) \/ Learnt(c)'
  PROVE  CacheInv'
<1>1. Known' = Known /\ KnownCopy' = KnownCopy
  BY DEF Known, KnownCopy
<1>2. LastStatus'
  <2>1. \A m \in Msg : Addressees(m)' = Addressees(m)
    BY DEF Addressees
  <2>2. \A m, b : StatusFor(m, b)' = StatusFor(m, b)
    BY DEF StatusFor
  <2> QED BY <1>1, <2>1, <2>2 DEF CacheInv, LastStatus, StatusFor
<1>3. LearntFirst'
  <2> SUFFICES ASSUME NEW c \in KnownCopy, OnTheWay(Persist(c))', Resolves(c)'
               PROVE  Learnt(c)'
    BY <1>1 DEF LearntFirst, OnTheWay, InWire, Persist
  <2>1. Resolves(c)
    BY DEF Resolves, IsGroup, Addressees
  <2> QED BY <2>1, LearntStays DEF CacheInv, LearntFirst
<1>4. RightProject'
  BY <1>1 DEF CacheInv, RightProject, CachesGrow
<1> QED BY <1>2, <1>3, <1>4 DEF CacheInv

\* A step that changes no cache and sends nothing more.
LEMMA CacheStill ==
  ASSUME TypeInv, CacheInv, UNCHANGED <<sent, members, status>>,
         UNCHANGED <<messageProjectCache, userProjectCache>>,
         \A j : OnTheWay(j)' => OnTheWay(j)
  PROVE  CacheInv' /\ CachesGrow
<1>1. CachesGrow
  BY DEF CachesGrow
<1>2. \A c \in KnownCopy : OnTheWay(Persist(c))' => OnTheWay(Persist(c))
  <2> SUFFICES ASSUME NEW c \in KnownCopy, OnTheWay(Persist(c))'
               PROVE  OnTheWay(Persist(c))
    OBVIOUS
  <2>0. PICK j : j = Persist(c)
    OBVIOUS
  <2>1. OnTheWay(j)'
    BY <2>0 DEF OnTheWay, InWire, Persist
  <2> QED BY <2>0, <2>1
<1> QED BY <1>1, <1>2, CacheKept

LEMMA AnnounceGrows ==
  ASSUME TypeInv, NEW m \in Known, NEW ok, NEW done, Announce(m, ok, done)
  PROVE  /\ CachesGrow
         /\ done # {} /\ sent[m].projectId # NONE =>
              /\ messageProjectCache'[m] = sent[m].projectId
              /\ \A b \in Inbox : b \in {c.box : c \in done} \cup {sent[m].sender} =>
                   userProjectCache'[b] # NONE
<1>1. /\ m \in Msg /\ DOMAIN messageProjectCache = Msg /\ DOMAIN userProjectCache = Inbox
  BY KnownTypes DEF TypeInv, TypeOK
<1>2. CASE done = {} \/ sent[m].projectId = NONE
  BY <1>1, <1>2 DEF Announce, CachesGrow
<1>3. CASE done # {} /\ sent[m].projectId # NONE
  <2>1. /\ messageProjectCache' = [messageProjectCache EXCEPT ![m] = sent[m].projectId]
        /\ userProjectCache' =
             [b \in Inbox |-> IF b \in {c.box : c \in done} \cup {sent[m].sender}
                              THEN sent[m].projectId ELSE userProjectCache[b]]
    BY <1>3 DEF Announce
  <2>2. messageProjectCache'[m] = sent[m].projectId
    BY <1>1, <2>1
  <2>3. \A k \in Msg \ {m} : messageProjectCache'[k] = messageProjectCache[k]
    BY <1>1, <2>1
  <2>4. \A b \in Inbox : /\ userProjectCache[b] # NONE => userProjectCache'[b] # NONE
                         /\ b \in {c.box : c \in done} \cup {sent[m].sender} =>
                              userProjectCache'[b] # NONE
    BY <1>3, <2>1
  <2> QED BY <2>2, <2>3, <2>4 DEF CachesGrow
<1> QED BY <1>2, <1>3

LEMMA DeliverGrows ==
  ASSUME TypeInv, NEW m \in Known, NEW copies \in SUBSET KnownCopy, Deliver(m, copies),
         unconfirmed' = unconfirmed
  PROVE  /\ CachesGrow
         /\ \A c \in KnownCopy : OnTheWay(Persist(c))' => OnTheWay(Persist(c))
<1>1. CachesGrow
  BY AnnounceGrows DEF Deliver
<1>2. \A j : InWire(j)' => InWire(j) \/ \E c \in copies : j = Added(c)
  BY DeliverPublishes, WayPublished
<1>3. \A c \in KnownCopy : OnTheWay(Persist(c))' => OnTheWay(Persist(c))
  <2> SUFFICES ASSUME NEW c \in KnownCopy, OnTheWay(Persist(c))'
               PROVE  OnTheWay(Persist(c))
    OBVIOUS
  <2>0. PICK j : j = Persist(c)
    OBVIOUS
  <2>1. InWire(j)' \/ j \in unconfirmed
    BY <2>0 DEF OnTheWay, InWire, Persist
  <2> QED BY <1>2, <2>0, <2>1 DEF OnTheWay, Added, Persist
<1> QED BY <1>1, <1>3

\* The fan-out of a message none of whose copies is anywhere yet.
LEMMA FanOutCache ==
  ASSUME TypeInv, OnceInv, CacheInv, NEW m \in Known, Waiting(m),
         NEW mem \in Seq(Inbox), FanOut(m, mem), UNCHANGED <<sent, unconfirmed>>
  PROVE  CacheInv' /\ CachesGrow
<1>1. PICK n \in 0 .. Len(mem) :
        /\ LoopEnds(m, mem, n)
        /\ members' = [members EXCEPT ![m] = mem]
        /\ status' = [status EXCEPT ![m] = IF n = 0 THEN @ ELSE StatusFor(m, mem[n])]
        /\ Deliver(m, {GroupCopy(m, mem[i]) : i \in 1 .. n})
  BY DEF FanOut
<1>2. /\ Known' = Known /\ KnownCopy' = KnownCopy
      /\ m \in Msg /\ DOMAIN members = Msg /\ DOMAIN status = Msg
      /\ DOMAIN mem = 1 .. Len(mem) /\ Len(mem) \in Nat
  BY KnownTypes, LenProperties DEF Known, KnownCopy, TypeInv, TypeOK
<1>3. CachesGrow /\ \A c \in KnownCopy : OnTheWay(Persist(c))' => OnTheWay(Persist(c))
  <2> DEFINE copies == {GroupCopy(m, mem[i]) : i \in 1 .. n}
  <2>1. copies \in SUBSET KnownCopy
    <3>1. \A i \in 1 .. n : mem[i] \in Inbox
      BY LenProperties
    <3> QED BY <3>1, GroupCopyTypes DEF TypeInv
  <2>2. Deliver(m, copies)
    BY <1>1
  <2> HIDE DEF copies
  <2> QED BY <2>1, <2>2, DeliverGrows
<1>4. \A k \in Msg \ {m} : members'[k] = members[k] /\ status'[k] = status[k]
                           /\ Addressees(k)' = Addressees(k)
  BY <1>1, <1>2 DEF Addressees
<1>5. LastStatus'
  <2> SUFFICES ASSUME NEW k \in Msg
               PROVE  /\ members'[k] # <<>> => k \in Known
                      /\ \A i \in Addressees(k)' :
                           i + 1 \notin Addressees(k)' =>
                             status'[k] = StatusFor(k, members'[k][i])
    BY <1>2 DEF LastStatus, StatusFor
  <2>1. CASE k # m
    BY <1>4, <2>1 DEF CacheInv, LastStatus
  <2>2. CASE k = m
    <3>1. members'[m] = mem /\ Addressees(m)' = {i \in 1 .. Len(mem) :
             \A h \in 1 .. i : mem[h] # sent[m].hiddenFor}
      BY <1>1, <1>2 DEF Addressees
    <3>2. ASSUME NEW i \in Addressees(m)', i + 1 \notin Addressees(m)' PROVE i = n
      <4>1. i \in 1 .. Len(mem) /\ \A h \in 1 .. i : mem[h] # sent[m].hiddenFor
        BY <3>1, <3>2
      <4>2. ~ (i > n)
        <5>1. i > n => n + 1 \in 1 .. i /\ n < Len(mem)
          BY <4>1, <1>2
        <5> QED BY <1>1, <4>1, <5>1 DEF LoopEnds
      <4>3. ~ (i < n)
        <5>1. i < n => i + 1 \in 1 .. Len(mem) /\ \A h \in 1 .. i + 1 : h \in 1 .. n
          BY <4>1, <1>2
        <5> QED BY <1>1, <3>1, <3>2, <5>1 DEF LoopEnds
      <4> QED BY <4>1, <4>2, <4>3, <1>2
    <3>3. n # 0 => status'[m] = StatusFor(m, mem[n])
      BY <1>1, <1>2
    <3>4. \A i \in Addressees(m)' : i # 0
      BY <3>1
    <3> QED BY <2>2, <3>1, <3>2, <3>3, <3>4
  <2> QED BY <2>1, <2>2
<1>6. LearntFirst'
  <2> SUFFICES ASSUME NEW c \in KnownCopy, OnTheWay(Persist(c))', Resolves(c)'
               PROVE  Learnt(c)'
    BY <1>2 DEF LearntFirst, OnTheWay, InWire, Persist
  <2>1. OnTheWay(Persist(c))
    BY <1>3
  <2>2. c \in Copy /\ c.msg \in Known /\ c.msg \in Msg
    BY KnownTypes DEF KnownCopy, TypeInv
  <2>3. c.msg = m => c.history
    <3>1. OnWire(c) \/ Held(c)
      BY <2>1 DEF OnTheWay, InWire, OnWire, Held, Persist
    <3> QED BY <2>2, <3>1 DEF OnceInv, FirstTime, Untouched, KnownCopy, Copy
  <2>4. Resolves(c)
    <3>1. CASE c.msg = m
      BY <2>3, <3>1 DEF Resolves, IsGroup
    <3>2. CASE c.msg # m
      <4>1. members'[c.msg] = members[c.msg] /\ Addressees(c.msg)' = Addressees(c.msg)
        BY <1>4, <2>2, <3>2
      <4> QED BY <4>1 DEF Resolves, IsGroup
    <3> QED BY <3>1, <3>2
  <2> QED BY <1>3, <2>1, <2>4, LearntStays DEF CacheInv, LearntFirst
<1>7. RightProject'
  BY <1>2, <1>3 DEF CacheInv, RightProject, CachesGrow
<1> QED BY <1>3, <1>5, <1>6, <1>7 DEF CacheInv

LEMMA OutgoingCache ==
  ASSUME TypeInv, OnceInv, CacheInv, NEW m \in Known, Waiting(m), Outgoing(m),
         UNCHANGED <<sent, unconfirmed>>
  PROVE  CacheInv' /\ CachesGrow
<1>1. CASE ~ IsGroup(m)
  <2>0. PICK sc : sc = SenderCopy(m)
    OBVIOUS
  <2>1. Deliver(m, {sc}) /\ UNCHANGED <<members, status>>
    BY <1>1, <2>0 DEF Outgoing, SenderCopy
  <2>2. {sc} \in SUBSET KnownCopy
    BY <1>1, <2>0, DirectCopies
  <2> QED BY <2>1, <2>2, DeliverGrows, CacheKept
<1>2. CASE IsGroup(m) /\ sent[m].group # NONE
  <2>1. FanOut(m, SetKey(SetKey(sent[m].group, sent[m].recipient), sent[m].sender))
    BY <1>2 DEF Outgoing
  <2>2. /\ sent[m].group \in Seq(Inbox) /\ sent[m].recipient \in Inbox
        /\ sent[m].sender \in Inbox
    BY <1>2, SentTypes DEF TypeInv, Inbox
  <2>3. SetKey(SetKey(sent[m].group, sent[m].recipient), sent[m].sender) \in Seq(Inbox)
    BY <2>2, SetKeyTypes
  <2> QED BY <2>1, <2>3, FanOutCache
<1>3. CASE IsGroup(m) /\ sent[m].group = NONE
  <2>1. UNCHANGED <<members, status, wire, messageProjectCache, userProjectCache>>
    BY <1>3 DEF Outgoing
  <2>2. \A j : OnTheWay(j)' => OnTheWay(j)
    BY <2>1 DEF OnTheWay, InWire
  <2> QED BY <2>1, <2>2, CacheStill
<1> QED BY <1>1, <1>2, <1>3

LEMMA HandlerCache ==
  ASSUME TypeInv, LookingOK, OnceInv, CacheInv,
         \/ ReceiveOutgoing \/ Admit
         \/ \E m \in looking : Lookup(m)
         \/ ReceiveDelivered
  PROVE  CacheInv' /\ CachesGrow
<1>1. CASE ReceiveOutgoing
  <2>0. PICK m : m = Head(messages).msg
    OBVIOUS
  <2>1. m \in Known /\ Waiting(m)
    BY <1>1, <2>0, TakesOutgoing DEF ReceiveOutgoing, Waiting
  <2>2. UNCHANGED <<sent, unconfirmed>>
    BY <1>1 DEF ReceiveOutgoing, clients, channel
  <2>3. CASE Outgoing(m)
    BY <2>1, <2>2, <2>3, OutgoingCache
  <2>4. CASE UNCHANGED <<members, status, channel, notices>>
    <3>1. \A j : OnTheWay(j)' => OnTheWay(j)
      BY <2>4 DEF OnTheWay, InWire, channel
    <3> QED BY <2>2, <2>4, <3>1, CacheStill DEF notices
  <2> QED BY <1>1, <2>0, <2>3, <2>4 DEF ReceiveOutgoing
<1>2. CASE Admit
  <2>0. PICK m : m = Head(limiting)
    OBVIOUS
  <2>1. m \in Known /\ Waiting(m)
    BY <1>2, <2>0, LeavesLimiter DEF Admit, Waiting
  <2> QED BY <1>2, <2>0, <2>1, OutgoingCache DEF Admit, clients
<1>3. CASE \E m \in looking : Lookup(m)
  <2>1. PICK m \in looking : Lookup(m)
    BY <1>3
  <2>2. m \in Known /\ Waiting(m)
    BY Queues DEF Waiting
  <2>3. PICK mem \in Seq(Inbox) : FanOut(m, mem) /\ UNCHANGED <<sent, unconfirmed>>
    <3>1. CASE GroupMissing(m)
      <4>1. <<sent[m].sender, sent[m].recipient>> \in Seq(Inbox)
        BY <2>2, SentTypes DEF TypeInv, Inbox
      <4> QED BY <3>1, <4>1 DEF GroupMissing, clients
    <3>2. CASE \E roster \in Roster : GroupFound(m, roster)
      <4>1. PICK roster \in Roster : GroupFound(m, roster)
        BY <3>2
      <4>2. roster \in Seq(Inbox) /\ sent[m].recipient \in Inbox
        BY <2>2, SentTypes, DeliveryAssumption DEF TypeInv, DeliveryAssumption, Inbox
      <4>3. SetKey(roster, sent[m].recipient) \in Seq(Inbox)
        BY <4>2, SetKeyTypes
      <4> QED BY <4>1, <4>3 DEF GroupFound, clients
    <3> QED BY <2>1, <3>1, <3>2 DEF Lookup
  <2> QED BY <2>2, <2>3, FanOutCache
<1>4. CASE ReceiveDelivered
  <2>0. PICK c : c = Head(messages).copy
    OBVIOUS
  <2>1. /\ UNCHANGED <<sent, members, status, unconfirmed>>
        /\ messages # <<>> /\ Head(messages).kind = "delivered"
        /\ \/ UNCHANGED <<wire, messageProjectCache, userProjectCache>>
           \/ Deliver(c.msg, {c})
    BY <1>4, <2>0 DEF ReceiveDelivered, clients, handlers
  <2>2. c.msg \in Known /\ {c} \in SUBSET KnownCopy
    BY <2>0, <2>1, TakeTypes DEF KnownCopy
  <2>3. CASE Deliver(c.msg, {c})
    BY <2>1, <2>2, <2>3, DeliverGrows, CacheKept
  <2>4. CASE UNCHANGED <<wire, messageProjectCache, userProjectCache>>
    <3>1. \A j : OnTheWay(j)' => OnTheWay(j)
      BY <2>1, <2>4 DEF OnTheWay, InWire
    <3> QED BY <2>1, <2>4, <3>1, CacheStill
  <2> QED BY <2>1, <2>3, <2>4
<1> QED BY <1>1, <1>2, <1>3, <1>4

\* The callback caches before it publishes for the store.
LEMMA ConfirmAddedCache ==
  ASSUME TypeInv, CopyInv, OnceInv, CacheInv, NEW c \in KnownCopy, ConfirmAdded(c)
  PROVE  CacheInv' /\ CachesGrow
<1>0. PICK m : m = c.msg
  OBVIOUS
<1> DEFINE done == IF StatusSeen(c) = DELIVERED THEN {c} ELSE {}
           jobs == IF Fits(Persist(c)) THEN {Persist(c)} ELSE {Added(d) : d \in FollowUp(c)}
<1>1. /\ UNCHANGED <<sent, members, status>>
      /\ unconfirmed' = unconfirmed \ {Added(c)}
      /\ Announce(m, {c}, done)
      /\ Publish(jobs)
  BY <1>0 DEF ConfirmAdded, clients, handlers
<1>2. m \in Known /\ m \in Msg /\ c.box \in Inbox /\ sent[m].sender \in Inbox
  BY <1>0, KnownTypes, SentTypes DEF KnownCopy, TypeInv, Inbox
<1>3. jobs \subseteq {Persist(c)} \cup {Added(d) : d \in FollowUp(c)}
  OBVIOUS
<1>4. Resolves(c) => done = {c}
  <2> SUFFICES ASSUME Resolves(c) PROVE StatusSeen(c) = DELIVERED
    OBVIOUS
  <2>1. CASE ~ IsGroup(m) \/ c.history
    BY <1>0, <2>1 DEF StatusSeen, Resolves
  <2>2. CASE IsGroup(m) /\ ~ c.history
    <3>1. PICK i \in Addressees(m) :
            i + 1 \notin Addressees(m) /\ members[m][i] # sent[m].recipient
      BY <1>0, <2>2 DEF Resolves
    <3>2. status[m] = StatusFor(m, members[m][i])
      BY <1>2, <3>1 DEF CacheInv, LastStatus
    <3> QED BY <1>0, <2>2, <3>1, <3>2 DEF StatusSeen, StatusFor
  <2> QED BY <2>1, <2>2
<1> HIDE DEF done, jobs
<1>5. \A d : OnTheWay(Persist(d))' => OnTheWay(Persist(d)) \/ d = c
  BY <1>1, <1>3, ConfirmWay
<1>6. /\ CachesGrow
      /\ done # {} /\ sent[m].projectId # NONE =>
           /\ messageProjectCache'[m] = sent[m].projectId
           /\ \A b \in Inbox : b \in {d.box : d \in done} \cup {sent[m].sender} =>
                userProjectCache'[b] # NONE
  BY <1>1, <1>2, AnnounceGrows
<1>7. Resolves(c) => Learnt(c)'
  <2> SUFFICES ASSUME Resolves(c) PROVE Learnt(c)'
    OBVIOUS
  <2>1. done = {c} /\ sent[m].projectId # NONE
    BY <1>0, <1>4 DEF Resolves
  <2>2. /\ messageProjectCache'[m] = sent[m].projectId
        /\ userProjectCache'[c.box] # NONE /\ userProjectCache'[sent[m].sender] # NONE
    BY <1>2, <1>6, <2>1
  <2> QED BY <1>0, <1>1, <2>2 DEF Learnt
<1> QED BY <1>1, <1>5, <1>6, <1>7, CacheKept

LEMMA ConfirmCache ==
  ASSUME TypeInv, CopyInv, OnceInv, CacheInv, Confirm
  PROVE  CacheInv' /\ CachesGrow
<1>1. PICK j \in unconfirmed : ConfirmAdded(j.copy) \/ ConfirmPersist(j.copy)
  BY DEF Confirm
<1>2. j.copy \in KnownCopy
  BY DEF TypeInv, KnownOK, KnownJob
<1>3. CASE ConfirmPersist(j.copy)
  <2>0. PICK c : c = j.copy
    OBVIOUS
  <2> DEFINE jobs == {Added(d) : d \in FollowUp(c)}
  <2>1. /\ UNCHANGED <<sent, members, status, messageProjectCache, userProjectCache>>
        /\ unconfirmed' \subseteq unconfirmed
        /\ jobs \subseteq {Persist(c)} \cup {Added(d) : d \in FollowUp(c)} /\ Publish(jobs)
    BY <1>3, <2>0 DEF ConfirmPersist, clients, handlers, notices
  <2>2. Persist(c) \notin jobs
    BY DEF Added, Persist
  <2> HIDE DEF jobs
  <2>3. \A d : OnTheWay(Persist(d))' => OnTheWay(Persist(d))
    BY <1>2, <2>0, <2>1, <2>2, ConfirmWay
  <2>4. CachesGrow
    BY <2>1 DEF CachesGrow
  <2> QED BY <2>1, <2>3, <2>4, CacheKept
<1> QED BY <1>1, <1>2, <1>3, ConfirmAddedCache

LEMMA StoresNothing ==
  ASSUME persist' = persist
  PROVE  StoresArrive
BY DEF StoresArrive

LEMMA StoresBurst ==
  ASSUME TypeInv, wire # <<>>, NEW jobs \in SUBSET Head(wire), Arrive(jobs)
  PROVE  StoresArrive
<1> SUFFICES ASSUME NEW c \in persist', c \notin persist
             PROVE  c \in KnownCopy /\ OnTheWay(Persist(c))
  BY DEF StoresArrive
<1>1. PICK j \in jobs : j.topic = "persist" /\ j.copy = c
  BY DEF Arrive
<1>2. 1 \in DOMAIN wire /\ j \in wire[1] /\ j \in KnownJob
  BY <1>1, WireSeq, HeadTailProperties, EmptySeq
<1>3. j = Persist(c) /\ c \in KnownCopy
  BY <1>1, <1>2 DEF KnownJob, Persist
<1> QED BY <1>2, <1>3 DEF OnTheWay, InWire

LEMMA BrokerCache ==
  ASSUME TypeInv, CacheInv, Route \/ \E j \in Pending : Reject(j)
  PROVE  CacheInv' /\ CachesGrow /\ StoresArrive
<1>1. /\ wire # <<>> /\ wire' = Tail(wire) /\ unconfirmed' = unconfirmed \cup Head(wire)
      /\ UNCHANGED <<sent, members, status, messageProjectCache, userProjectCache>>
      /\ \E jobs \in SUBSET Head(wire) : Arrive(jobs)
  BY DEF Route, Reject, clients, handlers, notices
<1>2. \A j : OnTheWay(j)' => OnTheWay(j)
  BY <1>1, WayArrives
<1> QED BY <1>1, <1>2, CacheStill, StoresBurst

\* What a lost connection leaves on its way is nothing.
LEMMA SeveredCache ==
  ASSUME TypeInv, CacheInv, wire' = <<>>, unconfirmed' = {},
         NEW part \in SUBSET (IF wire = <<>> THEN {} ELSE Head(wire)), Arrive(part)
  PROVE  /\ \A j : ~ OnTheWay(j)'
         /\ StoresArrive
<1>1. \A j : ~ OnTheWay(j)'
  BY DEF OnTheWay, InWire
<1>2. CASE wire = <<>>
  <2>1. part = {}
    BY <1>2
  <2>2. persist' = persist
    BY <2>1 DEF Arrive
  <2> QED BY <1>1, <2>2, StoresNothing
<1>3. CASE wire # <<>>
  <2>1. part \in SUBSET Head(wire)
    BY <1>3
  <2> QED BY <1>1, <1>3, <2>1, StoresBurst
<1> QED BY <1>2, <1>3

LEMMA FaultCache ==
  ASSUME TypeInv, CacheInv, (\E j \in Pending : Nack(j)) \/ Disconnect
  PROVE  CacheInv' /\ CachesGrow /\ StoresArrive
<1>1. UNCHANGED <<sent, members, status, messageProjectCache, userProjectCache>>
  BY DEF Nack, Disconnect, clients, handlers, notices
<1>2. /\ wire' = <<>> /\ unconfirmed' = {}
      /\ \E part \in SUBSET (IF wire = <<>> THEN {} ELSE Head(wire)) : Arrive(part)
  BY DEF Nack, Disconnect, Sever
<1>3. (\A j : ~ OnTheWay(j)') /\ StoresArrive
  BY <1>2, SeveredCache
<1> QED BY <1>1, <1>3, CacheStill

LEMMA CrashCache ==
  ASSUME TypeInv, CacheInv, Crash
  PROVE  CacheInv' /\ StoresArrive
<1>1. /\ UNCHANGED <<sent, members, status>>
      /\ \A m \in Msg : messageProjectCache'[m] = NONE
      /\ Known' = Known
  BY DEF Crash, clients, Known
<1>2. /\ wire' = <<>> /\ unconfirmed' = {}
      /\ \E part \in SUBSET (IF wire = <<>> THEN {} ELSE Head(wire)) : Arrive(part)
  BY DEF Crash
<1>3. (\A j : ~ OnTheWay(j)') /\ StoresArrive
  BY <1>2, SeveredCache
<1>4. LastStatus'
  <2>1. \A m \in Msg : Addressees(m)' = Addressees(m)
    BY <1>1 DEF Addressees
  <2> QED BY <1>1, <2>1 DEF CacheInv, LastStatus, StatusFor
<1>5. LearntFirst'
  <2>1. \A c : ~ OnTheWay(Persist(c))'
    BY <1>2 DEF OnTheWay, InWire
  <2> QED BY <2>1 DEF LearntFirst, OnTheWay, InWire, Persist
<1>6. RightProject'
  BY <1>1 DEF RightProject
<1> QED BY <1>3, <1>4, <1>5, <1>6 DEF CacheInv

LEMMA SendCache ==
  ASSUME TypeInv, CacheInv, Grows, NEW e \in Envelope, Send(e)
  PROVE  CacheInv' /\ CachesGrow
<1>1. UNCHANGED <<members, status, wire, unconfirmed, messageProjectCache, userProjectCache>>
  BY DEF Send, handlers, channel, notices
<1>2. \A m \in Known : m \in Known' /\ sent'[m] = sent[m]
  BY DEF Grows
<1>3. CachesGrow
  BY <1>1 DEF CachesGrow
<1>4. LastStatus'
  <2> SUFFICES ASSUME NEW m \in Msg
               PROVE  /\ members[m] # <<>> => m \in Known'
                      /\ \A i \in Addressees(m)' :
                           i + 1 \notin Addressees(m)' =>
                             status[m] = IF members[m][i] = sent'[m].recipient
                                         THEN SENT ELSE DELIVERED
    BY <1>1 DEF LastStatus, StatusFor
  <2>1. CASE m \in Known
    <3>1. Addressees(m)' = Addressees(m)
      BY <1>1, <1>2, <2>1 DEF Addressees
    <3> QED BY <1>2, <2>1, <3>1 DEF CacheInv, LastStatus, StatusFor
  <2>2. CASE m \notin Known
    <3>1. members[m] = <<>>
      BY <2>2 DEF CacheInv, LastStatus
    <3>2. Addressees(m)' = {}
      BY <1>1, <3>1, EmptySeq DEF Addressees
    <3> QED BY <3>1, <3>2
  <2> QED BY <2>1, <2>2
<1>5. LearntFirst'
  <2> SUFFICES ASSUME NEW c \in KnownCopy', OnTheWay(Persist(c))', Resolves(c)'
               PROVE  Learnt(c)'
    BY DEF LearntFirst, OnTheWay, InWire, Persist
  <2>0. PICK j : j = Persist(c)
    OBVIOUS
  <2>1. OnTheWay(j) /\ j.copy = c
    BY <1>1, <2>0 DEF OnTheWay, InWire, Persist
  <2>2. c \in KnownCopy /\ c.msg \in Known
    <3>1. j \in KnownJob
      BY <2>1, WireSeq DEF OnTheWay, InWire, TypeInv, KnownOK
    <3> QED BY <2>1, <3>1 DEF KnownJob, KnownCopy
  <2>3. sent'[c.msg] = sent[c.msg]
    BY <1>2, <2>2
  <2>4. Resolves(c)
    BY <1>1, <2>3 DEF Resolves, IsGroup, Addressees
  <2>5. Learnt(c)
    BY <2>0, <2>1, <2>2, <2>4 DEF CacheInv, LearntFirst
  <2> QED BY <1>1, <2>3, <2>5 DEF Learnt
<1>6. RightProject'
  BY <1>1, <1>2 DEF CacheInv, RightProject
<1> QED BY <1>3, <1>4, <1>5, <1>6 DEF CacheInv

LEMMA InitCache ==
  ASSUME Init
  PROVE  CacheInv
<1>1. /\ DOMAIN wire = {} /\ unconfirmed = {}
      /\ \A m \in Msg : members[m] = <<>> /\ messageProjectCache[m] = NONE
  BY EmptySeq DEF Init
<1>2. LastStatus
  BY <1>1, EmptySeq DEF LastStatus, Addressees
<1>3. LearntFirst /\ RightProject
  BY <1>1 DEF LearntFirst, RightProject, OnTheWay, InWire
<1> QED BY <1>2, <1>3 DEF CacheInv

LEMMA NextCache ==
  ASSUME TypeInv, LookingOK, CopyInv, OnceInv, CacheInv, [Next]_vars
  PROVE  CacheInv' /\ (Crash \/ CachesGrow) /\ StoresArrive
<1>1. CASE \E e \in Envelope : Send(e)
  <2>1. PICK e \in Envelope : Send(e)
    BY <1>1
  <2>2. StoresArrive
    BY <2>1, StoresNothing DEF Send, broker
  <2> QED BY <2>1, <2>2, StepGrows, SendCache
<1>2. CASE ReceiveOutgoing \/ Admit \/ (\E m \in looking : Lookup(m)) \/ ReceiveDelivered
  <2>1. StoresArrive
    BY <1>2, StoresNothing
       DEF ReceiveOutgoing, Admit, Lookup, GroupMissing, GroupFound, ReceiveDelivered, broker
  <2> QED BY <1>2, <2>1, HandlerCache
<1>3. CASE Confirm
  <2>1. StoresArrive
    BY <1>3, StoresNothing DEF Confirm, ConfirmAdded, ConfirmPersist, broker
  <2> QED BY <1>3, <2>1, ConfirmCache
<1>4. CASE Route \/ \E j \in Pending : Reject(j)
  BY <1>4, BrokerCache
<1>5. CASE (\E j \in Pending : Nack(j)) \/ Disconnect
  BY <1>5, FaultCache
<1>6. CASE Crash
  BY <1>6, CrashCache
<1>7. CASE \/ \E m \in Msg, u \in User, st \in {SENT, DELIVERED} : AskHistory(m, u, st)
           \/ Refuse \/ Reconnect \/ UNCHANGED vars
  <2>1. UNCHANGED <<sent, members, status, wire, unconfirmed, persist,
                    messageProjectCache, userProjectCache>>
    BY <1>7 DEF AskHistory, Refuse, Reconnect, vars, clients, handlers, channel, broker,
                notices
  <2>2. \A j : OnTheWay(j)' => OnTheWay(j)
    BY <2>1 DEF OnTheWay, InWire
  <2> QED BY <2>1, <2>2, CacheStill, StoresNothing
<1> QED BY <1>1, <1>2, <1>3, <1>4, <1>5, <1>6, <1>7 DEF Next

\* The caches never hold a wrong project, and have that of every copy that
\* resolves before it leaves for the store.
THEOREM CacheInvHolds == Spec => []CacheInv
<1>1. Init => CacheInv
  BY InitCache
<1>2. TypeInv /\ LookingOK /\ CopyInv /\ OnceInv /\ CacheInv /\ [Next]_vars => CacheInv'
  BY NextCache
<1> QED BY <1>1, <1>2, TypeCorrect, LookingHolds, CopiesCorrect, OnceInvHolds, PTL DEF Spec

\* What is queued for storage resolves, and does so until the process ends.
LEMMA StepResolves ==
  ASSUME TypeInv, LookingOK, CopyInv, OnceInv, CacheInv, [Next]_vars
  PROVE  /\ \A c \in persist' \ persist : Resolves(c) =>
              /\ messageProjectCache[c.msg] = sent[c.msg].projectId
              /\ NONE \notin {userProjectCache[b] : b \in {c.box, sent[c.msg].sender}}
         /\ \/ Crash
            \/ /\ \A m \in Msg : messageProjectCache[m] # NONE =>
                     messageProjectCache'[m] = messageProjectCache[m]
               /\ \A b \in Inbox : userProjectCache[b] # NONE => userProjectCache'[b] # NONE
<1>1. (Crash \/ CachesGrow) /\ StoresArrive
  BY NextCache
<1>2. \A c \in persist' \ persist : Resolves(c) => Learnt(c)
  BY <1>1 DEF StoresArrive, CacheInv, LearntFirst
<1>3. CachesGrow => \A m \in Msg : messageProjectCache[m] # NONE =>
                      messageProjectCache'[m] = messageProjectCache[m]
  BY DEF CachesGrow, CacheInv, RightProject
<1> QED BY <1>1, <1>2, <1>3 DEF Learnt, CachesGrow

\* A copy that resolves is queued for storage after the observer has its project
\* in memory, which only the end of the process takes from it.
THEOREM ReceiptResolvesHolds == Spec => ReceiptResolves
<1>1. TypeInv /\ LookingOK /\ CopyInv /\ OnceInv /\ CacheInv /\ [Next]_vars =>
        [ /\ \A c \in persist' \ persist : Resolves(c) =>
               /\ messageProjectCache[c.msg] = sent[c.msg].projectId
               /\ NONE \notin {userProjectCache[b] : b \in {c.box, sent[c.msg].sender}}
          /\ \/ Crash
             \/ /\ \A m \in Msg : messageProjectCache[m] # NONE =>
                      messageProjectCache'[m] = messageProjectCache[m]
                /\ \A b \in Inbox : userProjectCache[b] # NONE => userProjectCache'[b] # NONE
        ]_vars
  BY StepResolves
<1> QED BY <1>1, TypeCorrect, LookingHolds, CopiesCorrect, OnceInvHolds, CacheInvHolds, PTL
        DEF Spec, ReceiptResolves

-----------------------------------------------------------------------------
(* Order.                                                                  *)

\* A sender's own copy of a direct message, and the publish that shows it.
Own(c) == ~ IsGroup(c.msg) /\ c.status = SENT
OwnJob(a) == a.topic = "clientadded" /\ Own(a.copy)

\* Messages that process_outgoing still has to deliver, in the queue or limited.
Coming(n) == Queued(n) \/ Limited(n)

QueuesInOrder ==
  /\ \A i, k \in DOMAIN messages :
       i < k /\ messages[i].kind = "outgoing" /\ messages[k].kind = "outgoing"
         => messages[i].msg < messages[k].msg
  /\ \A i, k \in DOMAIN limiting : i < k => limiting[i] < limiting[k]
  /\ \A m, n \in Msg : Limited(m) /\ Queued(n) => m < n
  /\ ~ RateLimited => \A n : ~ Limited(n)

WireInOrder ==
  \A i, k \in DOMAIN wire : i < k =>
    \A a \in wire[i], b \in wire[k] : OwnJob(a) /\ OwnJob(b) => a.copy.msg < b.copy.msg

\* What was shown comes before what is on its way, and that before what is coming.
Passed(m) == \A n \in Msg : Coming(n) => m < n

PassedInOrder ==
  /\ \A i \in DOMAIN wire : \A a \in wire[i] : OwnJob(a) => Passed(a.copy.msg)
  /\ \A c \in Copies : Own(c) =>
       /\ Passed(c.msg)
       /\ \A i \in DOMAIN wire : \A a \in wire[i] : OwnJob(a) => c.msg < a.copy.msg

OrderInv == QueuesInOrder /\ WireInOrder /\ PassedInOrder /\ ShownInOrder

LEMMA DropsOrder ==
  ASSUME NEW S, NEW s \in Seq(S), NEW t, Drops(s, t)
  PROVE  \A i, k \in DOMAIN t : i < k =>
           \E n, l \in DOMAIN s : n < l /\ t[i] = s[n] /\ t[k] = s[l]
<1>1. PICK d \in Nat : \A i \in DOMAIN t : i \in Nat /\ i + d \in DOMAIN s /\ t[i] = s[i + d]
  BY DEF Drops
<1>2. ASSUME NEW i \in DOMAIN t, NEW k \in DOMAIN t, i < k
      PROVE  i + d < k + d /\ i + d \in DOMAIN s /\ k + d \in DOMAIN s
  BY <1>1, <1>2
<1> QED BY <1>1, <1>2

LEMMA SameOwn ==
  ASSUME sent' = sent
  PROVE  \A c : (Own(c)' <=> Own(c)) /\ (OwnJob(c)' <=> OwnJob(c))
BY DEF Own, OwnJob, IsGroup

\* Losing what is oldest keeps the order of what is left.
LEMMA QueuesDropInOrder ==
  ASSUME TypeInv, QueuesInOrder, Drops(messages, messages'), Drops(limiting, limiting')
  PROVE  QueuesInOrder' /\ \A n : Coming(n)' => Coming(n)
<1>1. \A k : (Queued(k)' => Queued(k)) /\ (Limited(k)' => Limited(k))
  BY QueuedDrops, LimitedDrops
<1>2. ASSUME NEW i \in DOMAIN messages', NEW k \in DOMAIN messages', i < k,
             messages'[i].kind = "outgoing", messages'[k].kind = "outgoing"
      PROVE  messages'[i].msg < messages'[k].msg
  <2>1. PICK n, l \in DOMAIN messages :
          n < l /\ messages'[i] = messages[n] /\ messages'[k] = messages[l]
    BY <1>2, Queues, DropsOrder
  <2> QED BY <1>2, <2>1 DEF QueuesInOrder
<1>3. ASSUME NEW i \in DOMAIN limiting', NEW k \in DOMAIN limiting', i < k
      PROVE  limiting'[i] < limiting'[k]
  <2>1. PICK n, l \in DOMAIN limiting :
          n < l /\ limiting'[i] = limiting[n] /\ limiting'[k] = limiting[l]
    BY <1>3, Queues, DropsOrder
  <2> QED BY <1>3, <2>1 DEF QueuesInOrder
<1> QED BY <1>1, <1>2, <1>3 DEF QueuesInOrder, Coming

LEMMA SameOrder ==
  ASSUME TypeInv, OrderInv, UNCHANGED <<sent, wire, inbox>>, QueuesInOrder',
         \A n : Coming(n)' => Coming(n)
  PROVE  OrderInv'
<1>1. Copies' = Copies
  BY DEF Copies
<1>2. WireInOrder' /\ PassedInOrder'
  BY <1>1, SameOwn DEF OrderInv, WireInOrder, PassedInOrder, Passed
<1>3. ShownInOrder'
  BY DEF OrderInv, ShownInOrder, IsGroup
<1> QED BY <1>2, <1>3 DEF OrderInv

\* What is published for the message that was first of all is last on the wire.
LEMMA PublishOrder ==
  ASSUME TypeInv, OrderInv, UNCHANGED <<sent, inbox>>, QueuesInOrder',
         \A n : Coming(n)' => Coming(n),
         NEW jobs \in SUBSET KnownJob, Publish(jobs),
         \A a \in Out(jobs) : OwnJob(a) => Coming(a.copy.msg) /\ Passed(a.copy.msg)'
  PROVE  OrderInv'
<1>1. CASE wire' = wire
  BY <1>1, SameOrder
<1>2. CASE /\ DOMAIN wire' = DOMAIN wire \cup {Len(wire) + 1}
           /\ \A i \in DOMAIN wire : wire'[i] = wire[i]
           /\ wire'[Len(wire) + 1] = Out(jobs)
  <2>1. \A c : (Own(c)' <=> Own(c)) /\ (OwnJob(c)' <=> OwnJob(c))
    BY SameOwn
  <2>2. DOMAIN wire = 1 .. Len(wire) /\ Len(wire) \in Nat
    BY WireSeq
  <2>3. \A a \in Out(jobs) : a.copy.msg \in Msg
    BY KnownTypes DEF Out, KnownJob, KnownCopy, TypeInv
  <2>4. WireInOrder'
    <3> SUFFICES ASSUME NEW i \in DOMAIN wire', NEW k \in DOMAIN wire', i < k,
                        NEW a \in wire'[i], NEW b \in wire'[k], OwnJob(a), OwnJob(b)
                 PROVE  a.copy.msg < b.copy.msg
      BY <2>1 DEF WireInOrder
    <3>1. i \in DOMAIN wire /\ a \in wire[i]
      BY <1>2, <2>2
    <3>2. CASE k \in DOMAIN wire
      BY <1>2, <3>1, <3>2 DEF OrderInv, WireInOrder
    <3>3. CASE k = Len(wire) + 1
      <4>1. b \in Out(jobs) /\ Coming(b.copy.msg) /\ b.copy.msg \in Msg
        BY <1>2, <2>3, <3>3
      <4> QED BY <3>1, <4>1 DEF OrderInv, PassedInOrder, Passed
    <3> QED BY <1>2, <3>2, <3>3
  <2>5. PassedInOrder'
    <3>1. ASSUME NEW i \in DOMAIN wire', NEW a \in wire'[i], OwnJob(a)
          PROVE  Passed(a.copy.msg)'
      <4>1. CASE i \in DOMAIN wire
        BY <1>2, <3>1, <4>1 DEF OrderInv, PassedInOrder, Passed
      <4>2. CASE i = Len(wire) + 1
        BY <1>2, <3>1, <4>2
      <4> QED BY <1>2, <4>1, <4>2
    <3>2. ASSUME NEW c \in Copies, Own(c)
          PROVE  /\ Passed(c.msg)'
                 /\ \A i \in DOMAIN wire' : \A a \in wire'[i] : OwnJob(a) => c.msg < a.copy.msg
      <4>1. Passed(c.msg) /\ Passed(c.msg)'
        BY <3>2 DEF OrderInv, PassedInOrder, Passed
      <4>2. ASSUME NEW i \in DOMAIN wire', NEW a \in wire'[i], OwnJob(a)
            PROVE  c.msg < a.copy.msg
        <5>1. CASE i \in DOMAIN wire
          BY <1>2, <3>2, <4>2, <5>1 DEF OrderInv, PassedInOrder
        <5>2. CASE i = Len(wire) + 1
          <6>1. a \in Out(jobs) /\ Coming(a.copy.msg) /\ a.copy.msg \in Msg
            BY <1>2, <2>3, <4>2, <5>2
          <6> QED BY <4>1, <6>1 DEF Passed
        <5> QED BY <1>2, <5>1, <5>2
      <4> QED BY <4>1, <4>2
    <3>3. Copies' = Copies
      BY DEF Copies
    <3> QED BY <2>1, <3>1, <3>2, <3>3 DEF PassedInOrder
  <2>6. ShownInOrder'
    BY DEF OrderInv, ShownInOrder, IsGroup
  <2> QED BY <2>4, <2>5, <2>6 DEF OrderInv
<1> QED BY <1>1, <1>2, PublishWire

LEMMA DeliverOrder ==
  ASSUME TypeInv, OrderInv, UNCHANGED <<sent, inbox>>, QueuesInOrder',
         \A n : Coming(n)' => Coming(n),
         NEW m, IsGroup(m) \/ (Coming(m) /\ Passed(m)'),
         NEW copies \in SUBSET KnownCopy, \A c \in copies : c.msg = m, Deliver(m, copies)
  PROVE  OrderInv'
<1>1. PICK jobs \in SUBSET KnownJob :
        /\ Publish(jobs)
        /\ \A j \in Out(jobs) : \E c \in copies : j = Added(c) /\ Fits(j)
  BY DeliverPublishes
<1>2. ASSUME NEW a \in Out(jobs), OwnJob(a)
      PROVE  Coming(a.copy.msg) /\ Passed(a.copy.msg)'
  <2>1. a.copy.msg = m
    BY <1>1 DEF Added
  <2> QED BY <1>2, <2>1 DEF OwnJob, Own, Passed
<1> QED BY <1>1, <1>2, PublishOrder

LEMMA FanOutOrder ==
  ASSUME TypeInv, OrderInv, UNCHANGED <<sent, inbox>>, QueuesInOrder',
         \A n : Coming(n)' => Coming(n),
         NEW m \in Known, IsGroup(m), NEW mem \in Seq(Inbox), FanOut(m, mem)
  PROVE  OrderInv'
<1>1. PICK n \in 0 .. Len(mem) : Deliver(m, {GroupCopy(m, mem[i]) : i \in 1 .. n})
  BY DEF FanOut
<1> DEFINE copies == {GroupCopy(m, mem[i]) : i \in 1 .. n}
<1>2. copies \in SUBSET KnownCopy
  <2>1. \A i \in 1 .. n : mem[i] \in Inbox
    BY LenProperties
  <2> QED BY <2>1, GroupCopyTypes DEF TypeInv
<1>3. \A c \in copies : c.msg = m
  BY DEF GroupCopy
<1>4. Deliver(m, copies)
  BY <1>1
<1> HIDE DEF copies
<1> QED BY <1>2, <1>3, <1>4, DeliverOrder

LEMMA OutgoingOrder ==
  ASSUME TypeInv, OrderInv, UNCHANGED <<sent, inbox>>, QueuesInOrder',
         \A n : Coming(n)' => Coming(n),
         NEW m \in Known, Coming(m), Passed(m)', Outgoing(m)
  PROVE  OrderInv'
<1>1. CASE ~ IsGroup(m)
  <2>0. PICK sc : sc = SenderCopy(m)
    OBVIOUS
  <2>1. Deliver(m, {sc}) /\ {sc} \in SUBSET KnownCopy /\ \A c \in {sc} : c.msg = m
    BY <1>1, <2>0, DirectCopies DEF Outgoing, SenderCopy
  <2> QED BY <2>1, DeliverOrder
<1>2. CASE IsGroup(m) /\ sent[m].group # NONE
  <2>1. FanOut(m, SetKey(SetKey(sent[m].group, sent[m].recipient), sent[m].sender))
    BY <1>2 DEF Outgoing
  <2>2. /\ sent[m].group \in Seq(Inbox) /\ sent[m].recipient \in Inbox
        /\ sent[m].sender \in Inbox
    BY <1>2, SentTypes DEF TypeInv, Inbox
  <2>3. SetKey(SetKey(sent[m].group, sent[m].recipient), sent[m].sender) \in Seq(Inbox)
    BY <2>2, SetKeyTypes
  <2> QED BY <1>2, <2>1, <2>3, FanOutOrder
<1>3. CASE IsGroup(m) /\ sent[m].group = NONE
  <2>1. wire' = wire
    BY <1>3 DEF Outgoing
  <2> QED BY <2>1, SameOrder
<1> QED BY <1>1, <1>2, <1>3

LEMMA ReceiveOutgoingOrder ==
  ASSUME TypeInv, OnceInv, OrderInv, ReceiveOutgoing
  PROVE  OrderInv'
<1>0. PICK m : m = Head(messages).msg
  OBVIOUS
<1>1. /\ messages # <<>> /\ Head(messages).kind = "outgoing" /\ messages' = Tail(messages)
      /\ UNCHANGED <<sent, inbox>>
      /\ \/ RateLimited /\ limiting' = Append(limiting, m) /\ UNCHANGED wire
         \/ ~ RateLimited /\ Outgoing(m) /\ limiting' = limiting
  BY <1>0 DEF ReceiveOutgoing, clients, broker, channel
<1>2. /\ m \in Known /\ Queued(m) /\ ~ Queued(m)' /\ Drops(messages, messages')
      /\ 1 \in DOMAIN messages /\ messages[1] = OutgoingTask(m)
  BY <1>0, <1>1, TakesOutgoing
<1>3. limiting \in Seq(Known) /\ Known \subseteq Msg /\ messages \in Seq(KnownTask)
  BY Queues
<1>4. ASSUME NEW n \in Msg, Queued(n)' PROVE m < n
  <2>1. PICK i \in DOMAIN messages' : messages'[i] = OutgoingTask(n)
    BY <1>4 DEF Queued, OutgoingTask
  <2>2. PICK k \in DOMAIN messages : 1 < k /\ messages[k] = OutgoingTask(n)
    <3>1. /\ Len(messages') = Len(messages) - 1 /\ messages' \in Seq(KnownTask)
          /\ \A x \in 1 .. Len(messages') : messages'[x] = messages[x + 1]
      BY <1>1, <1>3, HeadTailProperties
    <3>2. DOMAIN messages' = 1 .. Len(messages) - 1 /\ DOMAIN messages = 1 .. Len(messages)
          /\ Len(messages) \in Nat
      BY <1>3, <3>1, LenProperties
    <3>3. i + 1 \in DOMAIN messages /\ 1 < i + 1 /\ messages[i + 1] = OutgoingTask(n)
      BY <2>1, <3>1, <3>2
    <3> QED BY <3>3
  <2>3. /\ messages[1].kind = "outgoing" /\ messages[1].msg = m
        /\ messages[k].kind = "outgoing" /\ messages[k].msg = n
    BY <1>2, <2>2 DEF OutgoingTask
  <2> QED BY <1>2, <2>2, <2>3 DEF OrderInv, QueuesInOrder
<1>5. CASE ~ RateLimited /\ Outgoing(m) /\ limiting' = limiting
  <2>1. Drops(limiting, limiting')
    BY <1>3, <1>5, DropsNothing
  <2>2. QueuesInOrder' /\ \A n : Coming(n)' => Coming(n)
    BY <1>2, <2>1, QueuesDropInOrder DEF OrderInv
  <2>3. Passed(m)' /\ Coming(m)
    BY <1>2, <1>4, <1>5, <2>2 DEF Passed, Coming, QueuesInOrder
  <2> QED BY <1>1, <1>2, <1>5, <2>2, <2>3, OutgoingOrder
<1>6. CASE RateLimited /\ limiting' = Append(limiting, m) /\ UNCHANGED wire
  <2>1. /\ DOMAIN limiting = 1 .. Len(limiting) /\ Len(limiting) \in Nat
        /\ DOMAIN limiting' = DOMAIN limiting \cup {Len(limiting) + 1}
        /\ \A i \in DOMAIN limiting : limiting'[i] = limiting[i]
        /\ limiting'[Len(limiting) + 1] = m
    BY <1>2, <1>3, <1>6, Appended
  <2>2. \A n : Limited(n)' => Limited(n) \/ n = m
    BY <2>1 DEF Limited
  <2>3. \A n : Queued(n)' => Queued(n)
    BY <1>2, QueuedDrops
  <2>4. ASSUME NEW i \in DOMAIN limiting', NEW k \in DOMAIN limiting', i < k
        PROVE  limiting'[i] < limiting'[k]
    <3>1. i \in DOMAIN limiting /\ Limited(limiting[i]) /\ limiting[i] \in Msg
      BY <1>3, <2>1, <2>4 DEF Limited
    <3>2. CASE k \in DOMAIN limiting
      BY <2>1, <2>4, <3>1, <3>2 DEF OrderInv, QueuesInOrder
    <3>3. CASE k = Len(limiting) + 1
      BY <1>2, <1>3, <2>1, <3>1, <3>3 DEF OrderInv, QueuesInOrder
    <3> QED BY <2>1, <3>2, <3>3
  <2>5. ASSUME NEW i \in DOMAIN messages', NEW k \in DOMAIN messages', i < k,
               messages'[i].kind = "outgoing", messages'[k].kind = "outgoing"
        PROVE  messages'[i].msg < messages'[k].msg
    <3>1. PICK n, l \in DOMAIN messages :
            n < l /\ messages'[i] = messages[n] /\ messages'[k] = messages[l]
      BY <1>2, <1>3, <2>5, DropsOrder
    <3> QED BY <2>5, <3>1 DEF OrderInv, QueuesInOrder
  <2>6. \A j, n \in Msg : Limited(j)' /\ Queued(n)' => j < n
    BY <1>4, <2>2, <2>3 DEF OrderInv, QueuesInOrder
  <2>7. QueuesInOrder'
    BY <1>6, <2>4, <2>5, <2>6 DEF QueuesInOrder
  <2>8. \A n : Coming(n)' => Coming(n)
    BY <1>2, <2>2, <2>3 DEF Coming
  <2> QED BY <1>1, <1>6, <2>7, <2>8, SameOrder
<1> QED BY <1>1, <1>5, <1>6

LEMMA AdmitOrder ==
  ASSUME TypeInv, OnceInv, OrderInv, Admit
  PROVE  OrderInv'
<1>0. PICK m : m = Head(limiting)
  OBVIOUS
<1>1. /\ limiting # <<>> /\ limiting' = Tail(limiting) /\ Outgoing(m)
      /\ UNCHANGED <<sent, inbox, messages>>
  BY <1>0 DEF Admit, clients, broker
<1>2. /\ m \in Known /\ Limited(m) /\ Drops(limiting, limiting')
      /\ 1 \in DOMAIN limiting /\ limiting[1] = m
  BY <1>0, <1>1, LeavesLimiter
<1>3. limiting \in Seq(Known) /\ m \in Msg /\ Drops(messages, messages')
  BY <1>1, <1>2, Queues, DropsNothing
<1>4. QueuesInOrder' /\ \A n : Coming(n)' => Coming(n)
  BY <1>2, <1>3, QueuesDropInOrder DEF OrderInv
<1>5. ASSUME NEW n \in Msg, Limited(n)' PROVE m < n
  <2>1. PICK i \in DOMAIN limiting' : limiting'[i] = n
    BY <1>5 DEF Limited
  <2>2. PICK k \in DOMAIN limiting : 1 < k /\ limiting[k] = n
    <3>1. /\ Len(limiting') = Len(limiting) - 1 /\ limiting' \in Seq(Known)
          /\ \A x \in 1 .. Len(limiting') : limiting'[x] = limiting[x + 1]
      BY <1>1, <1>3, HeadTailProperties
    <3>2. DOMAIN limiting' = 1 .. Len(limiting) - 1 /\ DOMAIN limiting = 1 .. Len(limiting)
          /\ Len(limiting) \in Nat
      BY <1>3, <3>1, LenProperties
    <3>3. i + 1 \in DOMAIN limiting /\ 1 < i + 1 /\ limiting[i + 1] = n
      BY <2>1, <3>1, <3>2
    <3> QED BY <3>3
  <2> QED BY <1>2, <2>2 DEF OrderInv, QueuesInOrder
<1>6. ASSUME NEW n \in Msg, Queued(n)' PROVE m < n
  BY <1>1, <1>2, <1>3, <1>6 DEF OrderInv, QueuesInOrder, Queued
<1>7. Passed(m)' /\ Coming(m)
  BY <1>2, <1>5, <1>6 DEF Passed, Coming
<1> QED BY <1>1, <1>2, <1>4, <1>7, OutgoingOrder

LEMMA RefuseOrder ==
  ASSUME TypeInv, OrderInv, Refuse
  PROVE  OrderInv'
<1>1. /\ limiting # <<>> /\ limiting' = Tail(limiting)
      /\ UNCHANGED <<sent, inbox, messages, wire>>
  BY DEF Refuse, clients, broker, channel
<1>2. Drops(messages, messages') /\ Drops(limiting, limiting')
  BY <1>1, Queues, DropsNothing, DropsHead
<1> QED BY <1>1, <1>2, QueuesDropInOrder, SameOrder DEF OrderInv

LEMMA LookupOrder ==
  ASSUME TypeInv, OrderInv, NEW m \in looking, IsGroup(m), Lookup(m)
  PROVE  OrderInv'
<1>1. m \in Known
  BY Queues
<1>2. PICK mem \in Seq(Inbox) :
        FanOut(m, mem) /\ UNCHANGED <<sent, messages, limiting, inbox>>
  <2>1. CASE GroupMissing(m)
    <3>1. <<sent[m].sender, sent[m].recipient>> \in Seq(Inbox)
      BY <1>1, SentTypes DEF TypeInv, Inbox
    <3> QED BY <2>1, <3>1 DEF GroupMissing, clients, broker
  <2>2. CASE \E roster \in Roster : GroupFound(m, roster)
    <3>1. PICK roster \in Roster : GroupFound(m, roster)
      BY <2>2
    <3>2. roster \in Seq(Inbox) /\ sent[m].recipient \in Inbox
      BY <1>1, SentTypes, DeliveryAssumption DEF TypeInv, DeliveryAssumption, Inbox
    <3>3. SetKey(roster, sent[m].recipient) \in Seq(Inbox)
      BY <3>2, SetKeyTypes
    <3> QED BY <3>1, <3>3 DEF GroupFound, clients, broker
  <2> QED BY <2>1, <2>2 DEF Lookup
<1>3. Drops(messages, messages') /\ Drops(limiting, limiting')
  BY <1>2, Queues, DropsNothing
<1>4. QueuesInOrder' /\ \A n : Coming(n)' => Coming(n)
  BY <1>3, QueuesDropInOrder DEF OrderInv
<1> QED BY <1>1, <1>2, <1>4, FanOutOrder

LEMMA ReceiveDeliveredOrder ==
  ASSUME TypeInv, CopyInv, OrderInv, ReceiveDelivered
  PROVE  OrderInv'
<1>0. PICK c : c = Head(messages).copy
  OBVIOUS
<1>1. /\ messages # <<>> /\ Head(messages).kind = "delivered" /\ messages' = Tail(messages)
      /\ UNCHANGED <<sent, limiting, inbox>>
      /\ UNCHANGED wire \/ Deliver(c.msg, {c})
  BY <1>0 DEF ReceiveDelivered, clients, handlers, broker
<1>2. Drops(messages, messages') /\ Drops(limiting, limiting')
  BY <1>1, Queues, DropsNothing, DropsHead
<1>3. QueuesInOrder' /\ \A n : Coming(n)' => Coming(n)
  BY <1>2, QueuesDropInOrder DEF OrderInv
<1>4. 1 \in DOMAIN messages /\ Head(messages) = messages[1]
  BY <1>1, Queues, HeadTailProperties, EmptySeq
<1>5. IsGroup(c.msg) /\ {c} \in SUBSET KnownCopy /\ \A d \in {c} : d.msg = c.msg
  BY <1>0, <1>1, <1>4, TakeTypes DEF CopyInv, TasksOK
<1>6. CASE Deliver(c.msg, {c})
  BY <1>1, <1>3, <1>5, <1>6, DeliverOrder
<1>7. CASE UNCHANGED wire
  BY <1>1, <1>3, <1>7, SameOrder
<1> QED BY <1>1, <1>6, <1>7

\* Confirms publish nothing that is marked SENT.
LEMMA ConfirmOrder ==
  ASSUME TypeInv, OrderInv, NEW j \in unconfirmed, ConfirmAdded(j.copy) \/ ConfirmPersist(j.copy)
  PROVE  OrderInv'
<1>0. PICK c : c = j.copy
  OBVIOUS
<1>1. UNCHANGED <<sent, inbox, messages, limiting>>
  BY DEF ConfirmAdded, ConfirmPersist, clients, broker, handlers
<1>2. Drops(messages, messages') /\ Drops(limiting, limiting')
  BY <1>1, Queues, DropsNothing
<1>3. QueuesInOrder' /\ \A n : Coming(n)' => Coming(n)
  BY <1>2, QueuesDropInOrder DEF OrderInv
<1>4. PICK jobs : /\ jobs \subseteq {Persist(c)} \cup {Added(d) : d \in FollowUp(c)}
                  /\ Publish(jobs)
  BY <1>0 DEF ConfirmAdded, ConfirmPersist
<1>5. c \in KnownCopy
  BY <1>0 DEF TypeInv, KnownOK, KnownJob
<1>6. FollowUp(c) \subseteq KnownCopy
  BY <1>5, FollowUpTypes DEF TypeInv
<1>7. jobs \in SUBSET KnownJob
  BY <1>4, <1>5, <1>6, JobTypes
<1>8. ASSUME NEW a \in Out(jobs) PROVE ~ OwnJob(a)
  <2>1. CASE a = Persist(c)
    BY <2>1 DEF OwnJob, Persist
  <2>2. CASE \E d \in FollowUp(c) : a = Added(d)
    <3>1. PICK d \in FollowUp(c) : a = Added(d)
      BY <2>2
    <3>2. d.status = DELIVERED
      BY <1>5 DEF FollowUp, KnownCopy
    <3> QED BY <3>1, <3>2 DEF OwnJob, Own, Added, SENT, DELIVERED
  <2> QED BY <1>4, <2>1, <2>2 DEF Out
<1> QED BY <1>1, <1>3, <1>4, <1>7, <1>8, PublishOrder

\* What arrives is the first burst of the connection: it comes after all that was
\* shown, and before the rest.
LEMMA ArriveOrder ==
  ASSUME TypeInv, CopyInv, OnceInv, OrderInv, sent' = sent, QueuesInOrder',
         \A n : Coming(n)' => Coming(n),
         NEW jobs \in SUBSET KnownJob, Arrive(jobs),
         jobs # {} => 1 \in DOMAIN wire /\ jobs \subseteq wire[1],
         Drops(wire, wire'),
         \A i \in DOMAIN wire' : \E n \in DOMAIN wire : 1 < n /\ wire'[i] = wire[n]
  PROVE  OrderInv'
<1>0. \A c : (Own(c)' <=> Own(c)) /\ (OwnJob(c)' <=> OwnJob(c))
  BY SameOwn
<1>1. WireInOrder'
  <2> SUFFICES ASSUME NEW i \in DOMAIN wire', NEW k \in DOMAIN wire', i < k,
                      NEW a \in wire'[i], NEW b \in wire'[k], OwnJob(a), OwnJob(b)
               PROVE  a.copy.msg < b.copy.msg
    BY <1>0 DEF WireInOrder
  <2>1. PICK n, l \in DOMAIN wire : n < l /\ wire'[i] = wire[n] /\ wire'[k] = wire[l]
    BY WireSeq, DropsOrder
  <2> QED BY <2>1 DEF OrderInv, WireInOrder
<1>2. ASSUME NEW j \in jobs, j.topic = "clientadded", Own(j.copy)
      PROVE  /\ Passed(j.copy.msg)
             /\ \A i \in DOMAIN wire' : \A a \in wire'[i] : OwnJob(a) => j.copy.msg < a.copy.msg
  <2>1. 1 \in DOMAIN wire /\ j \in wire[1] /\ OwnJob(j)
    BY <1>2 DEF OwnJob
  <2>2. Passed(j.copy.msg)
    BY <2>1 DEF OrderInv, PassedInOrder
  <2>3. \A i \in DOMAIN wire' : \A a \in wire'[i] : OwnJob(a) => j.copy.msg < a.copy.msg
    BY <2>1 DEF OrderInv, WireInOrder
  <2> QED BY <2>2, <2>3
<1>3. PassedInOrder'
  <2>1. \A i \in DOMAIN wire' : \A a \in wire'[i] : OwnJob(a) => Passed(a.copy.msg)'
    BY DEF OrderInv, PassedInOrder, Passed
  <2>2. ASSUME NEW c \in Copies', Own(c)
        PROVE  /\ Passed(c.msg)'
               /\ \A i \in DOMAIN wire' : \A a \in wire'[i] : OwnJob(a) => c.msg < a.copy.msg
    <3>1. CASE c \in Copies
      <4>1. Passed(c.msg)'
        BY <2>2, <3>1 DEF OrderInv, PassedInOrder, Passed
      <4>2. \A i \in DOMAIN wire' : \A a \in wire'[i] : OwnJob(a) => c.msg < a.copy.msg
        BY <2>2, <3>1 DEF OrderInv, PassedInOrder
      <4> QED BY <4>1, <4>2
    <3>2. CASE \E j \in jobs : j.topic = "clientadded" /\ c = j.copy
      <4>1. /\ Passed(c.msg)
            /\ \A i \in DOMAIN wire' : \A a \in wire'[i] : OwnJob(a) => c.msg < a.copy.msg
        BY <1>2, <2>2, <3>2
      <4>2. Passed(c.msg)'
        BY <4>1 DEF Passed
      <4> QED BY <4>1, <4>2
    <3> QED BY <3>1, <3>2, ArriveOnly
  <2> QED BY <1>0, <2>1, <2>2 DEF PassedInOrder
<1>4. ShownInOrder'
  <2> SUFFICES ASSUME NEW b \in Inbox, NEW i \in DOMAIN inbox'[b], NEW k \in DOMAIN inbox'[b],
                      i < k, NEW c, c = inbox'[b][i], NEW d, d = inbox'[b][k]
               PROVE  /\ c # d
                      /\ Own(c) /\ Own(d) => c.msg < d.msg
    BY DEF ShownInOrder, Own, IsGroup
  <2> DEFINE ShownTo == {j \in jobs : j.topic = "clientadded" /\ j.copy.box = b}
  <2>1. inbox[b] \in Seq(Copy)
    BY DEF TypeInv, TypeOK
  <2>2. CASE inbox'[b] = inbox[b]
    BY <2>2 DEF OrderInv, ShownInOrder, Own
  <2>3. CASE ShownTo # {}
    <3>1. PICK j \in ShownTo : inbox'[b] = Append(inbox[b], j.copy)
      BY <2>3 DEF Arrive
    <3>2. j.copy \in Copy /\ j.copy.box = b /\ j.topic = "clientadded" /\ j \in jobs
      BY KnownTypes DEF KnownJob, TypeInv
    <3>3. /\ DOMAIN inbox[b] = 1 .. Len(inbox[b]) /\ Len(inbox[b]) \in Nat
          /\ DOMAIN inbox'[b] = DOMAIN inbox[b] \cup {Len(inbox[b]) + 1}
          /\ \A n \in DOMAIN inbox[b] : inbox'[b][n] = inbox[b][n]
          /\ inbox'[b][Len(inbox[b]) + 1] = j.copy
      BY <2>1, <3>1, <3>2, Appended
    <3>4. i \in DOMAIN inbox[b] /\ c = inbox[b][i]
      BY <3>3
    <3>5. CASE k \in DOMAIN inbox[b]
      <4>1. d = inbox[b][k]
        BY <3>3, <3>5
      <4> QED BY <3>4, <3>5, <4>1 DEF OrderInv, ShownInOrder, Own
    <3>6. CASE k = Len(inbox[b]) + 1
      <4>1. d = j.copy
        BY <3>3, <3>6
      <4>2. 1 \in DOMAIN wire /\ j \in wire[1]
        BY <3>2
      <4>3. ~ Shown(d) /\ d.box = b
        BY <3>2, <4>1, <4>2 DEF OnceInv, Single
      <4>4. c \in Range(inbox[b])
        BY <3>4 DEF Range
      <4>5. c \in Copies
        BY <4>4 DEF Copies
      <4>6. Own(c) /\ Own(d) => c.msg < d.msg
        BY <3>2, <4>1, <4>2, <4>5 DEF OrderInv, PassedInOrder, OwnJob
      <4> QED BY <4>3, <4>4, <4>6 DEF Shown
    <3> QED BY <3>3, <3>5, <3>6
  <2>4. ShownTo = {} => inbox'[b] = inbox[b]
    BY DEF Arrive
  <2> QED BY <2>2, <2>3, <2>4
<1> QED BY <1>1, <1>3, <1>4 DEF OrderInv

LEMMA RouteOrder ==
  ASSUME TypeInv, CopyInv, OnceInv, OrderInv, wire # <<>>, wire' = Tail(wire),
         UNCHANGED <<sent, messages, limiting>>, NEW jobs \in SUBSET Head(wire), Arrive(jobs)
  PROVE  OrderInv'
<1>1. /\ 1 \in DOMAIN wire /\ Head(wire) = wire[1] /\ jobs \in SUBSET KnownJob
  BY WireSeq, HeadTailProperties, EmptySeq
<1>2. Drops(wire, wire')
  BY WireSeq, DropsHead
<1>3. ASSUME NEW i \in DOMAIN wire' PROVE \E n \in DOMAIN wire : 1 < n /\ wire'[i] = wire[n]
  <2>1. /\ Tail(wire) \in Seq(SUBSET KnownJob) /\ Len(Tail(wire)) = Len(wire) - 1
        /\ \A n \in 1 .. Len(Tail(wire)) : Tail(wire)[n] = wire[n + 1]
    BY WireSeq, HeadTailProperties
  <2>2. DOMAIN wire' = 1 .. Len(wire) - 1
    BY <2>1, LenProperties
  <2>3. i + 1 \in DOMAIN wire /\ 1 < i + 1 /\ wire'[i] = wire[i + 1]
    BY <2>1, <2>2, WireSeq
  <2> QED BY <2>3
<1>4. Drops(messages, messages') /\ Drops(limiting, limiting')
  BY Queues, DropsNothing
<1>5. QueuesInOrder' /\ \A n : Coming(n)' => Coming(n)
  BY <1>4, QueuesDropInOrder DEF OrderInv
<1> QED BY <1>1, <1>2, <1>3, <1>5, ArriveOrder

LEMMA CutOrder ==
  ASSUME TypeInv, CopyInv, OnceInv, OrderInv, UNCHANGED clients, LosePushed, wire' = <<>>,
         limiting' = limiting \/ limiting' = <<>>,
         NEW part \in SUBSET (IF wire = <<>> THEN {} ELSE Head(wire)), Arrive(part)
  PROVE  OrderInv'
<1>1. part # {} => 1 \in DOMAIN wire /\ part \subseteq wire[1]
  BY WireSeq, HeadTailProperties, EmptySeq
<1>2. part \in SUBSET KnownJob
  BY <1>1, WireSeq
<1>3. Drops(wire, wire') /\ DOMAIN wire' = {}
  BY DropsAll
<1>4. Drops(messages, messages') /\ Drops(limiting, limiting')
  BY Queues, DropsSome, DropsNothing, DropsAll DEF LosePushed
<1>5. QueuesInOrder' /\ \A n : Coming(n)' => Coming(n)
  BY <1>4, QueuesDropInOrder DEF OrderInv
<1>6. sent' = sent
  BY DEF clients
<1> QED BY <1>1, <1>2, <1>3, <1>5, <1>6, ArriveOrder

LEMMA IdleOrder ==
  ASSUME TypeInv, OrderInv, Reconnect \/ UNCHANGED vars
  PROVE  OrderInv'
<1>1. UNCHANGED <<sent, wire, inbox, messages, limiting>>
  BY DEF Reconnect, vars, clients, handlers, channel, broker
<1>2. Drops(messages, messages') /\ Drops(limiting, limiting')
  BY <1>1, Queues, DropsNothing
<1> QED BY <1>1, <1>2, QueuesDropInOrder, SameOrder DEF OrderInv

\* A queue with one more task, which is a replay.
LEMMA AskHistoryOrder ==
  ASSUME TypeInv, OrderInv,
         NEW m \in Msg, NEW u \in User, NEW st \in {SENT, DELIVERED}, AskHistory(m, u, st)
  PROVE  OrderInv'
<1>1. PICK task : /\ task = [kind |-> "delivered",
                             copy |-> [msg |-> m, box |-> u, status |-> st, history |-> TRUE]]
                  /\ messages' = Append(messages, task)
  BY DEF AskHistory
<1>2. UNCHANGED <<sent, limiting, wire, inbox>>
  BY DEF AskHistory, handlers, channel, broker
<1>3. task \in KnownTask /\ messages \in Seq(KnownTask) /\ task.kind # "outgoing"
  <2>1. m \in Known
    BY KnownTypes DEF AskHistory, TypeInv
  <2> QED BY <1>1, <2>1, Queues DEF KnownTask, KnownCopy, Inbox
<1>4. /\ \A i \in DOMAIN messages' : i \in DOMAIN messages \/ messages'[i] = task
      /\ \A i \in DOMAIN messages : messages'[i] = messages[i]
  BY <1>1, <1>3, Appended
<1>5. /\ \A n : Queued(n)' => Queued(n)
      /\ \A n : Limited(n)' <=> Limited(n)
  BY <1>2, <1>3, <1>4 DEF Queued, Limited, OutgoingTask
<1>6. QueuesInOrder'
  <2>1. ASSUME NEW i \in DOMAIN messages', NEW k \in DOMAIN messages', i < k,
               messages'[i].kind = "outgoing", messages'[k].kind = "outgoing"
        PROVE  messages'[i].msg < messages'[k].msg
    <3>1. i \in DOMAIN messages /\ k \in DOMAIN messages
      BY <1>3, <1>4, <2>1
    <3> QED BY <1>4, <2>1, <3>1 DEF OrderInv, QueuesInOrder
  <2> QED BY <1>2, <1>5, <2>1 DEF OrderInv, QueuesInOrder
<1> QED BY <1>2, <1>5, <1>6, SameOrder DEF Coming

\* A new message comes after all the others.
LEMMA SendOrder ==
  ASSUME TypeInv, CopyInv, OrderInv, NEW e \in Envelope, Send(e)
  PROVE  OrderInv'
<1>0. PICK new : new = Len(sent) + 1
  OBVIOUS
<1>1. /\ sent' = Append(sent, e)
      /\ messages' = Append(messages, OutgoingTask(new))
      /\ UNCHANGED <<limiting, wire, inbox>>
  BY <1>0 DEF Send, handlers, channel, broker, OutgoingTask
<1>2. /\ \A m \in Known : m \in Msg /\ m < new
      /\ \A m \in Known : sent'[m] = sent[m]
  <2>1. sent \in Seq(Envelope) /\ Known = 1 .. Len(sent) /\ Len(sent) \in Nat
        /\ Known \subseteq Msg
    BY KnownTypes DEF TypeInv, TypeOK
  <2>2. \A i \in DOMAIN sent : sent'[i] = sent[i]
    BY <1>1, <2>1, Appended
  <2> QED BY <1>0, <2>1, <2>2 DEF Known
<1>3. /\ DOMAIN messages = 1 .. Len(messages) /\ Len(messages) \in Nat
      /\ DOMAIN messages' = DOMAIN messages \cup {Len(messages) + 1}
      /\ \A i \in DOMAIN messages : messages'[i] = messages[i]
      /\ messages'[Len(messages) + 1] = OutgoingTask(new)
      /\ \A i \in DOMAIN messages : messages[i] \in KnownTask
  <2>1. messages \in Seq(KnownTask \cup {OutgoingTask(new)}) /\ messages \in Seq(KnownTask)
    BY Queues, LenProperties, IsASeq
  <2>2. \A i \in DOMAIN messages : messages[i] \in KnownTask
    BY <2>1, LenProperties
  <2> QED BY <1>1, <2>1, <2>2, Appended
<1>4. \A n : (Queued(n)' => Queued(n) \/ n = new) /\ (Limited(n)' <=> Limited(n))
  BY <1>1, <1>3 DEF Queued, Limited, OutgoingTask
<1>5. \A n : Limited(n) => n \in Known
  BY Queues DEF Waiting
<1>6. QueuesInOrder'
  <2>1. ASSUME NEW i \in DOMAIN messages', NEW k \in DOMAIN messages', i < k,
               messages'[i].kind = "outgoing", messages'[k].kind = "outgoing"
        PROVE  messages'[i].msg < messages'[k].msg
    <3>1. i \in DOMAIN messages /\ messages'[i] = messages[i]
      BY <1>3, <2>1
    <3>2. CASE k \in DOMAIN messages
      BY <1>3, <2>1, <3>1, <3>2 DEF OrderInv, QueuesInOrder
    <3>3. CASE k = Len(messages) + 1
      <4>1. messages[i].msg \in Known
        BY <1>3, <2>1, <3>1 DEF KnownTask
      <4>2. messages'[k].msg = new
        BY <1>3, <3>3 DEF OutgoingTask
      <4> QED BY <1>2, <3>1, <4>1, <4>2
    <3> QED BY <1>3, <3>2, <3>3
  <2>2. \A m, n \in Msg : Limited(m)' /\ Queued(n)' => m < n
    BY <1>2, <1>4, <1>5 DEF OrderInv, QueuesInOrder
  <2> QED BY <1>1, <1>4, <2>1, <2>2 DEF OrderInv, QueuesInOrder
<1>7. \A c \in KnownCopy : (Own(c)' <=> Own(c)) /\ c.msg \in Known
  BY <1>2 DEF Own, IsGroup, KnownCopy
<1>8. \A i \in DOMAIN wire : \A a \in wire[i] : a.copy \in KnownCopy /\ (OwnJob(a)' <=> OwnJob(a))
  BY <1>7, WireSeq DEF OwnJob, KnownJob
<1>9. \A m \in Known : Passed(m) => Passed(m)'
  BY <1>2, <1>4 DEF Passed, Coming
<1>10. Copies' = Copies /\ Copies \subseteq KnownCopy
  BY <1>1 DEF Copies, CopyInv, CopiesKnown
<1>11. WireInOrder'
  BY <1>1, <1>8 DEF OrderInv, WireInOrder
<1>12. PassedInOrder'
  <2>1. \A i \in DOMAIN wire : \A a \in wire[i] : OwnJob(a)' => Passed(a.copy.msg)'
    BY <1>7, <1>8, <1>9 DEF OrderInv, PassedInOrder
  <2>2. ASSUME NEW c \in Copies, Own(c)'
        PROVE  /\ Passed(c.msg)'
               /\ \A i \in DOMAIN wire : \A a \in wire[i] : OwnJob(a)' => c.msg < a.copy.msg
    BY <1>7, <1>8, <1>9, <1>10, <2>2 DEF OrderInv, PassedInOrder
  <2> QED BY <1>1, <1>10, <2>1, <2>2 DEF PassedInOrder
<1>13. ShownInOrder'
  <2>1. ASSUME NEW b \in Inbox, NEW i \in DOMAIN inbox[b], NEW k \in DOMAIN inbox[b], i < k
        PROVE  /\ inbox[b][i] # inbox[b][k]
               /\ Own(inbox[b][i])' /\ Own(inbox[b][k])' => inbox[b][i].msg < inbox[b][k].msg
    <3>1. inbox[b][i] \in Copies /\ inbox[b][k] \in Copies
      BY DEF Copies, Range
    <3>2. /\ Own(inbox[b][i])' <=> Own(inbox[b][i])
          /\ Own(inbox[b][k])' <=> Own(inbox[b][k])
      BY <1>1, <1>7, <1>10, <3>1
    <3> QED BY <2>1, <3>2 DEF OrderInv, ShownInOrder, Own
  <2>2. inbox' = inbox
    BY <1>1
  <2> QED BY ONLY <2>1, <2>2 DEF ShownInOrder, Own, IsGroup
<1> QED BY <1>6, <1>11, <1>12, <1>13 DEF OrderInv

LEMMA InitOrder ==
  ASSUME Init
  PROVE  OrderInv
<1>1. /\ DOMAIN wire = {} /\ DOMAIN messages = {} /\ DOMAIN limiting = {}
      /\ \A b \in Inbox : inbox[b] = <<>> /\ DOMAIN inbox[b] = {}
  BY EmptySeq DEF Init
<1>2. Copies = {}
  BY <1>1 DEF Copies, Range
<1> QED BY <1>1, <1>2
        DEF OrderInv, QueuesInOrder, WireInOrder, PassedInOrder, ShownInOrder, Limited

LEMMA NextOrder ==
  ASSUME TypeInv, LookingOK, CopyInv, OnceInv, OrderInv, [Next]_vars
  PROVE  OrderInv'
<1>1. CASE \E e \in Envelope : Send(e)
  BY <1>1, SendOrder
<1>2. CASE \E m \in Msg, u \in User, st \in {SENT, DELIVERED} : AskHistory(m, u, st)
  BY <1>2, AskHistoryOrder
<1>3. CASE \E m \in looking : Lookup(m)
  BY <1>3, LookupOrder DEF LookingOK
<1>4. CASE Confirm
  BY <1>4, ConfirmOrder DEF Confirm
<1>5. CASE Route \/ \E j \in Pending : Reject(j)
  <2>1. /\ wire # <<>> /\ wire' = Tail(wire) /\ UNCHANGED <<sent, messages, limiting>>
        /\ \E jobs \in SUBSET Head(wire) : Arrive(jobs)
    BY <1>5 DEF Route, Reject, clients, handlers
  <2> QED BY <2>1, RouteOrder
<1>6. CASE Crash
  BY <1>6, CutOrder DEF Crash
<1>7. CASE (\E j \in Pending : Nack(j)) \/ Disconnect
  <2>1. UNCHANGED <<clients, handlers>> /\ \E failed : Sever(failed)
    BY <1>7 DEF Nack, Disconnect
  <2> QED BY <2>1, CutOrder DEF Sever, handlers
<1> QED BY <1>1, <1>2, <1>3, <1>4, <1>5, <1>6, <1>7, ReceiveOutgoingOrder, AdmitOrder,
           RefuseOrder, ReceiveDeliveredOrder, IdleOrder DEF Next

\* Each clientadded subscriber is given a copy once, and a sender the own direct
\* messages in the order they were taken, across reconnections and restarts.
THEOREM ShownInOrderHolds == Spec => []ShownInOrder
<1>1. Init => OrderInv
  BY InitOrder
<1>2. TypeInv /\ LookingOK /\ CopyInv /\ OnceInv /\ OrderInv /\ [Next]_vars => OrderInv'
  BY NextOrder
<1>3. OrderInv => ShownInOrder
  BY DEF OrderInv
<1> QED BY <1>1, <1>2, <1>3, TypeCorrect, LookingHolds, CopiesCorrect, OnceInvHolds, PTL DEF Spec

=============================================================================
