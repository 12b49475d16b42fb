------------------------------ MODULE Delivery ------------------------------
(***************************************************************************)
(* The message path of the observer: process_outgoing, process_delivered,  *)
(* deliverMessage, sendMessageToGroupMembers and publish, over one AMQP    *)
(* connection to the broker.                                               *)
(*                                                                         *)
(* A message leaves a client for the "messages" queue, is admitted by the  *)
(* rate limiter, and is copied to the inbox of each addressee: a copy is   *)
(* published on the addressee's clientadded topic and, once the broker has *)
(* confirmed that, on the persist topic.  Every handler below runs to its  *)
(* first await or callback in one step, as the event loop runs it; what is *)
(* suspended between steps is state.                                       *)
(***************************************************************************)
EXTENDS Naturals, Sequences, FiniteSets, Functions

CONSTANTS
  User,         \* chat users
  Group,        \* recipients for which isGroupMessage() is true
  Project,      \* attributes.projectId
  NONE,         \* an absent attribute, group or cache entry
  Envelope,     \* the messages clients may send
  Sendings,     \* bound: the sequences of messages that clients send
  Roster,       \* the member lists getGroup() may return
  IdLen,        \* length of an id inside a routing key
  RateLimited,  \* whether observerState.rate_manager is set
  MaxMsg,       \* bound: messages sent
  MaxFaults     \* bound: negative confirms, disconnections and crashes

Inbox == User \cup Group
Msg == 1 .. MaxMsg

SENT == 100
DELIVERED == 150

ASSUME DeliveryAssumption ==
  /\ User \cap Group = {}
  /\ NONE \notin Inbox \cup Project
  /\ Envelope \subseteq [sender    : User,
                         recipient : Inbox,
                         group     : {NONE} \cup Seq(User),
                         hiddenFor : {NONE} \cup User,
                         projectId : {NONE} \cup Project]
  /\ Sendings \subseteq Seq(Envelope)
  /\ Roster \subseteq Seq(User)
  /\ IdLen \in [Inbox -> Nat]
  /\ RateLimited \in BOOLEAN
  /\ MaxMsg \in Nat /\ MaxFaults \in Nat

\* One copy of a message: the timeline it goes to, the status written in its
\* payload, and whether it replays an old group message (process_delivered).
Copy == [msg : Msg, box : Inbox, status : {SENT, DELIVERED}, history : BOOLEAN]

\* A publish: the payload and the last part of its routing key.
Job == [copy : Copy, topic : {"clientadded", "persist"}]

Added(c) == [copy |-> c, topic |-> "clientadded"]
Persist(c) == [copy |-> c, topic |-> "persist"]

Task == [kind : {"outgoing"}, msg : Msg] \cup [kind : {"delivered"}, copy : Copy]

VARIABLES
  sent,                 \* the messages sent; a position is the message_id
  asked,                \* the group replays asked for, as <<message, user>>
  messages,             \* broker: the "messages" queue
  limiting,             \* handlers suspended in canExecute(), in order
  looking,              \* handlers suspended in getGroup()
  members,              \* group.members of each fan-out, in key order
  status,               \* outgoing_message.status, shared by a fan-out
  pubChannel,           \* the publisher channel is open
  offlinePubQueue,      \* publishes that failed
  wire,                 \* bursts written to the connection, oldest first
  unconfirmed,          \* publishes the broker has taken, not yet confirmed
  rejected,             \* those among them it will answer with basic.nack
  inbox,                \* broker: what each clientadded subscriber was given
  persist,              \* broker: copies that reached the "persist" queue
  sentHooks,            \* message-sent webhook notifications, per message
  analytics,            \* message.delivered analytics events, per message
  messageProjectCache,
  userProjectCache,
  faults                \* faults so far

clients == <<sent, asked>>
handlers == <<limiting, looking, members, status>>
channel == <<pubChannel, offlinePubQueue, wire, unconfirmed, rejected>>
broker == <<inbox, persist>>
notices == <<sentHooks, analytics, messageProjectCache, userProjectCache>>
vars == <<clients, messages, handlers, channel, broker, notices, faults>>

TypeOK ==
  /\ sent \in Seq(Envelope) /\ Len(sent) <= MaxMsg
  /\ asked \subseteq Msg \X User
  /\ messages \in Seq(Task)
  /\ limiting \in Seq(Msg)
  /\ looking \subseteq Msg
  /\ members \in [Msg -> Seq(Inbox)]
  /\ status \in [Msg -> {NONE, SENT, DELIVERED}]
  /\ pubChannel \in BOOLEAN
  /\ offlinePubQueue \subseteq Job
  /\ wire \in Seq(SUBSET Job)
  /\ unconfirmed \subseteq Job
  /\ rejected \subseteq unconfirmed
  /\ inbox \in [Inbox -> Seq(Copy)]
  /\ persist \subseteq Copy
  /\ sentHooks \in [Msg -> Nat]
  /\ analytics \in [Msg -> Nat]
  /\ messageProjectCache \in [Msg -> {NONE} \cup Project]
  /\ userProjectCache \in [Inbox -> {NONE} \cup Project]
  /\ faults \in 0 .. MaxFaults

Init ==
  /\ sent = <<>> /\ asked = {} /\ messages = <<>>
  /\ limiting = <<>> /\ looking = {}
  /\ members = [m \in Msg |-> <<>>]
  /\ status = [m \in Msg |-> NONE]
  /\ pubChannel = TRUE
  /\ offlinePubQueue = {} /\ wire = <<>> /\ unconfirmed = {} /\ rejected = {}
  /\ inbox = [b \in Inbox |-> <<>>]
  /\ persist = {}
  /\ sentHooks = [m \in Msg |-> 0]
  /\ analytics = [m \in Msg |-> 0]
  /\ messageProjectCache = [m \in Msg |-> NONE]
  /\ userProjectCache = [b \in Inbox |-> NONE]
  /\ faults = 0

-----------------------------------------------------------------------------
(* Routing keys and the publish helper.                                    *)

IsGroup(m) == sent[m].recipient \in Group

\* convers_with: the group, or the other party of a direct message.
ConversWith(c) ==
  IF ~ IsGroup(c.msg) /\ c.status = DELIVERED
  THEN sent[c.msg].sender
  ELSE sent[c.msg].recipient

\* apps.tilechat.users.<box>.messages.<conv>.clientadded and
\* apps.observer.tilechat.users.<box>.messages.<conv>.persist
KeyLength(j) ==
  (IF j.topic = "persist" THEN 47 ELSE 42)
    + IdLen[j.copy.box] + IdLen[ConversWith(j.copy)]

Fits(j) == KeyLength(j) <= 255

\* publish() of several jobs in one turn of the event loop.  A key that is too
\* long is dropped as if it had been published; a closed channel throws.
Publish(jobs) ==
  LET valid == {j \in jobs : Fits(j)} IN
  \/ /\ valid = {}
     /\ UNCHANGED <<wire, offlinePubQueue>>
  \/ /\ valid # {} /\ pubChannel
     /\ wire' = Append(wire, valid)
     /\ UNCHANGED offlinePubQueue
  \/ /\ valid # {} /\ ~ pubChannel
     /\ offlinePubQueue' = offlinePubQueue \cup valid
     /\ UNCHANGED wire

-----------------------------------------------------------------------------
(* deliverMessage.                                                         *)

\* Mutant: the follow-up is not limited to the sender's copy.
FollowUpAlways(c) ==
  IF ~ IsGroup(c.msg)
  THEN {[c EXCEPT !.box = sent[c.msg].recipient, !.status = DELIVERED]}
  ELSE {}

\* The copy delivered when deliverMessage calls back for c: the recipient's,
\* after the sender's, for a direct message.  deliverMessage answers
\* callback(true) whether it succeeded or not.
FollowUp(c) ==
  IF ~ IsGroup(c.msg) /\ c.status = SENT
  THEN {[c EXCEPT !.box = sent[c.msg].recipient, !.status = DELIVERED]}
  ELSE {}

Track(m, n) ==
  analytics' = [analytics EXCEPT
                  ![m] = @ + (IF sent[m].projectId = NONE THEN 0 ELSE n)]

\* What the clientadded callback does before it persists, for the copies `ok`
\* of message m: the message-sent webhook goes by the payload, the project
\* caches by the status the message object has now (`done`).
Announce(m, ok, done) ==
  LET cached == IF sent[m].projectId = NONE THEN {} ELSE done
      known  == {c.box : c \in cached} \cup {sent[m].sender} IN
  /\ sentHooks' =
       [sentHooks EXCEPT ![m] = @ + Cardinality({c \in ok : c.status = SENT})]
  /\ IF cached = {}
     THEN UNCHANGED <<messageProjectCache, userProjectCache>>
     ELSE /\ messageProjectCache' =
               [messageProjectCache EXCEPT ![m] = sent[m].projectId]
          /\ userProjectCache' =
               [b \in Inbox |-> IF b \in known THEN sent[m].projectId
                                               ELSE userProjectCache[b]]

\* Mutant: the recipient's copy does not wait for the sender's.
DeliverAtOnce(m, copies) ==
  /\ Publish({Added(c) : c \in copies \cup UNION {FollowUp(c) : c \in copies}})
  /\ Announce(m, {}, {})

\* Mutant: storage does not wait for the clientadded confirm.
DeliverBoth(m, copies) ==
  /\ Publish({Added(c) : c \in copies} \cup {Persist(c) : c \in copies})
  /\ Announce(m, {}, {})

\* deliverMessage() of the copies `copies` of message m in one turn.  The
\* callback of a key that is too long runs at once; on a closed channel the
\* error callback does, and the follow-up copy fails with it.
Deliver(m, copies) ==
  LET long   == {c \in copies : ~ Fits(Added(c))}
      failed == IF pubChannel THEN {} ELSE UNION {FollowUp(c) : c \in copies} IN
  /\ Publish({Added(c) : c \in copies \cup failed} \cup {Persist(c) : c \in long})
  /\ Announce(m, long, {c \in long : c.status = DELIVERED})

\* Mutant: the caches are filled for direct messages alone.
StatusSeenDirect(c) == IF IsGroup(c.msg) THEN NONE ELSE c.status

\* The status the clientadded callback reads: the members of a group share one
\* outgoing_message object, so each reads what the fan-out wrote last.
StatusSeen(c) ==
  IF IsGroup(c.msg) /\ ~ c.history THEN status[c.msg] ELSE c.status

-----------------------------------------------------------------------------
(* sendMessageToGroupMembers.                                              *)

\* obj[key] = 1 on a JavaScript object: a new key goes last.
SetKey(keys, key) == IF key \in Range(keys) THEN keys ELSE Append(keys, key)

\* Mutant: hiddenFor is not looked at.
LoopIgnoresHidden(m, mem, n) == n = Len(mem)

\* Mutant: the loop ends one member early.
LoopStopsShort(m, mem, n) == n + 1 = Len(mem)

\* The loop over Object.entries(members) ends at a break or after the last key.
LoopEnds(m, mem, n) ==
  /\ \A i \in 1 .. n : mem[i] # sent[m].hiddenFor
  /\ n < Len(mem) => mem[n + 1] = sent[m].hiddenFor

\* Mutant: the status is that of a return receipt.
StatusReceipt(m, box) == IF box = sent[m].recipient THEN SENT ELSE 250

\* Mutant: the sender's copy is marked SENT besides the group's.
StatusSenderSent(m, box) ==
  IF box \in {sent[m].recipient, sent[m].sender} THEN SENT ELSE DELIVERED

StatusFor(m, box) == IF box = sent[m].recipient THEN SENT ELSE DELIVERED

GroupCopy(m, box) ==
  [msg |-> m, box |-> box, status |-> StatusFor(m, box), history |-> FALSE]

FanOut(m, mem) ==
  \E n \in 0 .. Len(mem) :
    /\ LoopEnds(m, mem, n)
    /\ members' = [members EXCEPT ![m] = mem]
    /\ status' = [status EXCEPT
                    ![m] = IF n = 0 THEN @ ELSE StatusFor(m, mem[n])]
    /\ Deliver(m, {GroupCopy(m, mem[i]) : i \in 1 .. n})

-----------------------------------------------------------------------------
(* Clients and the HTTP server: what they put on the "messages" queue.     *)

\* A client publishes on apps.tilechat.outgoing.users.<s>.messages.<r>.outgoing;
\* a longer key is no AMQP routing key.
Send(e) ==
  /\ Len(sent) < MaxMsg /\ Append(sent, e) \in Sendings
  /\ 48 + IdLen[e.sender] + IdLen[e.recipient] <= 255
  /\ sent' = Append(sent, e)
  /\ messages' = Append(messages, [kind |-> "outgoing", msg |-> Len(sent) + 1])
  /\ UNCHANGED <<asked, handlers, channel, broker, notices, faults>>

\* The HTTP server replays a stored group message to a new member on
\* apps.observer.tilechat.users.<u>.messages.<g>.delivered, with the status of
\* the stored copy or with DELIVERED.
AskHistory(m, u, st) ==
  /\ m \in 1 .. Len(sent) /\ IsGroup(m) /\ <<m, u>> \notin asked
  /\ GroupCopy(m, sent[m].recipient) \in persist
  /\ 49 + IdLen[u] + IdLen[sent[m].recipient] <= 255
  /\ asked' = asked \cup {<<m, u>>}
  /\ messages' = Append(messages, [kind |-> "delivered",
       copy |-> [msg |-> m, box |-> u, status |-> st, history |-> TRUE]])
  /\ UNCHANGED <<sent, handlers, channel, broker, notices, faults>>

-----------------------------------------------------------------------------
(* process_outgoing and process_delivered.                                 *)

\* process_outgoing from the rate limiter's answer on.
Outgoing(m) ==
  LET e == sent[m] IN
  \/ /\ ~ IsGroup(m)
     /\ Deliver(m, {[msg |-> m, box |-> e.sender, status |-> SENT,
                     history |-> FALSE]})
     /\ UNCHANGED <<looking, members, status, analytics>>
  \/ /\ IsGroup(m) /\ e.group # NONE
     /\ Track(m, 1)
     /\ FanOut(m, SetKey(SetKey(e.group, e.recipient), e.sender))
     /\ UNCHANGED looking
  \/ /\ IsGroup(m) /\ e.group = NONE
     /\ Track(m, 1)
     /\ looking' = looking \cup {m}
     /\ UNCHANGED <<members, status, offlinePubQueue, wire, sentHooks,
                    messageProjectCache, userProjectCache>>

ReceiveOutgoing ==
  /\ pubChannel /\ messages # <<>> /\ Head(messages).kind = "outgoing"
  /\ messages' = Tail(messages)
  /\ LET m == Head(messages).msg IN
     \/ /\ RateLimited
        /\ limiting' = Append(limiting, m)
        /\ UNCHANGED <<looking, members, status, channel, notices>>
     \/ /\ ~ RateLimited
        /\ Outgoing(m)
        /\ UNCHANGED <<limiting, pubChannel, unconfirmed, rejected>>
  /\ UNCHANGED <<clients, broker, faults>>

\* canExecute() resolves to true.  One Redis connection answers in order.
Admit ==
  /\ limiting # <<>>
  /\ limiting' = Tail(limiting)
  /\ Outgoing(Head(limiting))
  /\ UNCHANGED <<clients, messages, pubChannel, unconfirmed, rejected, broker,
                 faults>>

\* canExecute() resolves to false: the message is dropped.
Refuse ==
  /\ limiting # <<>>
  /\ limiting' = Tail(limiting)
  /\ UNCHANGED <<clients, messages, looking, members, status, channel, broker,
                 notices, faults>>

\* getGroup() calls back with a group, from the cache or from the database.
GroupFound(m, roster) ==
  /\ m \in looking
  /\ looking' = looking \ {m}
  /\ FanOut(m, SetKey(roster, sent[m].recipient))
  /\ UNCHANGED <<clients, messages, limiting, pubChannel, unconfirmed, rejected,
                 broker, analytics, faults>>

\* getGroup() calls back without one: a transient group of the sender alone.
GroupMissing(m) ==
  /\ m \in looking
  /\ looking' = looking \ {m}
  /\ FanOut(m, <<sent[m].sender, sent[m].recipient>>)
  /\ UNCHANGED <<clients, messages, limiting, pubChannel, unconfirmed, rejected,
                 broker, analytics, faults>>

\* Mutant: a copy that is not DELIVERED is delivered as well.
ReceiveDeliveredAny ==
  /\ pubChannel /\ messages # <<>> /\ Head(messages).kind = "delivered"
  /\ messages' = Tail(messages)
  /\ Deliver(Head(messages).copy.msg, {Head(messages).copy})
  /\ UNCHANGED <<clients, handlers, pubChannel, unconfirmed, rejected, broker,
                 analytics, faults>>

ReceiveDelivered ==
  /\ pubChannel /\ messages # <<>> /\ Head(messages).kind = "delivered"
  /\ messages' = Tail(messages)
  /\ LET c == Head(messages).copy IN
     \/ /\ c.status # DELIVERED
        /\ UNCHANGED <<wire, offlinePubQueue, sentHooks, messageProjectCache,
                       userProjectCache>>
     \/ /\ c.status = DELIVERED
        /\ Deliver(c.msg, {c})
  /\ UNCHANGED <<clients, handlers, pubChannel, unconfirmed, rejected, broker,
                 analytics, faults>>

-----------------------------------------------------------------------------
(* The broker and the confirm callbacks.                                   *)

\* The jobs of one burst reach the queues bound to their topics.
Arrive(jobs) ==
  LET ShownTo(b) == {j \in jobs : j.topic = "clientadded" /\ j.copy.box = b} IN
  /\ inbox' = [b \in Inbox |->
                 IF ShownTo(b) = {} THEN inbox[b]
                 ELSE Append(inbox[b], (CHOOSE j \in ShownTo(b) : TRUE).copy)]
  /\ persist' = persist \cup {j.copy : j \in {k \in jobs : k.topic = "persist"}}

Route ==
  /\ wire # <<>>
  /\ Arrive(Head(wire))
  /\ unconfirmed' = unconfirmed \cup Head(wire)
  /\ wire' = Tail(wire)
  /\ UNCHANGED <<clients, messages, handlers, pubChannel, offlinePubQueue,
                 rejected, notices, faults>>

\* The broker fails to take one publish and will answer it with basic.nack.
Reject(j) ==
  /\ faults < MaxFaults
  /\ wire # <<>> /\ j \in Head(wire)
  /\ Arrive(Head(wire) \ {j})
  /\ unconfirmed' = unconfirmed \cup Head(wire)
  /\ rejected' = rejected \cup {j}
  /\ wire' = Tail(wire)
  /\ faults' = faults + 1
  /\ UNCHANGED <<clients, messages, handlers, pubChannel, offlinePubQueue,
                 notices>>

\* basic.ack, in any order: the callback deliverMessage gave to publish().
ConfirmAdded(c) ==
  /\ Added(c) \in unconfirmed \ rejected
  /\ unconfirmed' = unconfirmed \ {Added(c)}
  /\ LET done == IF StatusSeen(c) = DELIVERED THEN {c} ELSE {} IN
     /\ Announce(c.msg, {c}, done)
     /\ Track(c.msg, IF IsGroup(c.msg) THEN 0 ELSE Cardinality(done))
  /\ Publish(IF Fits(Persist(c)) THEN {Persist(c)}
                                  ELSE {Added(d) : d \in FollowUp(c)})
  /\ UNCHANGED <<clients, messages, handlers, pubChannel, rejected, broker,
                 faults>>

ConfirmPersist(c) ==
  /\ Persist(c) \in unconfirmed \ rejected
  /\ unconfirmed' = unconfirmed \ {Persist(c)}
  /\ Publish({Added(d) : d \in FollowUp(c)})
  /\ UNCHANGED <<clients, messages, handlers, pubChannel, rejected, broker,
                 notices, faults>>

-----------------------------------------------------------------------------
(* Faults.                                                                 *)

Pending == (UNION Range(wire)) \cup unconfirmed

\* The broker serves queues with noAck: what it has pushed and no handler has
\* taken is lost with the connection.
LosePushed == \E k \in 0 .. Len(messages) : messages' = SubSeq(messages, k + 1, Len(messages))

\* The connection ends.  Part of the oldest burst may still arrive (Route first
\* for more); the publishes in `failed` get their error callback, the others
\* none at all.
Sever(failed) ==
  /\ \E part \in SUBSET (IF wire = <<>> THEN {} ELSE Head(wire)) : Arrive(part)
  /\ LosePushed
  /\ pubChannel' = FALSE
  /\ wire' = <<>> /\ unconfirmed' = {} /\ rejected' = {}
  /\ offlinePubQueue' = offlinePubQueue \cup failed
       \cup {Added(d) : d \in UNION {FollowUp(j.copy) : j \in failed}}

\* basic.nack: publish() parks the job and closes the connection.
Nack(j) ==
  /\ j \in rejected
  /\ \E failed \in {{j}, Pending} : Sever(failed)
  /\ UNCHANGED <<clients, handlers, notices, faults>>

Disconnect ==
  /\ pubChannel /\ faults < MaxFaults
  /\ \E failed \in {{}, Pending} : Sever(failed)
  /\ faults' = faults + 1
  /\ UNCHANGED <<clients, handlers, notices>>

\* The process ends: suspended handlers, caches and offlinePubQueue go with it.
Crash ==
  /\ faults < MaxFaults
  /\ \E part \in SUBSET (IF wire = <<>> THEN {} ELSE Head(wire)) : Arrive(part)
  /\ LosePushed
  /\ pubChannel' = FALSE
  /\ wire' = <<>> /\ unconfirmed' = {} /\ rejected' = {} /\ offlinePubQueue' = {}
  /\ limiting' = <<>> /\ looking' = {}
  /\ messageProjectCache' = [m \in Msg |-> NONE]
  /\ userProjectCache' = [b \in Inbox |-> NONE]
  /\ faults' = faults + 1
  /\ UNCHANGED <<clients, members, status, sentHooks, analytics>>

\* Mutant: the connection's close event starts nothing.
NoAutoRestart == FALSE

\* startMQ() again, from the connection's close event or in a new process.
Reconnect ==
  /\ ~ pubChannel
  /\ pubChannel' = TRUE
  /\ UNCHANGED <<clients, messages, handlers, offlinePubQueue, wire, unconfirmed,
                 rejected, broker, notices, faults>>

-----------------------------------------------------------------------------

Lookup(m) == GroupMissing(m) \/ \E roster \in Roster : GroupFound(m, roster)

Confirm == \E j \in unconfirmed : ConfirmAdded(j.copy) \/ ConfirmPersist(j.copy)

Next ==
  \/ \E e \in Envelope : Send(e)
  \/ \E m \in Msg, u \in User, st \in {SENT, DELIVERED} : AskHistory(m, u, st)
  \/ ReceiveOutgoing \/ ReceiveDelivered
  \/ Admit \/ Refuse
  \/ \E m \in looking : Lookup(m)
  \/ Route \/ Confirm
  \/ \E j \in Pending : Reject(j) \/ Nack(j)
  \/ Disconnect \/ Crash \/ Reconnect

Spec == Init /\ [][Next]_vars

\* Node runs whatever handler is ready, the broker routes and answers what it is
\* sent, Redis and MongoDB answer, and startMQ() retries for ever.  Nothing makes
\* a client send, and nothing makes a fault happen.
Fairness ==
  /\ WF_vars(ReceiveOutgoing) /\ WF_vars(ReceiveDelivered)
  /\ WF_vars(Admit \/ Refuse)
  /\ WF_vars(\E m \in looking : Lookup(m))
  /\ WF_vars(Route) /\ WF_vars(Confirm)
  /\ WF_vars(\E j \in rejected : Nack(j))
  /\ WF_vars(Reconnect)

FairSpec == Spec /\ Fairness

-----------------------------------------------------------------------------
(* Properties.                                                             *)

Shown(c) == c \in Range(inbox[c.box])

Copies == UNION {Range(inbox[b]) : b \in Inbox}

SenderCopy(m) ==
  [msg |-> m, box |-> sent[m].sender, status |-> SENT, history |-> FALSE]

\* A copy is queued for storage only if the subscriber was given it first:
\* deliverMessage publishes on persist_topic in the callback of added_topic, and
\* a key long enough to be dropped there is too long for persist_topic too.
PersistedWasShown == \A c \in persist : Shown(c)

\* The recipient of a direct message never has it before the sender's own copy
\* is shown and queued for storage: process_outgoing delivers the second from
\* the first one's callback, which comes after a failure too.
RecipientAfterSender ==
  \A c \in Copies :
    ~ IsGroup(c.msg) /\ c.status = DELIVERED =>
      /\ SenderCopy(c.msg) \in persist
      /\ Shown(SenderCopy(c.msg))

\* The live fan-out of a group message never reaches the member that
\* attributes.hiddenFor names, wherever the member lists put that member.
HiddenNeverShown ==
  \A c \in Copies :
    IsGroup(c.msg) /\ ~ c.history => c.box # sent[c.msg].hiddenFor

\* What a subscriber sees is in order: no copy twice, through confirms,
\* redeliveries, lost connections and restarts (deliverMessage publishes a copy
\* once and nothing publishes it again), and a sender's own direct messages as
\* the observer took them in (the rate limiter and the connection are first in,
\* first out).
ShownInOrder ==
  \A b \in Inbox : \A i, j \in DOMAIN inbox[b] :
    LET c == inbox[b][i]  d == inbox[b][j] IN
    i < j =>
      /\ c # d
      /\ (/\ ~ IsGroup(c.msg) /\ c.status = SENT
          /\ ~ IsGroup(d.msg) /\ d.status = SENT) => c.msg < d.msg

\* "message-sent must be called only once per message" (CHANGELOG v0.1.13), in
\* groups too, where each member's copy runs the same callback, and when the HTTP
\* server replays a stored copy; and message.delivered is counted at most once:
\* by the recipient's copy of a direct message, before the fan-out of a group
\* message.
CountedOnce == \A m \in Msg : sentHooks[m] <= 1 /\ analytics[m] <= 1

\* The members the fan-out of m has met.
Addressees(m) ==
  {i \in DOMAIN members[m] : \A k \in 1 .. i : members[m][k] # sent[m].hiddenFor}

\* The copies whose project the observer learns.  The copies of a fan-out share
\* one message object, which keeps the status of the last of them: DELIVERED
\* unless that one was for the group's own timeline.
Resolves(c) ==
  /\ c.status = DELIVERED /\ sent[c.msg].projectId # NONE
  /\ IsGroup(c.msg) /\ ~ c.history =>
       \E i \in Addressees(c.msg) :
         i + 1 \notin Addressees(c.msg) /\ members[c.msg][i] # sent[c.msg].recipient

\* A copy that resolves is not queued for storage, where its reader's client may
\* find it and answer with a receipt, before the observer has the message's
\* project in memory, and the project of a message of its sender and of its
\* reader: over any order of confirms, nacks, cuts and crashes.  Nothing but the
\* end of the process takes them from it, or gives a message another project.
ReceiptResolves ==
  [][ /\ \A c \in persist' \ persist : Resolves(c) =>
           /\ messageProjectCache[c.msg] = sent[c.msg].projectId
           /\ NONE \notin {userProjectCache[b] : b \in {c.box, sent[c.msg].sender}}
      /\ \/ Crash
         \/ /\ \A m \in Msg : messageProjectCache[m] # NONE =>
                  messageProjectCache'[m] = messageProjectCache[m]
            /\ \A b \in Inbox : userProjectCache[b] # NONE => userProjectCache'[b] # NONE
    ]_vars

\* While nothing fails, each addressee the fan-out has met is given its copy and
\* has it queued for storage, unless the persist key is too long.
AddresseesAreStored ==
  \A m \in Msg :
    members[m] # <<>> ~>
      \/ faults > 0
      \/ \A i \in Addressees(m) :
           LET c == GroupCopy(m, members[m][i]) IN c \in persist \/ ~ Fits(Persist(c))

\* Whatever fails, the observer reconnects and works off what it still has.
Quiet ==
  /\ pubChannel /\ messages = <<>> /\ limiting = <<>> /\ looking = {}
  /\ wire = <<>> /\ unconfirmed = {}

Settles == <>[] Quiet

\* Delivery implements Timeline: clientadded subscribers are its timelines, the
\* persist queue its storage.
Timelines == INSTANCE Timeline WITH shown <- inbox, stored <- persist

ImplementsTimeline == Timelines!Spec

=============================================================================
