---------------------------- MODULE LegacyServer ----------------------------
(***************************************************************************)
(* The JavaScript server (npm run start:legacy) from end to end: client,   *)
(* broker, observer.js, chatdb, webhooks.  A deployment is a set of        *)
(* chatservermq.js processes, each with its environment; they share the    *)
(* broker's durable queues and the database.  Redis is off, its default:   *)
(* no cache and no rate limit (GroupCache and RateManager model those).    *)
(*                                                                         *)
(* Queues are consumed with noAck, so a message is taken the moment it is  *)
(* handed over.  A handler is followed through what it publishes (its      *)
(* wire, confirmed in order) and what it asks of MongoDB (answered in any  *)
(* order); each answer runs the callback that waits for it.                *)
(***************************************************************************)
EXTENDS Naturals, Sequences, FiniteSets, SequencesExt, FiniteSetsExt

CONSTANTS
  Procs,         \* chatservermq.js processes
  Sender, Receiver, Group,
  Scenarios      \* deployments with what the clients do, what fails and how long ids are

Users == {Sender, Receiver}
Timelines == Users \cup {Group}

MessageEvents == {"message-sent", "message-delivered", "message-return-receipt"}

\* The environment of a process: the words of ACTIVE_QUEUES ({} is unset),
\* WEBHOOK_ENABLED, PRESENCE_ENABLED and WEBHOOK_EVENTS.
Environment == [active : SUBSET {"none", "messages", "persist", "outgoing"},
                webhook : {"unset", "true", "false"}, presence : BOOLEAN,
                events : SUBSET MessageEvents]

Bounds == {"msgs", "injected", "reads", "news", "archives", "presences", "groups", "drops", "fails"}

ASSUME LegacyAssumption ==
  /\ Sender # Receiver /\ Group \notin Users
  /\ \A s \in Scenarios :
       /\ DOMAIN s.env \subseteq Procs
       /\ \A p \in DOMAIN s.env : s.env[p] \in Environment
       /\ s.to \in {"direct", "group", "inline"} /\ s.status \in {150, 200}
       /\ s.members \subseteq Users /\ s.hidden \subseteq Users
       /\ s.updateconversation \in BOOLEAN
       /\ s.len \in [Timelines -> Nat]
       /\ s.bound \in [Bounds -> Nat]

VARIABLES
  scene,      \* the scenario
  left,       \* what is left of its bounds
  link,       \* the two AMQP connections of each process
  declared,   \* queues asserted and bound: durable, so for ever
  queue,      \* their messages
  wire,       \* published and not confirmed, per connection
  pending,    \* operations MongoDB has not answered, per process
  messages,   \* messages collection: the status of each copy, 0 for none
  conversations, \* conversations collection
  group,      \* the members in the groups collection, {} for no document
  view,       \* what each client has told its application
  posted,     \* webhook requests made
  read,       \* messages a client has marked as read
  announced,  \* presence announced
  lost,       \* a publication or an operation was lost on the way
  raced       \* two activities of one conversation overlapped

vars == <<scene, left, link, declared, queue, wire, pending, messages, conversations,
          group, view, posted, read, announced, lost, raced>>

Deployed == DOMAIN scene.env
Conns == {"observer", "webhooks"}
Queues == {"messages", "persist", "webhooks"}
Messages == 1 .. (scene.bound.msgs + scene.bound.injected)

\* A message of the exchange or an operation on the database: what it is,
\* the message and the timeline it is about (0 where it is about no message).
R(kind, m, u) == [kind |-> kind, m |-> m, u |-> u]

------------------------------------------------------------------------------
(* chatservermq.js: the environment *)

Topics == {"messages", "persist"}

ActiveQueues(p) ==
  LET words == scene.env[p].active IN
  CASE words = {}       -> Topics
    [] words = {"none"} -> {}
    [] OTHER            -> words

\* An unknown word ends the process.
Starts(p) == ActiveQueues(p) \subseteq Topics

WebhookEnabled(p) == scene.env[p].webhook \in {"unset", "true"}
PresenceEnabled(p) == scene.env[p].presence

------------------------------------------------------------------------------
(* Messages *)

Direct == scene.to = "direct"
Injected(m) == m > scene.bound.msgs

SENT == 100
DELIVERED == 150
RECEIVED == 200
RETURN_RECEIPT == 250

\* The status of the copy of m in the timeline of u: SENT for the sender's, or
\* for the group's own timeline.
StatusOf(m, u) ==
  IF ~ Injected(m) /\ u = (IF Direct THEN Sender ELSE Group) THEN SENT ELSE DELIVERED

\* The conversation of u is with this one.
ConversWith(u) ==
  IF Direct THEN IF u = Sender THEN Receiver ELSE Sender
            ELSE Group

------------------------------------------------------------------------------
(* What a handler or a callback does before it returns: publications of the
   observer, publications of its Webhooks object, and database operations. *)

Effect(pub, hook, db) == [pub |-> pub, hook |-> hook, db |-> db]
Nothing == Effect(<<>>, <<>>, {})
Publishes(pub) == Effect(pub, <<>>, {})
Asks(op) == Effect(<<>>, <<>>, {op})

------------------------------------------------------------------------------
(* webhooks/index.js: what the observer asks to be told to the endpoints *)

WHnotifyMessageStatusSentOrDelivered(p, m, u) ==
  LET event == IF StatusOf(m, u) = SENT THEN "message-sent" ELSE "message-delivered" IN
  IF WebhookEnabled(p) /\ event \in scene.env[p].events
  THEN <<R("message_deliver", m, u)>> ELSE <<>>

WHnotifyMessageStatusReturnReceipt(p, m, u) ==
  IF WebhookEnabled(p) /\ "message-return-receipt" \in scene.env[p].events
  THEN <<R("message_update", m, u)>> ELSE <<>>

WHnotifyConversationArchived(p, u) ==
  IF WebhookEnabled(p) THEN <<R("conversation_archived", 0, u)>> ELSE <<>>

\* Mutant: a presence event does not name them either.
NamesMessageEndpoints(kind) == kind = "message_deliver"

\* The notifications that name the endpoints to post to: a message update and
\* an archived conversation do not, and their handlers discard them.
NamesEndpoints(kind) == kind \in {"message_deliver", "presence_event"}

------------------------------------------------------------------------------
(* observer.js: what follows a publication, and publish() itself *)

\* Mutant: persists before the client is sent its copy.
DeliverMessagePersistsFirst(m, u) == <<R("persist", m, u), R("added", m, u)>>

deliverMessage(m, u) == <<R("added", m, u)>>

\* The callbacks: deliverMessage() notifies and persists once the client has
\* been sent its copy, a direct message then goes to its recipient; a receipt
\* is saved; an archived conversation is added to its list.
AfterPublish(p, r) ==
  CASE r.kind = "added"   ->
         Effect(<<R("persist", r.m, r.u)>>,
                WHnotifyMessageStatusSentOrDelivered(p, r.m, r.u), {})
    [] r.kind = "persist" ->
         IF Direct /\ r.u = Sender THEN Publishes(deliverMessage(r.m, Receiver)) ELSE Nothing
    [] r.kind = "updated" ->
         Effect(<<>>, WHnotifyMessageStatusReturnReceipt(p, r.m, r.u),
                {R("saveReceived", r.m, r.u)})
    [] r.kind = "clientdeleted" -> Publishes(<<R("archivedadded", 0, r.u)>>)
    [] OTHER -> Nothing

\* The characters of a topic: those of the ids and of what is around them.
KeyLength(r) ==
  LET ids  == scene.len[r.u] + scene.len[ConversWith(r.u)]
      name == [outgoing |-> 48, delivered |-> 49, added |-> 42, persist |-> 47,
               update |-> 74, updated |-> 81, is_new |-> 42, convupdated |-> 49,
               archive |-> 43, clientdeleted |-> 49, archivedadded |-> 56]
  IN  CASE r.kind \in DOMAIN name   -> name[r.kind] + ids
        [] r.kind = "groupupdated"  -> 42 + scene.len[r.u] + scene.len[Group]
        [] OTHER -> 0

Fits(r) == KeyLength(r) <= 255

\* publish() cancels what does not fit, and runs its callback at once, without
\* an error.  What that callback publishes has a longer topic and is cancelled
\* too: a persist after its copy, an archived conversation after the deleted
\* one (a direct message fits whenever the message sent did).  A turn of the
\* event loop publishes three records at most.
Cut(p, e) ==
  LET long == {i \in DOMAIN e.pub : ~ Fits(e.pub[i])}
      Fitting(i) == IF i \in DOMAIN e.pub \ long THEN <<e.pub[i]>> ELSE <<>>
      Hooked(i) == IF i \in long THEN AfterPublish(p, e.pub[i]).hook ELSE <<>>
  IN  IF long = {} THEN e
      ELSE Effect(Fitting(1) \o Fitting(2) \o Fitting(3),
                  e.hook \o Hooked(1) \o Hooked(2) \o Hooked(3),
                  e.db \cup UNION {AfterPublish(p, e.pub[i]).db : i \in long})

\* A connection with a channel to publish on.  A channel of the Webhooks object
\* that fails is never opened again on its connection: "silent" has not
\* started its worker, "mute" has, "deaf" has lost that one, "broken" both.
Up(p, c) == link[p][c] \in {"publishing", "consuming", "deaf"}
Connected == {"publishing", "silent", "consuming", "mute", "deaf", "broken"}

\* A cancelled publication is lost.  On a closed channel publish() throws; it
\* is caught, the message goes to offlinePubQueue, which is never read, and the
\* callback gets the error.
Lose(p, e) ==
  \/ \E i \in DOMAIN e.pub : ~ Fits(e.pub[i])
  \/ Cut(p, e).pub # <<>> /\ ~ Up(p, "observer")
  \/ Cut(p, e).hook # <<>> /\ ~ Up(p, "webhooks")

publish(p, c, old, new) == IF Up(p, c) THEN old \o new ELSE old

Do(p, e, rest, asked) ==
  LET done == Cut(p, e) IN
  /\ wire' = [wire EXCEPT ![p] =
       [observer |-> publish(p, "observer", rest["observer"], done.pub),
        webhooks |-> publish(p, "webhooks", rest["webhooks"], done.hook)]]
  /\ pending' = [pending EXCEPT ![p] = asked \cup done.db]

------------------------------------------------------------------------------
(* observer.js: the handlers.  Each takes the message at the head of a queue. *)

Consumes(p, c) ==
  IF c = "webhooks" THEN IF WebhookEnabled(p) THEN {"webhooks"} ELSE {}
                    ELSE ActiveQueues(p)

Consume(p, q, kind) ==
  /\ link[p]["observer"] = "consuming"
  /\ q \in Consumes(p, "observer")
  /\ queue[q] # <<>>
  /\ Head(queue[q]).kind = kind
  /\ queue' = [queue EXCEPT ![q] = Tail(@)]
  /\ UNCHANGED <<scene, left, link, declared, messages, conversations, group, view,
                 posted, read, announced, raced>>

Handles(p, e) ==
  /\ Do(p, e, wire[p], pending[p])
  /\ lost' = (lost \/ Lose(p, e))

\* Object.entries() of the members; a member the message is hidden for breaks
\* the loop.
sendMessageToGroupMembers(m, entries) ==
  LET hidden == {i \in DOMAIN entries : entries[i] \in scene.hidden}
      to == IF hidden = {} THEN entries ELSE SubSeq(entries, 1, Min(hidden) - 1)
  IN  [i \in DOMAIN to |-> R("added", m, to[i])]

Entries(members) ==
  (IF Sender \in members THEN <<Sender>> ELSE <<>>)
    \o (IF Receiver \in members THEN <<Receiver>> ELSE <<>>)

\* A direct message goes to its sender first.  A group message carries its
\* group, or the group is looked up.
process_outgoing(p) ==
  /\ Consume(p, "messages", "outgoing")
  /\ LET r == Head(queue["messages"]) IN Handles(p,
       CASE scene.to = "direct" -> Publishes(deliverMessage(r.m, Sender))
         [] scene.to = "inline" ->
              Publishes(sendMessageToGroupMembers(r.m,
                Entries(scene.members) \o <<Group>> \o Entries({Sender} \ scene.members)))
         [] scene.to = "group"  -> Asks(R("getGroup", r.m, Group)))

\* Of the chat21-http-server's messages only those with status 150.
process_delivered(p) ==
  /\ Consume(p, "messages", "delivered")
  /\ LET r == Head(queue["messages"]) IN Handles(p,
       IF scene.status = DELIVERED THEN Publishes(deliverMessage(r.m, r.u)) ELSE Nothing)

process_persist(p) ==
  /\ Consume(p, "persist", "persist")
  /\ LET r == Head(queue["persist"]) IN Handles(p, Asks(R("saveMessage", r.m, r.u)))

\* A read receipt: only status 200 is supported.  The other side is told 250,
\* then both copies are saved.
process_update_message(p) ==
  /\ Consume(p, "messages", "update")
  /\ LET r == Head(queue["messages"]) IN Handles(p,
       IF scene.status = RECEIVED THEN Publishes(<<R("updated", r.m, r.u)>>)
                                  ELSE Nothing)

process_update_conversation(p) ==
  /\ Consume(p, "messages", "is_new")
  /\ LET r == Head(queue["messages"]) IN Handles(p, Asks(R("saveIsNew", 0, r.u)))

process_archive(p) ==
  /\ Consume(p, "messages", "archive")
  /\ LET r == Head(queue["messages"]) IN Handles(p,
       Effect(<<>>, WHnotifyConversationArchived(p, r.u), {R("saveArchived", 0, r.u)}))

\* Presence goes no further than the webhooks queue.
process_presence(p) ==
  /\ Consume(p, "messages", "presence")
  /\ LET r == Head(queue["messages"]) IN Handles(p,
       IF PresenceEnabled(p) /\ WebhookEnabled(p)
       THEN Publishes(<<R("presence_event", 0, r.u)>>) ELSE Nothing)

\* deliverGroupUpdated() tells everyone in notify_to, here every user.
deliverGroupUpdated == [i \in 1 .. 2 |-> R("groupupdated", 0, <<Sender, Receiver>>[i])]

process_update_group(p) ==
  /\ Consume(p, "messages", "groups.update")
  /\ Handles(p, Publishes(deliverGroupUpdated))

------------------------------------------------------------------------------
(* webhooks/index.js: the worker *)

\* The head of the webhooks queue is taken; with endpoints named in it, each
\* gets one request, which is never repeated.
WHwork(p, kind) ==
  /\ link[p]["webhooks"] \in {"consuming", "mute"}
  /\ WebhookEnabled(p)
  /\ queue["webhooks"] # <<>>
  /\ Head(queue["webhooks"]).kind = kind
  /\ queue' = [queue EXCEPT !["webhooks"] = Tail(@)]
  /\ UNCHANGED <<scene, left, link, declared, wire, pending, messages, conversations, group,
                 view, read, announced, lost, raced>>

WHsendData == posted' = posted \cup {Head(queue["webhooks"])}

WHprocess_webhook_message_deliver(p) ==
  /\ WHwork(p, "message_deliver")
  /\ IF NamesEndpoints("message_deliver") THEN WHsendData ELSE UNCHANGED posted

WHprocess_webhook_message_update(p) ==
  /\ WHwork(p, "message_update")
  /\ IF NamesEndpoints("message_update") THEN WHsendData ELSE UNCHANGED posted

WHprocess_webhook_conversation_archived(p) ==
  /\ WHwork(p, "conversation_archived")
  /\ IF NamesEndpoints("conversation_archived") THEN WHsendData ELSE UNCHANGED posted

WHprocess_webhook_presence(p) ==
  /\ WHwork(p, "presence_event")
  /\ IF NamesEndpoints("presence_event") THEN WHsendData ELSE UNCHANGED posted

------------------------------------------------------------------------------
(* The broker takes a publication, routes it and confirms it; the callback of
   publish() runs. *)

QueueOf(kind) ==
  CASE kind \in {"outgoing", "delivered", "update", "is_new", "archive", "presence",
                 "groups.update"} -> "messages"
    [] kind = "persist" -> "persist"
    [] kind \in {"message_deliver", "message_update", "conversation_archived",
                 "presence_event"} -> "webhooks"
    [] OTHER -> "none"

\* A topic no queue is bound to yet is dropped.
Enqueue(r) ==
  LET q == QueueOf(r.kind) IN
  queue' = IF q \in declared THEN [queue EXCEPT ![q] = Append(@, r)] ELSE queue

Unroutable(r) == QueueOf(r.kind) \notin declared \cup {"none"}

\* mqttclient: a message of the server, dispatched to the callbacks of the
\* application.  A message added also adds its conversation, unless its
\* attributes say otherwise.
Dispatch(v, r) ==
  CASE r.kind = "added"         ->
         LET added == [v EXCEPT !.shown = @ \cup {r.m}] IN
         IF scene.updateconversation
         THEN [added EXCEPT !.last = r.m, !.list = "conversations", !.is_new = TRUE]
         ELSE added
    [] r.kind = "updated"       -> [v EXCEPT !.returned = @ \cup {r.m}]
    [] r.kind = "convupdated"   -> [v EXCEPT !.is_new = FALSE]
    [] r.kind = "clientdeleted" -> [v EXCEPT !.list = "none"]
    [] r.kind = "archivedadded" -> [v EXCEPT !.list = "archived"]
    [] r.kind = "groupupdated"  -> [v EXCEPT !.members = Users]

\* Whose client subscribes the topic: a receipt is told to the other side.
Told(r) == IF r.kind = "updated" THEN ConversWith(r.u) ELSE r.u

\* What is under way about the conversation of u, or about a copy of m.
InFlight(r) ==
  \/ \E q \in Queues : \E i \in DOMAIN queue[q] : queue[q][i] = r
  \/ \E p \in Deployed : r \in pending[p]
  \/ \E p \in Deployed, c \in Conns : \E i \in DOMAIN wire[p][c] : wire[p][c][i] = r

Storing(m, u) == \E k \in {"persist", "saveMessage"} : InFlight(R(k, m, u))

Busy(u) ==
  \/ \E m \in Messages : Storing(m, u) \/ InFlight(R("saveConversation", m, u))
  \/ \E k \in {"is_new", "saveIsNew", "convupdated", "archive", "saveArchived", "detail",
               "clientdeleted", "archivedadded"} : InFlight(R(k, 0, u))

Confirm(p, c) ==
  /\ Up(p, c) /\ wire[p][c] # <<>>
  /\ LET r == Head(wire[p][c])
         e == AfterPublish(p, r)
         u == Told(r)
     IN  /\ Do(p, e, [wire[p] EXCEPT ![c] = Tail(@)], pending[p])
         /\ lost' = (lost \/ Lose(p, e) \/ Unroutable(r))
         /\ Enqueue(r)
         /\ view' = IF QueueOf(r.kind) = "none" THEN [view EXCEPT ![u] = Dispatch(@, r)]
                                                ELSE view
         /\ raced' = IF r.kind = "added" /\ Busy(u) THEN raced \cup {u} ELSE raced
  /\ UNCHANGED <<scene, left, link, declared, messages, conversations, group, posted,
                 read, announced>>

------------------------------------------------------------------------------
(* chatdb: MongoDB carries an operation out and its callback runs *)

saveOrUpdateMessage(r) ==
  messages' =
    CASE r.kind = "saveMessage"  -> [messages EXCEPT ![r.u][r.m] = StatusOf(r.m, r.u)]
      [] r.kind = "saveReceived" -> [messages EXCEPT ![r.u][r.m] = RECEIVED]
      [] r.kind = "saveReturned" -> [messages EXCEPT ![ConversWith(r.u)][r.m] = RETURN_RECEIPT]
      [] OTHER -> messages

\* Mutant: a new message leaves the conversation archived.
SaveConversationKeepsArchived(r) ==
  conversations' =
    CASE r.kind = "saveConversation" ->
           [conversations EXCEPT ![r.u] =
              [last |-> r.m, archived |-> @.archived, is_new |-> TRUE, app |-> TRUE]]
      [] r.kind = "saveIsNew"    -> [conversations EXCEPT ![r.u].is_new = FALSE]
      [] r.kind = "saveArchived" -> [conversations EXCEPT ![r.u].archived = TRUE]
      [] OTHER -> conversations

\* $set of the fields given: a message's conversation, is_new, or archived.
saveOrUpdateConversation(r) ==
  conversations' =
    CASE r.kind = "saveConversation" ->
           [conversations EXCEPT ![r.u] =
              [last |-> r.m, archived |-> FALSE, is_new |-> TRUE, app |-> TRUE]]
      [] r.kind = "saveIsNew"    -> [conversations EXCEPT ![r.u].is_new = FALSE]
      [] r.kind = "saveArchived" -> [conversations EXCEPT ![r.u].archived = TRUE]
      [] OTHER -> conversations

\* Found only with its app_id and archived.
conversationDetail(u) == conversations[u].archived /\ conversations[u].app

\* getGroup(): without a document the message goes to its sender and to the
\* timeline of the group.
GroupFound(r, members) ==
  LET to == IF members = {} THEN {Sender} ELSE members IN
  Publishes(sendMessageToGroupMembers(r.m, Entries(to) \o <<Group>>))

AfterMongo(r) ==
  CASE r.kind = "saveMessage"  ->
         IF scene.updateconversation THEN Asks(R("saveConversation", r.m, r.u)) ELSE Nothing
    [] r.kind = "saveReceived" -> Asks(R("saveReturned", r.m, r.u))
    [] r.kind = "saveIsNew"    -> Publishes(<<R("convupdated", 0, r.u)>>)
    [] r.kind = "saveArchived" -> Asks(R("detail", 0, r.u))
    [] r.kind = "detail"       ->
         IF conversationDetail(r.u) THEN Publishes(<<R("clientdeleted", 0, r.u)>>) ELSE Nothing
    [] r.kind = "getGroup"     -> GroupFound(r, group)
    [] OTHER -> Nothing

MongoAnswers(p) ==
  \E r \in pending[p] :
    LET e == AfterMongo(r) IN
    /\ saveOrUpdateMessage(r)
    /\ saveOrUpdateConversation(r)
    /\ Do(p, e, wire[p], pending[p] \ {r})
    /\ lost' = (lost \/ Lose(p, e))
    /\ UNCHANGED <<scene, left, link, declared, queue, group, view, posted, read,
                   announced, raced>>

\* An error is only looked at by some callbacks: the conversation of a message
\* that could not be saved is saved all the same, and a group that could not be
\* read is taken for one that does not exist.
AfterMongoError(r) ==
  CASE r.kind = "saveMessage" -> AfterMongo(r)
    [] r.kind = "getGroup"    -> GroupFound(r, {})
    [] OTHER -> Nothing

MongoFails(p) ==
  /\ left.fails > 0
  /\ left' = [left EXCEPT !.fails = @ - 1]
  /\ \E r \in pending[p] : Do(p, AfterMongoError(r), wire[p], pending[p] \ {r})
  /\ lost' = TRUE
  /\ UNCHANGED <<scene, link, declared, queue, messages, conversations, group, view, posted,
                 read, announced, raced>>

------------------------------------------------------------------------------
(* startServer() and the connections *)

\* The Webhooks object is started, and waited for, before the observer's own
\* connection.
startServer(p) ==
  /\ Starts(p)
  /\ \A c \in Conns : link[p][c] = "off"
  /\ link' = [link EXCEPT ![p][IF WebhookEnabled(p) THEN "webhooks" ELSE "observer"] =
                "connecting"]
  /\ UNCHANGED <<scene, left, declared, queue, wire, pending, messages, conversations, group,
                 view, posted, read, announced, lost, raced>>

\* startMQ() is connected and startPublisher() has its channel: start() of the
\* webhooks returns, and startServer() goes on to the observer's.
startMQ(p, c) ==
  /\ link[p][c] = "connecting"
  /\ link' = [link EXCEPT ![p][c] = "publishing",
                          ![p]["observer"] = IF c = "observer" THEN "publishing"
                                             ELSE IF @ = "off" THEN "connecting" ELSE @]
  /\ UNCHANGED <<scene, left, declared, queue, wire, pending, messages, conversations, group,
                 view, posted, read, announced, lost, raced>>

\* Mutant: consumes only the first time, when it declares its queues.
StartWorkerOnce(p, c) ==
  /\ link[p][c] \in {"publishing", "silent"}
  /\ link' = [link EXCEPT ![p][c] = IF Consumes(p, c) \subseteq declared THEN @
                                   ELSE IF @ = "silent" THEN "mute" ELSE "consuming"]
  /\ declared' = declared \cup Consumes(p, c)
  /\ UNCHANGED <<scene, left, queue, wire, pending, messages, conversations, group, view,
                 posted, read, announced, lost, raced>>

\* startWorker(), not waited for: its queues asserted, bound and consumed.
startWorker(p, c) ==
  /\ link[p][c] \in {"publishing", "silent"}
  /\ link' = [link EXCEPT ![p][c] = IF @ = "silent" THEN "mute" ELSE "consuming"]
  /\ declared' = declared \cup Consumes(p, c)
  /\ UNCHANGED <<scene, left, queue, wire, pending, messages, conversations, group, view,
                 posted, read, announced, lost, raced>>

\* A connection closes, or closes itself over a refused publication: what was
\* not confirmed fails, and startMQ() is called again.
Drop(p, c) ==
  /\ left.drops > 0
  /\ link[p][c] \in Connected
  /\ left' = [left EXCEPT !.drops = @ - 1]
  /\ link' = [link EXCEPT ![p][c] = "connecting"]
  /\ wire' = [wire EXCEPT ![p][c] = <<>>]
  /\ lost' = (lost \/ wire[p][c] # <<>>)
  /\ UNCHANGED <<scene, declared, queue, pending, messages, conversations, group, view, posted,
                 read, announced, raced>>

\* A channel of the observer fails and ends the process, which is started again
\* by what supervises it: what it had not published or asked is gone.
Exit(p) ==
  /\ left.drops > 0
  /\ Up(p, "observer")
  /\ left' = [left EXCEPT !.drops = @ - 1]
  /\ link' = [link EXCEPT ![p] = [c \in Conns |-> "off"]]
  /\ wire' = [wire EXCEPT ![p] = [c \in Conns |-> <<>>]]
  /\ pending' = [pending EXCEPT ![p] = {}]
  /\ lost' = (lost \/ pending[p] # {} \/ \E c \in Conns : wire[p][c] # <<>>)
  /\ UNCHANGED <<scene, declared, queue, messages, conversations, group, view, posted, read,
                 announced, raced>>

\* A channel of the Webhooks object fails, which is only logged.
PublisherFails(p) ==
  /\ left.drops > 0
  /\ Up(p, "webhooks")
  /\ left' = [left EXCEPT !.drops = @ - 1]
  /\ link' = [link EXCEPT ![p]["webhooks"] =
                CASE @ = "publishing" -> "silent" [] @ = "consuming" -> "mute" [] OTHER -> "broken"]
  /\ wire' = [wire EXCEPT ![p]["webhooks"] = <<>>]
  /\ lost' = (lost \/ wire[p]["webhooks"] # <<>>)
  /\ UNCHANGED <<scene, declared, queue, pending, messages, conversations, group, view, posted,
                 read, announced, raced>>

WorkerFails(p) ==
  /\ left.drops > 0
  /\ link[p]["webhooks"] \in {"consuming", "mute"}
  /\ left' = [left EXCEPT !.drops = @ - 1]
  /\ link' = [link EXCEPT ![p]["webhooks"] = IF @ = "mute" THEN "broken" ELSE "deaf"]
  /\ UNCHANGED <<scene, declared, queue, wire, pending, messages, conversations, group, view,
                 posted, read, announced, lost, raced>>

Breaks(p) ==
  Exit(p) \/ PublisherFails(p) \/ WorkerFails(p) \/ \E c \in Conns : Drop(p, c)

------------------------------------------------------------------------------
(* mqttclient/chat21client.js: what an application asks of its client, and
   what the chat21-http-server does *)

\* A topic is a routing key to the broker, which takes no longer one.
Sends(r, bound) ==
  /\ left[bound] > 0
  /\ Fits(r)
  /\ left' = [left EXCEPT ![bound] = @ - 1]
  /\ Enqueue(r)
  /\ lost' = (lost \/ Unroutable(r))
  /\ UNCHANGED <<scene, link, declared, wire, pending, messages, conversations, view, posted>>

sendMessage ==
  /\ Sends(R("outgoing", scene.bound.msgs - left.msgs + 1, Sender), "msgs")
  /\ UNCHANGED <<group, read, announced, raced>>

\* A message read: its copies must not be on their way to the database.
updateMessageStatus(u, m) ==
  /\ m \in view[u].shown /\ m \notin read[u]
  /\ u # Sender
  /\ Sends(R("update", m, u), "reads")
  /\ read' = IF scene.status = RECEIVED THEN [read EXCEPT ![u] = @ \cup {m}] ELSE read
  /\ raced' = IF Storing(m, u) \/ Storing(m, ConversWith(u))
              THEN raced \cup {u, ConversWith(u)} ELSE raced
  /\ UNCHANGED <<group, announced>>

updateConversationIsNew(u) ==
  /\ view[u].list = "conversations"
  /\ Sends(R("is_new", 0, u), "news")
  /\ raced' = IF Busy(u) THEN raced \cup {u} ELSE raced
  /\ UNCHANGED <<group, read, announced>>

archiveConversation(u) ==
  /\ view[u].list = "conversations"
  /\ Sends(R("archive", 0, u), "archives")
  /\ raced' = IF Busy(u) THEN raced \cup {u} ELSE raced
  /\ UNCHANGED <<group, read, announced>>

\* connect() and ImHere() publish {connected: true}, the will {disconnected:
\* true}; the server treats them alike.
announcePresence(u) ==
  /\ u \notin announced
  /\ Sends(R("presence", 0, u), "presences")
  /\ announced' = announced \cup {u}
  /\ UNCHANGED <<group, read, raced>>

\* The chat21-http-server delivers a message to an inbox.
deliverFromHttp ==
  /\ Sends(R("delivered", scene.bound.msgs + scene.bound.injected - left.injected + 1, Receiver),
           "injected")
  /\ UNCHANGED <<group, read, announced, raced>>

\* Mutant: stores the "volatile" member that stands for the group.
UpdateGroupVolatile ==
  /\ Sends(R("groups.update", 0, Group), "groups")
  /\ group' = Timelines
  /\ UNCHANGED <<read, announced, raced>>

\* The chat21-http-server changes the members and publishes groups.update.
updateGroup ==
  /\ Sends(R("groups.update", 0, Group), "groups")
  /\ group' = Users
  /\ UNCHANGED <<read, announced, raced>>

------------------------------------------------------------------------------
Init ==
  /\ scene \in Scenarios
  /\ left = scene.bound
  /\ link = [p \in Procs |-> [c \in Conns |-> "off"]]
  /\ declared = {}
  /\ queue = [q \in Queues |-> <<>>]
  /\ wire = [p \in Procs |-> [c \in Conns |-> <<>>]]
  /\ pending = [p \in Procs |-> {}]
  /\ messages = [u \in Timelines |-> [m \in Messages |-> 0]]
  /\ conversations =
       [u \in Timelines |-> [last |-> 0, archived |-> FALSE, is_new |-> FALSE, app |-> FALSE]]
  /\ group = scene.members
  /\ view = [u \in Timelines |-> [shown |-> {}, returned |-> {}, last |-> 0, list |-> "none",
                                  is_new |-> FALSE, members |-> scene.members]]
  /\ posted = {}
  /\ read = [u \in Timelines |-> {}]
  /\ announced = {}
  /\ lost = FALSE
  /\ raced = {}

Handlers(p) ==
  \/ process_outgoing(p) \/ process_delivered(p) \/ process_persist(p)
  \/ process_update_message(p) \/ process_update_conversation(p) \/ process_archive(p)
  \/ process_presence(p) \/ process_update_group(p)

Webhooks(p) ==
  \/ WHprocess_webhook_message_deliver(p) \/ WHprocess_webhook_message_update(p)
  \/ WHprocess_webhook_conversation_archived(p) \/ WHprocess_webhook_presence(p)

Server(p) ==
  \/ startServer(p) \/ \E c \in Conns : startMQ(p, c) \/ startWorker(p, c)
  \/ Handlers(p) \/ Webhooks(p) \/ MongoAnswers(p)
  \/ \E c \in Conns : Confirm(p, c)

Clients ==
  \/ sendMessage \/ deliverFromHttp \/ updateGroup
  \/ \E u \in Users :
       \/ updateConversationIsNew(u) \/ archiveConversation(u) \/ announcePresence(u)
       \/ \E m \in Messages : updateMessageStatus(u, m)

Next ==
  \/ \E p \in Deployed : Server(p) \/ MongoFails(p) \/ Breaks(p)
  \/ Clients

Spec == Init /\ [][Next]_vars

\* What is connected, queued, published or asked of the database goes on;
\* nobody has to send anything.
FairSpec ==
  /\ Spec
  /\ \A p \in Procs :
       /\ WF_vars(p \in Deployed /\ startServer(p))
       /\ WF_vars(p \in Deployed /\ (Handlers(p) \/ Webhooks(p) \/ MongoAnswers(p)))
       /\ \A c \in Conns :
            WF_vars(p \in Deployed /\ (startMQ(p, c) \/ startWorker(p, c) \/ Confirm(p, c)))

------------------------------------------------------------------------------
(* Properties *)

\* What is published or asked is about a copy of a message, or about a
\* conversation, a user or a group.
CopyKinds ==
  {"outgoing", "delivered", "getGroup", "added", "persist", "saveMessage",
   "saveConversation", "update", "updated", "saveReceived", "saveReturned",
   "message_deliver", "message_update"}

NoteKinds ==
  {"is_new", "archive", "presence", "groups.update", "saveIsNew", "saveArchived",
   "detail", "convupdated", "clientdeleted", "archivedadded", "groupupdated",
   "conversation_archived", "presence_event"}

Record == [kind : CopyKinds \cup NoteKinds, m : Nat, u : Timelines]

TypeOK ==
  /\ scene \in Scenarios
  /\ left \in [Bounds -> Nat]
  /\ link \in [Procs -> [Conns -> {"off", "connecting"} \cup Connected]]
  /\ declared \subseteq Queues
  /\ \A q \in Queues : \A i \in DOMAIN queue[q] :
       queue[q][i] \in Record /\ QueueOf(queue[q][i].kind) = q
  /\ \A p \in Procs, c \in Conns : \A i \in DOMAIN wire[p][c] : wire[p][c][i] \in Record
  /\ \A p \in Procs : pending[p] \subseteq Record
  /\ messages \in [Timelines -> [Messages -> {0, SENT, DELIVERED, RECEIVED, RETURN_RECEIPT}]]
  /\ conversations \in [Timelines -> [last : 0 .. Cardinality(Messages), archived : BOOLEAN,
                                      is_new : BOOLEAN, app : BOOLEAN]]
  /\ group \subseteq Users
  /\ \A u \in Timelines : view[u].shown \cup view[u].returned \subseteq Messages
  /\ posted \subseteq Record
  /\ read \in [Timelines -> SUBSET Messages]
  /\ announced \subseteq Users
  /\ lost \in BOOLEAN
  /\ raced \subseteq Timelines

\* Nothing is on its way.
Quiet ==
  /\ \A q \in Queues : queue[q] = <<>>
  /\ \A p \in Deployed : pending[p] = {} /\ \A c \in Conns : wire[p][c] = <<>>

\* What the database has of a message in a timeline, and what the endpoints
\* are told of it, its client was told before, whatever connection, channel or
\* process is lost between the steps of deliverMessage(): a copy is persisted
\* and notified after the broker has taken it for the client.  Only what has no
\* topic short enough is not told first: publish() cancels it and answers as if
\* it had been published, so deliverMessage() notifies of a copy, and
\* process_update() saves a receipt, that no client was told.
ToldFirst ==
  /\ \A u \in Timelines : \A m \in Messages : messages[u][m] # 0 =>
       \/ m \in view[u].shown \cup view[u].returned
       \/ \E reader \in Timelines :
            /\ ConversWith(reader) = u /\ m \in view[reader].shown
            /\ ~ Fits(R("updated", m, reader))
  /\ \A r \in posted : r.kind = "message_deliver" =>
       r.m \in view[r.u].shown \/ ~ Fits(R("added", r.m, r.u))

\* When all is quiet and nothing was lost, the database agrees with what each
\* client has told its application: the status of every message, and the
\* conversation's last message, is_new and list.  It holds for a conversation
\* whose activities did not overlap: two persists, or a persist and an archive,
\* may be carried out in the other order.
StatusTold(u, m) ==
  CASE m \in read[u] -> RECEIVED
    [] m \in view[u].returned \ read[u] -> RETURN_RECEIPT
    [] OTHER -> StatusOf(m, u)

ViewMatchesStore ==
  Quiet /\ ~ lost =>
    \A u \in Users \ raced :
      /\ \A m \in view[u].shown : messages[u][m] = StatusTold(u, m)
      /\ view[u].list # "none" =>
           /\ conversations[u].last = view[u].last
           /\ conversations[u].is_new = view[u].is_new
           /\ conversations[u].archived = (view[u].list = "archived")
      /\ scene.bound.groups > left.groups => view[u].members = group

\* When all is quiet and nothing was lost, the endpoints have been told of
\* every copy shown and of every presence announced, in a deployment whose
\* processes on the "messages" queue have the webhooks, and presence, enabled.
MessageProcs == {p \in Deployed : Starts(p) /\ "messages" \in ActiveQueues(p)}

ReportedCopies ==
  \A u \in Timelines : \A m \in view[u].shown :
    (\A p \in Deployed : scene.env[p].events = MessageEvents)
      => R("message_deliver", m, u) \in posted

ReportedPresence == \A u \in announced : R("presence_event", 0, u) \in posted

Reported ==
  Quiet /\ ~ lost =>
    /\ (\A p \in MessageProcs : WebhookEnabled(p)) => ReportedCopies
    /\ (\A p \in MessageProcs : WebhookEnabled(p) /\ PresenceEnabled(p)) => ReportedPresence

\* Whatever is lost and however the processes start, they are connected in the
\* end, the queues are emptied and all that was asked is answered.  Only the
\* "webhooks" queue may be left, by workers whose channel failed on a connection
\* that did not: nothing opens it again.
Settled ==
  /\ \A q \in {"messages", "persist"} : queue[q] = <<>>
  /\ (\E p \in Deployed : link[p]["webhooks"] \in {"consuming", "mute"})
       => queue["webhooks"] = <<>>
  /\ \A p \in Deployed :
       /\ pending[p] = {} /\ \A c \in Conns : wire[p][c] = <<>>
       /\ Starts(p) => link[p]["observer"] = "consuming"
       /\ Starts(p) /\ WebhookEnabled(p) =>
            link[p]["webhooks"] \in {"consuming", "mute", "deaf", "broken"}

Settles == <>[]Settled

\* CHANGELOG.md v0.2.40: "To better scale now you can: Create an instance to
\* only process webhooks queue [...] Create an instance to only process
\* presence", beside one for "messages" and one for "persist": with the four,
\* copies and presence are reported as with a single process.
InstancesShareTheWork == Quiet /\ ~ lost => ReportedCopies /\ ReportedPresence

=============================================================================
