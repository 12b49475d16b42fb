---------------------------- MODULE Chat21Client ----------------------------
(***************************************************************************)
(* The life of a Chat21Client over its MQTT connections: connect(), the    *)
(* subscription that start() makes and the 'message' listener it adds, the *)
(* dispatch of what arrives to the callbacks of the application, close(),  *)
(* and the presence each connection reports, up to process_presence() in   *)
(* the observer; and its HTTP requests, which share nothing with these but *)
(* the application.                                                        *)
(*                                                                         *)
(* Every connect() makes a new mqtt object, numbered from 1 as the call    *)
(* is; this.client is the last of them.  What the mqtt library does is     *)
(* modelled from how the client uses it: it reconnects by itself and then  *)
(* repeats the subscriptions made, it fails what is unanswered when the    *)
(* stream closes, end() sends a DISCONNECT.  The broker keeps one session  *)
(* per client id, that is per Chat21Client, and publishes the will of a    *)
(* session that ends without a DISCONNECT.                                 *)
(***************************************************************************)
EXTENDS Naturals, Sequences, FiniteSets, SequencesExt

CONSTANTS
  Client,       \* Chat21Client instances
  User,         \* the users they connect as
  Owner,        \* the user of each client
  Conv,         \* conversWith ids
  Kind,         \* the callback lists the application registers in
  Event,        \* what the broker may send to a subscriber of <user>/#
  MaxConn,      \* bound: connect() calls per client
  Limits        \* the other bounds; a behaviour keeps to one of them

Lists == {"ConversationUpdated", "ConversationDeleted",
          "ArchivedConversationAdded", "ArchivedConversationDeleted",
          "MessageAdded", "ConversationAdded", "MessageUpdated", "GroupUpdated",
          "MessageAddedInConversation", "MessageUpdatedInConversation"}

\* What is published under <user>/#: the list a topic is for and conversWith;
\* "quiet" is attributes.updateconversation === false.  A topic of six parts,
\* such as the presence of the user, has no conversWith and is ignored.
Published == [list : {"ConversationUpdated", "ConversationDeleted",
                      "ArchivedConversationAdded", "ArchivedConversationDeleted",
                      "MessageAdded", "MessageUpdated", "GroupUpdated", "Presence"},
              conv : Conv, quiet : BOOLEAN]

\* Bounds: connect() calls of each client, callbacks registered per client,
\* HTTP requests of each, ImHere() calls, messages sent, faults.
Limit == [conn : [Client -> Nat], handler : Nat, request : Nat, here : Nat,
          event : Nat, fault : Nat]

\* Requests whose callback is left alone by an answer without a body, those
\* that pass on what they get, and the look-ups of a conversation, for which an
\* error is a conversation that was not found.
WithBody == {"groupCreate", "groupData", "groupSetMembers", "saveInstance"}
Plain == {"groupLeave", "groupJoin"}
Detail == {"conversationDetail", "archivedConversationDetail"}

ASSUME ClientAssumption ==
  /\ Owner \in [Client -> User]
  /\ Kind \subseteq Lists
  /\ Event \subseteq Published
  /\ MaxConn \in Nat
  /\ Limits \subseteq Limit
  /\ \A l \in Limits, c \in Client : l.conn[c] <= MaxConn

Conn == 1 .. MaxConn
Sock == 0 .. MaxConn        \* 0 is this.client = null

\* The packets of one connection, in each direction; "by" is the connect()
\* whose callback waits for the answer, 0 when the library subscribes again.
Subscribe(n) == [packet |-> "subscribe", by |-> n]
Suback(n, ok) == [packet |-> "suback", by |-> n, granted |-> ok]
Message(e) == [packet |-> "message", event |-> e]
UNSUBSCRIBE == [packet |-> "unsubscribe"]
UNSUBACK == [packet |-> "unsuback"]
ONLINE == [packet |-> "publish"]       \* {connected: true} on presence_topic
DISCONNECT == [packet |-> "disconnect"]

NoSession == [sock |-> 0, stale |-> FALSE, subscribed |-> FALSE]

VARIABLES
  client,               \* this.client
  link,                 \* the state of each mqtt object
  connected,            \* this.connected
  on_message_handler,   \* the object it was set on, 0 for null
  topic_inbox,          \* this.topic_inbox is set
  listening,            \* the objects with a 'message' listener
  resubscribe,          \* the objects that subscribe again when reconnected
  subscribing,          \* the objects whose first subscribe is unanswered
  closing,              \* what close() waits for, and on which object
  answered,             \* the calls of the callback of each connect()
  registry,             \* the callback lists: [id, list, conv]
  last_handler,
  kept,                 \* an ImHere() made while offline waits in the library
  out, in,              \* the packets of each connection, by direction
  session,              \* broker: the session of each client id
  presence,             \* broker: presence messages in the "messages" queue
  status,               \* the presence last reported for each user
  requests,             \* HTTP requests: [kind, got, answers, threw]
  told,                 \* the callbacks that the last message was given to
  stale,                \* ids removed, or registered before the last close()
  raced,                \* connect() was called on a client that is not closed
  refused,              \* the broker has refused a subscription
  bye,                  \* the last session of the client ended by DISCONNECT
  limit,                \* the bounds of this behaviour
  events, heres, faults \* counters of the bounds

object == <<client, link, connected, on_message_handler, topic_inbox,
            listening, resubscribe, subscribing, closing, answered>>
callbacks == <<registry, last_handler, told, stale>>
wires == <<kept, out, in>>
broker == <<session, presence, bye>>
counters == <<limit, events, heres, faults>>
history == <<raced, refused>>
vars == <<object, callbacks, requests, wires, broker, status, history, counters>>

TypeOK ==
  /\ client \in [Client -> Sock]
  /\ link \in [Client -> [Sock -> {"none", "down", "up", "ending", "ended"}]]
  /\ connected \in [Client -> BOOLEAN]
  /\ on_message_handler \in [Client -> Sock]
  /\ topic_inbox \in [Client -> BOOLEAN]
  /\ listening \in [Client -> SUBSET Conn]
  /\ resubscribe \in [Client -> SUBSET Conn]
  /\ subscribing \in [Client -> SUBSET Conn]
  /\ closing \in [Client -> [wait : {"no", "unsubscribe", "end"}, sock : Sock]]
  /\ answered \in [Client -> [Conn -> Nat]]
  /\ \A c \in Client : \A h \in registry[c] :
       h.id \in 1 .. last_handler[c] /\ h.list \in Kind /\ h.conv \in Conv
  /\ last_handler \in [Client -> 0 .. limit.handler]
  /\ kept \in [Client -> SUBSET Conn]
  /\ \A c \in Client, n \in Conn :
       \A i \in DOMAIN in[c][n] : in[c][n][i].packet \in {"suback", "unsuback", "message"}
  /\ session \in [Client -> [sock : Sock, stale : BOOLEAN, subscribed : BOOLEAN]]
  /\ presence \in Seq([client : Client, status : {"online", "offline"}])
  /\ status \in [User -> {"unknown", "online", "offline"}]
  /\ \A c \in Client, i \in 1 .. limit.request : i \in DOMAIN requests[c] =>
       /\ requests[c][i].kind \in WithBody \cup Plain \cup Detail
       /\ requests[c][i].got \in {"nothing", "body", "empty", "error"}
       /\ requests[c][i].answers \in Seq({"body", "null", "error"})
  /\ \A c \in Client : told[c] \cup stale[c] \subseteq 1 .. last_handler[c]
  /\ raced \in [Client -> BOOLEAN]
  /\ refused \in [Client -> BOOLEAN]
  /\ bye \in [Client -> BOOLEAN]
  /\ limit \in Limits
  /\ events \in 0 .. limit.event /\ heres \in 0 .. limit.here /\ faults \in 0 .. limit.fault

Init ==
  /\ client = [c \in Client |-> 0]
  /\ link = [c \in Client |-> [n \in Sock |-> "none"]]
  /\ connected = [c \in Client |-> FALSE]
  /\ on_message_handler = [c \in Client |-> 0]
  /\ topic_inbox = [c \in Client |-> FALSE]
  /\ listening = [c \in Client |-> {}]
  /\ resubscribe = [c \in Client |-> {}]
  /\ subscribing = [c \in Client |-> {}]
  /\ closing = [c \in Client |-> [wait |-> "no", sock |-> 0]]
  /\ answered = [c \in Client |-> [n \in Conn |-> 0]]
  /\ registry = [c \in Client |-> {}]
  /\ last_handler = [c \in Client |-> 0]
  /\ kept = [c \in Client |-> {}]
  /\ out = [c \in Client |-> [n \in Conn |-> <<>>]]
  /\ in = [c \in Client |-> [n \in Conn |-> <<>>]]
  /\ session = [c \in Client |-> NoSession]
  /\ presence = <<>>
  /\ status = [u \in User |-> "unknown"]
  /\ requests = [c \in Client |-> <<>>]
  /\ told = [c \in Client |-> {}]
  /\ stale = [c \in Client |-> {}]
  /\ raced = [c \in Client |-> FALSE]
  /\ refused = [c \in Client |-> FALSE]
  /\ bye = [c \in Client |-> FALSE]
  /\ limit \in Limits
  /\ events = 0 /\ heres = 0 /\ faults = 0

-----------------------------------------------------------------------------
(* Calls of the application.                                               *)

\* end() on an mqtt object: one that is online sends a DISCONNECT, one that is
\* not gives up at once, one that is ending already does nothing.
EndOf(l) == CASE l = "up" -> "ending" [] l = "down" -> "ended" [] OTHER -> l

Goodbye(c, n) == IF link[c][n] = "up" THEN <<DISCONNECT>> ELSE <<>>

connect(c) ==
  LET old == client[c]
      n == old + 1
  IN /\ old < limit.conn[c]
     /\ client' = [client EXCEPT ![c] = n]
     /\ link' = [link EXCEPT ![c][old] = EndOf(@), ![c][n] = "down"]
     /\ out' = [out EXCEPT ![c] = [m \in Conn |->
                  IF m = old THEN @[m] \o Goodbye(c, m) ELSE @[m]]]
     /\ raced' = [raced EXCEPT ![c] = @ \/ topic_inbox[c]]
     /\ UNCHANGED <<connected, on_message_handler, topic_inbox, listening,
                    resubscribe, subscribing, closing, answered, callbacks,
                    kept, in, broker, requests, status, refused, counters>>

\* Without a topic_inbox, so before the first 'connect' event, close() neither
\* does anything nor calls back.  The application does not call it again
\* before it is answered.
close(c) ==
  LET n == client[c] IN
  /\ topic_inbox[c]
  /\ closing[c].wait = "no"
  /\ closing' = [closing EXCEPT ![c] = [wait |-> "unsubscribe", sock |-> n]]
  /\ resubscribe' = [resubscribe EXCEPT ![c] = @ \ {n}]
  /\ out' = IF link[c][n] = "up"
            THEN [out EXCEPT ![c][n] = Append(@, UNSUBSCRIBE)]
            ELSE out
  /\ UNCHANGED <<client, link, connected, on_message_handler, topic_inbox,
                 listening, subscribing, answered, callbacks, kept, in,
                 broker, requests, status, history, counters>>

ImHere(c) ==
  LET n == client[c] IN
  /\ heres < limit.here
  /\ n # 0
  /\ \/ /\ link[c][n] = "up"
        /\ out' = [out EXCEPT ![c][n] = Append(@, ONLINE)]
        /\ UNCHANGED kept
     \/ /\ link[c][n] = "down"
        /\ kept' = [kept EXCEPT ![c] = @ \cup {n}]
        /\ UNCHANGED out
  /\ heres' = heres + 1
  /\ UNCHANGED <<object, callbacks, in, broker, requests, status, history,
                 limit, events, faults>>

\* Mutant: the id is taken before the counter is incremented.
OnCallbackOldId(c, list, conv) ==
  /\ last_handler[c] < limit.handler
  /\ last_handler' = [last_handler EXCEPT ![c] = @ + 1]
  /\ registry' = [registry EXCEPT ![c] =
       @ \cup {[id |-> last_handler[c], list |-> list, conv |-> conv]}]
  /\ UNCHANGED <<object, told, stale, requests, wires, broker, status, history,
                 counters>>

\* onConversationAdded(), onMessageAddedInConversation() and the like: an id,
\* never used again, is added to one of the lists.
onCallback(c, list, conv) ==
  /\ last_handler[c] < limit.handler
  /\ last_handler' = [last_handler EXCEPT ![c] = @ + 1]
  /\ registry' = [registry EXCEPT ![c] =
       @ \cup {[id |-> last_handler'[c], list |-> list, conv |-> conv]}]
  /\ UNCHANGED <<object, told, stale, wires, broker, requests, status, history,
                 counters>>

\* removeOnMessageAddedHandler() and removeOnGroupUpdatedHandler(): each looks
\* in its own list only, and there is none for the other lists.
removeHandler(c, list, id) ==
  LET gone == {h \in registry[c] : h.id = id /\ h.list = list} IN
  /\ list \in {"MessageAdded", "GroupUpdated"}
  /\ gone # {}
  /\ registry' = [registry EXCEPT ![c] = @ \ gone]
  /\ stale' = [stale EXCEPT ![c] = @ \cup {id}]
  /\ told' = [told EXCEPT ![c] = {}]
  /\ UNCHANGED <<object, last_handler, wires, broker, requests, status, history,
                 counters>>

-----------------------------------------------------------------------------
(* HTTP requests.                                                          *)

myrequest(c, kind) ==
  /\ Len(requests[c]) < limit.request
  /\ requests' = [requests EXCEPT ![c] =
       Append(@, [kind |-> kind, got |-> "nothing", answers |-> <<>>, threw |-> FALSE])]
  /\ UNCHANGED <<object, callbacks, wires, broker, status, history, counters>>

groupCreate(c) == myrequest(c, "groupCreate")
groupData(c) == myrequest(c, "groupData")
groupLeave(c) == myrequest(c, "groupLeave")
groupJoin(c) == myrequest(c, "groupJoin")
groupSetMembers(c) == myrequest(c, "groupSetMembers")
saveInstance(c) == myrequest(c, "saveInstance")
conversationDetail(c) == myrequest(c, "conversationDetail")
archivedConversationDetail(c) == myrequest(c, "archivedConversationDetail")

\* What the callback of the application is called with, as a sequence of no
\* call or one, when the request got "got".
AnswerTo(kind, got) ==
  CASE got = "error" -> IF kind \in Detail THEN <<"null">> ELSE <<"error">>
    [] got = "empty" -> IF kind \in Detail \cup Plain THEN <<"null">> ELSE <<>>
    [] OTHER -> <<"body">>

\* The promise of axios: a callback that throws in then() is called again by
\* catch(), with the exception for an error.
Response(c) ==
  \E i \in DOMAIN requests[c], got \in {"body", "empty", "error"}, threw \in BOOLEAN :
    LET q == requests[c][i]
        first == AnswerTo(q.kind, got)
        again == IF threw /\ got # "error" THEN AnswerTo(q.kind, "error") ELSE <<>>
    IN /\ q.got = "nothing"
       /\ threw => first # <<>>
       /\ requests' = [requests EXCEPT ![c][i] =
            [q EXCEPT !.got = got, !.answers = first \o again, !.threw = threw]]
       /\ UNCHANGED <<object, callbacks, wires, broker, status, history, counters>>

-----------------------------------------------------------------------------
(* Connections, subscription and the end of a client.                      *)

\* The 'connect' event of object n.  The broker has let its session take the
\* place of an earlier one of the same client id, whose will it publishes.
\* What waited in the library is sent first, its own subscriptions after that;
\* then the handler: start(), on the first connection, and the presence.
Waiting(c, n) ==
  (IF closing[c] = [wait |-> "unsubscribe", sock |-> n] THEN <<UNSUBSCRIBE>> ELSE <<>>)
    \o (IF n \in kept[c] THEN <<ONLINE>> ELSE <<>>)
    \o (IF n \in resubscribe[c] THEN <<Subscribe(0)>> ELSE <<>>)

\* Mutant: the guard on this.connected is dropped.
EveryConnection(c) == TRUE

FirstConnection(c) == ~ connected[c]

\* Mutant: the presence is published by the first connection only.
AnnounceOnce(c) == IF connected[c] THEN <<>> ELSE <<ONLINE>>

\* Every connection announces the presence, not only the first.
Announce(c) == <<ONLINE>>

Takeover(c) ==
  IF session[c].sock = 0 THEN presence
  ELSE Append(presence, [client |-> c, status |-> "offline"])

\* start() and subscribeToMyConversations(): a client whose 'message' handler
\* is set answers at once; otherwise it subscribes to <user>/#, and the answer
\* runs subscribed() below.
start(c, n) ==
  \/ /\ on_message_handler[c] # 0
     /\ answered' = [answered EXCEPT ![c][n] = @ + 1]
     /\ out' = [out EXCEPT ![c][n] = Waiting(c, n) \o Announce(c)]
     /\ UNCHANGED <<topic_inbox, resubscribe, subscribing>>
  \/ /\ on_message_handler[c] = 0
     /\ topic_inbox' = [topic_inbox EXCEPT ![c] = TRUE]
     /\ resubscribe' = [resubscribe EXCEPT ![c] = @ \cup {n}]
     /\ subscribing' = [subscribing EXCEPT ![c] = @ \cup {n}]
     /\ out' = [out EXCEPT ![c][n] = Waiting(c, n) \o <<Subscribe(n)>> \o Announce(c)]
     /\ UNCHANGED answered

onConnect(c) ==
  LET n == client[c] IN
  /\ link[c][n] = "down"
  /\ link' = [link EXCEPT ![c][n] = "up"]
  /\ presence' = Takeover(c)
  /\ session' = [session EXCEPT ![c] = [sock |-> n, stale |-> FALSE, subscribed |-> FALSE]]
  /\ bye' = [bye EXCEPT ![c] = FALSE]
  /\ kept' = [kept EXCEPT ![c] = @ \ {n}]
  /\ connected' = [connected EXCEPT ![c] = TRUE]
  /\ \/ /\ ~ FirstConnection(c)
        /\ out' = [out EXCEPT ![c][n] = Waiting(c, n) \o Announce(c)]
        /\ UNCHANGED <<topic_inbox, resubscribe, subscribing, answered>>
     \/ /\ FirstConnection(c)
        /\ start(c, n)
  /\ in' = [in EXCEPT ![c][n] = <<>>]
  /\ UNCHANGED <<client, on_message_handler, listening, closing, callbacks,
                 requests, status, history, counters>>

\* The callback of the first subscribe of object n, whether it was granted or
\* not: the 'message' listener goes to the object that is this.client now.
Subscribed(c, n) ==
  /\ subscribing' = [subscribing EXCEPT ![c] = @ \ {n}]
  /\ on_message_handler' = [on_message_handler EXCEPT ![c] = client[c]]
  /\ listening' = [listening EXCEPT ![c] = @ \cup {client[c]}]
  /\ answered' = [answered EXCEPT ![c][n] = @ + 1]

StillSubscribing == UNCHANGED <<subscribing, on_message_handler, listening, answered>>

\* The callback of end() in close().
ResetTo(c, flag, handlers, object_on) ==
  /\ connected' = [connected EXCEPT ![c] = flag]
  /\ registry' = [registry EXCEPT ![c] = handlers]
  /\ on_message_handler' = [on_message_handler EXCEPT ![c] = object_on]
  /\ topic_inbox' = [topic_inbox EXCEPT ![c] = FALSE]
  /\ closing' = [closing EXCEPT ![c] = [wait |-> "no", sock |-> 0]]
  /\ stale' = [stale EXCEPT ![c] = 1 .. last_handler[c]]
  /\ told' = [told EXCEPT ![c] = {}]

\* Mutants: it forgets one of the three.
ResetKeepsConnected(c) == ResetTo(c, connected[c], {}, 0)
ResetKeepsCallbacks(c) == ResetTo(c, FALSE, registry[c], 0)
ResetKeepsHandler(c) == ResetTo(c, FALSE, {}, on_message_handler[c])

Reset(c) == ResetTo(c, FALSE, {}, 0)

\* The callback of unsubscribe() in close(): it ends the object that is
\* this.client now.  "l" and "o" are the states and the packets of the objects
\* of c at that moment.
Unsubscribed(c, l, o) ==
  LET n == client[c] IN
  /\ link' = [link EXCEPT ![c] = [l EXCEPT ![n] = EndOf(@)]]
  /\ out' = [out EXCEPT ![c] = IF l[n] = "up"
                               THEN [o EXCEPT ![n] = Append(@, DISCONNECT)]
                               ELSE o]
  /\ closing' = [closing EXCEPT ![c] = [wait |-> "end", sock |-> n]]

\* The stream of object n has closed: what is unanswered on it fails, the
\* subscribe first.
Fail(c, n, l) ==
  /\ IF n \in subscribing[c] THEN Subscribed(c, n) ELSE StillSubscribing
  /\ IF closing[c] = [wait |-> "unsubscribe", sock |-> n]
     THEN Unsubscribed(c, [link[c] EXCEPT ![n] = l], [out[c] EXCEPT ![n] = <<>>])
     ELSE /\ link' = [link EXCEPT ![c][n] = l]
          /\ out' = [out EXCEPT ![c][n] = <<>>]
          /\ UNCHANGED closing
  /\ in' = [in EXCEPT ![c][n] = <<>>]

\* The connection is lost; the broker notices later.
Lost(c, n) ==
  /\ faults < limit.fault
  /\ faults' = faults + 1
  /\ link[c][n] \in {"up", "ending"}
  /\ Fail(c, n, IF link[c][n] = "up" THEN "down" ELSE "ended")
  /\ session' = IF session[c].sock = n
                THEN [session EXCEPT ![c].stale = TRUE]
                ELSE session
  /\ UNCHANGED <<client, connected, topic_inbox, resubscribe, callbacks, kept,
                 presence, bye, requests, status, history, limit, events, heres>>

\* The broker has closed the connection of an object that is ending.
StreamEnds(c, n) ==
  /\ link[c][n] = "ending"
  /\ session[c].sock # n
  /\ in[c][n] = <<>>
  /\ Fail(c, n, "ended")
  /\ UNCHANGED <<client, connected, topic_inbox, resubscribe, callbacks, kept,
                 broker, requests, status, history, counters>>

\* An attempt to connect again fails, with the unsubscribe still unanswered.
AttemptFails(c, n) ==
  /\ link[c][n] = "down"
  /\ closing[c] = [wait |-> "unsubscribe", sock |-> n]
  /\ Fail(c, n, "down")
  /\ UNCHANGED <<client, connected, topic_inbox, resubscribe, callbacks, kept,
                 broker, requests, status, history, counters>>

Closed(c) ==
  /\ closing[c].wait = "end"
  /\ link[c][closing[c].sock] = "ended"
  /\ Reset(c)
  /\ UNCHANGED <<client, link, listening, resubscribe, subscribing, answered,
                 last_handler, wires, broker, requests, status, history, counters>>

-----------------------------------------------------------------------------
(* The broker.                                                             *)

Take(c, n) == out' = [out EXCEPT ![c][n] = Tail(@)]

Send(c, n, p) == in' = [in EXCEPT ![c][n] = Append(@, p)]

\* It takes the oldest packet of a connection whose session is alive.
BrokerTakes(c) ==
  LET n == session[c].sock IN
  /\ n # 0 /\ ~ session[c].stale
  /\ out[c][n] # <<>>
  /\ Take(c, n)
  /\ LET p == Head(out[c][n]) IN
     \/ /\ p.packet = "subscribe"
        /\ session' = [session EXCEPT ![c].subscribed = TRUE]
        /\ Send(c, n, Suback(p.by, TRUE))
        /\ UNCHANGED <<presence, bye, refused, faults>>
     \/ /\ p.packet = "subscribe"
        /\ faults < limit.fault
        /\ faults' = faults + 1
        /\ Send(c, n, Suback(p.by, FALSE))
        /\ refused' = [refused EXCEPT ![c] = TRUE]
        /\ UNCHANGED broker
     \/ /\ p.packet = "unsubscribe"
        /\ session' = [session EXCEPT ![c].subscribed = FALSE]
        /\ Send(c, n, UNSUBACK)
        /\ UNCHANGED <<presence, bye, refused, faults>>
     \/ /\ p.packet = "publish"
        /\ presence' = Append(presence, [client |-> c, status |-> "online"])
        /\ UNCHANGED <<in, session, bye, refused, faults>>
     \/ /\ p.packet = "disconnect"
        /\ session' = [session EXCEPT ![c] = NoSession]
        /\ bye' = [bye EXCEPT ![c] = TRUE]
        /\ UNCHANGED <<in, presence, refused, faults>>
  /\ UNCHANGED <<object, callbacks, kept, requests, status, raced, limit, events, heres>>

\* The keepalive of a lost connection runs out: the will is published.
Expire(c) ==
  /\ session[c].stale
  /\ session' = [session EXCEPT ![c] = NoSession]
  /\ presence' = Append(presence, [client |-> c, status |-> "offline"])
  /\ UNCHANGED <<object, callbacks, wires, bye, requests, status, history, counters>>

\* Something is published on a topic of the user.
Publish(c, e) ==
  LET n == session[c].sock IN
  /\ events < limit.event
  /\ events' = events + 1
  /\ session[c].subscribed /\ ~ session[c].stale
  /\ Send(c, n, Message(e))
  /\ UNCHANGED <<object, callbacks, kept, out, broker, requests, status, history,
                 limit, heres, faults>>

-----------------------------------------------------------------------------
(* What arrives at the client, and at the observer.                        *)

\* The callbacks a message is for: its own list; the conversation list, for a
\* message that is not quiet; and those of its conversation.
CallsOf(c, e) ==
  LET In(list) == {h \in registry[c] : h.list = list}
      OfConv(list) == {h \in In(list) : h.conv = e.conv}
  IN CASE e.list = "Presence" -> {}
       [] e.list = "MessageAdded" ->
            In("MessageAdded") \cup (IF e.quiet THEN {} ELSE In("ConversationAdded"))
              \cup OfConv("MessageAddedInConversation")
       [] e.list = "MessageUpdated" ->
            In("MessageUpdated") \cup OfConv("MessageUpdatedInConversation")
       [] OTHER -> In(e.list)

\* They run list by list, each list in the order it was registered in.
Turn(h) == CASE h.list = "ConversationAdded" -> 2
             [] h.list \in {"MessageAddedInConversation",
                            "MessageUpdatedInConversation"} -> 3
             [] OTHER -> 1

UpTo(calls, last) ==
  {h \in calls : Turn(h) < Turn(last) \/ (Turn(h) = Turn(last) /\ h.id <= last.id)}

\* The 'message' handler of object n, if it has one.  A callback that throws
\* keeps the message from those after it.
onMessage(c, n, e) ==
  LET calls == CallsOf(c, e) IN
  \/ /\ n \notin listening[c]
     /\ UNCHANGED told
  \/ /\ n \in listening[c]
     /\ calls = {}
     /\ told' = [told EXCEPT ![c] = {}]
  \/ /\ n \in listening[c]
     /\ \E last \in calls : told' = [told EXCEPT ![c] = {h.id : h \in UpTo(calls, last)}]

ClientTakes(c, n) ==
  /\ link[c][n] \in {"up", "ending"}
  /\ in[c][n] # <<>>
  /\ in' = [in EXCEPT ![c][n] = Tail(@)]
  /\ LET p == Head(in[c][n]) IN
     \/ /\ p.packet = "suback"
        /\ IF p.by # 0 THEN Subscribed(c, n) ELSE StillSubscribing
        /\ resubscribe' = [resubscribe EXCEPT ![c] = IF p.granted THEN @ ELSE @ \ {n}]
        /\ UNCHANGED <<link, out, closing, told>>
     \/ /\ p.packet = "unsuback"
        /\ Unsubscribed(c, link[c], out[c])
        /\ StillSubscribing
        /\ UNCHANGED <<resubscribe, told>>
     \/ /\ p.packet = "message"
        /\ onMessage(c, n, p.event)
        /\ StillSubscribing
        /\ UNCHANGED <<link, out, closing, resubscribe>>
  /\ UNCHANGED <<client, connected, topic_inbox, registry, last_handler, stale,
                 kept, broker, requests, status, history, counters>>

\* process_presence(): the presence of one client is reported as its user's.
process_presence ==
  /\ presence # <<>>
  /\ presence' = Tail(presence)
  /\ status' = [status EXCEPT ![Owner[Head(presence).client]] = Head(presence).status]
  /\ UNCHANGED <<object, callbacks, wires, session, bye, requests, history, counters>>

-----------------------------------------------------------------------------

Application(c) ==
  \/ connect(c)
  \/ close(c)
  \/ ImHere(c)
  \/ \E list \in Kind, conv \in Conv : onCallback(c, list, conv)
  \/ \E h \in registry[c] : removeHandler(c, h.list, h.id)
  \/ groupCreate(c) \/ groupData(c) \/ groupLeave(c) \/ groupJoin(c)
  \/ groupSetMembers(c) \/ saveInstance(c)
  \/ conversationDetail(c) \/ archivedConversationDetail(c)

Progress(c) ==
  \/ onConnect(c)
  \/ Closed(c)
  \/ Response(c)
  \/ BrokerTakes(c)
  \/ Expire(c)
  \/ \E n \in Conn : StreamEnds(c, n) \/ ClientTakes(c, n)

Fault(c) ==
  \/ \E n \in Conn : Lost(c, n) \/ AttemptFails(c, n)
  \/ \E e \in Event : Publish(c, e)

Next ==
  \/ process_presence
  \/ \E c \in Client : Application(c) \/ Progress(c) \/ Fault(c)

Spec == Init /\ [][Next]_vars

\* The broker answers, mqtt connects again, and a lost session expires.  The
\* application need not do anything, and nothing need be published.
Fairness ==
  /\ WF_vars(process_presence)
  /\ \A c \in Client :
       /\ WF_vars(onConnect(c)) /\ WF_vars(Closed(c)) /\ WF_vars(Response(c))
       /\ WF_vars(BrokerTakes(c)) /\ WF_vars(Expire(c))
       /\ \A n \in Conn : WF_vars(StreamEnds(c, n)) /\ WF_vars(ClientTakes(c, n))

FairSpec == Spec /\ Fairness

-----------------------------------------------------------------------------
(* Properties.                                                             *)

Calm(c) == ~ raced[c] /\ closing[c].wait = "no" /\ client[c] # 0

\* What the broker sends finds the listener: no message reaches an object that
\* does not have one, unless the answer to its subscribe is before it; and a
\* client that has told the application it is connected is subscribed, or is
\* about to be, as long as its connection lasts.  It takes a connect() on a
\* client already connected, or a refused subscription, to break either.
ListensWhenReady ==
  \A c \in Client : ~ raced[c] =>
    LET n == session[c].sock
        s == client[c]
    IN /\ n # 0 =>
            \A i \in DOMAIN in[c][n] : in[c][n][i].packet = "message" =>
              \/ n \in listening[c]
              \/ \E j \in 1 .. (i - 1) : in[c][n][j].packet = "suback"
       /\ (Calm(c) /\ ~ refused[c] /\ answered[c][s] > 0 /\ link[c][s] = "up") =>
            /\ on_message_handler[c] = s /\ s \in listening[c]
            /\ \/ session[c].subscribed
               \/ Subscribe(0) \in Range(out[c][s])

\* The callback of a connect() is called at most once, whatever is lost,
\* connected again or closed after it.
\* The callback of a request is too, unless it throws.
AnsweredOnce ==
  \A c \in Client :
    /\ \A n \in Conn : answered[c][n] <= 1
    /\ \A i \in DOMAIN requests[c] :
         ~ requests[c][i].threw => Len(requests[c][i].answers) <= 1

\* A message is never given to a callback that the application had removed, or
\* that it had registered before the last close() was answered.
NoStaleCallback == \A c \in Client : told[c] \cap stale[c] = {}

\* Presence is published per client and reported per user.  Once all of it has
\* been handled, a user all of whose clients are connected is reported online,
\* and one reported online has a client that is, or one that left by close():
\* a DISCONNECT publishes no will, so nothing reports that client offline.
PresenceHandled ==
  /\ presence = <<>>
  /\ \A c \in Client :
       /\ ~ session[c].stale
       /\ session[c].sock # 0 => ONLINE \notin Range(out[c][session[c].sock])

PresenceSettles ==
  PresenceHandled =>
    \A u \in User :
      LET own == {c \in Client : Owner[c] = u} IN
      /\ (own # {} /\ \A c \in own : session[c].sock # 0) => status[u] = "online"
      /\ status[u] = "online" => \E c \in own : session[c].sock # 0 \/ bye[c]

\* connect() is answered, unless connect() is called again, and so are close()
\* and every request that gets an answer with a body.  None is promised once
\* connect() was called on a client that was connected.
Unanswered(c) ==
  /\ ~ raced[c]
  /\ \/ client[c] # 0 /\ answered[c][client[c]] = 0
     \/ closing[c].wait # "no"
     \/ \E i \in DOMAIN requests[c] :
          requests[c][i].got # "empty" /\ requests[c][i].answers = <<>>

CallsAreAnswered == \A c \in Client : Unanswered(c) ~> ~ Unanswered(c)

=============================================================================
