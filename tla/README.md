# A formal model of chat21-server

TLA+ modules, TLC runs and TLAPS proofs about chat21-server: the observer, the
process that turns messages published by chat clients into messages on their
timelines; the client library; and the former JavaScript server. Paths are those of
the repository, `.ts` files relative to its `src` directory and `.js` files to its root.

## The system

chat21-server is a Node.js process (the "observer") beside RabbitMQ, MongoDB and,
optionally, Redis. Clients talk MQTT to RabbitMQ; the observer consumes AMQP
queues, and everything it tells clients it publishes on topics they subscribe to.
All handlers run on one event loop, so a handler is atomic between its awaits and
callbacks and interleaves with every other one there.

| Component | Code | State | Operations | Talks to |
|---|---|---|---|---|
| Message path | `observer/handlers.ts` (outgoing, delivered), `observer/message.ts`, `observer/publish.ts` | suspended handlers, pending confirm callbacks, `offlinePubQueue` | take a message, admit it, fan it out, show and store each copy | broker, rate limiter, group lookup, webhooks, analytics |
| Start and AMQP connection | `observer.ts`, `observer/amqp.ts` | what the start waits for, connection, publisher and worker channel, analytics connection, `autoRestartProperty` | start, connect, retry, consume with noAck, close on error, stop | broker, MongoDB, Redis |
| Rate limiter | `services/RateManager.ts` | a token bucket per sender, in Redis | `canExecute` | Redis |
| Group lookup and cache | `observer/groups.ts`, `process_update_group` | member lists in Redis | look up, fill, overwrite on update | Redis, MongoDB, clients |
| Storage | `process_persist`, `process_update`, `process_archive`, `chatdb/index.ts` | `messages`, `conversations`, `groups` collections | upserts, archive, detail | MongoDB, clients, webhooks |
| Webhooks | `webhooks/index.ts` | own connection, `webhooks` queue, event filter | notify, consume, POST | broker, HTTP endpoints |
| Presence and analytics | `process_presence`, `observer/analytics.ts` | `messageProjectCache`, `userProjectCache`, analytics channel | report presence, track events | broker, analytics broker |
| Client library | `mqttclient/chat21client.ts` | MQTT connection, subscription, callback lists | connect, close, register, dispatch, send, HTTP requests | broker, HTTP server |
| JavaScript server | `observer.js`, `webhooks/index.js`, `chatdb/index.js`, `chatservermq.js`, with `mqttclient/chat21client.js` | two connections per process, the same queues and collections | all of the above | all of the above |
| Metrics, logging, constants | `prometheus.ts`, `tiledesk-logger`, `models`, `types` | none the protocol depends on | | |

The HTTP server (chat21-http-server) is another program: it is modelled only as the
source of history copies and group updates. The repository also holds tests,
benchmarks and four earlier releases of the JavaScript client, which nothing requires.

### What makes it hard, and what makes it correct

*Message path.* A copy reaches a timeline by two publishes, each answered by a
broker confirm in any order: first on the addressee's `clientadded` topic, then on
the `persist` topic. The recipient of a direct message is served from the callback
of the sender's copy. Queues are consumed with noAck, failed publishes are parked
in a queue that is never drained, routing keys over 255 characters are dropped, and
a group fan-out shares one message object among callbacks that run later.
Correct means: no copy is shown twice; nothing is stored that was not shown; the
recipient follows the sender; a hidden member sees nothing; one notification and
one analytics event per message; the sender's order is kept; without faults
everybody is served; with faults the observer comes back and settles; the project of a
stored copy is in memory when a receipt for it comes.

*Start and AMQP connection.* The start waits for MongoDB, Redis, the broker and the
analytics broker in turn; a connection reports its end by two events, each failed
attempt sets a timer, and `stopServer()` closes a connection whose own close event
starts it again. Correct means: there is one connection or one attempt, never two;
nothing is consumed without a channel to publish on; a stop is final when the
connection was made with AUTO_RESTART off; with it on, the process comes back or ends.

*Rate limiter.* It reads the bucket, awaits, and writes back without waiting.
Correct means: admissions are covered by the bucket's law up to what overlapping
calls and lost writes add; nobody is refused without a bucket having been spent.

*Group cache.* A look-aside cache filled from MongoDB and overwritten by updates.
Correct means: a message handled after an update goes to the new members; a stale
entry does not stay; a lookup never hangs.

*Storage*. Receipts, persists and archive patches are chains of upserts on the same
documents, in handlers that overlap. Correct means: a stored receipt stays, on one
document, and is backed by what it reports; a conversation's last message is stored;
clients are told of an archived conversation in full; what is persisted ends up stored.

*Webhooks*. Notifications go through a durable queue over a connection of their own,
carry the endpoints set when they were raised, and are posted by whoever consumes
them. Correct means: an event reaches an endpoint at most once, and only one it was
meant for; without faults it does reach it; the worker comes back after a fault.

*Client and presence.* The mqtt library reconnects by itself and repeats
subscriptions; `connect()`, `close()` and the subscription each answer later, on an
object that may not be the current one; presence is published per client, by the
client and by its will, and reported per user. Correct means: no message arrives
before there is a listener for it; each call is answered, and once; no callback runs
after it was removed; the presence reported settles on what the user's clients are.

*JavaScript server.* The same path, written with nested callbacks, where what a
process does depends on the environment of that process. Correct means: clients are
told before anything is stored or posted; at rest, what clients were told, what is
stored and what was posted agree; whatever is lost, the queues are worked off.

The hazards, each at its line, are in `PROJECT.json`, with the properties that
would catch them and a note where none does yet.

## Modules

| Module | Models |
|---|---|
| `Delivery` | the message path over one AMQP connection |
| `Timeline` | the abstract promise of the message path |
| `MCDelivery` | small worlds for `Delivery` |
| `DeliveryDocs` | claims of a log line and of a comment that `Delivery` refutes |
| `RateManager` | `canExecute` over Redis, for one sender |
| `GroupCache` | group lookup, cache and update, for one group |
| `ChatStore` | the persist, update and archive handlers over MongoDB |
| `MCChatStore` | small worlds for `ChatStore` |
| `Webhooks` | notifications from the handlers to the endpoints |
| `MCWebhooks` | small worlds for `Webhooks` |
| `Chat21Client` | the client's life over its MQTT connections, and the presence it reports |
| `MCChat21Client` | two clients of one user |
| `AmqpLink` | start, AMQP connection, analytics connection and stop of the observer |
| `MCAmqpLink` | eight configurations for `AmqpLink` |
| `LegacyServer` | the JavaScript server, from clients to documents and endpoints |
| `MCLegacyServer` | eighteen small deployments, and the one the changelog proposes |
| `Delivery_proofs` | types and safety of `Delivery`, and that it implements `Timeline` |
| `ChatStore_proofs` | types and all safety invariants of `ChatStore` |
| `Chat21Client_proofs` | types and all safety invariants of `Chat21Client` |
| `LegacyServer_proofs` | types and all safety invariants of `LegacyServer` |
| `AmqpLink_proofs`, `RateManager_proofs`, `GroupCache_proofs`, `Webhooks_proofs` | types and safety of these modules |

### Delivery

A message is a position in `sent`; an *envelope* has what the code branches on:
sender, recipient, inline group, `attributes.hiddenFor`, `attributes.projectId`. A
*copy* is what one addressee gets: message, timeline, the status serialised in its
payload, and whether it is a replay asked for by the HTTP server. A *job* is one
publish: a copy and its topic.

State and code: `messages` is the queue; `limiting` and `looking` are the handlers
suspended in `canExecute()` and `getGroup()`; `status[m]` is the shared
`outgoing_message.status`; `wire` holds the bursts written to the connection in one
turn of the event loop, `unconfirmed` the publishes whose callback waits, `rejected`
those the broker will nack; `inbox` and `persist` are what reached subscribers and
the persist queue; `sentHooks`, `analytics` and the two caches are the callbacks'
other effects; `offlinePubQueue` and `pubChannel` are the code's.

Each action is a handler or callback up to where it suspends: `ReceiveOutgoing`,
`Admit`, `Refuse`, `GroupFound`, `GroupMissing` (`process_outgoing`),
`ReceiveDelivered` (`process_delivered`), `ConfirmAdded`, `ConfirmPersist` (the two
callbacks of `deliverMessage`), `Nack` (the error branch of `publish`),
`Disconnect`, `Crash`, `Reconnect` (`startMQ`). `FanOut` is the loop of
`sendMessageToGroupMembers` with its `break`; `Deliver` is the synchronous part of
`deliverMessage`, including the callbacks that run at once when a key is too long or
the channel is closed. The broker (`Route`, `Reject`) and the outside (`Send`,
`AskHistory`) are external.

Abstractions: members are keys in insertion order, ids have only a length; a burst
is routed in one step except at a cut, where any part of the oldest burst may have
arrived; on a cut the pending callbacks get an error or none (amqplib does either,
by how the connection ended); confirmations come in any order; the broker's `persist`
queue is not consumed. The order of a burst's jobs is not kept: no two jobs of
one burst go to the same timeline with different copies.

### Timeline

Three variables: messages sent, copies shown per timeline, copies stored. `Show`
adds a batch of copies the receivers are entitled to and have not been shown;
`Store` stores copies that were shown. `Delivery` implements it with
`shown <- inbox, stored <- persist`.

### RateManager

Time and tokens are integers: `Scale` units per token, `RefillRate` units per tick.
A call is `Call` (GET sent), `ServeGet`, then `Grant` or `Deny`; `Grant` sends the
SET and returns. One connection carries the commands in order; `FailSet` and
`Crash` lose writes; the key expires `TTL` ticks after its last write.
The history variable `overlaps` adds up, over the admissions, the other calls each
found under way: every one of them may have read the bucket before it was written
back; `forgotten` adds up what expired buckets still lacked for being full, which the
next call is given. `AdmissionsAreCovered` is the bucket's law up to these and the lost
writes, so it is the exact law for a sender whose calls do not overlap, if the bucket is
full again before it expires (`LongLived`, as with the default rates: 30 tokens refill in
one minute, the key lives ten). Capacity and refill rate are free values of the
environment; those that are no positive numbers are left out.

### GroupCache

A member list is a version number. `Prefetch`, `Admit`, `Hit`, `Miss`, `Find`,
`Fill` are a lookup with its awaits; `UpdateGroup` is `process_update_group`.
`raced` records the one race that the code leaves open: an update handled while an
older database answer is under way to the cache. A crash takes the lookups under way and
any updates the broker had already pushed.

### ChatStore

Input is what the message path promises: a *workload* is the set of copies of one
message, shown to subscribers (`ShowCopy`), then put on the persist queue
(`QueuePersist`). `WorkloadAssumption` says of workloads what the message path promises
and the proofs need: a message is on a timeline twice only if its sender is its
recipient, or if it is replayed (`again`) to a group member who was shown it before, which
the server does when the member joins again (`Replayable`).
A client that was shown a copy sends commands about it (`Ask`): a
receipt (`status` 200), another status ("seen"), an update that marks the conversation
read, an archive.

A handler is a copy, a position in `Steps` and a phase. `Steps` lists where each
handler suspends: `message`, `conversation` (`process_persist`); `told`, `mine`, `theirs`
(`process_update` of a message: the notice to the sender, the reader's document, the
sender's document); `conversation`, `told` (of a conversation); `conversation`, `detail`,
`deleted`, `archived` (`process_archive`). `Advance` is the callback of a step, `OnError`
its error branch: all handlers end there but `process_persist`, which ignores the
error of its first write.

`messages[timeline, message]` is a sequence of documents, for nothing keeps an upsert
that found none from inserting a second; `conversations[timeline, peer]` is one
document, for its index is unique. An upsert is one step when it finds a document
(`UpdateMessage`, `UpdateConversation`) and two when it does not (`MissMessage`,
`InsertMessage`, ...); between them another handler may insert. The insert of a
conversation that meets another's is the update the server retries, or `DuplicateKey`.

Abstractions: a patch is reduced to the fields the handlers' branches and the
properties read: `whole` (the message's own fields), `status`, the last message, which
is set together with `app_id`, and the two flags; the webhook and analytics calls, which
return at once, and the field the webhook adds to the archive patch are left out; a
write under way when its process dies counts as not applied. A write that was applied
and answered with an error is the write followed by `Fail` at the next step.
The history variables `stored`, `failed` and `raced` record jobs whose documents are
written, jobs that met an error, and documents for which a job was taken while a
persist of the same document had not written, a receipt ahead of its copies, or a replay,
whose persist writes the older status over whatever is there.
`ArchivedIsTold` looks at the database, not at the handler: an archive writes, reads the
conversation back and announces what it read, while a persist brings it out of the archive
or another archive puts it there again. Whatever they do, a conversation that ends up in
the archive in full has been announced so, with the last message it has.

### Webhooks

`link` is the state of the object's own connection: `down`, `connected`, then with a
publisher channel, then with the worker too (`whenConnected`). `dead` holds the channels
that failed on it alone, which the code only logs (`PublisherFails`, `WorkerFails`): they
are made again with the next connection, so `Settles` asks for an empty queue only while the
worker's channel lives. `pubChannel` is
whether a channel was ever opened: a closed one throws in `publish`, which parks the
event, none is an error without parking. `Raise` and its four outcomes are the
`WHnotify...` methods and the notification of `process_presence`; `Enabled` is the filter,
which archives and presence do not pass through; `JobOf` is the payload's
`temp_webhook_endpoints`. `Take` is `processMsg` up to the requests it starts, `Post`
and `FailPost` a request's end. `Configure` is the observer's setters, called together.
`Crash` ends the process; the next one may be given other settings and finds what the
durable queue holds. `asked` and `missed` are histories: who was to get an event,
and what the broker dropped because nothing was bound yet.

Abstractions: endpoints that are not set are an empty set, as both post to nobody, and a
list names an endpoint once; one process consumes the queue; the observer's own channel,
used by presence, either delivers or fails; the part of
`WHprocess_webhook_conversation_archived` after its endpoint check is never reached.

### Chat21Client

Each `connect()` makes a numbered mqtt object: `client` is the number of `this.client`,
`link` the state of each object, `listening` those with a 'message' listener,
`resubscribe` and `subscribing` the subscriptions the library will repeat and those
whose first answer is outstanding, `closing` what `close()` waits for, and on which
object. `out` and `in` are the packets of each connection; the broker keeps one
`session` per client id. `registry` has the callback lists, `requests` the HTTP
requests.

The actions are the calls of the application (`connect`, `close`, `ImHere`, `onCallback`,
`removeHandler`, the requests), the events the library raises (`onConnect`, `Closed`,
`StreamEnds`, the packets of `ClientTakes`), and the broker's part: `BrokerTakes`,
`Expire`, which publishes the will of a session that ended without a DISCONNECT, and
`Publish`. Presence goes from there through the `messages` queue to `process_presence`,
which sets the `status` of the user. Faults are a lost connection (`Lost`), a failed
attempt and a refused subscription.

The mqtt library and the broker are external: modelled from how the client uses them.
The histories are `told` (the callbacks the last message was given to), `stale` (those
removed, or registered before a close), `raced` (`connect()` on a client not closed),
`refused` and `bye`. `Limits` is a set of bounds, of which a behaviour keeps to one, so
that interesting combinations are explored without their product. A response of an HTTP
request runs its callback; one that throws in `then()` is called again by `catch()`.

### AmqpLink

`config` is what the process is started with; `step` is what `startServer()` waits for
and `started` the promise of `start()`; `webhook_enabled`, `webhooks` and
`autoRestartProperty` are what the setters change. `attempts` has each `startMQ()` under
way with its timer, number and the autoRestart it read; `conn` each connection with its
state and the autoRestart its handlers keep; `opening`, `asserting`, `consuming` and
`pubChannel` its channels; `amqpConn` is the code's; `stopping` and `stopped` follow
`stopServer()`.

The start is `ConnectMongo`, `connectRedis`, `StartWebhooks`, `AfterStart`,
`startAnalyticsPublisher`; the link is `TimerFires`, `Connected`, `ConnectFails`,
`PublisherOpens`, `WorkerOpens`, `QueueAsserted`, `closeOnErr`, `CloseOk`; faults are `Lost`
(with an "error" event before "close", or without), `ChannelError` and `AnalyticsLost`.
A rejected promise of the start is caught by nobody, so it ends the process, as
`process.exit()` does (`Exit`).

Abstractions: the webhooks' own connection is in `Webhooks`; what a lost connection does
to messages is in `Delivery`; the delay before an attempt is its number only, and
connections are counted up to a bound.

### LegacyServer

A *scenario* is a deployment (processes, each with its ACTIVE_QUEUES, WEBHOOK_ENABLED,
PRESENCE_ENABLED and WEBHOOK_EVENTS), the recipients and the bounds of what clients do
and what fails. The processes share `queue` (durable) and the database: `messages`,
`conversations`, `group`. Each has two `link`s (observer, webhooks), the publishes on
its `wire` that the broker confirms in order, and the operations `pending` at MongoDB,
answered in any order. `view` is what each client has told its application; `posted` the
requests made.

A handler is its synchronous part: what it publishes and what it asks (`Effect`).
`AfterPublish` and `AfterMongo` are the callbacks that run on a confirm and on an
answer, and continue it: `deliverMessage`'s persist and webhook, the writes of
`process_update` and `process_archive`, the fan-out when the group is found.
`publish()` cancels a topic of more than 255 characters (`Fits`, by the length of the ids)
and runs its callback at once, without an error (`Cut`): the handler goes on as if it had
published, so a copy never shown is notified, and a receipt never told is saved. What is
cancelled is `lost`. The Webhooks object's own `publish()` has no such check, and its topics
are constants. `Drop` cuts one connection and `MongoFails` answers with an error. A channel
of the observer that fails ends the process (`Exit`), which is taken to be started again by
what supervises it; one of the Webhooks object is only logged, and stays dead until its
connection is made again (`PublisherFails`, `WorkerFails`; the states `silent`, `mute`,
`deaf` and `broken` of a link). The histories are `read` and `announced` (what clients
did), `lost` (a publication or operation that went missing) and `raced` (timelines on which
two activities overlapped).

Abstractions: Redis is off, its default, so there is no cache and no rate limit here
(`GroupCache` and `RateManager` have them, from the TypeScript sources); one sender, one
recipient and one group; a connection lost drops its wire; the members of a group are
a set in the order of their keys; an operation that MongoDB carries out although the process
that asked has ended is one it answered before; an operation that fails was not carried out.

## Runs

| Run | Asks | Bounds |
|---|---|---|
| `delivery` | types, order and no duplicates, recipient after sender, stored only if shown, hidden member, counters, project known before storage, refinement of `Timeline`; everybody is served while nothing fails, and the observer settles | 2 direct messages (one perhaps to oneself) or 1 group message in 4 forms, 4 users, 3 rosters, ids at the key limit, history replays, rate limiter on, 1 fault, fairness |
| `rate` | bucket range, its law, refusals are earned | capacity 2, 2 calls at once, clock up to 6, expiry after 3 ticks (a full refill takes 4), 2 faults |
| `group_cache` | updates are used unless raced; the cache converges, lookups end | 3 messages, 2 versions, 1 fault, fairness |
| `store` | receipts, what clients may rely on, archive notices, what is persisted is stored | 1 message (direct, to oneself, to a group, replayed) or 2 of one conversation, 2 commands, 1 fault |
| `webhooks` | events posted once, to those meant, and in the end; the link settles | 3 events (sent, receipt, presence), 2 endpoints, 3 settings, 2 faults of connection, channel, request or process, fairness |
| `client` | listener before messages, answers once and in the end, no stale callback, presence settles | 2 clients of one user, 2 connections each, six combinations of calls, messages and faults, fairness |
| `link` | one link, a stop is final, the observer comes back | 8 configurations, 5 connections, 3 faults, 1 setter call, fairness |
| `legacy` | told before stored or posted; views, documents and requests agree at rest; the queues are worked off | 18 scenarios with up to 2 messages and 3 processes, each with its own faults, 5 of them with ids too long for one topic or another, fairness |
| `doc_hidden`, `doc_receipt`, `doc_archived`, `doc_split` | claims of a log line, a comment and a test, an example file and the changelog | expected to be violated |

Why the bounds suffice: in `Delivery` messages interact through the limiter's
order, the shared connection and the faults, and two messages, of one sender or of two,
show each pair; groups interact only through one
message's own copies, so one message with four timelines shows the aliasing, the
break and both key limits (an id of 200 characters has a `clientadded` key and no
`persist` key, one of 205 has neither). One fault reaches every point. In `RateManager`
six ticks cover a refill, a bucket that expires before it is full again and calls after it;
two calls at once are the overlap, and runs in which they do not overlap are among its
behaviours. In
`GroupCache` a stale fill needs one reader, one update and one later reader. In
`ChatStore` a document is disputed by two handlers, and two commands besides the persists
of up to three copies give each pair of handlers, on a document and across two of them.
A replay comes after the first copy and against a receipt for it; two messages of one
conversation meet an archive of it.
In the message to oneself both persists and both receipt writes meet on one document,
and the notices do not all fit in a routing key.
In `Webhooks` a lost confirm, a reconnection and a late arrival make one event; two
faults add a crash or a dead channel between them, and the three settings differ in each of their
fields. In `Chat21Client` an object is confused with at most one earlier one, so two
connections suffice; two clients make a user whose presence they dispute, and the six
combinations pair a reconnection with a message, a callback, a close, a fault or a
request under way. In `AmqpLink` five connections leave room for three faults, a stop and
what it restarts. In `LegacyServer` each scenario is one kind of activity against
another or against a fault: two messages, a message and its receipt, its archive, a
group update, presence, or a topic that is too long: of a copy, of its persist, of the
receipt, of a notice about the conversation or about the group; two processes alike share
every queue, and a pair splits them.

`CHECK_DEADLOCK FALSE` is used everywhere: the system rests when clients stop
sending and the bounds are used up, and a process may end.

Every property has a mutant: a plausible bug in a definition of the module under
which TLC finds the property violated. The mutants stand beside what they change,
commented `Mutant:`.

### What the violated runs show

* `doc_hidden`: `break` at the hidden member drops all later members
  (`message.ts:137` logs that the one member is skipped).
* `doc_receipt`: the members of a group share one message object, which the group's own
  timeline, last in the list, leaves marked SENT before any callback reads it; so the caches
  `message.ts:45` fills "for ALL delivered messages (group or direct)" stay empty, and the
  receipt of `analytics.integration.test.ts:409` finds no project. `ReceiptResolves` says for
  which copies the project is known.
* `doc_archived`: `conversation-archived` notifications carry no endpoints and are
  discarded, so the event that `example.env:6` enables reaches nobody.
* `doc_split`: the four instances that `CHANGELOG.md:79-95` proposes for scaling report
  no presence and no message: the process on the `messages` queue raises the events, and
  it is told to run with webhooks and presence off; the one for presence consumes
  no queue.

### Fairness

Weak fairness on the handlers (Node runs a callback that is ready), on the
broker's routing and confirms, on Redis and MongoDB answering, and on reconnection
(`startMQ` retries for ever when AUTO_RESTART is on, the default). None on clients
or faults. `GroupCache` adds expiry: the key has a time to live that hits do not
renew; its readers and updates are finitely many, so entries are at last left alone.
`Webhooks` assumes the same of its connection, and that a request ends (it has a time
limit); nothing is assumed of its settings, which may change for ever. `Chat21Client`
assumes that the broker answers, that the mqtt library connects again, that a session
whose connection was lost expires, and that a request gets an answer; nothing of the
application. `AmqpLink` assumes that the start goes on, that timers fire, and that the
broker answers or refuses. `LegacyServer` assumes of each process that it starts,
connects, runs its callbacks and gets its answers. `ChatStore` has no fairness:
`PersistedIsStored` speaks of the states in which it has come to rest.

## Proofs

Everything below holds for all values of the constants that satisfy the module's
assumptions: `DeliveryAssumption`, `LinkAssumption`, `RateAssumption`,
`GroupCacheAssumption`, `WebhooksAssumption`, `ChatStoreAssumption` with
`WorkloadAssumption`, `ClientAssumption`, `LegacyAssumption`. All but
`WorkloadAssumption`, explained with its module, say only of what kind the
constants are; `ExpiryGivesNothing` has a premise of its own, `LongLived`. None of the
properties is inductive as it stands; each section names the
invariant that is, and why it is needed. These invariants were model-checked
before they were proved.

### Delivery

`TypeCorrect`: every variable keeps its type, and everything queued,
suspended, published or stored is about a message that was sent (the strengthening
needed, because handlers read `sent[m]`). `TypeOKHolds` is its corollary for `TypeOK`.

`PersistedWasShown`, `RecipientAfterSender` and `HiddenNeverShown` speak of copies that have
arrived, and what arrives was decided several steps before, by a handler, and waited on the
connection or for its confirm. `CopyInv` says of every place a copy can be what the three
say at the end:

* every burst on the connection holds copies that somebody is entitled to (`CopyOK`),
  at most one for each timeline, and a persist publish only of a copy already shown
  (`WireOK`); the one-per-timeline part is what makes an arriving burst show all it holds;
* a publish that will still be confirmed has arrived (`ArrivedOK`), so that what a
  callback publishes next, the persist job or the recipient's copy, is due;
* the copies on the timelines are `CopyOK` (`InboxOK`) and about sent messages
  (`CopiesKnown`);
* replays are of group messages (`TasksOK`), and only group messages wait for
  `getGroup()` (`LookingOK`, proved on its own as `LookingHolds`);
* a message whose outgoing topic fitted in a routing key has room for the persist keys
  of both its copies (`SentOK`, used in `DirectFits`): 48 characters of fixed text against
  47. Without it the callback of a dropped persist publish would serve the recipient
  of a message its sender never stored.

The step lemmas are one per action; the broker's part is in `ArriveOK`, the
handlers' in `DeliverOK`, the callbacks' in `ConfirmOK`, the faults' in `CutOK`.

`ImplementsTimelineHolds`: `Delivery` implements `Timeline`. A `Send` is a `Send`; the arrival
of a burst, in whole or, on a cut, in part, is a `Show` or a `Store`, for all jobs of one
burst have one topic; every other step stutters. Since `Timeline` never shows a copy
twice, the proof needs that no copy is published twice, which `OnceInv` says by
following a copy back to where it came from: it is in one place (`Single`), its
message is handled once (`HandledOnce`), before which none of its copies is anywhere
(`FirstTime`), the recipient's copy is nowhere while the sender's is under way
(`FollowsOnce`), a replay is asked for once (`Replays`), and what is on the wire is due
(`WireEntitled`).

`CountedOnce` and `ShownInOrder`: `EffectsInv` holds each counter to what is left to be
done: a message that was notified, or counted, is not waiting, and the copy that did it is
not on its way (`HooksOnce`, `AnalyticsOnce`); what waits for a confirm was due
(`HeldEntitled`). `OrderInv` puts the sender's own copies in one line: those shown come
before those on the wire (`PassedInOrder`, `WireInOrder`), and these before those still
queued or limited (`QueuesInOrder`).

`ReceiptResolves`, an action property, from `CacheInv`: the status a callback reads is
the one the fan-out wrote last (`LastStatus`), so a copy that `Resolves` has been learnt by
the time it is on its way to the store, on the wire or waiting for its confirm
(`LearntFirst`), and no message is cached with another's project (`RightProject`). A cut
keeps the caches; a crash empties them together with what was on its way.

### ChatStore

Each invariant rests on `Origins`: whatever is queued, handled or written is a persist of a
copy that was queued or a command about one that was shown, all of one workload.

* `ArchivedIsTold`, from `ArchivedInv`: while a conversation is in the archive in full, either
  its clients have been told so, with its present last message, or an archive of it is still
  to read the conversation or has read it as it is now and is telling them (`Telling`). A
  persist, the one other writer of what the notice says, takes it out of the archive.
* `Backed`, from `BackedInv`: a receipt handler that is past the notice to the sender has
  sent it, and one about to write the sender's document left the reader's behind; a
  persist about to write the conversation has written the whole message, or met an error.
* `PersistedIsStored`, from `PersistedInv`: without a fault a queued copy waits, is being
  written, or is written (`OnItsWay`), and the same of the conversation's last message.
* `ReceiptKept`, from `ReceiptInv`. It excludes places where jobs `raced`, so
  the proof has to show that elsewhere they could not have met. A job is taken once
  (`Once`); the sender's copy of a message to oneself is queued before the recipient's
  (`Ordered`); and a place that did not race is `Calm`: it has one document at most
  (`One`), one persist may be writing it (`OneWriter`), a receipt is handled there
  only after all copies that will ever be saved there were (`AfterCopies`, with `Closed`),
  and so what a receipt wrote stays (`Stays`). A replay is of a copy shown before
  (`Replays`), and the place it is written at has raced when it is taken.

### Chat21Client

* `NoStaleCallback`, from `StaleInv`: an id belongs to one callback, and to none of the
  registry once it is stale.
* `AnsweredOnce`, from `AnswerInv`: each answer to `connect()` and `close()` is followed
  back to the one packet that causes it. An object subscribes for the first time once
  (`ConnectOnce`), this packet or its answer is in one place (`FirstOnce`, with `Single`),
  the same of the unsubscribe (`UnsubOnce`), and a request answers twice only if its
  callback threw (`RequestsOnce`).
* `ListensWhenReady`, from `ListenInv`: the broker's session belongs to the connection that
  is up (`SessionOK`), and on that of a client that did not call `connect()` twice at once,
  every message has the answer of a subscription before it (`MessagesFollow`), whose
  callback installs the listener; `Subscribes` says why one that listens stays subscribed.
* `PresenceSettles`, from `PresenceInv`: the last report of a user that is on its way,
  or, if none is, the status stored, is "online", or will be (`Announcing`), when all the
  user's clients have a session, and is "online" only while one has or after one took
  leave with a DISCONNECT, which publishes no will.

### LegacyServer

* `TypeOK`, from `CoreInv`. Handlers read the messages, timelines and views that a record
  names, so `TypeInv` says of every record on a connection, on a queue or at the
  database that it is `Good`: about a message there is; what is stored or reported of a
  copy was shown to its client, or its topic was too long; what is stored of a receipt was
  told, or could not be. A process that does not start never connects (`StartedOnly`).
* `ToldFirst`, from `ToldInv`: with `Good` records, every write keeps `StoredIsTold`. That a
  cancelled publication runs its callback at once is in `Cut`: what that callback notifies and
  saves is `Good`, for the topic was too long.
* `Reported`, from `ReportInv`. It is about rest, where everything has arrived; the
  invariant says where it was before: as long as nothing was lost, the notification of a
  copy shown is posted, on the `webhooks` queue or on a connection (`OnWay`), and that of a
  presence may still be the presence message on the `messages` queue. Who notifies is who
  publishes the copy, and only processes that consume the `messages` queue have copies
  on their connections or groups to look up (`ProcsOK`), which `Reported` requires to
  have the webhooks on. A step that loses something has nothing to show, so the lemmas are
  about what a handler does whole (`DoWhole`) on channels that are up (`WholeUp`); a fault
  that loses nothing leaves all records where they were (`BreaksLeave`).
* `ViewMatchesStore`, from `MatchInv`. Equality at rest is not inductive either: a client
  is told first and the database catches up, through records that several processes carry
  on independently. Every step takes at most one record, from a queue, a connection or the
  database, and brings those that come of it (`Traffic`): `Stems` says what may come of a
  record, `Leads` what must. All of it is said of a deployment that has lost nothing; on
  this rest
  - where records come from (`OriginsOK`): a receipt is the recipient's, of a message it has
    read, and conversations are archived only where messages update them; a receipt being
    saved was told to the other side (`ReceiptsOK`);
  - that a copy on its way to its client is in one place, and not shown yet (`ComingOK`), so
    that it starts being stored once, and that nothing which was read of a timeline that did
    not race is still being stored (`ReadOK`): a receipt is never overwritten;
  - that the status told is stored, or a record under way will store it (`StatusesOK`), and
    the same of the members of the group (`GroupOK`);
  - that one activity at most of a conversation that did not race is under way, and finds
    the view and the document as it needs them (`Finds`), and that both agree when there is
    none (`ConversationsOK`).

The proofs found places where the arms of a `CASE` of `ChatStore` and of `LegacyServer`
overlapped, with equal values in every run; they are disjoint now.

### The other modules

`AmqpLink_proofs`: `OneLink` and `StopsForGood`, from `LinkInv`: connections are numbered
in order and only the last may be alive (`Numbered`, `OnlyLast`); an attempt is
under way only while none is (`OneAttempt`), and none before the start (`NotYet`); channels
live on a live connection, the worker's after the publisher's (`Channels`); after the end of
a connection made without autoRestart nothing is attempted (`Last`, `Ending`).

`RateManager_proofs`: `AdmissionsAreCovered` and `DenialsAreEarned`, from `RateInv`. The
law is about the stored bucket, but what admits a call is the copy of it that the call
read; so the law is stated for every SET and GET in the pipe and every reply not yet
handled, each with the admissions it does not know of (`PipeCovered`, `RepliesCovered`); a
bucket that expires gives what it lacked, which `forgotten` has. `BucketsEarned` says of each
copy that what it lacks was handed out. `ExpiryGivesNothing`: a stored bucket lives its whole
time from its timestamp on (`Fresh`), so with `LongLived` it was full again when it expired.

`GroupCache_proofs`: `UpdatedUnlessRaced`, from `CacheInv`: announcements come in order
(`Ordered`), a handler has one GET (`OneGet`), and, unless raced or crashed, the list
that a GET will find, given the last SET before it in the pipe, is no older than what its
handler was told (`PipeFresh`, `GotFresh`).

`Webhooks_proofs`: `PostedAsAsked`, from `HooksInv`: the jobs on the queue and on the wire
are of different events, none of them posted or being posted, and name only endpoints that
were asked for (`OnTheWay`); this survives a cut, which keeps a part of them.

### Only model-checked

* Liveness (`AddresseesAreStored`, `CacheConverges`, `RaisedIsPosted`, `CallsAreAnswered`,
  `ComesBack` and the `Settles` of three modules): fairness and ENABLED are out of the
  prover's reach. Every safety property of a passing run is proved.

## Not modelled

* List queries (`lastMessages`, `lastConversations` and the like, in the client and in
  `chatdb`): they change no state.
* `saveOrUpdateGroup` and the Redis hash operations: nothing in the observer calls them.
* The payloads of the presence and receipt analytics events; their connection is in
  `AmqpLink`, the delivered event in `Delivery`.
* Redis in the JavaScript server: off by default there.
* The earlier releases of the JavaScript client: required by nothing.
* Metrics, logging, constants and types: no state that the protocol depends on.
* Tests and benchmarks: read for what they expect of the server.

Left for later: the composition of `Delivery` with the consumer in `ChatStore`, which
`LegacyServer` has for the JavaScript server only; several observers sharing one Redis; and
the one hazard without a property, the crash that a Redis error in `saveGroupInCache` causes
while the clients are being notified of the update (`handlers.ts:555`).
