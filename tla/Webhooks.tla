------------------------------ MODULE Webhooks ------------------------------
(***************************************************************************)
(* Webhooks: the events the observer's handlers raise, their way through   *)
(* the "webhooks" queue, and the requests to the configured endpoints.     *)
(*                                                                         *)
(* The object has a RabbitMQ connection of its own, a publisher and a      *)
(* worker channel on it, and settings that may change while it runs.  The  *)
(* queue is durable: what one process raised the next one may post.        *)
(***************************************************************************)
EXTENDS Naturals, Sequences, FiniteSets

CONSTANTS
  Event,        \* things that happen once: a delivery, a receipt, an archive, ...
  Kind,         \* what each event is
  Endpoint,     \* webhook URLs
  Configs,      \* the settings the process may be given
  MaxFaults     \* bound: failed publishes and posts, lost connections, crashes

Kinds == {"message-sent", "message-delivered", "message-return-receipt",
          "conversation-archived", "presence-change"}

\* webhook_enabled, webhook_endpoints and webhook_events_array, which the setters
\* of the observer keep alike in observerState and in the Webhooks object.
\* Endpoints that are not set are no endpoints: nothing is posted.
Config == [enabled : BOOLEAN, endpoints : SUBSET Endpoint, events : SUBSET Kinds]

ASSUME WebhooksAssumption ==
  /\ Kind \in [Event -> Kinds]
  /\ Configs \subseteq Config /\ Configs # {}
  /\ MaxFaults \in Nat

\* An event on its way to the endpoints in its payload.
Job == [event : Event, endpoints : SUBSET Endpoint]

VARIABLES
  config,           \* the settings
  raised,           \* events raised
  asked,            \* history: the endpoints set when each event was raised
  missed,           \* history: events published before the queue was bound
  serving,          \* startServer() has gone on to start the observer
  link,             \* "down", "connected", "publishing" or "working"
  pubChannel,       \* there is a publisher channel, open or closed
  dead,             \* channels of the connection that an error has closed
  wire,             \* publishes on the connection
  unconfirmed,      \* publishes that arrived and are not confirmed
  offlinePubQueue,  \* publishes that failed
  bound,            \* broker: the queue exists and is bound
  queue,            \* broker: the "webhooks" queue
  posting,          \* requests under way
  posts,            \* how often each event reached each endpoint
  faults

settings == <<config, serving>>
events == <<raised, asked, missed>>
publisher == <<link, pubChannel, dead, wire, unconfirmed, offlinePubQueue>>
broker == <<bound, queue>>
requests == <<posting, posts>>
vars == <<settings, events, publisher, broker, requests, faults>>

TypeOK ==
  /\ config \in Configs
  /\ raised \subseteq Event /\ missed \subseteq raised
  /\ asked \in [Event -> SUBSET Endpoint]
  /\ serving \in BOOLEAN /\ pubChannel \in BOOLEAN /\ bound \in BOOLEAN
  /\ link \in {"down", "connected", "publishing", "working"}
  /\ link \in {"publishing", "working"} => pubChannel /\ serving
  /\ dead \subseteq {"publisher", "worker"}
  /\ wire \in Seq(Job) /\ queue \in Seq(Job)
  /\ unconfirmed \subseteq Job /\ offlinePubQueue \subseteq Job
  /\ posting \subseteq Event \X Endpoint
  /\ posts \in [Event \X Endpoint -> Nat]
  /\ faults \in 0 .. MaxFaults

Init ==
  /\ config \in Configs
  /\ raised = {} /\ asked = [e \in Event |-> {}] /\ missed = {}
  /\ serving = FALSE
  /\ link = "down" /\ pubChannel = FALSE /\ dead = {}
  /\ wire = <<>> /\ unconfirmed = {} /\ offlinePubQueue = {}
  /\ bound = FALSE /\ queue = <<>>
  /\ posting = {} /\ posts = [p \in Event \X Endpoint |-> 0]
  /\ faults = 0

-----------------------------------------------------------------------------
(* The settings.                                                           *)

\* setWebHookEnabled(), setWebHookEndpoints() and setWebHookEvents().
Configure(c) ==
  /\ config' = c
  /\ UNCHANGED <<serving, events, publisher, broker, requests, faults>>

-----------------------------------------------------------------------------
(* Raising an event: WHnotify...() and process_presence().                 *)

\* Only message events are filtered by webhook_events_array.
Enabled(e) ==
  /\ config.enabled
  /\ Kind[e] \in config.events \cup {"conversation-archived", "presence-change"}

\* Mutant: no notification carries its endpoints.
JobBare(e) == [event |-> e, endpoints |-> {}]

\* temp_webhook_endpoints, which receipts and archives are published without.
JobOf(e) ==
  [event |-> e,
   endpoints |-> IF Kind[e] \in {"message-return-receipt", "conversation-archived"}
                 THEN {} ELSE config.endpoints]

Raise(e) ==
  /\ serving /\ e \notin raised
  /\ raised' = raised \cup {e}
  /\ asked' = [asked EXCEPT ![e] =
       IF Enabled(e) THEN config.endpoints ELSE {}]

\* Webhooks are off, or the event is not among those configured.
Skip(e) ==
  /\ Raise(e) /\ ~ Enabled(e)
  /\ UNCHANGED <<missed, settings, publisher, broker, requests, faults>>

Open == link \in {"publishing", "working"} /\ "publisher" \notin dead
Consuming == link = "working" /\ "worker" \notin dead

Publish(e) ==
  /\ Raise(e) /\ Enabled(e) /\ Kind[e] # "presence-change" /\ Open
  /\ wire' = Append(wire, JobOf(e))
  /\ UNCHANGED <<missed, settings, link, pubChannel, dead, unconfirmed, offlinePubQueue,
                 broker, requests, faults>>

\* A closed channel throws, and the event is parked; without a channel it is not.
PublishClosed(e) ==
  /\ Raise(e) /\ Enabled(e) /\ Kind[e] # "presence-change" /\ ~ Open
  /\ offlinePubQueue' = offlinePubQueue \cup (IF pubChannel THEN {JobOf(e)} ELSE {})
  /\ UNCHANGED <<missed, settings, link, pubChannel, dead, wire, unconfirmed, broker,
                 requests, faults>>

\* Presence goes over the observer's own channel.
PublishPresence(e) ==
  /\ Raise(e) /\ Enabled(e) /\ Kind[e] = "presence-change"
  /\ queue' = IF bound THEN Append(queue, JobOf(e)) ELSE queue
  /\ missed' = IF bound THEN missed ELSE missed \cup {e}
  /\ UNCHANGED <<settings, publisher, bound, requests, faults>>

PublishPresenceFails(e) ==
  /\ faults < MaxFaults
  /\ Raise(e) /\ Enabled(e) /\ Kind[e] = "presence-change"
  /\ faults' = faults + 1
  /\ UNCHANGED <<missed, settings, publisher, broker, requests>>

-----------------------------------------------------------------------------
(* The broker.                                                             *)

EventsOf(jobs) == {jobs[i].event : i \in DOMAIN jobs}

\* Publishes are put on the queue, or dropped while nothing is bound.
Arrive(jobs) ==
  missed' = IF bound THEN missed ELSE missed \cup EventsOf(jobs)

Route ==
  /\ wire # <<>>
  /\ wire' = Tail(wire)
  /\ Arrive(<<Head(wire)>>)
  /\ queue' = IF bound THEN Append(queue, Head(wire)) ELSE queue
  /\ unconfirmed' = unconfirmed \cup {Head(wire)}
  /\ UNCHANGED <<raised, asked, settings, link, pubChannel, dead, offlinePubQueue, bound,
                 requests, faults>>

Confirm ==
  /\ \E j \in unconfirmed : unconfirmed' = unconfirmed \ {j}
  /\ UNCHANGED <<settings, events, link, pubChannel, dead, wire, offlinePubQueue, broker,
                 requests, faults>>

-----------------------------------------------------------------------------
(* The worker.                                                             *)

\* A notification without endpoints is discarded.  Archives, discarded while
\* webhooks are off as well, never come with any.
Recipients(job) == job.endpoints

\* processMsg(): the request to every endpoint is started at once.
Take ==
  /\ Consuming /\ queue # <<>>
  /\ queue' = Tail(queue)
  /\ posting' = posting \cup
       {<<Head(queue).event, ep>> : ep \in Recipients(Head(queue))}
  /\ UNCHANGED <<settings, events, publisher, bound, posts, faults>>

\* WHsendData() reaches the endpoint; its callback only logs.
Post(p) ==
  /\ p \in posting
  /\ posting' = posting \ {p}
  /\ posts' = [posts EXCEPT ![p] = @ + 1]
  /\ UNCHANGED <<settings, events, publisher, broker, faults>>

\* The endpoint cannot be reached in time; nothing is tried again.
FailPost(p) ==
  /\ faults < MaxFaults
  /\ p \in posting
  /\ posting' = posting \ {p}
  /\ faults' = faults + 1
  /\ UNCHANGED <<settings, events, publisher, broker, posts>>

-----------------------------------------------------------------------------
(* The connection.                                                         *)

\* Mutant: only the first connection is tried for.
ConnectOnce ==
  /\ link = "down" /\ ~ pubChannel
  /\ link' = "connected"
  /\ UNCHANGED <<settings, events, pubChannel, dead, wire, unconfirmed, offlinePubQueue,
                 broker, requests, faults>>

\* startMQ(), from start(), from its timer or from the close event.
Connect ==
  /\ link = "down"
  /\ link' = "connected"
  /\ UNCHANGED <<settings, events, pubChannel, dead, wire, unconfirmed, offlinePubQueue,
                 broker, requests, faults>>

\* Mutant: what was parked is published on the new channel.
StartPublisherDrains ==
  /\ link = "connected"
  /\ link' = "publishing" /\ pubChannel' = TRUE /\ serving' = TRUE
  /\ \E s \in [1 .. Cardinality(offlinePubQueue) -> offlinePubQueue] :
       /\ {s[i] : i \in DOMAIN s} = offlinePubQueue
       /\ wire' = s
  /\ offlinePubQueue' = {}
  /\ UNCHANGED <<config, events, dead, unconfirmed, broker, requests, faults>>

\* Mutant: the channel is not stored.
StartPublisherUnset ==
  /\ link = "connected"
  /\ link' = "publishing" /\ serving' = TRUE
  /\ UNCHANGED <<config, events, pubChannel, dead, wire, unconfirmed, offlinePubQueue, broker,
                 requests, faults>>

\* startPublisher() resolves start(), and startServer() goes on.
StartPublisher ==
  /\ link = "connected"
  /\ link' = "publishing" /\ pubChannel' = TRUE /\ serving' = TRUE
  /\ UNCHANGED <<config, events, dead, wire, unconfirmed, offlinePubQueue, broker, requests,
                 faults>>

\* startWorker(), which nobody waits for, declares, binds and consumes the queue.
StartWorker ==
  /\ link = "publishing"
  /\ link' = "working" /\ bound' = TRUE
  /\ UNCHANGED <<settings, events, pubChannel, dead, wire, unconfirmed, offlinePubQueue,
                 queue, requests, faults>>

Pending == unconfirmed \cup {wire[i] : i \in DOMAIN wire}

\* Something ends: n of the wire arrive, k of the queue, pushed to the worker
\* (noAck), are lost.
Lose(n, k) ==
  LET arrived == SubSeq(wire, 1, n)
      left == SubSeq(queue, k + 1, Len(queue)) IN
  /\ Arrive(arrived)
  /\ queue' = IF bound THEN left \o arrived ELSE left
  /\ wire' = <<>>
  /\ unconfirmed' = {}
  /\ faults' = faults + 1
  /\ UNCHANGED <<raised, asked, bound>>

\* The connection ends.
Sever ==
  /\ link' = "down" /\ dead' = {}
  /\ \E n \in 0 .. Len(wire), k \in 0 .. (IF Consuming THEN Len(queue) ELSE 0) : Lose(n, k)

\* RabbitMQ closes the publisher's channel with an error, which is logged and no more.
\* A pending publish whose callback gets the error closes the connection, as below.
PublisherFails ==
  /\ faults < MaxFaults /\ Open
  /\ dead' = dead \cup {"publisher"}
  /\ \E n \in 0 .. Len(wire) : Lose(n, 0)
  /\ UNCHANGED <<settings, link, pubChannel, offlinePubQueue, requests>>

\* The same of the worker's channel: nothing consumes the queue any more.
WorkerFails ==
  /\ faults < MaxFaults /\ Consuming
  /\ dead' = dead \cup {"worker"}
  /\ \E k \in 0 .. Len(queue) : queue' = SubSeq(queue, k + 1, Len(queue))
  /\ faults' = faults + 1
  /\ UNCHANGED <<settings, events, link, pubChannel, wire, unconfirmed, offlinePubQueue,
                 bound, requests>>

\* Lost, or closed by publish() on a negative confirm.  The callbacks of pending
\* publishes get an error and park them, or none; an error before start() is
\* resolved rejects it, and startServer() goes on all the same.
Disconnect ==
  /\ faults < MaxFaults /\ link # "down"
  /\ Sever
  /\ \E parked \in SUBSET Pending : offlinePubQueue' = offlinePubQueue \cup parked
  /\ serving' \in {serving, TRUE}
  /\ UNCHANGED <<config, pubChannel, requests>>

\* The process ends; the next one may have other settings.
Crash ==
  /\ faults < MaxFaults
  /\ Sever
  /\ offlinePubQueue' = {} /\ pubChannel' = FALSE /\ serving' = FALSE
  /\ config' \in Configs
  /\ posting' = {}
  /\ UNCHANGED posts

-----------------------------------------------------------------------------

Happen(e) ==
  \/ Skip(e) \/ Publish(e) \/ PublishClosed(e)
  \/ PublishPresence(e) \/ PublishPresenceFails(e)

Next ==
  \/ \E c \in Configs : Configure(c)
  \/ \E e \in Event : Happen(e)
  \/ Route \/ Confirm \/ Take
  \/ \E p \in posting : Post(p) \/ FailPost(p)
  \/ Connect \/ StartPublisher \/ StartWorker
  \/ Disconnect \/ PublisherFails \/ WorkerFails \/ Crash

Spec == Init /\ [][Next]_vars

\* startMQ() retries for ever, the broker routes and pushes, and a request ends,
\* at the latest by its time limit.
Fairness ==
  /\ WF_vars(Connect) /\ WF_vars(StartPublisher) /\ WF_vars(StartWorker)
  /\ WF_vars(Route) /\ WF_vars(Confirm) /\ WF_vars(Take)
  /\ WF_vars(\E p \in posting : Post(p))

FairSpec == Spec /\ Fairness

-----------------------------------------------------------------------------
(* Properties.                                                             *)

\* An endpoint is given an event at most once, through lost confirms, reconnections
\* and restarts, for nothing parked is published again and nothing is posted again;
\* and only if it was among the endpoints when the event was raised and the event
\* was wanted then, however the settings change before the job is taken, possibly
\* by another process.
PostedAsAsked ==
  \A e \in Event, ep \in Endpoint :
    /\ posts[<<e, ep>>] <= 1
    /\ posts[<<e, ep>>] > 0 \/ <<e, ep>> \in posting => ep \in asked[e]

\* While nothing fails, the message and presence events that were wanted reach every
\* endpoint set at the time, but for those raised before the queue was first bound:
\* startServer() does not wait for the worker.
RaisedIsPosted ==
  \A e \in Event, ep \in Endpoint :
    Kind[e] \in {"message-sent", "message-delivered", "presence-change"}
      /\ ep \in asked[e]
    ~> posts[<<e, ep>>] = 1 \/ faults > 0 \/ e \in missed

\* Whatever connection or process fails, there are a publisher and a worker again
\* and what is queued is worked off; only a worker whose channel alone has failed
\* leaves the queue as it is, for nothing makes that channel again.
Settles ==
  <>[](/\ link = "working" /\ wire = <<>> /\ posting = {}
       /\ "worker" \notin dead => queue = <<>>)

\* "WEBHOOK_EVENTS=message-sent,conversation-archived" (example.env:6): with this
\* setting an archived conversation is posted to the endpoints, while nothing fails.
ArchivedIsPosted ==
  \A e \in Event, ep \in Endpoint :
    Kind[e] = "conversation-archived" /\ ep \in asked[e]
    ~> posts[<<e, ep>>] = 1 \/ faults > 0 \/ e \in missed
=============================================================================
