------------------------------ MODULE AmqpLink ------------------------------
(***************************************************************************)
(* The observer as a process: startServer() and what it waits for, the     *)
(* AMQP connection startMQ() makes and makes again, with its publisher     *)
(* channel, its worker channel and its consumers, the connection to the    *)
(* analytics broker, and stopServer().                                     *)
(*                                                                         *)
(* Connections are numbered as they are opened.  amqplib reports the end   *)
(* of one by "error" and "close", or by "close" alone, and fails what was  *)
(* being opened on it.  A promise of startServer() that is rejected ends   *)
(* the process, since nobody catches it.                                   *)
(***************************************************************************)
EXTENDS Naturals, Sequences, FiniteSets, FiniteSetsExt

CONSTANTS
  Config,      \* the configurations the process may be started with
  MaxConn,     \* bound: connections opened
  MaxAttempt,  \* bound: the attempt number, where the delay no longer grows
  MaxFaults,   \* bound: failed attempts, lost connections, channel errors
  MaxCalls     \* bound: calls of the setters

Queue == {"messages", "persist"}
Switch == {"unset", "true", "false"}

\* active_queues, the AUTO_RESTART of the environment, whether Redis and the
\* analytics are configured.
ConfigType == [queues : SUBSET Queue, env : Switch, redis : BOOLEAN, analytics : BOOLEAN]

ASSUME LinkAssumption ==
  /\ Config \subseteq ConfigType
  /\ MaxConn \in Nat /\ MaxAttempt \in Nat /\ MaxFaults \in Nat /\ MaxCalls \in Nat

Conn == 1 .. MaxConn

\* One startMQ(): waiting for its timer, or connecting; the autoRestart it has
\* read is kept by the handlers of the connection it opens.
Attempt == [timer : BOOLEAN, number : 0 .. MaxAttempt, auto : BOOLEAN]

VARIABLES
  config,
  alive,               \* the process runs
  step,                \* what startServer() waits for
  started,             \* the promise of start()
  webhook_enabled,     \* observerState.webhook_enabled
  webhooks,            \* the Webhooks object: "none", or its enabled
  autoRestartProperty,
  attempts,            \* the startMQ() under way
  amqpConn,            \* observerState.amqpConn, 0 for null
  conn,                \* each connection: its state, and autoRestart
  opening,             \* what is being opened on each connection
  pubChannel,          \* the connection of observerState.pubChannel, 0 for null
  asserting,           \* queues whose assertQueue() is unanswered, per connection
  consuming,           \* queues consumed, per connection
  analytics,           \* the analytics connection and its channel
  stopping,            \* stopServer()
  stopped,             \* the connection it has found closed or seen close, or 0
  faults, calls        \* counters of the bounds

process == <<config, alive, step, started>>
switches == <<webhook_enabled, webhooks, autoRestartProperty, calls>>
channels == <<opening, pubChannel, asserting, consuming>>
link == <<attempts, amqpConn, conn>>
ending == <<stopping, stopped>>
vars == <<process, switches, link, channels, analytics, ending, faults>>

TypeOK ==
  /\ config \in Config
  /\ alive \in BOOLEAN
  /\ step \in {"mongo", "redis", "webhooks", "amqp", "analytics", "started"}
  /\ started \in {"pending", "resolved", "rejected"}
  /\ webhook_enabled \in BOOLEAN
  /\ webhooks \in {"none", "on", "off"}
  /\ autoRestartProperty \in Switch
  /\ attempts \in Seq(Attempt)
  /\ amqpConn \in 0 .. MaxConn
  /\ conn \in [Conn -> [state : {"none", "open", "closing", "closed"}, auto : BOOLEAN]]
  /\ opening \in [Conn -> {"nothing", "publisher", "worker"}]
  /\ pubChannel \in 0 .. MaxConn
  /\ asserting \in [Conn -> SUBSET Queue]
  /\ consuming \in [Conn -> SUBSET Queue]
  /\ analytics \in {"none", "connecting", "opening", "open", "closed"}
  /\ stopping \in {"no", "analytics", "amqp", "stopped"}
  /\ stopped \in 0 .. MaxConn
  /\ faults \in 0 .. MaxFaults
  /\ calls \in 0 .. MaxCalls

Init ==
  /\ config \in Config
  /\ alive = TRUE /\ step = "mongo" /\ started = "pending"
  /\ webhook_enabled \in BOOLEAN /\ webhooks = "none"
  /\ autoRestartProperty = "unset"
  /\ attempts = <<>> /\ amqpConn = 0
  /\ conn = [k \in Conn |-> [state |-> "none", auto |-> FALSE]]
  /\ opening = [k \in Conn |-> "nothing"]
  /\ pubChannel = 0
  /\ asserting = [k \in Conn |-> {}]
  /\ consuming = [k \in Conn |-> {}]
  /\ analytics = "none"
  /\ stopping = "no" /\ stopped = 0
  /\ faults = 0 /\ calls = 0

\* process.exit(), or an exception nobody catches.
Exit ==
  /\ alive' = FALSE
  /\ attempts' = <<>>
  /\ conn' = [k \in Conn |-> IF conn[k].state = "none" THEN conn[k]
                             ELSE [conn[k] EXCEPT !.state = "closed"]]
  /\ opening' = [k \in Conn |-> "nothing"]
  /\ asserting' = [k \in Conn |-> {}]
  /\ consuming' = [k \in Conn |-> {}]
  /\ UNCHANGED <<config, step, started, switches, amqpConn, pubChannel,
                 analytics, ending>>

Broken == faults < MaxFaults /\ faults' = faults + 1

-----------------------------------------------------------------------------
(* Switches.                                                               *)

setWebHookEnabled(enabled) ==
  /\ alive /\ calls < MaxCalls
  /\ calls' = calls + 1
  /\ webhook_enabled' = enabled
  /\ webhooks' = IF webhooks = "none" THEN "none" ELSE IF enabled THEN "on" ELSE "off"
  /\ UNCHANGED <<process, autoRestartProperty, link, channels, analytics,
                 ending, faults>>

setAutoRestart(value) ==
  /\ alive /\ calls < MaxCalls
  /\ calls' = calls + 1
  /\ autoRestartProperty' = value
  /\ UNCHANGED <<process, webhook_enabled, webhooks, link, channels, analytics,
                 ending, faults>>

\* Mutant: only the property, set to true, counts.
AutoRestartOnRequest == autoRestartProperty = "true"

\* AUTO_RESTART of the environment goes before the property; unset is on.
AutoRestart ==
  LET value == IF config.env # "unset" THEN config.env ELSE autoRestartProperty
  IN value \in {"unset", "true"}

-----------------------------------------------------------------------------
(* startServer().                                                          *)

\* Redis and its rate manager are set up where they are configured; an error
\* there ends the process.
ConnectMongo ==
  /\ alive /\ step = "mongo"
  /\ step' = IF config.redis THEN "redis" ELSE "webhooks"
  /\ UNCHANGED <<config, alive, started, switches, link, channels, analytics,
                 ending, faults>>

connectRedis ==
  /\ alive /\ step = "redis"
  /\ \/ /\ step' = "webhooks"
        /\ UNCHANGED <<config, alive, started, switches, link, channels,
                       analytics, ending, faults>>
     \/ Broken /\ Exit

\* Mutant: the attempt is counted twice.
StartMQTwice(number) == [timer |-> FALSE, number |-> number + 1, auto |-> AutoRestart]

\* startMQ(): it reads autoRestart and connects.
startMQ(number) == [timer |-> FALSE, number |-> number, auto |-> AutoRestart]

\* The Webhooks object is made, and waited for, only if they are enabled now;
\* an error of it is logged.  Then start() is called.
StartWebhooks ==
  /\ alive /\ step = "webhooks"
  /\ webhooks' = IF webhook_enabled THEN "on" ELSE "none"
  /\ step' = "amqp"
  /\ attempts' = <<startMQ(0)>>
  /\ UNCHANGED <<config, alive, started, webhook_enabled, autoRestartProperty,
                 calls, amqpConn, conn, channels, analytics, ending, faults>>

\* start() has settled: the analytics connection comes last.
AfterStart ==
  /\ alive /\ step = "amqp"
  /\ \/ /\ started = "resolved"
        /\ step' = IF config.analytics THEN "analytics" ELSE "started"
        /\ analytics' = IF config.analytics THEN "connecting" ELSE "none"
        /\ UNCHANGED <<config, alive, started, switches, link, channels,
                       ending, faults>>
     \/ /\ started = "rejected"
        /\ Exit
        /\ UNCHANGED faults

\* startAnalyticsPublisher(): the connection, then its channel; an error of
\* either ends the process.
startAnalyticsPublisher ==
  /\ alive /\ step = "analytics"
  /\ \/ /\ analytics = "connecting"
        /\ analytics' = "opening"
        /\ UNCHANGED <<process, switches, link, channels, ending, faults>>
     \/ /\ analytics = "opening"
        /\ analytics' = "open"
        /\ step' = "started"
        /\ UNCHANGED <<config, alive, started, switches, link, channels,
                       ending, faults>>
     \/ /\ analytics \in {"connecting", "opening"}
        /\ Broken
        /\ Exit

\* The analytics connection closes: this is logged, and nothing opens it again.
AnalyticsLost ==
  /\ alive /\ analytics = "open"
  /\ Broken
  /\ analytics' = "closed"
  /\ UNCHANGED <<process, switches, link, channels, ending>>

-----------------------------------------------------------------------------
(* startMQ().                                                              *)

Replace(i, a) == [attempts EXCEPT ![i] = a]
Drop(i) == SubSeq(attempts, 1, i - 1) \o SubSeq(attempts, i + 1, Len(attempts))

TimerFires(i) ==
  /\ alive
  /\ attempts[i].timer
  /\ attempts' = Replace(i, startMQ(attempts[i].number))
  /\ UNCHANGED <<process, switches, amqpConn, conn, channels, analytics,
                 ending, faults>>

\* The broker is reached: whenConnected() starts to open the channels.
Connected(i) ==
  LET k == 1 + Cardinality({j \in Conn : conn[j].state # "none"}) IN
  /\ alive
  /\ ~ attempts[i].timer
  /\ k \in Conn
  /\ attempts' = Drop(i)
  /\ amqpConn' = k
  /\ conn' = [conn EXCEPT ![k] = [state |-> "open", auto |-> attempts[i].auto]]
  /\ opening' = [opening EXCEPT ![k] = "publisher"]
  /\ UNCHANGED <<process, switches, pubChannel, asserting, consuming, analytics,
                 ending, faults>>

\* It is not: another attempt after a delay that doubles, or the end.
ConnectFails(i) ==
  LET n == attempts[i].number IN
  /\ alive
  /\ ~ attempts[i].timer
  /\ Broken
  /\ \/ /\ attempts[i].auto
        /\ attempts' = Replace(i, [timer |-> TRUE, auto |-> TRUE,
                                   number |-> IF n < MaxAttempt THEN n + 1 ELSE n])
        /\ UNCHANGED <<process, switches, amqpConn, conn, channels, analytics, ending>>
     \/ /\ ~ attempts[i].auto
        /\ Exit

\* startPublisher(), then startWorker().
PublisherOpens(k) ==
  /\ opening[k] = "publisher" /\ conn[k].state = "open"
  /\ pubChannel' = k
  /\ opening' = [opening EXCEPT ![k] = "worker"]
  /\ started' = IF started = "pending" THEN "resolved" ELSE started
  /\ UNCHANGED <<config, alive, step, switches, link, asserting, consuming,
                 analytics, ending, faults>>

WorkerOpens(k) ==
  /\ opening[k] = "worker" /\ conn[k].state = "open"
  /\ asserting' = [asserting EXCEPT ![k] = config.queues]
  /\ opening' = [opening EXCEPT ![k] = "nothing"]
  /\ UNCHANGED <<process, switches, link, pubChannel, consuming, analytics,
                 ending, faults>>

\* assertQueue() has answered: the queue is bound to its topics and consumed.
QueueAsserted(k, q) ==
  /\ q \in asserting[k] /\ conn[k].state = "open"
  /\ asserting' = [asserting EXCEPT ![k] = @ \ {q}]
  /\ consuming' = [consuming EXCEPT ![k] = @ \cup {q}]
  /\ UNCHANGED <<process, switches, link, opening, pubChannel, analytics,
                 ending, faults>>

\* The "error" of either channel exits.
ChannelError(k) ==
  /\ alive /\ conn[k].state = "open"
  /\ opening[k] # "publisher"
  /\ Broken
  /\ Exit

\* Mutant: the restart forgets the autoRestart of the connection.
RestartAlways(k) == <<[timer |-> TRUE, number |-> 0, auto |-> AutoRestart]>>

\* The "close" handler starts again after a second, if the connection was made
\* with autoRestart.
Restart(k) ==
  IF conn[k].auto THEN <<[timer |-> TRUE, number |-> 0, auto |-> TRUE]>> ELSE <<>>

\* Mutant: the "error" handler starts again, as the "close" handler does.
RestartOnError(k) == Restart(k)

OnError(k) == <<>>

\* Connection k has ended, with or without an "error" first; that rejects the
\* promise of start() if it is still pending.
Ended(k, error) ==
  /\ conn' = [conn EXCEPT ![k].state = "closed"]
  /\ attempts' = attempts \o (IF error THEN OnError(k) ELSE <<>>) \o Restart(k)
  /\ started' = IF error /\ started = "pending" THEN "rejected" ELSE started
  /\ opening' = [opening EXCEPT ![k] = "nothing"]
  /\ asserting' = [asserting EXCEPT ![k] = {}]
  /\ consuming' = [consuming EXCEPT ![k] = {}]
  /\ UNCHANGED <<config, alive, step, switches, amqpConn, pubChannel, analytics>>

\* The callback of stopServer() is called when the connection has closed.
Stopped(k) ==
  \/ /\ stopping = "amqp" /\ k = amqpConn
     /\ stopping' = "stopped" /\ stopped' = k
  \/ /\ stopping # "amqp" \/ k # amqpConn
     /\ UNCHANGED ending

Lost(k) ==
  /\ conn[k].state \in {"open", "closing"}
  /\ Broken
  /\ \E error \in BOOLEAN : Ended(k, error)
  /\ Stopped(k)

\* closeOnErr(): a publish or a reply has failed.
closeOnErr ==
  /\ alive
  /\ amqpConn # 0 /\ conn[amqpConn].state = "open"
  /\ Broken
  /\ conn' = [conn EXCEPT ![amqpConn].state = "closing"]
  /\ UNCHANGED <<process, switches, attempts, amqpConn, channels, analytics, ending>>

\* The broker answers close().
CloseOk(k) ==
  /\ conn[k].state = "closing"
  /\ Ended(k, FALSE)
  /\ Stopped(k)
  /\ UNCHANGED faults

-----------------------------------------------------------------------------
(* stopServer().                                                           *)

\* amqpConn.close(callback): a connection that is closed already calls back
\* with an error.
CloseConn ==
  \/ /\ conn[amqpConn].state = "open"
     /\ conn' = [conn EXCEPT ![amqpConn].state = "closing"]
     /\ stopping' = "amqp"
     /\ UNCHANGED stopped
  \/ /\ conn[amqpConn].state = "closed"
     /\ stopping' = "stopped" /\ stopped' = amqpConn
     /\ UNCHANGED conn

\* Without a connection to close, or with one that is closing, it throws.
stopServer ==
  /\ alive /\ stopping = "no"
  /\ amqpConn # 0 /\ conn[amqpConn].state # "closing"
  /\ \/ /\ analytics \in {"opening", "open", "closed"}
        /\ stopping' = "analytics"
        /\ UNCHANGED <<conn, analytics, stopped>>
     \/ /\ analytics \in {"none", "connecting"}
        /\ CloseConn
        /\ UNCHANGED analytics
  /\ UNCHANGED <<process, switches, attempts, amqpConn, channels, faults>>

AnalyticsClosed ==
  /\ alive /\ stopping = "analytics"
  /\ analytics' = "closed"
  /\ CloseConn
  /\ UNCHANGED <<process, switches, attempts, amqpConn, channels, faults>>

-----------------------------------------------------------------------------

Starting ==
  \/ ConnectMongo \/ connectRedis \/ StartWebhooks \/ AfterStart
  \/ startAnalyticsPublisher

Connecting ==
  \/ \E i \in DOMAIN attempts : TimerFires(i) \/ Connected(i) \/ ConnectFails(i)
  \/ \E k \in Conn :
       \/ PublisherOpens(k) \/ WorkerOpens(k) \/ CloseOk(k)
       \/ \E q \in Queue : QueueAsserted(k, q)

Disturbance ==
  \/ \E enabled \in BOOLEAN : setWebHookEnabled(enabled)
  \/ \E value \in {"true", "false"} : setAutoRestart(value)
  \/ AnalyticsLost \/ closeOnErr
  \/ \E k \in Conn : ChannelError(k) \/ Lost(k)

Next == Starting \/ Connecting \/ Disturbance \/ stopServer \/ AnalyticsClosed

Spec == Init /\ [][Next]_vars

FairSpec == Spec /\ WF_vars(Starting) /\ WF_vars(Connecting) /\ WF_vars(AnalyticsClosed)

-----------------------------------------------------------------------------
(* Properties.                                                             *)

\* However connections fail, one is open or one attempt is under way, never two,
\* for the "error" and the "close" of a connection start one attempt between them;
\* and queues are consumed on no connection but the current one, whose publisher
\* channel is open by then: a handler that runs finds the channel its answers go
\* out on, or one that failed together with its own connection.
OneLink ==
  /\ Len(attempts)
       + Cardinality({k \in Conn : conn[k].state \in {"open", "closing"}}) <= 1
  /\ \A k \in Conn : consuming[k] # {} => k = amqpConn /\ k = pubChannel

\* stopServer() is final if the connection it closed was made with autoRestart
\* off.  Switching it off later is too late, and with it on the connection is
\* made again.
StopsForGood ==
  stopped # 0 /\ ~ conn[stopped].auto =>
    attempts = <<>> /\ \A k \in Conn : conn[k].state \in {"none", "closed"}

\* With autoRestart on, the process comes to consume its queues, whatever is
\* lost on the way, or it ends.
ConsumesAll ==
  amqpConn # 0 /\ conn[amqpConn].state = "open" /\ consuming[amqpConn] = config.queues

ComesBack ==
  config.env = "true" => [] <> (ConsumesAll \/ ~ alive)

=============================================================================
