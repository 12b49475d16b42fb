--------------------------- MODULE AmqpLink_proofs ---------------------------
(***************************************************************************)
(* Type correctness of AmqpLink, that it never has two links, and that     *)
(* stopServer() is final without autoRestart: for every configuration and  *)
(* any number of connections, attempts, faults and calls.                  *)
(***************************************************************************)
EXTENDS AmqpLink, TLAPS, SequenceTheorems, FiniteSetTheorems

Live(k) == conn[k].state \in {"open", "closing"}

\* Connections are numbered in order, and only the last can be alive.
Numbered == \A k \in Conn : conn[k].state # "none" <=> k <= amqpConn
OnlyLast == \A k \in Conn : Live(k) => k = amqpConn

\* An attempt is under way only while no connection is alive, and one at most.
OneAttempt ==
  /\ Len(attempts) <= 1
  /\ attempts # <<>> => \A k \in Conn : ~ Live(k)

\* Before start() nothing was attempted.
NotYet ==
  step \in {"mongo", "redis", "webhooks"} => attempts = <<>> /\ amqpConn = 0

\* What a channel is used for needs its connection, and the worker's channel is
\* opened after the publisher's.
Uses(k) == opening[k] # "nothing" \/ asserting[k] # {} \/ consuming[k] # {}
Works(k) == opening[k] = "worker" \/ asserting[k] # {} \/ consuming[k] # {}

Channels ==
  \A k \in Conn : (Uses(k) => Live(k)) /\ (Works(k) => pubChannel = k)

\* The end of a connection made without autoRestart is the last one.
Last ==
  amqpConn # 0 /\ conn[amqpConn].state = "closed" /\ ~ conn[amqpConn].auto
    => attempts = <<>>

Ending ==
  stopped # 0 =>
    /\ conn[stopped].state = "closed"
    /\ ~ conn[stopped].auto => stopped = amqpConn

LinkInv ==
  /\ TypeOK
  /\ Numbered /\ OnlyLast /\ OneAttempt /\ NotYet /\ Channels /\ Last /\ Ending

-----------------------------------------------------------------------------

LEMMA ConfigTypes ==
  ASSUME TypeOK
  PROVE  /\ config.queues \subseteq Queue
         /\ config.env \in Switch
         /\ AutoRestart \in BOOLEAN
<1>1. config \in ConfigType
  BY LinkAssumption DEF TypeOK, LinkAssumption
<1> QED BY <1>1 DEF ConfigType, AutoRestart

LEMMA StartTypes ==
  ASSUME TypeOK, NEW n \in 0 .. MaxAttempt
  PROVE  startMQ(n) \in Attempt
BY ConfigTypes DEF startMQ, Attempt

\* With one attempt under way, what is done to it is done to the whole list.
LEMMA TheAttempt ==
  ASSUME attempts \in Seq(Attempt), Len(attempts) <= 1, NEW i \in DOMAIN attempts
  PROVE  /\ i = 1 /\ attempts # <<>> /\ Len(attempts) = 1
         /\ attempts[i] \in Attempt
         /\ Drop(i) = <<>>
         /\ \A a \in Attempt : Replace(i, a) = <<a>>
<1>1. i = 1 /\ attempts # <<>> /\ Len(attempts) = 1 /\ attempts[i] \in Attempt
  <2>1. DOMAIN attempts = 1 .. Len(attempts) /\ Len(attempts) \in Nat
    BY LenProperties
  <2>2. i = 1 /\ Len(attempts) = 1
    BY <2>1
  <2>3. attempts # <<>>
    BY <2>2
  <2>4. attempts[i] \in Attempt
    BY <2>1, <2>2, ElementOfSeq
  <2> QED BY <2>2, <2>3, <2>4
<1>2. SubSeq(attempts, 1, 0) = <<>> /\ SubSeq(attempts, 2, 1) = <<>>
  BY <1>1
<1>3. Drop(i) = <<>>
  BY <1>1, <1>2 DEF Drop
<1>4. ASSUME NEW a \in Attempt PROVE Replace(i, a) = <<a>>
  BY <1>1 DEF Replace
<1> QED BY <1>1, <1>3, <1>4

LEMMA Singleton ==
  ASSUME NEW S, NEW a \in S
  PROVE  <<a>> \in Seq(S) /\ <<>> \in Seq(S) /\ Len(<<a>>) = 1 /\ <<a>> # <<>>
OBVIOUS

LEMMA InitInv == Init => LinkInv
<1> SUFFICES ASSUME Init PROVE LinkInv
  OBVIOUS
<1>1. TypeOK
  BY LinkAssumption DEF Init, TypeOK, LinkAssumption, ConfigType, Switch
<1>2. Numbered /\ OnlyLast /\ OneAttempt /\ NotYet /\ Channels /\ Last /\ Ending
  BY LinkAssumption DEF Init, Numbered, OnlyLast, OneAttempt, NotYet, Channels,
     Last, Ending, Live, Uses, Works, Conn, LinkAssumption
<1> QED BY <1>1, <1>2 DEF LinkInv

\* The end of the process closes every connection.
LEMMA ExitInv ==
  ASSUME LinkInv, Exit, faults' \in 0 .. MaxFaults
  PROVE  LinkInv'
<1>1. TypeOK'
  <2>1. attempts' \in Seq(Attempt)
    BY DEF Exit
  <2>2. conn' \in [Conn -> [state : {"none", "open", "closing", "closed"}, auto : BOOLEAN]]
    BY DEF Exit, LinkInv, TypeOK
  <2>3. /\ opening' \in [Conn -> {"nothing", "publisher", "worker"}]
        /\ asserting' \in [Conn -> SUBSET Queue] /\ consuming' \in [Conn -> SUBSET Queue]
        /\ alive' \in BOOLEAN
    BY DEF Exit
  <2>4. /\ UNCHANGED <<config, step, started, amqpConn, pubChannel, analytics>>
        /\ UNCHANGED <<webhook_enabled, webhooks, autoRestartProperty, calls>>
        /\ UNCHANGED <<stopping, stopped>>
    BY DEF Exit, switches, ending
  <2> QED BY <2>1, <2>2, <2>3, <2>4 DEF LinkInv, TypeOK
<1>2. \A k \in Conn : ~ Live(k)' /\ (conn'[k].state = "none" <=> conn[k].state = "none")
                      /\ conn'[k].auto = conn[k].auto
  BY DEF Exit, LinkInv, TypeOK, Live
<1>3. (Numbered /\ OnlyLast /\ OneAttempt /\ NotYet /\ Channels /\ Last /\ Ending)'
  <2>1. Numbered' /\ OnlyLast'
    BY <1>2 DEF Exit, LinkInv, Numbered, OnlyLast
  <2>2. OneAttempt' /\ NotYet' /\ Last'
    BY DEF Exit, LinkInv, OneAttempt, NotYet, Last
  <2>3. Channels'
    BY DEF Exit, LinkInv, Channels, Uses, Works
  <2>4. Ending'
    BY <1>2, LinkAssumption DEF Exit, LinkInv, TypeOK, Ending, ending, Conn, LinkAssumption
  <2> QED BY <2>1, <2>2, <2>3, <2>4
<1> QED BY <1>1, <1>3 DEF LinkInv

-----------------------------------------------------------------------------
(* Every step keeps the invariant.                                         *)

LEMMA SwitchesInv ==
  ASSUME LinkInv,
         \/ \E enabled \in BOOLEAN : setWebHookEnabled(enabled)
         \/ \E value \in {"true", "false"} : setAutoRestart(value)
  PROVE  LinkInv'
<1>1. TypeOK'
  BY LinkAssumption DEF LinkInv, TypeOK, setWebHookEnabled, setAutoRestart, process, link,
     channels, ending, Switch, LinkAssumption
<1>2. UNCHANGED <<conn, attempts, amqpConn, step, opening, asserting, consuming,
                  pubChannel, stopped>>
  BY DEF setWebHookEnabled, setAutoRestart, process, link, channels, ending
<1> QED BY <1>1, <1>2 DEF LinkInv, Numbered, OnlyLast, OneAttempt, NotYet, Channels,
           Last, Ending, Live, Uses, Works

\* Steps of startServer() and of the analytics connection.
LEMMA StartingInv ==
  ASSUME LinkInv, Starting \/ AnalyticsLost
  PROVE  LinkInv'
<1>1. CASE Exit /\ (Broken \/ UNCHANGED faults)
  <2>1. faults' \in 0 .. MaxFaults
    BY <1>1, LinkAssumption DEF Broken, LinkInv, TypeOK, LinkAssumption
  <2> QED BY <1>1, <2>1, ExitInv
<1>2. CASE StartWebhooks
  <2>1. attempts = <<>> /\ amqpConn = 0
    BY <1>2 DEF StartWebhooks, LinkInv, NotYet
  <2>2. startMQ(0) \in Attempt
    BY LinkAssumption, StartTypes DEF LinkInv, LinkAssumption
  <2>3. attempts' \in Seq(Attempt) /\ Len(attempts') = 1 /\ attempts' # <<>>
    BY <1>2, <2>2, Singleton DEF StartWebhooks
  <2>4. TypeOK'
    BY <1>2, <2>3 DEF StartWebhooks, LinkInv, TypeOK, channels, ending
  <2>5. \A k \in Conn : ~ Live(k)
    BY <2>1, LinkAssumption DEF LinkInv, OnlyLast, Conn, LinkAssumption
  <2> QED
    BY <1>2, <2>1, <2>3, <2>4, <2>5
    DEF StartWebhooks, LinkInv, Numbered, OnlyLast, OneAttempt, NotYet, Channels,
        Last, Ending, Live, Uses, Works, channels, ending
<1>3. CASE /\ UNCHANGED <<conn, attempts, amqpConn, opening, asserting, consuming,
                          pubChannel, stopped>>
           /\ step' \in {"mongo", "redis", "webhooks"} =>
                step \in {"mongo", "redis", "webhooks"}
           /\ TypeOK'
  BY <1>3 DEF LinkInv, Numbered, OnlyLast, OneAttempt, NotYet, Channels,
     Last, Ending, Live, Uses, Works
<1>4. CASE ConnectMongo
  <2>1. TypeOK'
    BY <1>4 DEF ConnectMongo, LinkInv, TypeOK, switches, link, channels, ending
  <2> QED BY <1>3, <1>4, <2>1 DEF ConnectMongo, switches, link, channels, ending
<1>5. CASE connectRedis
  <2>1. CASE step' = "webhooks" /\ UNCHANGED <<config, alive, started, switches, link,
                                  channels, analytics, ending, faults>>
    <3>1. TypeOK'
      BY <2>1 DEF LinkInv, TypeOK, switches, link, channels, ending
    <3> QED BY <1>3, <1>5, <2>1, <3>1 DEF connectRedis, link, channels, ending
  <2> QED BY <1>1, <1>5, <2>1 DEF connectRedis
<1>6. CASE AfterStart
  <2>1. CASE started = "resolved" /\ ~ (started = "rejected" /\ Exit)
    <3>1. TypeOK'
      BY <1>6, <2>1 DEF AfterStart, LinkInv, TypeOK, switches, link, channels, ending
    <3> QED BY <1>3, <1>6, <2>1, <3>1 DEF AfterStart, link, channels, ending
  <2> QED BY <1>1, <1>6, <2>1 DEF AfterStart
<1>7. CASE startAnalyticsPublisher
  <2>1. CASE /\ UNCHANGED <<config, alive, started, switches, link, channels, ending, faults>>
             /\ step' \in {step, "started"} /\ step = "analytics"
             /\ analytics' \in {"opening", "open"}
    <3>1. TypeOK'
      BY <2>1 DEF LinkInv, TypeOK, switches, link, channels, ending
    <3> QED BY <1>3, <2>1, <3>1 DEF link, channels, ending
  <2> QED BY <1>1, <1>7, <2>1 DEF startAnalyticsPublisher, process
<1>8. CASE AnalyticsLost
  <2>1. TypeOK'
    BY <1>8, LinkAssumption
    DEF AnalyticsLost, Broken, LinkInv, TypeOK, process, switches, link, channels, ending,
        LinkAssumption
  <2> QED BY <1>3, <1>8, <2>1 DEF AnalyticsLost, process, link, channels, ending
<1> QED BY <1>2, <1>4, <1>5, <1>6, <1>7, <1>8 DEF Starting

\* An attempt that is repeated, or one whose timer has fired.
LEMMA ReplacedInv ==
  ASSUME LinkInv, NEW i \in DOMAIN attempts, NEW a \in Attempt,
         attempts' = Replace(i, a),
         faults' \in 0 .. MaxFaults,
         UNCHANGED <<process, switches, amqpConn, conn, channels, analytics, ending>>
  PROVE  LinkInv'
<1>1. attempts' = <<a>> /\ attempts # <<>>
  BY TheAttempt DEF LinkInv, TypeOK, OneAttempt
<1>2. attempts' \in Seq(Attempt) /\ Len(attempts') = 1 /\ attempts' # <<>>
  BY <1>1, Singleton
<1>3. TypeOK'
  BY <1>2 DEF LinkInv, TypeOK, process, switches, channels, ending
<1>4. (Numbered /\ OnlyLast /\ OneAttempt /\ NotYet /\ Channels /\ Last /\ Ending)'
  BY <1>1, <1>2
  DEF LinkInv, Numbered, OnlyLast, OneAttempt, NotYet, Channels, Last, Ending,
      Live, Uses, Works, process, channels, ending
<1> QED BY <1>3, <1>4 DEF LinkInv

LEMMA TimerFiresInv ==
  ASSUME LinkInv, NEW i \in DOMAIN attempts, TimerFires(i)
  PROVE  LinkInv'
<1>1. attempts[i] \in Attempt
  BY TheAttempt DEF LinkInv, TypeOK, OneAttempt
<1>2. startMQ(attempts[i].number) \in Attempt
  BY <1>1, StartTypes DEF LinkInv, Attempt
<1>3. faults' \in 0 .. MaxFaults
  BY DEF TimerFires, LinkInv, TypeOK
<1> QED BY <1>2, <1>3, ReplacedInv DEF TimerFires

LEMMA ConnectFailsInv ==
  ASSUME LinkInv, NEW i \in DOMAIN attempts, ConnectFails(i)
  PROVE  LinkInv'
<1>1. attempts[i] \in Attempt
  BY TheAttempt DEF LinkInv, TypeOK, OneAttempt
<1>2. faults' \in 0 .. MaxFaults
  BY LinkAssumption DEF ConnectFails, Broken, LinkInv, TypeOK, LinkAssumption
<1>3. CASE Exit
  BY <1>2, <1>3, ExitInv
<1>4. CASE ~ Exit
  <2> DEFINE n == attempts[i].number
             a == [timer |-> TRUE, auto |-> TRUE,
                   number |-> IF n < MaxAttempt THEN n + 1 ELSE n]
  <2>1. a \in Attempt
    BY <1>1, LinkAssumption DEF Attempt, LinkAssumption
  <2>2. /\ attempts' = Replace(i, a)
        /\ UNCHANGED <<process, switches, amqpConn, conn, channels, analytics, ending>>
    BY <1>4 DEF ConnectFails
  <2> QED BY <1>2, <2>1, <2>2, ReplacedInv
<1> QED BY <1>3, <1>4

\* A new connection has the next number, and no other is alive.
LEMMA ConnectedInv ==
  ASSUME LinkInv, NEW i \in DOMAIN attempts, Connected(i)
  PROVE  LinkInv'
<1> DEFINE made == {j \in Conn : conn[j].state # "none"}
           k == 1 + Cardinality(made)
<1>1. attempts # <<>> /\ attempts[i] \in Attempt /\ Drop(i) = <<>>
  BY TheAttempt DEF LinkInv, TypeOK, OneAttempt
<1>2. k = amqpConn + 1
  <2>1. made = 1 .. amqpConn
    BY LinkAssumption DEF LinkInv, TypeOK, Numbered, Conn, LinkAssumption
  <2>2. amqpConn \in Nat
    BY LinkAssumption DEF LinkInv, TypeOK, LinkAssumption
  <2>3. Cardinality(1 .. amqpConn) = amqpConn
    BY <2>2, FS_Interval
  <2>4. Cardinality(made) = amqpConn
    BY <2>1, <2>3
  <2> HIDE DEF made
  <2> QED BY <2>2, <2>4
<1> HIDE DEF k
<1>3. /\ k \in Conn /\ attempts' = <<>> /\ amqpConn' = k
      /\ conn' = [conn EXCEPT ![k] = [state |-> "open", auto |-> attempts[i].auto]]
      /\ opening' = [opening EXCEPT ![k] = "publisher"]
      /\ UNCHANGED <<process, switches, pubChannel, asserting, consuming, analytics,
                     ending, faults>>
  BY <1>1 DEF Connected, k
<1>4. TypeOK'
  <2>1. conn' \in [Conn -> [state : {"none", "open", "closing", "closed"}, auto : BOOLEAN]]
    BY <1>1, <1>3 DEF LinkInv, TypeOK, Attempt
  <2>2. opening' \in [Conn -> {"nothing", "publisher", "worker"}]
    BY <1>3 DEF LinkInv, TypeOK
  <2>3. attempts' \in Seq(Attempt) /\ amqpConn' \in 0 .. MaxConn
    BY <1>3, LinkAssumption DEF Conn, LinkAssumption
  <2> QED BY <1>3, <2>1, <2>2, <2>3 DEF LinkInv, TypeOK, process, switches, ending
<1>5. /\ conn'[k].state = "open" /\ opening'[k] = "publisher"
      /\ \A j \in Conn : j # k => conn'[j] = conn[j] /\ opening'[j] = opening[j]
  BY <1>3 DEF LinkInv, TypeOK
<1>6. \A j \in Conn : ~ Live(j) /\ ~ Uses(j)
  BY <1>1 DEF LinkInv, OneAttempt, Channels
<1>7. Numbered'
  BY <1>2, <1>3, <1>5, LinkAssumption DEF LinkInv, TypeOK, Numbered, Conn, LinkAssumption
<1>8. OnlyLast' /\ OneAttempt'
  BY <1>3, <1>5, <1>6 DEF OnlyLast, OneAttempt, Live
<1>9. NotYet'
  BY <1>1, <1>3 DEF LinkInv, NotYet, process
<1>10. Channels'
  BY <1>3, <1>5, <1>6 DEF Channels, Uses, Works, Live
<1>11. Last'
  BY <1>3 DEF Last
<1>12. Ending'
  <2> SUFFICES ASSUME stopped # 0
               PROVE  conn'[stopped].state = "closed" /\ conn'[stopped].auto
    BY <1>3 DEF Ending, ending
  <2>1. stopped \in Conn /\ conn[stopped].state = "closed"
    BY LinkAssumption DEF LinkInv, TypeOK, Ending, Conn, LinkAssumption
  <2>2. conn[stopped].auto
    BY <1>1, <2>1 DEF LinkInv, Ending, Last
  <2>3. stopped # k
    BY <1>2, <2>1, LinkAssumption DEF LinkInv, Numbered, TypeOK, Conn, LinkAssumption
  <2> QED BY <1>5, <2>1, <2>2, <2>3
<1> QED BY <1>4, <1>7, <1>8, <1>9, <1>10, <1>11, <1>12 DEF LinkInv

\* The channels of a connection open one after the other.
LEMMA OpeningInv ==
  ASSUME LinkInv, NEW k \in Conn,
         \/ PublisherOpens(k) \/ WorkerOpens(k)
         \/ \E q \in Queue : QueueAsserted(k, q)
  PROVE  LinkInv'
<1>1. conn[k].state = "open" /\ Live(k) /\ k = amqpConn
  BY DEF PublisherOpens, WorkerOpens, QueueAsserted, Live, LinkInv, OnlyLast
<1>2. UNCHANGED <<config, step, conn, attempts, amqpConn, stopped, faults>>
  BY DEF PublisherOpens, WorkerOpens, QueueAsserted, process, link, ending
<1>3. TypeOK'
  <2>1. CASE PublisherOpens(k)
    BY <2>1, <1>1 DEF PublisherOpens, LinkInv, TypeOK, switches, link, ending
  <2>2. CASE WorkerOpens(k)
    BY <2>2, ConfigTypes DEF WorkerOpens, LinkInv, TypeOK, process, switches, link, ending
  <2>3. ASSUME NEW q \in Queue, QueueAsserted(k, q) PROVE TypeOK'
    <3>1. /\ asserting' \in [Conn -> SUBSET Queue]
          /\ consuming' \in [Conn -> SUBSET Queue]
      BY <2>3 DEF QueueAsserted, LinkInv, TypeOK
    <3> QED BY <2>3, <3>1 DEF QueueAsserted, LinkInv, TypeOK, process, switches, link, ending
  <2> QED BY <2>1, <2>2, <2>3
<1>4. Channels'
  <2> SUFFICES ASSUME NEW j \in Conn
               PROVE  (Uses(j)' => Live(j)') /\ (Works(j)' => pubChannel' = j)
    BY DEF Channels
  <2>1. CASE j # k
    <3>1. ~ Live(j) /\ ~ Uses(j)
      BY <1>1, <2>1 DEF LinkInv, OnlyLast, Channels
    <3>2. ~ Uses(j)'
      BY <2>1, <3>1 DEF PublisherOpens, WorkerOpens, QueueAsserted, Uses, LinkInv, TypeOK
    <3> QED BY <3>2 DEF Uses, Works
  <2>2. CASE j = k
    <3>1. Live(j)'
      BY <1>1, <1>2, <2>2 DEF Live
    <3>2. pubChannel' = k
      <4>1. CASE PublisherOpens(k)
        BY <4>1 DEF PublisherOpens
      <4>2. CASE WorkerOpens(k)
        BY <4>2 DEF WorkerOpens, Works, LinkInv, Channels
      <4>3. CASE \E q \in Queue : QueueAsserted(k, q)
        BY <4>3 DEF QueueAsserted, Works, LinkInv, Channels
      <4> QED BY <4>1, <4>2, <4>3
    <3> QED BY <2>2, <3>1, <3>2
  <2> QED BY <2>1, <2>2
<1>5. (Numbered /\ OnlyLast /\ OneAttempt /\ NotYet /\ Last /\ Ending)'
  BY <1>2 DEF LinkInv, Numbered, OnlyLast, OneAttempt, NotYet, Last, Ending, Live
<1> QED BY <1>3, <1>4, <1>5 DEF LinkInv

\* A connection ends, and with autoRestart one attempt takes its place.
LEMMA EndedInv ==
  ASSUME LinkInv, NEW k \in Conn, Live(k), NEW error \in BOOLEAN, Ended(k, error),
         Stopped(k), faults' \in 0 .. MaxFaults,
         UNCHANGED switches
  PROVE  LinkInv'
<1>1. k = amqpConn /\ attempts = <<>>
  BY DEF LinkInv, OnlyLast, OneAttempt
<1>2. attempts' = Restart(k)
  <2>1. [timer |-> TRUE, number |-> 0, auto |-> TRUE] \in Attempt
    BY LinkAssumption DEF Attempt, LinkAssumption
  <2>2. Restart(k) \in Seq(Attempt)
    BY <2>1, Singleton DEF Restart
  <2> QED BY <1>1, <2>2 DEF Ended, OnError
<1>3. /\ Len(attempts') <= 1 /\ attempts' \in Seq(Attempt)
      /\ ~ conn[k].auto => attempts' = <<>>
  <2>1. [timer |-> TRUE, number |-> 0, auto |-> TRUE] \in Attempt
    BY LinkAssumption DEF Attempt, LinkAssumption
  <2> QED BY <1>2, <2>1, Singleton DEF Restart
<1>4. /\ conn'[k].state = "closed" /\ conn'[k].auto = conn[k].auto
      /\ opening'[k] = "nothing" /\ asserting'[k] = {} /\ consuming'[k] = {}
      /\ \A j \in Conn : j # k => /\ conn'[j] = conn[j] /\ opening'[j] = opening[j]
                                  /\ asserting'[j] = asserting[j]
                                  /\ consuming'[j] = consuming[j]
  BY DEF Ended, LinkInv, TypeOK
<1>5. TypeOK'
  <2>1. conn' \in [Conn -> [state : {"none", "open", "closing", "closed"}, auto : BOOLEAN]]
    BY DEF Ended, LinkInv, TypeOK
  <2>2. /\ opening' \in [Conn -> {"nothing", "publisher", "worker"}]
        /\ asserting' \in [Conn -> SUBSET Queue]
        /\ consuming' \in [Conn -> SUBSET Queue]
    BY DEF Ended, LinkInv, TypeOK
  <2>3. stopping' \in {"no", "analytics", "amqp", "stopped"} /\ stopped' \in 0 .. MaxConn
    BY LinkAssumption DEF Stopped, ending, LinkInv, TypeOK, Conn, LinkAssumption
  <2>4. started' \in {"pending", "resolved", "rejected"}
    BY DEF Ended, LinkInv, TypeOK
  <2> QED BY <1>3, <2>1, <2>2, <2>3, <2>4 DEF Ended, LinkInv, TypeOK, switches
<1>6. \A j \in Conn : ~ Live(j)' /\ ~ Uses(j)'
  BY <1>1, <1>4 DEF LinkInv, OnlyLast, Channels, Live, Uses
<1>7. Numbered' /\ OnlyLast' /\ Channels'
  <2>1. Numbered'
    BY <1>1, <1>4 DEF Ended, LinkInv, TypeOK, Numbered, Live
  <2> QED BY <1>6, <2>1 DEF OnlyLast, Channels, Uses, Works
<1>8. OneAttempt'
  BY <1>3, <1>6 DEF OneAttempt
<1>9. NotYet'
  <2>1. step \notin {"mongo", "redis", "webhooks"}
    BY <1>1, LinkAssumption DEF LinkInv, NotYet, Conn, LinkAssumption
  <2> QED BY <2>1 DEF Ended, NotYet
<1>10. Last'
  BY <1>1, <1>3, <1>4 DEF Ended, Last
<1>11. Ending'
  <2>1. CASE stopped' = k
    BY <1>1, <1>4, <2>1 DEF Ended, Ending
  <2>2. CASE stopped' # k
    <3>1. stopped' = stopped
      BY <2>2 DEF Stopped, ending
    <3>2. stopped # 0 => stopped \in Conn
      BY LinkAssumption DEF LinkInv, TypeOK, Conn, LinkAssumption
    <3> QED BY <1>4, <2>2, <3>1, <3>2 DEF Ended, LinkInv, Ending
  <2> QED BY <2>1, <2>2
<1> QED BY <1>5, <1>7, <1>8, <1>9, <1>10, <1>11 DEF LinkInv

\* closeOnErr() and stopServer() ask the connection to close.
LEMMA ClosingInv ==
  ASSUME LinkInv, amqpConn \in Conn, conn[amqpConn].state = "open",
         conn' = [conn EXCEPT ![amqpConn].state = "closing"],
         UNCHANGED <<process, switches, attempts, amqpConn, channels, stopped>>,
         analytics' \in {"none", "connecting", "opening", "open", "closed"},
         stopping' \in {"no", "analytics", "amqp", "stopped"},
         faults' \in 0 .. MaxFaults
  PROVE  LinkInv'
<1>1. TypeOK'
  BY DEF LinkInv, TypeOK, process, switches, channels
<1>2. \A k \in Conn : /\ Live(k)' <=> Live(k)
                      /\ conn'[k].state = "none" <=> conn[k].state = "none"
                      /\ conn'[k].state = "closed" <=> conn[k].state = "closed"
                      /\ conn'[k].auto = conn[k].auto
  BY DEF LinkInv, TypeOK, Live
<1>3. Channels'
  BY <1>2 DEF LinkInv, Channels, Uses, Works, channels
<1>4. (Numbered /\ OnlyLast /\ OneAttempt /\ NotYet)'
  BY <1>2 DEF LinkInv, Numbered, OnlyLast, OneAttempt, NotYet, process
<1>5. Last' /\ Ending'
  BY <1>2, LinkAssumption DEF LinkInv, TypeOK, Last, Ending, Conn, LinkAssumption
<1> QED BY <1>1, <1>3, <1>4, <1>5 DEF LinkInv

\* stopServer() finds the connection closed already, or waits for the analytics.
LEMMA StoppingInv ==
  ASSUME LinkInv, UNCHANGED conn, stopped' \in {stopped, amqpConn},
         stopped' # stopped => conn[amqpConn].state = "closed",
         UNCHANGED <<process, switches, attempts, amqpConn, channels, faults>>,
         analytics' \in {"none", "connecting", "opening", "open", "closed"},
         stopping' \in {"no", "analytics", "amqp", "stopped"}
  PROVE  LinkInv'
<1>1. TypeOK'
  BY DEF LinkInv, TypeOK, process, switches, channels
<1>2. (Numbered /\ OnlyLast /\ OneAttempt /\ NotYet /\ Channels /\ Last)'
  BY DEF LinkInv, Numbered, OnlyLast, OneAttempt, NotYet, Channels, Last,
     Live, Uses, Works, process, channels
<1>3. Ending'
  BY DEF LinkInv, Ending
<1> QED BY <1>1, <1>2, <1>3 DEF LinkInv

LEMMA StepInv == LinkInv /\ [Next]_vars => LinkInv'
<1> SUFFICES ASSUME LinkInv, [Next]_vars PROVE LinkInv'
  OBVIOUS
<1>1. CASE Starting \/ AnalyticsLost
  BY <1>1, StartingInv
<1>2. CASE Connecting
  <2>1. ASSUME NEW i \in DOMAIN attempts,
               TimerFires(i) \/ Connected(i) \/ ConnectFails(i)
        PROVE  LinkInv'
    BY <2>1, TimerFiresInv, ConnectedInv, ConnectFailsInv
  <2>2. ASSUME NEW k \in Conn, CloseOk(k) PROVE LinkInv'
    <3>1. Live(k) /\ Ended(k, FALSE) /\ Stopped(k)
      BY <2>2 DEF CloseOk, Live
    <3>2. faults' \in 0 .. MaxFaults
      BY <2>2 DEF CloseOk, LinkInv, TypeOK
    <3>3. UNCHANGED switches
      BY <2>2 DEF CloseOk, Ended
    <3> QED BY <3>1, <3>2, <3>3, EndedInv
  <2>3. ASSUME NEW k \in Conn,
               \/ PublisherOpens(k) \/ WorkerOpens(k)
               \/ \E q \in Queue : QueueAsserted(k, q)
        PROVE  LinkInv'
    BY <2>3, OpeningInv
  <2> QED BY <1>2, <2>1, <2>2, <2>3 DEF Connecting
<1>3. CASE \/ \E enabled \in BOOLEAN : setWebHookEnabled(enabled)
           \/ \E value \in {"true", "false"} : setAutoRestart(value)
  BY <1>3, SwitchesInv
<1>4. CASE closeOnErr
  <2>1. amqpConn \in Conn
    BY <1>4, LinkAssumption DEF closeOnErr, LinkInv, TypeOK, Conn, LinkAssumption
  <2>2. faults' \in 0 .. MaxFaults
    BY <1>4, LinkAssumption DEF closeOnErr, Broken, LinkInv, TypeOK, LinkAssumption
  <2> QED BY <1>4, <2>1, <2>2, ClosingInv DEF closeOnErr, ending, LinkInv, TypeOK
<1>5. ASSUME NEW k \in Conn, ChannelError(k) PROVE LinkInv'
  <2>1. faults' \in 0 .. MaxFaults
    BY <1>5, LinkAssumption DEF ChannelError, Broken, LinkInv, TypeOK, LinkAssumption
  <2> QED BY <1>5, <2>1, ExitInv DEF ChannelError
<1>6. ASSUME NEW k \in Conn, Lost(k) PROVE LinkInv'
  <2>1. faults' \in 0 .. MaxFaults
    BY <1>6, LinkAssumption DEF Lost, Broken, LinkInv, TypeOK, LinkAssumption
  <2>2. Live(k) /\ Stopped(k)
    BY <1>6 DEF Lost, Live
  <2>3. ASSUME NEW error \in BOOLEAN, Ended(k, error) PROVE LinkInv'
    BY <2>1, <2>2, <2>3, EndedInv DEF Ended
  <2> QED BY <1>6, <2>3 DEF Lost
<1>7. CASE stopServer \/ AnalyticsClosed
  <2>1. /\ UNCHANGED <<process, switches, attempts, amqpConn, channels, faults>>
        /\ analytics' \in {"none", "connecting", "opening", "open", "closed"}
        /\ stopping' \in {"no", "analytics", "amqp", "stopped"}
    BY <1>7 DEF stopServer, AnalyticsClosed, CloseConn, LinkInv, TypeOK
  <2>2. CASE conn' = conn
    BY <1>7, <2>1, <2>2, StoppingInv DEF stopServer, AnalyticsClosed, CloseConn
  <2>3. CASE conn' # conn
    <3>1. /\ conn[amqpConn].state = "open" /\ UNCHANGED stopped
          /\ conn' = [conn EXCEPT ![amqpConn].state = "closing"]
      BY <1>7, <2>3 DEF stopServer, AnalyticsClosed, CloseConn
    <3>2. amqpConn # 0
      <4> SUFFICES ASSUME amqpConn = 0 PROVE FALSE
        OBVIOUS
      <4>1. conn' = conn
        BY <3>1, LinkAssumption DEF LinkInv, TypeOK, Conn, LinkAssumption
      <4> QED BY <2>3, <4>1
    <3>3. amqpConn \in Conn
      BY <3>2, LinkAssumption DEF LinkInv, TypeOK, Conn, LinkAssumption
    <3> QED BY <2>1, <3>1, <3>3, ClosingInv DEF LinkInv, TypeOK
  <2> QED BY <2>2, <2>3
<1>8. CASE UNCHANGED vars
  <2>1. UNCHANGED <<process, switches, link, channels, analytics, ending, faults>>
    BY <1>8 DEF vars
  <2>2. UNCHANGED <<config, alive, step, started, webhook_enabled, webhooks,
          autoRestartProperty, calls, attempts, amqpConn, conn, opening, pubChannel,
          asserting, consuming, analytics, stopping, stopped, faults>>
    BY <2>1 DEF process, switches, link, channels, ending
  <2>3. TypeOK'
    BY <2>2 DEF LinkInv, TypeOK
  <2> QED BY <2>2, <2>3
      DEF LinkInv, Numbered, OnlyLast, OneAttempt, NotYet, Channels, Last, Ending,
          Live, Uses, Works
<1> QED BY <1>1, <1>2, <1>3, <1>4, <1>5, <1>6, <1>7, <1>8 DEF Next, Disturbance

-----------------------------------------------------------------------------

\* The invariant holds of every behaviour of the observer's process.
THEOREM LinkInvHolds == Spec => []LinkInv
BY InitInv, StepInv, PTL DEF Spec

\* Every variable keeps its type, for any configuration and bounds.
THEOREM TypeOKHolds == Spec => []TypeOK
<1>1. LinkInv => TypeOK
  BY DEF LinkInv
<1> QED BY <1>1, LinkInvHolds, PTL

\* There are never two connections or attempts, and what is consumed is consumed
\* on the connection whose publisher channel is open.
THEOREM OneLinkHolds == Spec => []OneLink
<1>1. LinkInv => OneLink
  <2> SUFFICES ASSUME LinkInv PROVE OneLink
    OBVIOUS
  <2> DEFINE live == {k \in Conn : conn[k].state \in {"open", "closing"}}
  <2>1. live \subseteq {amqpConn}
    BY DEF LinkInv, OnlyLast, Live
  <2>2. IsFiniteSet({amqpConn}) /\ Cardinality({amqpConn}) = 1
    BY FS_Singleton
  <2>3. Cardinality(live) \in Nat /\ Cardinality(live) <= 1
    BY <2>1, <2>2, FS_Subset, FS_CardinalityType
  <2>4. Len(attempts) \in Nat /\ Len(attempts) <= 1
    BY DEF LinkInv, OneAttempt, TypeOK
  <2>5. attempts # <<>> => live = {}
    BY DEF LinkInv, OneAttempt, Live
  <2>6. live = {} => Cardinality(live) = 0
    BY FS_EmptySet
  <2>7. attempts = <<>> => Len(attempts) = 0
    OBVIOUS
  <2> HIDE DEF live
  <2>8. Len(attempts) + Cardinality(live) <= 1
    BY <2>3, <2>4, <2>5, <2>6, <2>7
  <2>9. \A k \in Conn : consuming[k] # {} => k = amqpConn /\ k = pubChannel
    BY DEF LinkInv, Channels, OnlyLast, Uses, Works
  <2> QED BY <2>8, <2>9 DEF OneLink, live
<1> QED BY <1>1, LinkInvHolds, PTL

\* What stopServer() has closed is not opened again, if it was opened with
\* autoRestart off.
THEOREM StopsForGoodHolds == Spec => []StopsForGood
<1>1. LinkInv => StopsForGood
  <2> SUFFICES ASSUME LinkInv, stopped # 0, ~ conn[stopped].auto
               PROVE  attempts = <<>> /\ \A k \in Conn : conn[k].state \in {"none", "closed"}
    BY DEF StopsForGood
  <2>1. stopped = amqpConn /\ conn[amqpConn].state = "closed"
    BY DEF LinkInv, Ending
  <2>2. attempts = <<>>
    BY <2>1 DEF LinkInv, Last
  <2>3. \A k \in Conn : ~ Live(k)
    BY <2>1 DEF LinkInv, OnlyLast, Live
  <2> QED BY <2>2, <2>3 DEF Live, LinkInv, TypeOK
<1> QED BY <1>1, LinkInvHolds, PTL

==============================================================================
