-------------------------- MODULE Chat21Client_proofs --------------------------
(***************************************************************************)
(* Type correctness and safety of Chat21Client, for any clients, users,    *)
(* callbacks and events, and any bounds on calls, connections and faults.  *)
(***************************************************************************)
EXTENDS Chat21Client, TLAPS, SequenceTheorems

(***************************************************************************)
(* Types, with those of the packets that TypeOK leaves out.                *)
(***************************************************************************)

OutPacket ==
  [packet : {"subscribe"}, by : Sock]
    \cup [packet : {"unsubscribe", "publish", "disconnect"}]

InPacket ==
  [packet : {"suback"}, by : Sock, granted : BOOLEAN]
    \cup [packet : {"unsuback"}] \cup [packet : {"message"}, event : Event]

Callback == [id : Nat, list : Kind, conv : Conv]

Request ==
  [kind : WithBody \cup Plain \cup Detail, got : {"nothing", "body", "empty", "error"},
   answers : Seq({"body", "null", "error"}), threw : BOOLEAN]

LinkState == {"none", "down", "up", "ending", "ended"}

ObjectOK ==
  /\ client \in [Client -> Sock]
  /\ link \in [Client -> [Sock -> LinkState]]
  /\ \A c \in Client : link[c][0] = "none"
  /\ \A c \in Client, n \in Conn : link[c][n] # "none" => n <= client[c]
  /\ connected \in [Client -> BOOLEAN]
  /\ on_message_handler \in [Client -> Sock]
  /\ topic_inbox \in [Client -> BOOLEAN]
  /\ listening \in [Client -> SUBSET Conn]
  /\ resubscribe \in [Client -> SUBSET Conn]
  /\ subscribing \in [Client -> SUBSET Conn]
  /\ closing \in [Client -> [wait : {"no", "unsubscribe", "end"}, sock : Sock]]
  /\ answered \in [Client -> [Conn -> Nat]]

CallbacksOK ==
  /\ registry \in [Client -> SUBSET Callback]
  /\ last_handler \in [Client -> 0 .. limit.handler]
  /\ told \in [Client -> SUBSET Nat] /\ stale \in [Client -> SUBSET Nat]
  /\ \A c \in Client : \A h \in registry[c] : h.id \in 1 .. last_handler[c]
  /\ \A c \in Client : told[c] \subseteq 1 .. last_handler[c]
  /\ \A c \in Client : stale[c] \subseteq 1 .. last_handler[c]

WiresOK ==
  /\ kept \in [Client -> SUBSET Conn]
  /\ out \in [Client -> [Conn -> Seq(OutPacket)]]
  /\ in \in [Client -> [Conn -> Seq(InPacket)]]

BrokerOK ==
  /\ session \in [Client -> [sock : Sock, stale : BOOLEAN, subscribed : BOOLEAN]]
  /\ presence \in Seq([client : Client, status : {"online", "offline"}])
  /\ bye \in [Client -> BOOLEAN]
  /\ \A c \in Client : session[c].sock = 0 => session[c] = NoSession

RestOK ==
  /\ requests \in [Client -> Seq(Request)]
  /\ status \in [User -> {"unknown", "online", "offline"}]
  /\ raced \in [Client -> BOOLEAN] /\ refused \in [Client -> BOOLEAN]
  /\ limit \in Limits
  /\ events \in 0 .. limit.event /\ heres \in 0 .. limit.here
  /\ faults \in 0 .. limit.fault

TypeInv == ObjectOK /\ CallbacksOK /\ WiresOK /\ BrokerOK /\ RestOK

(***************************************************************************)
(* An id is that of one callback, and of none once it is stale.            *)
(***************************************************************************)

StaleOK(c) ==
  /\ \A g, h \in registry[c] : g.id = h.id => g = h
  /\ \A h \in registry[c] : h.id \notin stale[c]
  /\ told[c] \cap stale[c] = {}

StaleInv == TypeInv /\ \A c \in Client : StaleOK(c)

(***************************************************************************)
(* The packets whose answers run a callback of connect() or close(): the   *)
(* first subscribe of an object and its answer, the unsubscribe and its    *)
(* answer.  "again" is a subscribe that the library repeats.               *)
(***************************************************************************)

Tag(p) ==
  CASE p.packet \in {"subscribe", "suback"} -> IF p.by # 0 THEN "first" ELSE "again"
    [] p.packet \in {"unsubscribe", "unsuback"} -> "unsub"
    [] OTHER -> p.packet

Has(s, t) == \E i \in DOMAIN s : Tag(s[i]) = t
AtMostOne(s, t) == \A i, j \in DOMAIN s : Tag(s[i]) = t /\ Tag(s[j]) = t => i = j

\* On its way to the broker or back.
Underway(c, n, t) == Has(out[c][n], t) \/ Has(in[c][n], t)
Single(c, n, t) ==
  /\ AtMostOne(out[c][n], t) /\ AtMostOne(in[c][n], t)
  /\ ~ (Has(out[c][n], t) /\ Has(in[c][n], t))

Used(c, n) == answered[c][n] > 0 \/ n \in subscribing[c]

\* An object is answered once because it subscribes for the first time once, on
\* the first connection of a client that is not connected, and gets one answer.
ConnectOnce(c) ==
  /\ \A n \in Conn :
       /\ n > client[c] => ~ Used(c, n)
       /\ n # client[c] => link[c][n] \in {"none", "ending", "ended"}
       /\ Used(c, n) /\ link[c][n] \in {"down", "up"}
            => connected[c] /\ closing[c].wait # "end"
       /\ answered[c][n] <= 1
       /\ n \in subscribing[c] => answered[c][n] = 0
  /\ topic_inbox[c] => connected[c]
  /\ closing[c].wait # "no" => topic_inbox[c]

FirstOnce(c) ==
  \A n \in Conn :
    /\ Single(c, n, "first")
    /\ Underway(c, n, "first") => n \in subscribing[c]

UnsubOnce(c) ==
  \A n \in Conn :
    /\ Single(c, n, "unsub")
    /\ Underway(c, n, "unsub") => closing[c] = [wait |-> "unsubscribe", sock |-> n]

RequestsOnce(c) ==
  \A i \in DOMAIN requests[c] :
    /\ requests[c][i].got = "nothing" => requests[c][i].answers = <<>>
    /\ ~ requests[c][i].threw => Len(requests[c][i].answers) <= 1

AnswerOK(c) == ConnectOnce(c) /\ FirstOnce(c) /\ UnsubOnce(c) /\ RequestsOnce(c)

AnswerInv == TypeInv /\ \A c \in Client : AnswerOK(c)

(***************************************************************************)
(* The session of a client and the connection that it belongs to.          *)
(***************************************************************************)

SessionOK(c) ==
  LET n == session[c].sock IN
  /\ n <= client[c]
  /\ n # 0 /\ ~ session[c].stale => link[c][n] \in {"up", "ending"}
  /\ n # 0 /\ session[c].stale => in[c][n] = <<>>
  /\ \A m \in Conn : link[c][m] = "up" => n = m /\ ~ session[c].stale

Refusal(s) == \E i \in DOMAIN s : s[i].packet = "suback" /\ ~ s[i].granted

PacketsOK(c) ==
  \A m \in Conn :
    /\ Underway(c, m, "disconnect") => link[c][m] # "up"
    /\ Refusal(in[c][m]) => refused[c]
    /\ m > client[c] => m \notin resubscribe[c] /\ ~ Underway(c, m, "again")

\* A client that was not connected twice at once.
BeforeStart(c) ==
  ~ topic_inbox[c] =>
    /\ ~ connected[c] /\ on_message_handler[c] = 0
    /\ subscribing[c] = {} /\ closing[c].wait = "no"
    /\ link[c][client[c]] \in {"none", "down", "ended"}

Started(c) ==
  LET s == client[c] IN
  topic_inbox[c] =>
    /\ s # 0
    /\ s \in subscribing[c] \cup listening[c]
    /\ subscribing[c] \subseteq {s}
    /\ closing[c].wait # "no" => closing[c].sock = s
    /\ answered[c][s] > 0 => on_message_handler[c] = s /\ s \in listening[c]
    /\ closing[c].wait = "no" /\ ~ refused[c] => s \in resubscribe[c]

Subscribes(c) ==
  LET s == client[c] IN
  s # 0 =>
    /\ s \in subscribing[c] => link[c][s] \in {"up", "ending"}
    /\ s \in resubscribe[c] => s \in subscribing[c] \cup listening[c]
    /\ Underway(c, s, "again") => s \in listening[c]
    /\ session[c].sock = s /\ session[c].subscribed
         => s \in listening[c] \/ Has(in[c][s], "first")
    /\ closing[c].wait = "no" /\ ~ refused[c] /\ link[c][s] = "up"
         => session[c].subscribed \/ Has(out[c][s], "again") \/ Has(out[c][s], "first")

\* Every message has the answer to a subscribe before it.
Leads(q) ==
  \A i \in DOMAIN q :
    q[i].packet = "message" => \E j \in 1 .. (i - 1) : q[j].packet = "suback"

MessagesFollow(c) ==
  LET n == session[c].sock IN
  n # 0 => n \in listening[c] \/ Leads(in[c][n])

OneAlive(c) ==
  \A n \in Conn : n # client[c] => link[c][n] \in {"none", "ended"}

CleanOK(c) ==
  BeforeStart(c) /\ Started(c) /\ Subscribes(c) /\ MessagesFollow(c) /\ OneAlive(c)

ListenOK(c) == SessionOK(c) /\ PacketsOK(c) /\ (~ raced[c] => CleanOK(c))

ListenInv == AnswerInv /\ \A c \in Client : ListenOK(c)

(***************************************************************************)
(* What is going to be reported of a user.                                 *)
(***************************************************************************)

OfUser(p, u) == Owner[p.client] = u

Ends(q, st, u, s) ==
  \/ \E i \in DOMAIN q :
       /\ OfUser(q[i], u) /\ q[i].status = s
       /\ \A j \in DOMAIN q : OfUser(q[j], u) => j <= i
  \/ (\A i \in DOMAIN q : ~ OfUser(q[i], u)) /\ st[u] = s

\* A report that the user is connected, or a will, is still to come.
Announcing(c) ==
  session[c].stale \/ \E m \in Conn : m = session[c].sock /\ Has(out[c][m], "publish")

UserOK(u) ==
  LET own == {c \in Client : Owner[c] = u} IN
  /\ own # {} /\ (\A c \in own : session[c].sock # 0)
       => Ends(presence, status, u, "online") \/ \E c \in own : Announcing(c)
  /\ Ends(presence, status, u, "online") => \E c \in own : session[c].sock # 0 \/ bye[c]

PresenceInv == ListenInv /\ \A u \in User : UserOK(u)

-----------------------------------------------------------------------------
(* Type correctness.                                                       *)

LEMMA Bounds ==
  ASSUME RestOK
  PROVE  /\ limit.conn \in [Client -> Nat]
         /\ \A c \in Client : limit.conn[c] <= MaxConn
         /\ limit.handler \in Nat /\ limit.event \in Nat
         /\ limit.here \in Nat /\ limit.fault \in Nat
         /\ MaxConn \in Nat
<1>1. limit \in Limits /\ limit \in Limit /\ MaxConn \in Nat
  BY ClientAssumption DEF RestOK
<1> QED BY <1>1, ClientAssumption DEF Limit

LEMMA Packets ==
  /\ \A n \in Sock : Subscribe(n) \in OutPacket
  /\ UNSUBSCRIBE \in OutPacket /\ ONLINE \in OutPacket /\ DISCONNECT \in OutPacket
  /\ \A n \in Sock, ok \in BOOLEAN : Suback(n, ok) \in InPacket
  /\ UNSUBACK \in InPacket
  /\ \A e \in Event : Message(e) \in InPacket
<1> QED BY DEF OutPacket, InPacket, Subscribe, UNSUBSCRIBE, ONLINE, DISCONNECT, Suback,
               UNSUBACK, Message

LEMMA EndOfType ==
  \A l \in LinkState : EndOf(l) \in LinkState /\ (EndOf(l) = "none" <=> l = "none")
<1> QED BY DEF LinkState, EndOf

LEMMA Prepared ==
  ASSUME TypeInv, NEW c \in Client, NEW n \in Conn
  PROVE  /\ Waiting(c, n) \in Seq(OutPacket)
         /\ Goodbye(c, n) \in Seq(OutPacket)
         /\ Announce(c) \in Seq(OutPacket)
         /\ <<Subscribe(n)>> \in Seq(OutPacket)
<1>1. n \in Sock /\ 0 \in Sock
  BY Bounds DEF TypeInv, Conn, Sock
<1>2. /\ Subscribe(n) \in OutPacket /\ Subscribe(0) \in OutPacket
      /\ UNSUBSCRIBE \in OutPacket /\ ONLINE \in OutPacket /\ DISCONNECT \in OutPacket
  BY <1>1, Packets
<1>3. <<>> \in Seq(OutPacket) /\ \A p \in OutPacket : <<p>> \in Seq(OutPacket)
  OBVIOUS
<1>4. /\ <<Subscribe(n)>> \in Seq(OutPacket) /\ <<Subscribe(0)>> \in Seq(OutPacket)
      /\ <<UNSUBSCRIBE>> \in Seq(OutPacket) /\ <<ONLINE>> \in Seq(OutPacket)
      /\ <<DISCONNECT>> \in Seq(OutPacket)
  BY ONLY <1>2, <1>3
<1>5. Waiting(c, n) \in Seq(OutPacket)
  <2> DEFINE a == IF closing[c] = [wait |-> "unsubscribe", sock |-> n]
                  THEN <<UNSUBSCRIBE>> ELSE <<>>
             b == IF n \in kept[c] THEN <<ONLINE>> ELSE <<>>
             d == IF n \in resubscribe[c] THEN <<Subscribe(0)>> ELSE <<>>
  <2>1. a \in Seq(OutPacket) /\ b \in Seq(OutPacket) /\ d \in Seq(OutPacket)
    BY <1>3, <1>4
  <2>2. Waiting(c, n) = a \o b \o d
    BY DEF Waiting
  <2> HIDE DEF a, b, d
  <2> QED BY <2>1, <2>2
<1> QED BY <1>3, <1>4, <1>5 DEF Goodbye, Announce

LEMMA InitTypes == Init => TypeInv
<1> SUFFICES ASSUME Init PROVE TypeInv
  OBVIOUS
<1>0. 0 \in Sock /\ limit \in Limits
  BY ClientAssumption DEF Sock, Init
<1>1. ObjectOK
  <2>1. /\ link \in [Client -> [Sock -> LinkState]]
        /\ \A c \in Client : link[c][0] = "none"
        /\ \A c \in Client, n \in Sock : link[c][n] = "none"
    BY <1>0 DEF Init, LinkState
  <2>2. closing \in [Client -> [wait : {"no", "unsubscribe", "end"}, sock : Sock]]
    BY <1>0 DEF Init
  <2>3. answered \in [Client -> [Conn -> Nat]]
    BY DEF Init
  <2>4. Conn \subseteq Sock
    BY ClientAssumption DEF Conn, Sock
  <2> QED BY <1>0, <2>1, <2>2, <2>3, <2>4 DEF Init, ObjectOK
<1>2. /\ requests \in [Client -> Seq(Request)]
      /\ status \in [User -> {"unknown", "online", "offline"}]
      /\ raced \in [Client -> BOOLEAN] /\ refused \in [Client -> BOOLEAN]
  BY DEF Init
<1>3. limit.handler \in Nat /\ limit.event \in Nat /\ limit.here \in Nat /\ limit.fault \in Nat
  BY <1>0, ClientAssumption DEF Limit
<1>4. RestOK
  BY <1>0, <1>2, <1>3 DEF Init, RestOK
<1>5. CallbacksOK
  BY <1>3 DEF Init, CallbacksOK
<1>6. WiresOK
  BY DEF Init, WiresOK
<1>7. BrokerOK
  BY <1>0 DEF Init, BrokerOK, NoSession
<1> QED BY <1>1, <1>4, <1>5, <1>6, <1>7 DEF TypeInv

LEMMA TypesImplyOK == TypeInv => TypeOK
<1> SUFFICES ASSUME TypeInv PROVE TypeOK
  OBVIOUS
<1> USE DEF TypeInv
<1>1. \A c \in Client, n \in Conn :
        \A i \in DOMAIN in[c][n] : in[c][n][i].packet \in {"suback", "unsuback", "message"}
  <2> SUFFICES ASSUME NEW c \in Client, NEW n \in Conn, NEW i \in DOMAIN in[c][n]
               PROVE  in[c][n][i].packet \in {"suback", "unsuback", "message"}
    OBVIOUS
  <2>1. in[c][n][i] \in InPacket
    BY DEF WiresOK
  <2> QED BY <2>1 DEF InPacket
<1>2. \A c \in Client, i \in 1 .. limit.request : i \in DOMAIN requests[c] =>
       /\ requests[c][i].kind \in WithBody \cup Plain \cup Detail
       /\ requests[c][i].got \in {"nothing", "body", "empty", "error"}
       /\ requests[c][i].answers \in Seq({"body", "null", "error"})
  <2> SUFFICES ASSUME NEW c \in Client, NEW i \in DOMAIN requests[c]
               PROVE  /\ requests[c][i].kind \in WithBody \cup Plain \cup Detail
                      /\ requests[c][i].got \in {"nothing", "body", "empty", "error"}
                      /\ requests[c][i].answers \in Seq({"body", "null", "error"})
    OBVIOUS
  <2>1. requests[c][i] \in Request
    BY DEF RestOK
  <2> QED BY <2>1 DEF Request
<1>3. \A c \in Client : \A h \in registry[c] :
        h.id \in 1 .. last_handler[c] /\ h.list \in Kind /\ h.conv \in Conv
  <2> SUFFICES ASSUME NEW c \in Client, NEW h \in registry[c]
               PROVE  h.id \in 1 .. last_handler[c] /\ h.list \in Kind /\ h.conv \in Conv
    OBVIOUS
  <2>1. h \in Callback /\ h.id \in 1 .. last_handler[c]
    BY DEF CallbacksOK
  <2> QED BY <2>1 DEF Callback
<1>4. \A c \in Client : told[c] \cup stale[c] \subseteq 1 .. last_handler[c]
  BY DEF CallbacksOK
<1>5. ObjectOK /\ BrokerOK /\ RestOK
  OBVIOUS
<1>6. /\ client \in [Client -> Sock]
      /\ link \in [Client -> [Sock -> {"none", "down", "up", "ending", "ended"}]]
      /\ connected \in [Client -> BOOLEAN]
      /\ on_message_handler \in [Client -> Sock]
      /\ topic_inbox \in [Client -> BOOLEAN]
      /\ listening \in [Client -> SUBSET Conn]
      /\ resubscribe \in [Client -> SUBSET Conn]
      /\ subscribing \in [Client -> SUBSET Conn]
      /\ closing \in [Client -> [wait : {"no", "unsubscribe", "end"}, sock : Sock]]
      /\ answered \in [Client -> [Conn -> Nat]]
  BY <1>5 DEF ObjectOK, LinkState
<1>7. last_handler \in [Client -> 0 .. limit.handler] /\ kept \in [Client -> SUBSET Conn]
  BY DEF CallbacksOK, WiresOK
<1> QED BY ONLY <1>1, <1>2, <1>3, <1>4, <1>5, <1>6, <1>7 DEF TypeOK, BrokerOK, RestOK

\* One object of one client.
LEMMA Update ==
  ASSUME NEW S, NEW V, NEW f \in [Client -> [S -> V]],
         NEW c \in Client, NEW n \in S, NEW v \in V
  PROVE  [f EXCEPT ![c] = [f[c] EXCEPT ![n] = v]] \in [Client -> [S -> V]]
<1> QED OBVIOUS

\* The calls of the application.
LEMMA ConnectTypes ==
  ASSUME TypeInv, NEW c \in Client, connect(c)
  PROVE  TypeInv'
<1> DEFINE old == client[c]
           n == old + 1
<1> USE DEF TypeInv
<1>1. old \in Sock /\ n \in Conn /\ n \in Sock /\ 0 \in Sock /\ Conn \subseteq Sock
  BY Bounds DEF connect, ObjectOK, Sock, Conn
<1>2. client' = [client EXCEPT ![c] = n]
  BY DEF connect
<1>3. link' = [link EXCEPT ![c] = [link[c] EXCEPT ![old] = EndOf(link[c][old]), ![n] = "down"]]
  BY DEF connect
<1>4. out' = [out EXCEPT ![c] = [m \in Conn |->
                IF m = old THEN out[c][m] \o Goodbye(c, m) ELSE out[c][m]]]
  BY DEF connect
<1>5. raced' = [raced EXCEPT ![c] = raced[c] \/ topic_inbox[c]]
  BY DEF connect
<1>6. /\ UNCHANGED <<connected, on_message_handler, topic_inbox, listening,
                     resubscribe, subscribing, closing, answered>>
      /\ UNCHANGED <<registry, last_handler, told, stale, kept, in>>
      /\ UNCHANGED <<session, presence, bye, requests, status, refused>>
      /\ UNCHANGED <<limit, events, heres, faults>>
  BY DEF connect, callbacks, broker, counters
<1> HIDE DEF n
<1>7. link[c] \in [Sock -> LinkState] /\ link[c][old] \in LinkState
      /\ EndOf(link[c][old]) \in LinkState /\ "down" \in LinkState
  BY <1>1, EndOfType DEF ObjectOK, LinkState
<1>8. link' \in [Client -> [Sock -> LinkState]]
  BY <1>1, <1>3, <1>7 DEF ObjectOK
<1>9. \A d \in Client : link'[d][0] = "none"
  BY <1>1, <1>3, <1>7, EndOfType DEF ObjectOK, Conn
<1>10. \A d \in Client, m \in Conn : link'[d][m] # "none" => m <= client'[d]
  <2> SUFFICES ASSUME NEW d \in Client, NEW m \in Conn, link'[d][m] # "none"
               PROVE  m <= client'[d]
    OBVIOUS
  <2>1. CASE d # c
    BY <1>2, <1>3, <2>1 DEF ObjectOK
  <2>2. CASE d = c /\ m = n
    BY <1>1, <1>2, <2>2 DEF ObjectOK, Conn
  <2>3. CASE d = c /\ m # n
    <3>1. link[c][m] # "none"
      BY <1>1, <1>3, <1>7, <2>3, EndOfType DEF ObjectOK
    <3>2. m <= client[c]
      BY <3>1 DEF ObjectOK
    <3> QED BY <1>1, <1>2, <2>3, <3>2 DEF n, Conn, Sock
  <2> QED BY <2>1, <2>2, <2>3
<1>11. ObjectOK'
  BY <1>1, <1>2, <1>6, <1>8, <1>9, <1>10 DEF ObjectOK
<1>12. \A m \in Conn : out[c][m] \in Seq(OutPacket) /\ Goodbye(c, m) \in Seq(OutPacket)
  BY Prepared DEF WiresOK
<1>13. [m \in Conn |-> IF m = old THEN out[c][m] \o Goodbye(c, m) ELSE out[c][m]]
         \in [Conn -> Seq(OutPacket)]
  BY <1>12
<1>14. WiresOK'
  BY <1>4, <1>6, <1>13 DEF WiresOK
<1>15. RestOK'
  BY <1>5, <1>6 DEF RestOK, ObjectOK
<1>16. CallbacksOK'
  BY <1>6 DEF CallbacksOK
<1>17. BrokerOK'
  BY <1>6 DEF BrokerOK
<1> QED BY <1>11, <1>14, <1>15, <1>16, <1>17

\* What no part of a step touches keeps its type.
LEMMA Kept ==
  /\ ObjectOK /\ UNCHANGED object => ObjectOK'
  /\ CallbacksOK /\ UNCHANGED <<callbacks, limit>> => CallbacksOK'
  /\ WiresOK /\ UNCHANGED wires => WiresOK'
  /\ BrokerOK /\ UNCHANGED broker => BrokerOK'
  /\ RestOK /\ UNCHANGED <<requests, status, history, counters>> => RestOK'
<1>1. ObjectOK /\ UNCHANGED object => ObjectOK'
  BY DEF ObjectOK, object
<1>2. CallbacksOK /\ UNCHANGED <<callbacks, limit>> => CallbacksOK'
  BY DEF CallbacksOK, callbacks
<1>3. WiresOK /\ UNCHANGED wires => WiresOK'
  BY DEF WiresOK, wires
<1>4. BrokerOK /\ UNCHANGED broker => BrokerOK'
  BY DEF BrokerOK, broker
<1>5. RestOK /\ UNCHANGED <<requests, status, history, counters>> => RestOK'
  BY DEF RestOK, history, counters
<1> QED BY <1>1, <1>2, <1>3, <1>4, <1>5

LEMMA CloseTypes ==
  ASSUME TypeInv, NEW c \in Client, close(c)
  PROVE  TypeInv'
<1> USE DEF TypeInv
<1> DEFINE n == client[c]
<1>1. n \in Sock
  BY DEF ObjectOK
<1>2. /\ closing' = [closing EXCEPT ![c] = [wait |-> "unsubscribe", sock |-> n]]
      /\ resubscribe' = [resubscribe EXCEPT ![c] = resubscribe[c] \ {n}]
      /\ UNCHANGED <<client, link, connected, on_message_handler, topic_inbox,
                     listening, subscribing, answered>>
  BY DEF close
<1>3. ObjectOK'
  BY <1>1, <1>2 DEF ObjectOK
<1>4. \/ UNCHANGED out
      \/ link[c][n] = "up" /\ out' = [out EXCEPT ![c][n] = Append(out[c][n], UNSUBSCRIBE)]
  BY DEF close
<1>5. out' \in [Client -> [Conn -> Seq(OutPacket)]]
  <2>1. CASE UNCHANGED out
    BY <2>1 DEF WiresOK
  <2>2. CASE link[c][n] = "up" /\ out' = [out EXCEPT ![c][n] = Append(out[c][n], UNSUBSCRIBE)]
    <3>1. n \in Conn
      BY <1>1, <2>2 DEF ObjectOK, Sock, Conn
    <3>2. Append(out[c][n], UNSUBSCRIBE) \in Seq(OutPacket)
      BY <3>1, Packets DEF WiresOK
    <3> QED BY <2>2, <3>1, <3>2 DEF WiresOK
  <2> QED BY <1>4, <2>1, <2>2
<1>6. WiresOK'
  BY <1>5 DEF WiresOK, close
<1>7. UNCHANGED <<callbacks, limit, broker, requests, status, history, counters>>
  BY DEF close, counters
<1> QED BY <1>3, <1>6, <1>7, Kept

LEMMA ImHereTypes ==
  ASSUME TypeInv, NEW c \in Client, ImHere(c)
  PROVE  TypeInv'
<1> USE DEF TypeInv
<1> DEFINE n == client[c]
<1>1. n \in Conn
  BY DEF ObjectOK, ImHere, Sock, Conn
<1>2. Append(out[c][n], ONLINE) \in Seq(OutPacket)
  BY <1>1, Packets DEF WiresOK
<1>3. \/ /\ out' = [out EXCEPT ![c][n] = Append(out[c][n], ONLINE)]
         /\ UNCHANGED kept
      \/ /\ kept' = [kept EXCEPT ![c] = kept[c] \cup {n}]
         /\ UNCHANGED out
  BY DEF ImHere
<1> HIDE DEF n
<1>4. out' \in [Client -> [Conn -> Seq(OutPacket)]] /\ kept' \in [Client -> SUBSET Conn]
  <2>1. CASE out' = [out EXCEPT ![c][n] = Append(out[c][n], ONLINE)] /\ UNCHANGED kept
    BY <1>1, <1>2, <2>1 DEF WiresOK
  <2>2. CASE kept' = [kept EXCEPT ![c] = kept[c] \cup {n}] /\ UNCHANGED out
    BY <1>1, <2>2 DEF WiresOK
  <2> QED BY <1>3, <2>1, <2>2
<1>5. WiresOK'
  BY <1>4 DEF WiresOK, ImHere
<1>6. UNCHANGED <<object, callbacks, broker, requests, status, history, limit, events, faults>>
      /\ heres < limit.here /\ heres' = heres + 1
  BY DEF ImHere
<1>7. RestOK'
  BY <1>6, Bounds DEF RestOK, history
<1> QED BY <1>5, <1>6, <1>7, Kept

LEMMA OnCallbackTypes ==
  ASSUME TypeInv, NEW c \in Client, NEW list \in Kind, NEW conv \in Conv,
         onCallback(c, list, conv)
  PROVE  TypeInv'
<1> USE DEF TypeInv
<1> DEFINE id == last_handler[c] + 1
           h == [id |-> id, list |-> list, conv |-> conv]
<1>1. /\ last_handler[c] < limit.handler
      /\ last_handler' = [last_handler EXCEPT ![c] = id]
      /\ registry' = [registry EXCEPT ![c] = registry[c] \cup {[id |-> last_handler'[c], list |-> list, conv |-> conv]}]
      /\ UNCHANGED <<told, stale, limit>>
  BY DEF onCallback, counters
<1>2. last_handler[c] \in Nat /\ id \in Nat /\ id \in 1 .. id /\ limit.handler \in Nat
      /\ id \in 0 .. limit.handler
  BY <1>1, Bounds DEF CallbacksOK
<1> HIDE DEF id
<1>3. last_handler'[c] = id /\ registry' = [registry EXCEPT ![c] = registry[c] \cup {h}]
  BY <1>1 DEF CallbacksOK
<1>4. h \in Callback /\ h.id = id
  BY <1>2 DEF Callback
<1> HIDE DEF h
<1>5. \A d \in Client : last_handler'[d] >= last_handler[d] /\ last_handler[d] \in Nat
        /\ last_handler'[d] \in Nat
  BY <1>1, <1>2, Bounds DEF CallbacksOK, id
<1>6. /\ registry' \in [Client -> SUBSET Callback]
      /\ last_handler' \in [Client -> 0 .. limit.handler]
  BY <1>1, <1>2, <1>3, <1>4 DEF CallbacksOK
<1>7. \A d \in Client : \A g \in registry'[d] : g.id \in 1 .. last_handler'[d]
  <2> SUFFICES ASSUME NEW d \in Client, NEW g \in registry'[d]
               PROVE  g.id \in 1 .. last_handler'[d]
    OBVIOUS
  <2>1. CASE g \in registry[d]
    <3>1. g.id \in 1 .. last_handler[d]
      BY <2>1 DEF CallbacksOK
    <3> QED BY <1>5, <3>1
  <2>2. CASE g \notin registry[d]
    <3>1. d = c /\ g = h
      BY <1>3, <2>2 DEF CallbacksOK
    <3> QED BY <1>2, <1>3, <1>4, <3>1
  <2> QED BY <2>1, <2>2
<1>8. /\ \A d \in Client : told[d] \subseteq 1 .. last_handler'[d]
      /\ \A d \in Client : stale[d] \subseteq 1 .. last_handler'[d]
  <2>1. \A d \in Client : 1 .. last_handler[d] \subseteq 1 .. last_handler'[d]
    BY <1>5
  <2> QED BY <2>1 DEF CallbacksOK
<1>9. CallbacksOK'
  BY <1>1, <1>6, <1>7, <1>8 DEF CallbacksOK
<1>10. UNCHANGED <<object, wires, broker, requests, status, history, counters>>
  BY DEF onCallback
<1> QED BY <1>9, <1>10, Kept

LEMMA RemoveTypes ==
  ASSUME TypeInv, NEW c \in Client, NEW h \in registry[c], removeHandler(c, h.list, h.id)
  PROVE  TypeInv'
<1> USE DEF TypeInv
<1> DEFINE gone == {g \in registry[c] : g.id = h.id /\ g.list = h.list}
<1>1. /\ registry' = [registry EXCEPT ![c] = registry[c] \ gone]
      /\ stale' = [stale EXCEPT ![c] = stale[c] \cup {h.id}]
      /\ told' = [told EXCEPT ![c] = {}]
      /\ UNCHANGED <<last_handler, limit>>
  BY DEF removeHandler, counters
<1> HIDE DEF gone
<1>2. h.id \in 1 .. last_handler[c] /\ h.id \in Nat
  BY DEF CallbacksOK
<1>3. /\ registry' \in [Client -> SUBSET Callback]
      /\ told' \in [Client -> SUBSET Nat] /\ stale' \in [Client -> SUBSET Nat]
  BY <1>1, <1>2 DEF CallbacksOK
<1>4. \A d \in Client : registry'[d] \subseteq registry[d] /\ told'[d] \subseteq told[d]
        /\ stale'[d] \subseteq 1 .. last_handler[d]
  BY <1>1, <1>2 DEF CallbacksOK
<1>5. CallbacksOK'
  BY <1>1, <1>3, <1>4 DEF CallbacksOK
<1>6. UNCHANGED <<object, wires, broker, requests, status, history, counters>>
  BY DEF removeHandler
<1> QED BY <1>5, <1>6, Kept

LEMMA RequestTypes ==
  ASSUME TypeInv, NEW c \in Client, NEW kind \in WithBody \cup Plain \cup Detail,
         myrequest(c, kind)
  PROVE  TypeInv'
<1> USE DEF TypeInv
<1> DEFINE r == [kind |-> kind, got |-> "nothing", answers |-> <<>>, threw |-> FALSE]
<1>1. r \in Request
  BY DEF Request
<1>2. requests' = [requests EXCEPT ![c] = Append(requests[c], r)]
  BY DEF myrequest
<1> HIDE DEF r
<1>3. Append(requests[c], r) \in Seq(Request)
  BY <1>1 DEF RestOK
<1>4. requests' \in [Client -> Seq(Request)]
  BY <1>2, <1>3 DEF RestOK
<1>5. UNCHANGED <<object, callbacks, wires, broker, status, history, counters>>
  BY DEF myrequest
<1>6. RestOK'
  BY <1>4, <1>5 DEF RestOK, history, counters
<1>7. UNCHANGED limit
  BY <1>5 DEF counters
<1> QED BY <1>5, <1>6, <1>7, Kept

LEMMA AnswerType ==
  ASSUME NEW kind, NEW got
  PROVE  /\ AnswerTo(kind, got) \in Seq({"body", "null", "error"})
         /\ Len(AnswerTo(kind, got)) <= 1
<1>1. AnswerTo(kind, got) \in {<<"body">>, <<"null">>, <<"error">>, <<>>}
  BY DEF AnswerTo
<1>2. \A s \in {<<"body">>, <<"null">>, <<"error">>, <<>>} :
        s \in Seq({"body", "null", "error"}) /\ Len(s) <= 1
  <2>1. \A x \in {"body", "null", "error"} :
          <<x>> \in Seq({"body", "null", "error"}) /\ Len(<<x>>) <= 1
    OBVIOUS
  <2>2. <<>> \in Seq({"body", "null", "error"}) /\ Len(<<>>) <= 1
    OBVIOUS
  <2>3. "body" \in {"body", "null", "error"} /\ "null" \in {"body", "null", "error"}
        /\ "error" \in {"body", "null", "error"}
    OBVIOUS
  <2> QED BY ONLY <2>1, <2>2, <2>3
<1> QED BY <1>1, <1>2

LEMMA ResponseTypes ==
  ASSUME TypeInv, NEW c \in Client, Response(c)
  PROVE  TypeInv'
<1> USE DEF TypeInv
<1>1. PICK i \in DOMAIN requests[c], got \in {"body", "empty", "error"}, threw \in BOOLEAN :
        \E answers \in Seq({"body", "null", "error"}) :
          requests' = [requests EXCEPT ![c][i] =
            [requests[c][i] EXCEPT !.got = got, !.answers = answers, !.threw = threw]]
  <2>1. \A kind, got : AnswerTo(kind, got) \in Seq({"body", "null", "error"})
    BY AnswerType
  <2>2. \A kind, got, kind2, got2, b :
          AnswerTo(kind, got) \o (IF b THEN AnswerTo(kind2, got2) ELSE <<>>)
            \in Seq({"body", "null", "error"})
    <3> TAKE kind, got, kind2, got2, b
    <3>1. AnswerTo(kind, got) \in Seq({"body", "null", "error"})
          /\ (IF b THEN AnswerTo(kind2, got2) ELSE <<>>) \in Seq({"body", "null", "error"})
      BY <2>1
    <3> QED BY ONLY <3>1
  <2>3. PICK i \in DOMAIN requests[c], got \in {"body", "empty", "error"}, threw \in BOOLEAN :
          requests' = [requests EXCEPT ![c][i] =
            [requests[c][i] EXCEPT !.got = got,
               !.answers = AnswerTo(requests[c][i].kind, got)
                 \o (IF threw /\ got # "error"
                     THEN AnswerTo(requests[c][i].kind, "error") ELSE <<>>),
               !.threw = threw]]
    BY DEF Response
  <2> QED BY <2>2, <2>3
<1>2. PICK answers \in Seq({"body", "null", "error"}) :
        requests' = [requests EXCEPT ![c][i] =
          [requests[c][i] EXCEPT !.got = got, !.answers = answers, !.threw = threw]]
  BY <1>1
<1> DEFINE r == [requests[c][i] EXCEPT !.got = got, !.answers = answers, !.threw = threw]
<1>3. requests[c][i] \in Request /\ requests[c] \in Seq(Request)
  BY DEF RestOK
<1>4. r \in Request
  <2>1. got \in {"nothing", "body", "empty", "error"}
    OBVIOUS
  <2> QED BY <1>3, <2>1 DEF Request
<1>5. requests' = [requests EXCEPT ![c] = [requests[c] EXCEPT ![i] = r]]
  BY <1>2
<1> HIDE DEF r
<1>6. [requests[c] EXCEPT ![i] = r] \in Seq(Request)
  BY <1>3, <1>4
<1>7. requests' \in [Client -> Seq(Request)]
  BY <1>5, <1>6 DEF RestOK
<1>8. UNCHANGED <<object, callbacks, wires, broker, status, history, counters>>
  BY DEF Response
<1>9. RestOK'
  BY <1>7, <1>8 DEF RestOK, history, counters
<1>10. UNCHANGED limit
  BY <1>8 DEF counters
<1> QED BY <1>8, <1>9, <1>10, Kept

\* The events of the library.
LEMMA OnConnectTypes ==
  ASSUME TypeInv, NEW c \in Client, onConnect(c)
  PROVE  TypeInv'
<1> USE DEF TypeInv
<1> DEFINE n == client[c]
<1>1. n \in Conn /\ n \in Sock
  BY DEF ObjectOK, onConnect, Sock, Conn
<1>2. /\ link' = [link EXCEPT ![c] = [link[c] EXCEPT ![n] = "up"]]
      /\ connected' = [connected EXCEPT ![c] = TRUE]
      /\ UNCHANGED <<client, on_message_handler, listening, closing>>
  BY DEF onConnect
<1>3. /\ topic_inbox' = topic_inbox \/ topic_inbox' = [topic_inbox EXCEPT ![c] = TRUE]
      /\ resubscribe' = resubscribe \/ resubscribe' = [resubscribe EXCEPT ![c] = resubscribe[c] \cup {n}]
      /\ subscribing' = subscribing \/ subscribing' = [subscribing EXCEPT ![c] = subscribing[c] \cup {n}]
      /\ answered' = answered \/ answered' = [answered EXCEPT ![c] = [answered[c] EXCEPT ![n] = answered[c][n] + 1]]
  BY DEF onConnect, start
<1>4. \/ out' = [out EXCEPT ![c] = [out[c] EXCEPT ![n] = Waiting(c, n) \o Announce(c)]]
      \/ out' = [out EXCEPT ![c] = [out[c] EXCEPT ![n] = Waiting(c, n) \o <<Subscribe(n)>> \o Announce(c)]]
  BY DEF onConnect, start
<1>5. /\ in' = [in EXCEPT ![c] = [in[c] EXCEPT ![n] = <<>>]]
      /\ kept' = [kept EXCEPT ![c] = kept[c] \ {n}]
  BY DEF onConnect
<1>6. session' = [session EXCEPT ![c] = [sock |-> n, stale |-> FALSE, subscribed |-> FALSE]]
      /\ bye' = [bye EXCEPT ![c] = FALSE]
  BY DEF onConnect
<1>7. presence' = presence \/ presence' = Append(presence, [client |-> c, status |-> "offline"])
  BY DEF onConnect, Takeover
<1>8. UNCHANGED <<callbacks, requests, status, history, counters>> /\ UNCHANGED limit
  BY DEF onConnect, counters
<1> HIDE DEF n
<1>9. ObjectOK'
  <2>1. topic_inbox' \in [Client -> BOOLEAN]
    BY <1>3 DEF ObjectOK
  <2>7. resubscribe' \in [Client -> SUBSET Conn]
    <3>1. CASE resubscribe' = resubscribe
      BY <3>1 DEF ObjectOK
    <3>2. CASE resubscribe' = [resubscribe EXCEPT ![c] = resubscribe[c] \cup {n}]
      BY <1>1, <3>2 DEF ObjectOK
    <3> QED BY <1>3, <3>1, <3>2
  <2>8. subscribing' \in [Client -> SUBSET Conn]
    <3>1. CASE subscribing' = subscribing
      BY <3>1 DEF ObjectOK
    <3>2. CASE subscribing' = [subscribing EXCEPT ![c] = subscribing[c] \cup {n}]
      BY <1>1, <3>2 DEF ObjectOK
    <3> QED BY <1>3, <3>1, <3>2
  <2>2. answered' \in [Client -> [Conn -> Nat]]
    <3>1. answered \in [Client -> [Conn -> Nat]] /\ answered[c][n] + 1 \in Nat
      BY <1>1 DEF ObjectOK
    <3>2. [answered EXCEPT ![c] = [answered[c] EXCEPT ![n] = answered[c][n] + 1]]
            \in [Client -> [Conn -> Nat]]
      BY <1>1, <3>1, Update
    <3> QED BY <1>3, <3>1, <3>2
  <2>3. link' \in [Client -> [Sock -> LinkState]]
    BY <1>1, <1>2 DEF ObjectOK, LinkState
  <2>4. \A d \in Client : link'[d][0] = "none"
    BY <1>1, <1>2 DEF ObjectOK, Conn
  <2>5. \A d \in Client, m \in Conn : link'[d][m] # "none" => m <= client[d]
    <3>1. n <= n
      BY <1>1 DEF Conn
    <3> QED BY <1>1, <1>2, <3>1 DEF ObjectOK, n
  <2>6. connected' \in [Client -> BOOLEAN]
    BY <1>2 DEF ObjectOK
  <2> QED BY <1>2, <2>1, <2>2, <2>3, <2>4, <2>5, <2>6, <2>7, <2>8 DEF ObjectOK
<1>10. WiresOK'
  <2>1. /\ Waiting(c, n) \in Seq(OutPacket) /\ <<Subscribe(n)>> \in Seq(OutPacket)
        /\ Announce(c) \in Seq(OutPacket)
    BY <1>1, Prepared
  <2>2. /\ Waiting(c, n) \o Announce(c) \in Seq(OutPacket)
        /\ Waiting(c, n) \o <<Subscribe(n)>> \o Announce(c) \in Seq(OutPacket)
    BY ONLY <2>1
  <2>3. out' \in [Client -> [Conn -> Seq(OutPacket)]]
    <3>1. out \in [Client -> [Conn -> Seq(OutPacket)]]
      BY DEF WiresOK
    <3>2. \A w \in Seq(OutPacket) :
            [out EXCEPT ![c] = [out[c] EXCEPT ![n] = w]] \in [Client -> [Conn -> Seq(OutPacket)]]
      BY <1>1, <3>1, Update
    <3> QED BY <1>4, <2>2, <3>2
  <2>4. <<>> \in Seq(InPacket)
    OBVIOUS
  <2>5. in' \in [Client -> [Conn -> Seq(InPacket)]] /\ kept' \in [Client -> SUBSET Conn]
    BY <1>1, <1>5, <2>4 DEF WiresOK
  <2> QED BY <2>3, <2>5 DEF WiresOK
<1>11. BrokerOK'
  <2>1. [client |-> c, status |-> "offline"] \in [client : Client, status : {"online", "offline"}]
    OBVIOUS
  <2>2. presence' \in Seq([client : Client, status : {"online", "offline"}])
    <3> DEFINE P == [client : Client, status : {"online", "offline"}]
               p == [client |-> c, status |-> "offline"]
    <3>1. p \in P /\ presence \in Seq(P)
      BY <2>1 DEF BrokerOK
    <3> HIDE DEF P
    <3>2. Append(presence, p) \in Seq(P)
      BY ONLY <3>1
    <3>3. presence' \in Seq(P)
      BY <1>7, <3>1, <3>2
    <3> QED BY <3>3 DEF P
  <2>3. [sock |-> n, stale |-> FALSE, subscribed |-> FALSE]
          \in [sock : Sock, stale : BOOLEAN, subscribed : BOOLEAN]
    BY <1>1
  <2>4. \A d \in Client : session'[d].sock = 0 => session'[d] = NoSession
    BY <1>1, <1>6 DEF BrokerOK, Conn
  <2>5. session' \in [Client -> [sock : Sock, stale : BOOLEAN, subscribed : BOOLEAN]]
        /\ bye' \in [Client -> BOOLEAN]
    BY <1>6, <2>3 DEF BrokerOK
  <2> QED BY <2>2, <2>4, <2>5 DEF BrokerOK
<1> QED BY <1>8, <1>9, <1>10, <1>11, Kept

\* What the answer to a subscribe changes, and what the answer to an unsubscribe does.
AnswersOK ==
  /\ subscribing \in [Client -> SUBSET Conn]
  /\ on_message_handler \in [Client -> Sock]
  /\ listening \in [Client -> SUBSET Conn]
  /\ answered \in [Client -> [Conn -> Nat]]

LinksOK ==
  /\ link \in [Client -> [Sock -> LinkState]]
  /\ \A c \in Client : link[c][0] = "none"
  /\ \A c \in Client, n \in Conn : link[c][n] # "none" => n <= client[c]
  /\ closing \in [Client -> [wait : {"no", "unsubscribe", "end"}, sock : Sock]]

LEMMA ObjectParts ==
  ObjectOK <=>
    /\ AnswersOK /\ LinksOK
    /\ client \in [Client -> Sock] /\ connected \in [Client -> BOOLEAN]
    /\ topic_inbox \in [Client -> BOOLEAN] /\ resubscribe \in [Client -> SUBSET Conn]
<1> QED BY DEF ObjectOK, AnswersOK, LinksOK

LEMMA SubscribedTypes ==
  ASSUME TypeInv, NEW c \in Client, NEW n \in Conn, link[c][n] # "none",
         Subscribed(c, n) \/ StillSubscribing
  PROVE  AnswersOK'
<1> USE DEF TypeInv
<1>1. CASE StillSubscribing
  BY <1>1 DEF StillSubscribing, AnswersOK, ObjectOK
<1>2. CASE Subscribed(c, n)
  <2>1. client[c] \in Conn /\ client[c] \in Sock
    BY Bounds DEF ObjectOK, Sock, Conn
  <2>2. subscribing' \in [Client -> SUBSET Conn]
    BY <1>2 DEF Subscribed, ObjectOK
  <2>3. on_message_handler' \in [Client -> Sock] /\ listening' \in [Client -> SUBSET Conn]
    BY <1>2, <2>1 DEF Subscribed, ObjectOK
  <2>4. answered \in [Client -> [Conn -> Nat]] /\ answered[c][n] + 1 \in Nat
    BY DEF ObjectOK
  <2>5. answered' = [answered EXCEPT ![c] = [answered[c] EXCEPT ![n] = answered[c][n] + 1]]
    BY <1>2 DEF Subscribed
  <2>6. answered' \in [Client -> [Conn -> Nat]]
    BY <2>4, <2>5, Update
  <2> QED BY <2>2, <2>3, <2>6 DEF AnswersOK
<1> QED BY <1>1, <1>2

LEMMA UnsubscribedTypes ==
  ASSUME TypeInv, NEW c \in Client, NEW l \in [Sock -> LinkState],
         NEW o \in [Conn -> Seq(OutPacket)], l[0] = "none",
         \A m \in Conn : l[m] # "none" => m <= client[c],
         Unsubscribed(c, l, o), UNCHANGED client
  PROVE  LinksOK' /\ out' \in [Client -> [Conn -> Seq(OutPacket)]]
<1> USE DEF TypeInv
<1> DEFINE n == client[c]
           k == [l EXCEPT ![n] = EndOf(l[n])]
<1>1. n \in Sock /\ 0 \in Sock /\ Conn \subseteq Sock
  BY Bounds DEF ObjectOK, Sock, Conn
<1>2. l[n] \in LinkState /\ EndOf(l[n]) \in LinkState /\ (EndOf(l[n]) = "none" <=> l[n] = "none")
  BY <1>1, EndOfType
<1>3. k \in [Sock -> LinkState] /\ k[0] = "none" /\ \A m \in Conn : k[m] # "none" => m <= n
  BY <1>1, <1>2
<1>4. link' = [link EXCEPT ![c] = k]
  BY DEF Unsubscribed
<1> HIDE DEF k
<1>5. closing' = [closing EXCEPT ![c] = [wait |-> "end", sock |-> n]]
  BY DEF Unsubscribed
<1>6. LinksOK'
  <2>1. closing' \in [Client -> [wait : {"no", "unsubscribe", "end"}, sock : Sock]]
    BY <1>1, <1>5 DEF ObjectOK
  <2> QED BY <1>3, <1>4, <2>1 DEF ObjectOK, LinksOK
<1>7. out' \in [Client -> [Conn -> Seq(OutPacket)]]
  <2>1. out \in [Client -> [Conn -> Seq(OutPacket)]]
    BY DEF WiresOK
  <2>2. CASE l[n] # "up"
    <3>1. out' = [out EXCEPT ![c] = o]
      BY <2>2 DEF Unsubscribed
    <3> QED BY <2>1, <3>1
  <2>3. CASE l[n] = "up"
    <3>1. n \in Conn
      BY <1>1, <2>3 DEF Sock, Conn
    <3>2. Append(o[n], DISCONNECT) \in Seq(OutPacket)
      BY <3>1, Packets
    <3>3. [o EXCEPT ![n] = Append(o[n], DISCONNECT)] \in [Conn -> Seq(OutPacket)]
      BY <3>1, <3>2
    <3>4. out' = [out EXCEPT ![c] = [o EXCEPT ![n] = Append(o[n], DISCONNECT)]]
      BY <2>3 DEF Unsubscribed
    <3> QED BY <2>1, <3>3, <3>4
  <2> QED BY <2>2, <2>3
<1> QED BY <1>6, <1>7

\* The packets and the state of object n once its stream has closed.
Severed(c, n) == [out[c] EXCEPT ![n] = <<>>]
Moved(c, n, l) == [link[c] EXCEPT ![n] = l]

LEMMA FailTypes ==
  ASSUME TypeInv, NEW c \in Client, NEW n \in Conn, NEW l \in LinkState,
         link[c][n] # "none", Fail(c, n, l),
         UNCHANGED <<client, connected, topic_inbox, resubscribe, kept>>
  PROVE  ObjectOK' /\ WiresOK'
<1> USE DEF TypeInv
<1>1. Conn \subseteq Sock /\ n # 0 /\ 0 \in Sock
  BY Bounds DEF Sock, Conn
<1>2. AnswersOK'
  <2>1. Subscribed(c, n) \/ StillSubscribing
    BY DEF Fail
  <2> QED BY <2>1, SubscribedTypes
<1>3. /\ Moved(c, n, l) \in [Sock -> LinkState] /\ Moved(c, n, l)[0] = "none"
      /\ \A m \in Conn : Moved(c, n, l)[m] # "none" => m <= client[c]
  BY <1>1 DEF Moved, ObjectOK
<1>4. Severed(c, n) \in [Conn -> Seq(OutPacket)]
  BY DEF Severed, WiresOK
<1>5. LinksOK' /\ out' \in [Client -> [Conn -> Seq(OutPacket)]]
  <2>1. CASE closing[c] = [wait |-> "unsubscribe", sock |-> n]
    <3>1. Unsubscribed(c, Moved(c, n, l), Severed(c, n))
      BY <2>1 DEF Fail, Moved, Severed
    <3> QED BY <1>3, <1>4, <3>1, UnsubscribedTypes
  <2>2. CASE closing[c] # [wait |-> "unsubscribe", sock |-> n]
    <3>1. /\ link' = [link EXCEPT ![c] = Moved(c, n, l)]
          /\ out' = [out EXCEPT ![c] = Severed(c, n)]
          /\ UNCHANGED closing
      BY <2>2 DEF Fail, Moved, Severed
    <3>2. LinksOK'
      BY <1>3, <3>1 DEF ObjectOK, LinksOK
    <3> QED BY <1>4, <3>1, <3>2 DEF WiresOK
  <2> QED BY <2>1, <2>2
<1>6. in' \in [Client -> [Conn -> Seq(InPacket)]]
  BY DEF Fail, WiresOK
<1>7. ObjectOK'
  <2>1. ObjectOK
    OBVIOUS
  <2>2. /\ client' \in [Client -> Sock] /\ connected' \in [Client -> BOOLEAN]
        /\ topic_inbox' \in [Client -> BOOLEAN] /\ resubscribe' \in [Client -> SUBSET Conn]
    BY <2>1 DEF ObjectOK
  <2> QED BY <1>2, <1>5, <2>2 DEF ObjectOK, AnswersOK, LinksOK
<1> QED BY <1>5, <1>6, <1>7 DEF WiresOK

LEMMA LostTypes ==
  ASSUME TypeInv, NEW c \in Client, NEW n \in Conn, Lost(c, n)
  PROVE  TypeInv'
<1> USE DEF TypeInv
<1>1. ObjectOK' /\ WiresOK'
  <2>1. \E l \in {"down", "ended"} : Fail(c, n, l)
    BY DEF Lost
  <2>2. link[c][n] # "none" /\ {"down", "ended"} \subseteq LinkState
    BY DEF Lost, LinkState
  <2> QED BY <2>1, <2>2, FailTypes DEF Lost
<1>2. \/ session' = session
      \/ session[c].sock # 0 /\ session' = [session EXCEPT ![c].stale = TRUE]
  BY DEF Lost, Conn
<1>3. BrokerOK'
  <2>1. CASE session' = session
    BY <2>1 DEF BrokerOK, Lost
  <2>2. CASE session[c].sock # 0 /\ session' = [session EXCEPT ![c].stale = TRUE]
    <3>1. session' \in [Client -> [sock : Sock, stale : BOOLEAN, subscribed : BOOLEAN]]
          /\ \A d \in Client : session'[d].sock = 0 => session'[d] = NoSession
      BY <2>2 DEF BrokerOK
    <3> QED BY <3>1 DEF BrokerOK, Lost
  <2> QED BY <1>2, <2>1, <2>2
<1>4. /\ UNCHANGED <<callbacks, limit, requests, status, history, events, heres>>
      /\ faults < limit.fault /\ faults' = faults + 1
  BY DEF Lost
<1>5. RestOK'
  BY <1>4, Bounds DEF RestOK, history
<1> QED BY <1>1, <1>3, <1>4, <1>5, Kept

LEMMA StreamEndsTypes ==
  ASSUME TypeInv, NEW c \in Client, NEW n \in Conn, StreamEnds(c, n)
  PROVE  TypeInv'
<1> USE DEF TypeInv
<1>1. ObjectOK' /\ WiresOK'
  <2>1. link[c][n] # "none" /\ "ended" \in LinkState
    BY DEF StreamEnds, LinkState
  <2> QED BY <2>1, FailTypes DEF StreamEnds
<1>2. UNCHANGED <<callbacks, limit, broker, requests, status, history, counters>>
  BY DEF StreamEnds, counters
<1> QED BY <1>1, <1>2, Kept

LEMMA AttemptFailsTypes ==
  ASSUME TypeInv, NEW c \in Client, NEW n \in Conn, AttemptFails(c, n)
  PROVE  TypeInv'
<1> USE DEF TypeInv
<1>1. ObjectOK' /\ WiresOK'
  <2>1. link[c][n] # "none" /\ "down" \in LinkState
    BY DEF AttemptFails, LinkState
  <2> QED BY <2>1, FailTypes DEF AttemptFails
<1>2. UNCHANGED <<callbacks, limit, broker, requests, status, history, counters>>
  BY DEF AttemptFails, counters
<1> QED BY <1>1, <1>2, Kept

LEMMA ClosedTypes ==
  ASSUME TypeInv, NEW c \in Client, Closed(c)
  PROVE  TypeInv'
<1> USE DEF TypeInv
<1>1. 0 \in Sock
  BY Bounds DEF Sock
<1>2. /\ connected' = [connected EXCEPT ![c] = FALSE]
      /\ registry' = [registry EXCEPT ![c] = {}]
      /\ on_message_handler' = [on_message_handler EXCEPT ![c] = 0]
      /\ topic_inbox' = [topic_inbox EXCEPT ![c] = FALSE]
      /\ closing' = [closing EXCEPT ![c] = [wait |-> "no", sock |-> 0]]
      /\ stale' = [stale EXCEPT ![c] = 1 .. last_handler[c]]
      /\ told' = [told EXCEPT ![c] = {}]
      /\ UNCHANGED <<client, link, listening, resubscribe, subscribing, answered, last_handler>>
  BY DEF Closed, Reset, ResetTo
<1>3. ObjectOK'
  BY <1>1, <1>2 DEF ObjectOK
<1>4. UNCHANGED <<wires, broker, requests, status, history, counters>> /\ UNCHANGED limit
  BY DEF Closed, counters
<1>5. CallbacksOK'
  <2>1. 1 .. last_handler[c] \in SUBSET Nat
    BY Bounds DEF CallbacksOK
  <2> QED BY <1>2, <1>4, <2>1 DEF CallbacksOK
<1> QED BY <1>3, <1>4, <1>5, Kept

\* The broker.
PresenceMessage == [client : Client, status : {"online", "offline"}]

LEMMA AppendPresence ==
  ASSUME BrokerOK, NEW p \in PresenceMessage
  PROVE  Append(presence, p) \in Seq(PresenceMessage)
<1> QED BY DEF BrokerOK, PresenceMessage

LEMMA SessionTypes ==
  ASSUME BrokerOK, NEW c \in Client,
         \/ UNCHANGED session
         \/ session' = [session EXCEPT ![c] = NoSession]
         \/ session' = [session EXCEPT ![c].subscribed = TRUE]
         \/ session' = [session EXCEPT ![c].subscribed = FALSE],
         session[c].sock # 0
  PROVE  /\ session' \in [Client -> [sock : Sock, stale : BOOLEAN, subscribed : BOOLEAN]]
         /\ \A d \in Client : session'[d].sock = 0 => session'[d] = NoSession
<1>1. NoSession \in [sock : Sock, stale : BOOLEAN, subscribed : BOOLEAN]
  BY ClientAssumption DEF NoSession, Sock
<1>2. CASE UNCHANGED session
  BY <1>2 DEF BrokerOK
<1>3. CASE session' = [session EXCEPT ![c] = NoSession]
  BY <1>1, <1>3 DEF BrokerOK
<1>4. CASE session' = [session EXCEPT ![c].subscribed = TRUE]
  BY <1>4 DEF BrokerOK, NoSession
<1>5. CASE session' = [session EXCEPT ![c].subscribed = FALSE]
  BY <1>5 DEF BrokerOK, NoSession
<1> QED BY <1>2, <1>3, <1>4, <1>5

LEMMA SendTypes ==
  ASSUME WiresOK, NEW c \in Client, NEW n \in Conn, NEW p \in InPacket, Send(c, n, p)
  PROVE  in' \in [Client -> [Conn -> Seq(InPacket)]]
<1>1. Append(in[c][n], p) \in Seq(InPacket) /\ in \in [Client -> [Conn -> Seq(InPacket)]]
  BY DEF WiresOK
<1>2. in' = [in EXCEPT ![c] = [in[c] EXCEPT ![n] = Append(in[c][n], p)]]
  BY DEF Send
<1> QED BY <1>1, <1>2, Update

LEMMA TakeTypes ==
  ASSUME WiresOK, NEW c \in Client, NEW n \in Conn, out[c][n] # <<>>, Take(c, n)
  PROVE  out' \in [Client -> [Conn -> Seq(OutPacket)]]
<1>1. Tail(out[c][n]) \in Seq(OutPacket) /\ out \in [Client -> [Conn -> Seq(OutPacket)]]
  BY DEF WiresOK
<1>2. out' = [out EXCEPT ![c] = [out[c] EXCEPT ![n] = Tail(out[c][n])]]
  BY DEF Take
<1> QED BY <1>1, <1>2, Update

LEMMA BrokerTakesTypes ==
  ASSUME TypeInv, NEW c \in Client, BrokerTakes(c)
  PROVE  TypeInv'
<1> USE DEF TypeInv
<1> DEFINE n == session[c].sock
           p == Head(out[c][n])
<1>1. n \in Conn /\ n # 0 /\ out[c][n] # <<>> /\ Take(c, n)
  BY DEF BrokerTakes, BrokerOK, Sock, Conn
<1>2. p \in OutPacket
  BY <1>1 DEF WiresOK
<1>3. out' \in [Client -> [Conn -> Seq(OutPacket)]]
  BY <1>1, TakeTypes
<1>4. UNCHANGED <<object, callbacks, kept, requests, status, raced, limit, events, heres>>
  BY DEF BrokerTakes
<1> SUFFICES /\ in' \in [Client -> [Conn -> Seq(InPacket)]]
             /\ BrokerOK'
             /\ refused' \in [Client -> BOOLEAN] /\ faults' \in 0 .. limit.fault
  <2>1. ASSUME in' \in [Client -> [Conn -> Seq(InPacket)]] PROVE WiresOK'
    BY <1>3, <1>4, <2>1 DEF WiresOK
  <2>2. ASSUME refused' \in [Client -> BOOLEAN], faults' \in 0 .. limit.fault PROVE RestOK'
    BY <1>4, <2>2 DEF RestOK
  <2> QED BY <1>4, <2>1, <2>2, Kept
<1>5. /\ in \in [Client -> [Conn -> Seq(InPacket)]]
      /\ refused \in [Client -> BOOLEAN] /\ faults \in 0 .. limit.fault
      /\ presence \in Seq(PresenceMessage) /\ bye \in [Client -> BOOLEAN]
  BY DEF WiresOK, RestOK, BrokerOK, PresenceMessage
<1>6. ASSUME p.packet = "subscribe",
             session' = [session EXCEPT ![c].subscribed = TRUE],
             Send(c, n, Suback(p.by, TRUE)), UNCHANGED <<presence, bye, refused, faults>>
      PROVE  /\ in' \in [Client -> [Conn -> Seq(InPacket)]]
             /\ BrokerOK'
             /\ refused' \in [Client -> BOOLEAN] /\ faults' \in 0 .. limit.fault
  <2>1. p.by \in Sock
    BY <1>2, <1>6 DEF OutPacket
  <2>2. Suback(p.by, TRUE) \in InPacket
    BY <2>1, Packets
  <2> QED BY <1>1, <1>5, <1>6, <2>2, SendTypes, SessionTypes DEF BrokerOK, PresenceMessage
<1>7. ASSUME p.packet = "subscribe", faults < limit.fault, faults' = faults + 1,
             Send(c, n, Suback(p.by, FALSE)), refused' = [refused EXCEPT ![c] = TRUE],
             UNCHANGED broker
      PROVE  /\ in' \in [Client -> [Conn -> Seq(InPacket)]]
             /\ BrokerOK'
             /\ refused' \in [Client -> BOOLEAN] /\ faults' \in 0 .. limit.fault
  <2>1. p.by \in Sock
    BY <1>2, <1>7 DEF OutPacket
  <2>2. Suback(p.by, FALSE) \in InPacket
    BY <2>1, Packets
  <2>3. in' \in [Client -> [Conn -> Seq(InPacket)]]
    BY <1>1, <1>7, <2>2, SendTypes
  <2>4. faults' \in 0 .. limit.fault
    BY <1>5, <1>7, Bounds
  <2> QED BY <1>5, <1>7, <2>3, <2>4, Kept
<1>8. ASSUME session' = [session EXCEPT ![c].subscribed = FALSE],
             Send(c, n, UNSUBACK), UNCHANGED <<presence, bye, refused, faults>>
      PROVE  /\ in' \in [Client -> [Conn -> Seq(InPacket)]]
             /\ BrokerOK'
             /\ refused' \in [Client -> BOOLEAN] /\ faults' \in 0 .. limit.fault
  BY <1>1, <1>5, <1>8, Packets, SendTypes, SessionTypes DEF BrokerOK, PresenceMessage
<1>9. ASSUME presence' = Append(presence, [client |-> c, status |-> "online"]),
             UNCHANGED <<in, session, bye, refused, faults>>
      PROVE  /\ in' \in [Client -> [Conn -> Seq(InPacket)]]
             /\ BrokerOK'
             /\ refused' \in [Client -> BOOLEAN] /\ faults' \in 0 .. limit.fault
  <2>1. [client |-> c, status |-> "online"] \in PresenceMessage
    BY DEF PresenceMessage
  <2>2. presence' \in Seq(PresenceMessage)
    BY <1>9, <2>1, AppendPresence
  <2> QED BY <1>5, <1>9, <2>2 DEF BrokerOK, PresenceMessage
<1>10. ASSUME session' = [session EXCEPT ![c] = NoSession],
              bye' = [bye EXCEPT ![c] = TRUE], UNCHANGED <<in, presence, refused, faults>>
      PROVE  /\ in' \in [Client -> [Conn -> Seq(InPacket)]]
             /\ BrokerOK'
             /\ refused' \in [Client -> BOOLEAN] /\ faults' \in 0 .. limit.fault
  BY <1>5, <1>10, SessionTypes DEF BrokerOK, PresenceMessage
<1> QED BY <1>6, <1>7, <1>8, <1>9, <1>10 DEF BrokerTakes

LEMMA ExpireTypes ==
  ASSUME TypeInv, NEW c \in Client, Expire(c)
  PROVE  TypeInv'
<1> USE DEF TypeInv
<1>1. [client |-> c, status |-> "offline"] \in PresenceMessage
  BY DEF PresenceMessage
<1>2. presence' \in Seq(PresenceMessage)
  BY <1>1, AppendPresence DEF Expire
<1>3. BrokerOK'
  <2>1. session[c].sock # 0
    BY DEF BrokerOK, NoSession, Expire
  <2> QED BY <1>2, <2>1, SessionTypes DEF Expire, BrokerOK, PresenceMessage
<1>4. UNCHANGED <<object, callbacks, limit, wires, requests, status, history, counters>>
  BY DEF Expire, counters
<1> QED BY <1>3, <1>4, Kept

LEMMA PublishTypes ==
  ASSUME TypeInv, NEW c \in Client, NEW e \in Event, Publish(c, e)
  PROVE  TypeInv'
<1> USE DEF TypeInv
<1>1. session[c].sock \in Conn
  BY DEF BrokerOK, NoSession, Publish, Sock, Conn
<1>2. in' \in [Client -> [Conn -> Seq(InPacket)]]
  BY <1>1, Packets, SendTypes DEF Publish
<1>3. WiresOK'
  BY <1>2 DEF WiresOK, Publish
<1>4. /\ UNCHANGED <<object, callbacks, limit, broker, requests, status, history, heres, faults>>
      /\ events < limit.event /\ events' = events + 1
  BY DEF Publish
<1>5. RestOK'
  BY <1>4, Bounds DEF RestOK, history
<1> QED BY <1>3, <1>4, <1>5, Kept

\* What arrives.
LEMMA MessageTypes ==
  ASSUME TypeInv, NEW c \in Client, NEW n \in Conn, NEW e, onMessage(c, n, e),
         UNCHANGED <<registry, last_handler, stale, limit>>
  PROVE  CallbacksOK' /\ (told'[c] = told[c] \/ \A i \in told'[c] : \E h \in registry[c] : i = h.id)
<1> USE DEF TypeInv
<1>1. CASE UNCHANGED told
  BY <1>1 DEF CallbacksOK
<1>2. CASE \E ids \in SUBSET {h.id : h \in registry[c]} : told' = [told EXCEPT ![c] = ids]
  <2>1. PICK ids \in SUBSET {h.id : h \in registry[c]} : told' = [told EXCEPT ![c] = ids]
    BY <1>2
  <2>2. ids \subseteq 1 .. last_handler[c] /\ 1 .. last_handler[c] \subseteq Nat
    BY <2>1, Bounds DEF CallbacksOK
  <2>3. told' \in [Client -> SUBSET Nat] /\ \A d \in Client : told'[d] \subseteq 1 .. last_handler[d]
    BY <2>1, <2>2 DEF CallbacksOK
  <2>4. CallbacksOK'
    BY <2>3 DEF CallbacksOK
  <2> QED BY <2>1, <2>4 DEF CallbacksOK
<1>3. CallsOf(c, e) \subseteq registry[c]
  BY DEF CallsOf
<1>4. CASE told' = [told EXCEPT ![c] = {}]
  BY <1>2, <1>4
<1>5. CASE \E last \in CallsOf(c, e) :
             told' = [told EXCEPT ![c] = {h.id : h \in UpTo(CallsOf(c, e), last)}]
  <2>1. PICK last \in CallsOf(c, e) :
          told' = [told EXCEPT ![c] = {h.id : h \in UpTo(CallsOf(c, e), last)}]
    BY <1>5
  <2>2. {h.id : h \in UpTo(CallsOf(c, e), last)} \in SUBSET {h.id : h \in registry[c]}
    BY <1>3 DEF UpTo
  <2> QED BY <1>2, <2>1, <2>2
<1> QED BY <1>1, <1>4, <1>5 DEF onMessage

LEMMA ClientTakesTypes ==
  ASSUME TypeInv, NEW c \in Client, NEW n \in Conn, ClientTakes(c, n)
  PROVE  TypeInv'
<1> USE DEF TypeInv
<1> DEFINE p == Head(in[c][n])
<1>1. Tail(in[c][n]) \in Seq(InPacket) /\ in \in [Client -> [Conn -> Seq(InPacket)]]
  BY DEF ClientTakes, WiresOK
<1>2. in' = [in EXCEPT ![c] = [in[c] EXCEPT ![n] = Tail(in[c][n])]] /\ link[c][n] # "none"
  BY DEF ClientTakes
<1>3. in' \in [Client -> [Conn -> Seq(InPacket)]]
  BY <1>1, <1>2, Update
<1>4. /\ UNCHANGED <<client, connected, topic_inbox, registry, last_handler, stale, kept>>
      /\ UNCHANGED <<broker, requests, status, history, counters>> /\ UNCHANGED limit
  BY DEF ClientTakes, counters
<1>5. LinksOK /\ out \in [Client -> [Conn -> Seq(OutPacket)]]
  BY ObjectParts DEF WiresOK
<1>6. ASSUME Subscribed(c, n) \/ StillSubscribing,
             UNCHANGED resubscribe \/ resubscribe' = [resubscribe EXCEPT ![c] = resubscribe[c] \ {n}],
             LinksOK', out' \in [Client -> [Conn -> Seq(OutPacket)]], CallbacksOK'
      PROVE  TypeInv'
  <2>1. AnswersOK'
    BY <1>2, <1>6, SubscribedTypes
  <2>2. resubscribe' \in [Client -> SUBSET Conn]
    <3>1. CASE UNCHANGED resubscribe
      BY <3>1 DEF ObjectOK
    <3>2. CASE resubscribe' = [resubscribe EXCEPT ![c] = resubscribe[c] \ {n}]
      BY <3>2 DEF ObjectOK
    <3> QED BY <1>6, <3>1, <3>2
  <2>3. ObjectOK'
    <3>1. /\ client' \in [Client -> Sock] /\ connected' \in [Client -> BOOLEAN]
          /\ topic_inbox' \in [Client -> BOOLEAN]
      BY <1>4 DEF ObjectOK
    <3> QED BY <1>6, <2>1, <2>2, <3>1 DEF ObjectOK, AnswersOK, LinksOK
  <2>4. WiresOK'
    BY <1>3, <1>4, <1>6 DEF WiresOK
  <2> QED BY <1>4, <1>6, <2>3, <2>4, Kept
<1>7. CASE /\ p.packet = "suback"
           /\ IF p.by # 0 THEN Subscribed(c, n) ELSE StillSubscribing
           /\ resubscribe' = [resubscribe EXCEPT ![c] = IF p.granted THEN resubscribe[c] ELSE resubscribe[c] \ {n}]
           /\ UNCHANGED <<link, out, closing, told>>
  <2>1. UNCHANGED resubscribe \/ resubscribe' = [resubscribe EXCEPT ![c] = resubscribe[c] \ {n}]
    BY <1>7 DEF ObjectOK
  <2>2. LinksOK' /\ CallbacksOK'
    BY <1>4, <1>5, <1>7 DEF LinksOK, CallbacksOK
  <2> QED BY <1>5, <1>6, <1>7, <2>1, <2>2
<1>8. CASE Unsubscribed(c, link[c], out[c]) /\ StillSubscribing /\ UNCHANGED <<resubscribe, told>>
  <2>1. /\ link[c] \in [Sock -> LinkState] /\ link[c][0] = "none"
        /\ \A m \in Conn : link[c][m] # "none" => m <= client[c]
        /\ out[c] \in [Conn -> Seq(OutPacket)]
    BY DEF ObjectOK, WiresOK
  <2>2. LinksOK' /\ out' \in [Client -> [Conn -> Seq(OutPacket)]]
    BY <1>4, <1>8, <2>1, UnsubscribedTypes
  <2>3. CallbacksOK'
    BY <1>4, <1>8 DEF CallbacksOK
  <2> QED BY <1>6, <1>8, <2>2, <2>3
<1>9. CASE /\ onMessage(c, n, p.event) /\ StillSubscribing
           /\ UNCHANGED <<link, out, closing, resubscribe>>
  <2>1. CallbacksOK'
    BY <1>4, <1>9, MessageTypes
  <2>2. LinksOK'
    BY <1>4, <1>5, <1>9 DEF LinksOK
  <2> QED BY <1>5, <1>6, <1>9, <2>1, <2>2
<1> QED BY <1>7, <1>8, <1>9 DEF ClientTakes

LEMMA ReportTypes ==
  ASSUME TypeInv, process_presence
  PROVE  TypeInv'
<1> USE DEF TypeInv
<1>1. presence \in Seq(PresenceMessage) /\ presence # <<>>
  BY DEF BrokerOK, PresenceMessage, process_presence
<1>2. Tail(presence) \in Seq(PresenceMessage) /\ Head(presence) \in PresenceMessage
  BY <1>1
<1>3. BrokerOK'
  BY <1>2 DEF process_presence, BrokerOK, PresenceMessage
<1>4. /\ UNCHANGED <<object, callbacks, limit, wires, requests, history, counters>>
      /\ status' = [status EXCEPT ![Owner[Head(presence).client]] = Head(presence).status]
  BY DEF process_presence, counters
<1>5. status' \in [User -> {"unknown", "online", "offline"}]
  BY <1>2, <1>4, ClientAssumption DEF RestOK, PresenceMessage
<1>6. RestOK'
  BY <1>4, <1>5 DEF RestOK, history, counters
<1> QED BY <1>3, <1>4, <1>6, Kept

LEMMA StutterTypes == TypeInv /\ UNCHANGED vars => TypeInv'
<1> SUFFICES ASSUME TypeInv, UNCHANGED vars PROVE TypeInv'
  OBVIOUS
<1>1. UNCHANGED <<object, callbacks, limit, wires, broker, requests, status, history, counters>>
  BY DEF vars, counters
<1> QED BY <1>1, Kept DEF TypeInv

LEMMA TypeStep == TypeInv /\ [Next]_vars => TypeInv'
<1> SUFFICES ASSUME TypeInv, [Next]_vars PROVE TypeInv'
  OBVIOUS
<1>1. CASE process_presence
  BY <1>1, ReportTypes
<1>2. ASSUME NEW c \in Client, Application(c) PROVE TypeInv'
  <2>1. ASSUME NEW kind \in WithBody \cup Plain \cup Detail, myrequest(c, kind) PROVE TypeInv'
    BY <2>1, RequestTypes
  <2>2. ASSUME \/ groupCreate(c) \/ groupData(c) \/ groupLeave(c) \/ groupJoin(c)
               \/ groupSetMembers(c) \/ saveInstance(c)
               \/ conversationDetail(c) \/ archivedConversationDetail(c)
        PROVE  TypeInv'
    BY <2>1, <2>2 DEF WithBody, Plain, Detail, groupCreate, groupData, groupLeave, groupJoin,
       groupSetMembers, saveInstance, conversationDetail, archivedConversationDetail
  <2> QED BY <1>2, <2>2, ConnectTypes, CloseTypes, ImHereTypes, OnCallbackTypes, RemoveTypes
          DEF Application
<1>3. ASSUME NEW c \in Client, Progress(c) PROVE TypeInv'
  BY <1>3, OnConnectTypes, ClosedTypes, ResponseTypes, BrokerTakesTypes, ExpireTypes,
     StreamEndsTypes, ClientTakesTypes DEF Progress
<1>4. ASSUME NEW c \in Client, Fault(c) PROVE TypeInv'
  BY <1>4, LostTypes, AttemptFailsTypes, PublishTypes DEF Fault
<1> QED BY <1>1, <1>2, <1>3, <1>4, StutterTypes DEF Next

\* Every variable keeps its type, the packets of the connections included.
THEOREM TypeInvHolds == Spec => []TypeInv
<1> QED BY InitTypes, TypeStep, PTL DEF Spec

\* The type invariant that the run checks.
THEOREM TypeOKHolds == Spec => []TypeOK
<1> QED BY TypeInvHolds, TypesImplyOK, PTL

-----------------------------------------------------------------------------
(* Callbacks that are gone.                                                *)

LEMMA StaleOther ==
  ASSUME NEW d \in Client, StaleOK(d),
         \/ UNCHANGED <<registry, told, stale>>
         \/ registry'[d] = registry[d] /\ told'[d] = told[d] /\ stale'[d] = stale[d]
  PROVE  StaleOK(d)'
<1> QED BY DEF StaleOK

LEMMA StaleAdd ==
  ASSUME StaleInv, NEW c \in Client, NEW list \in Kind, NEW conv \in Conv,
         onCallback(c, list, conv), NEW d \in Client
  PROVE  StaleOK(d)'
<1> DEFINE id == last_handler'[c]
           h == [id |-> id, list |-> list, conv |-> conv]
<1>1. /\ id = last_handler[c] + 1 /\ last_handler[c] \in Nat
      /\ registry' = [registry EXCEPT ![c] = registry[c] \cup {h}]
      /\ UNCHANGED <<told, stale>>
  BY Bounds DEF onCallback, StaleInv, TypeInv, CallbacksOK
<1>2. \A g \in registry[c] : g.id \in 1 .. last_handler[c]
  BY DEF StaleInv, TypeInv, CallbacksOK
<1>3. stale[c] \subseteq 1 .. last_handler[c]
  BY DEF StaleInv, TypeInv, CallbacksOK
<1>4. id \notin stale[c] /\ \A g \in registry[c] : g.id # id
  BY <1>1, <1>2, <1>3
<1>5. h.id = id
  OBVIOUS
<1> HIDE DEF id, h
<1>6. CASE d # c
  BY <1>1, <1>6, StaleOther DEF StaleInv, TypeInv, CallbacksOK
<1>7. CASE d = c
  <2>1. registry'[c] = registry[c] \cup {h} /\ StaleOK(c)
    BY <1>1 DEF StaleInv, TypeInv, CallbacksOK
  <2> QED BY <1>1, <1>4, <1>5, <1>7, <2>1 DEF StaleOK
<1> QED BY <1>6, <1>7

LEMMA StaleRemove ==
  ASSUME StaleInv, NEW c \in Client, NEW h \in registry[c], removeHandler(c, h.list, h.id),
         NEW d \in Client
  PROVE  StaleOK(d)'
<1> DEFINE gone == {g \in registry[c] : g.id = h.id /\ g.list = h.list}
<1>1. /\ registry' = [registry EXCEPT ![c] = registry[c] \ gone]
      /\ stale' = [stale EXCEPT ![c] = stale[c] \cup {h.id}]
      /\ told' = [told EXCEPT ![c] = {}]
  BY DEF removeHandler
<1>2. StaleOK(c) /\ \A g \in registry[c] : g.id = h.id => g \in gone
  BY DEF StaleInv, StaleOK
<1> HIDE DEF gone
<1>3. CASE d # c
  BY <1>1, <1>3, StaleOther DEF StaleInv, TypeInv, CallbacksOK
<1>4. CASE d = c
  <2>1. /\ registry'[c] = registry[c] \ gone /\ told'[c] = {}
        /\ stale'[c] = stale[c] \cup {h.id}
    BY <1>1 DEF StaleInv, TypeInv, CallbacksOK
  <2> QED BY <1>2, <1>4, <2>1 DEF StaleOK
<1> QED BY <1>3, <1>4

LEMMA StaleClosed ==
  ASSUME StaleInv, NEW c \in Client, Closed(c), NEW d \in Client
  PROVE  StaleOK(d)'
<1>1. /\ registry' = [registry EXCEPT ![c] = {}]
      /\ stale' = [stale EXCEPT ![c] = 1 .. last_handler[c]]
      /\ told' = [told EXCEPT ![c] = {}]
  BY DEF Closed, Reset, ResetTo
<1>2. CASE d # c
  BY <1>1, <1>2, StaleOther DEF StaleInv, TypeInv, CallbacksOK
<1>3. CASE d = c
  <2>1. registry'[c] = {} /\ told'[c] = {}
    BY <1>1 DEF StaleInv, TypeInv, CallbacksOK
  <2> QED BY <1>3, <2>1 DEF StaleOK
<1> QED BY <1>2, <1>3

LEMMA StaleTakes ==
  ASSUME StaleInv, NEW c \in Client, NEW n \in Conn, ClientTakes(c, n), NEW d \in Client
  PROVE  StaleOK(d)'
<1>1. UNCHANGED <<registry, last_handler, stale, limit>>
  BY DEF ClientTakes, counters
<1>2. CASE UNCHANGED told
  BY <1>1, <1>2, StaleOther DEF StaleInv
<1>3. CASE \E e : onMessage(c, n, e)
  <2>1. PICK e : onMessage(c, n, e)
    BY <1>3
  <2>2. told'[c] = told[c] \/ \A i \in told'[c] : \E h \in registry[c] : i = h.id
    BY <1>1, <2>1, MessageTypes DEF StaleInv
  <2>3. CASE d # c
    <3>1. told'[d] = told[d]
      BY <2>1, <2>3 DEF onMessage, StaleInv, TypeInv, CallbacksOK
    <3> QED BY <1>1, <3>1, StaleOther DEF StaleInv
  <2>4. CASE d = c
    <3>1. StaleOK(c)
      BY DEF StaleInv
    <3> QED BY <1>1, <2>2, <2>4, <3>1 DEF StaleOK
  <2> QED BY <2>3, <2>4
<1> QED BY <1>2, <1>3 DEF ClientTakes

LEMMA StaleStep == StaleInv /\ [Next]_vars => StaleInv'
<1> SUFFICES ASSUME StaleInv, [Next]_vars PROVE StaleInv'
  OBVIOUS
<1>1. TypeInv'
  BY TypeStep DEF StaleInv
<1> SUFFICES ASSUME NEW d \in Client PROVE StaleOK(d)'
  BY <1>1 DEF StaleInv
<1>2. CASE UNCHANGED <<registry, told, stale>>
  BY <1>2, StaleOther DEF StaleInv
<1>3. CASE process_presence \/ UNCHANGED vars
  BY <1>2, <1>3 DEF process_presence, callbacks, vars
<1>4. ASSUME NEW c \in Client, Application(c) PROVE StaleOK(d)'
  <2>1. CASE connect(c) \/ close(c) \/ ImHere(c)
    BY <1>2, <2>1 DEF connect, close, ImHere, callbacks
  <2>2. ASSUME NEW kind, myrequest(c, kind) PROVE StaleOK(d)'
    BY <1>2, <2>2 DEF myrequest, callbacks
  <2>3. CASE \/ groupCreate(c) \/ groupData(c) \/ groupLeave(c) \/ groupJoin(c)
             \/ groupSetMembers(c) \/ saveInstance(c)
             \/ conversationDetail(c) \/ archivedConversationDetail(c)
    BY <2>2, <2>3 DEF groupCreate, groupData, groupLeave, groupJoin,
       groupSetMembers, saveInstance, conversationDetail, archivedConversationDetail
  <2> QED BY <1>4, <2>1, <2>3, StaleAdd, StaleRemove DEF Application
<1>5. ASSUME NEW c \in Client, Progress(c) PROVE StaleOK(d)'
  <2>1. CASE \/ onConnect(c) \/ Response(c) \/ BrokerTakes(c) \/ Expire(c)
             \/ \E n \in Conn : StreamEnds(c, n)
    BY <1>2, <2>1 DEF onConnect, Response, BrokerTakes, Expire, StreamEnds, callbacks
  <2> QED BY <1>5, <2>1, StaleClosed, StaleTakes DEF Progress
<1>6. ASSUME NEW c \in Client, Fault(c) PROVE StaleOK(d)'
  BY <1>2, <1>6 DEF Fault, Lost, AttemptFails, Publish, callbacks
<1> QED BY <1>3, <1>4, <1>5, <1>6 DEF Next

\* A message reaches no callback that was removed, or registered before the last
\* close() was answered: an id names one callback for ever.
THEOREM NoStaleCallbackHolds == Spec => []NoStaleCallback
<1>1. Init => StaleInv
  BY InitTypes DEF Init, StaleInv, StaleOK
<1>2. StaleInv => NoStaleCallback
  BY DEF StaleInv, StaleOK, NoStaleCallback
<1> QED BY <1>1, <1>2, StaleStep, PTL DEF Spec

-----------------------------------------------------------------------------
(* What a step changes.                                                    *)

\* Nothing of client d that the rest of this module speaks of, but its requests.
Alike(d) ==
  /\ client'[d] = client[d] /\ link'[d] = link[d] /\ connected'[d] = connected[d]
  /\ on_message_handler'[d] = on_message_handler[d] /\ topic_inbox'[d] = topic_inbox[d]
  /\ listening'[d] = listening[d] /\ resubscribe'[d] = resubscribe[d]
  /\ subscribing'[d] = subscribing[d] /\ closing'[d] = closing[d]
  /\ answered'[d] = answered[d]
  /\ kept'[d] = kept[d] /\ out'[d] = out[d] /\ in'[d] = in[d]
  /\ session'[d] = session[d] /\ bye'[d] = bye[d]
  /\ raced'[d] = raced[d] /\ refused'[d] = refused[d]

Same(d) == Alike(d) /\ requests'[d] = requests[d]

LEMMA Domains ==
  ASSUME TypeInv
  PROVE  /\ DOMAIN client = Client /\ DOMAIN link = Client /\ DOMAIN connected = Client
         /\ DOMAIN on_message_handler = Client /\ DOMAIN topic_inbox = Client
         /\ DOMAIN listening = Client /\ DOMAIN resubscribe = Client
         /\ DOMAIN subscribing = Client /\ DOMAIN closing = Client
         /\ DOMAIN answered = Client /\ DOMAIN requests = Client
         /\ DOMAIN kept = Client /\ DOMAIN out = Client /\ DOMAIN in = Client
         /\ DOMAIN session = Client /\ DOMAIN bye = Client
         /\ DOMAIN raced = Client /\ DOMAIN refused = Client
<1> QED BY DEF TypeInv, ObjectOK, WiresOK, BrokerOK, RestOK

LEMMA CallsElsewhere ==
  ASSUME TypeInv, NEW c \in Client, NEW d \in Client, d # c, Application(c)
  PROVE  Same(d)
<1>1. CASE connect(c)
  BY <1>1, Domains DEF connect, Same, Alike, callbacks, broker
<1>2. CASE close(c)
  BY <1>2, Domains DEF close, Same, Alike, broker, history
<1>3. CASE ImHere(c)
  BY <1>3, Domains DEF ImHere, Same, Alike, object, broker, history
<1>4. ASSUME NEW list, NEW conv, onCallback(c, list, conv) PROVE Same(d)
  BY <1>4 DEF onCallback, Same, Alike, object, wires, broker, history
<1>5. ASSUME NEW list, NEW id, removeHandler(c, list, id) PROVE Same(d)
  BY <1>5 DEF removeHandler, Same, Alike, object, wires, broker, history
<1>6. ASSUME NEW kind, myrequest(c, kind) PROVE Same(d)
  BY <1>6, Domains DEF myrequest, Same, Alike, object, wires, broker, history
<1>7. CASE \/ groupCreate(c) \/ groupData(c) \/ groupLeave(c) \/ groupJoin(c)
           \/ groupSetMembers(c) \/ saveInstance(c)
           \/ conversationDetail(c) \/ archivedConversationDetail(c)
  BY <1>6, <1>7 DEF groupCreate, groupData, groupLeave, groupJoin,
     groupSetMembers, saveInstance, conversationDetail, archivedConversationDetail
<1> QED BY <1>1, <1>2, <1>3, <1>4, <1>5, <1>7 DEF Application

LEMMA FailElsewhere ==
  ASSUME TypeInv, NEW c \in Client, NEW n, NEW l, NEW d \in Client, d # c, Fail(c, n, l)
  PROVE  /\ subscribing'[d] = subscribing[d] /\ listening'[d] = listening[d]
         /\ on_message_handler'[d] = on_message_handler[d] /\ answered'[d] = answered[d]
         /\ link'[d] = link[d] /\ out'[d] = out[d] /\ in'[d] = in[d]
         /\ closing'[d] = closing[d]
<1>1. /\ subscribing'[d] = subscribing[d] /\ listening'[d] = listening[d]
      /\ on_message_handler'[d] = on_message_handler[d] /\ answered'[d] = answered[d]
  BY Domains DEF Fail, Subscribed, StillSubscribing
<1>2. /\ link'[d] = link[d] /\ out'[d] = out[d] /\ closing'[d] = closing[d]
  BY Domains DEF Fail, Unsubscribed
<1> QED BY <1>1, <1>2, Domains DEF Fail

LEMMA EventsElsewhere ==
  ASSUME TypeInv, NEW c \in Client, NEW d \in Client, d # c, Progress(c) \/ Fault(c)
  PROVE  Same(d)
<1>1. CASE onConnect(c)
  BY <1>1, Domains DEF onConnect, start, Same, Alike, history
<1>2. CASE Closed(c)
  BY <1>2, Domains DEF Closed, Reset, ResetTo, Same, Alike, wires, broker, history
<1>3. CASE Response(c)
  BY <1>3, Domains DEF Response, Same, Alike, object, wires, broker, history
<1>4. CASE BrokerTakes(c)
  BY <1>4, Domains DEF BrokerTakes, Take, Send, Same, Alike, object, broker
<1>5. CASE Expire(c)
  BY <1>5, Domains DEF Expire, Same, Alike, object, wires, history
<1>6. ASSUME NEW n, StreamEnds(c, n) PROVE Same(d)
  BY <1>6, FailElsewhere DEF StreamEnds, Same, Alike, broker, history
<1>7. ASSUME NEW n, ClientTakes(c, n) PROVE Same(d)
  BY <1>7, Domains DEF ClientTakes, Subscribed, StillSubscribing, Unsubscribed, Same, Alike, broker, history
<1>8. ASSUME NEW n, Lost(c, n) PROVE Same(d)
  <2>1. Fail(c, n, IF link[c][n] = "up" THEN "down" ELSE "ended")
    BY <1>8 DEF Lost
  <2>2. session'[d] = session[d]
    BY <1>8, Domains DEF Lost
  <2> QED BY <1>8, <2>1, <2>2, FailElsewhere DEF Lost, Same, Alike, history
<1>9. ASSUME NEW n, AttemptFails(c, n) PROVE Same(d)
  BY <1>9, FailElsewhere DEF AttemptFails, Same, Alike, broker, history
<1>10. ASSUME NEW e, Publish(c, e) PROVE Same(d)
  BY <1>10, Domains DEF Publish, Send, Same, Alike, object, broker, history
<1> QED BY <1>1, <1>2, <1>3, <1>4, <1>5, <1>6, <1>7, <1>8, <1>9, <1>10 DEF Progress, Fault

LEMMA ReportSame ==
  ASSUME process_presence \/ UNCHANGED vars, NEW d \in Client
  PROVE  Same(d)
<1> QED BY DEF process_presence, vars, Same, Alike, object, wires, broker, history

-----------------------------------------------------------------------------
(* Packets in a sequence.                                                  *)

LEMMA HasEmpty ==
  ASSUME NEW t
  PROVE  ~ Has(<<>>, t) /\ AtMostOne(<<>>, t)
<1> QED BY DEF Has, AtMostOne

LEMMA HasOne ==
  ASSUME NEW p, NEW t
  PROVE  (Has(<<p>>, t) <=> Tag(p) = t) /\ AtMostOne(<<p>>, t)
<1> HIDE DEF Tag
<1> QED BY DEF Has, AtMostOne

LEMMA HasAppend ==
  ASSUME NEW S, NEW s \in Seq(S), NEW p \in S, NEW t
  PROVE  /\ Has(Append(s, p), t) <=> Has(s, t) \/ Tag(p) = t
         /\ AtMostOne(s, t) /\ (Tag(p) = t => ~ Has(s, t)) => AtMostOne(Append(s, p), t)
<1>1. /\ DOMAIN Append(s, p) = 1 .. (Len(s) + 1) /\ DOMAIN s = 1 .. Len(s) /\ Len(s) \in Nat
      /\ \A i \in 1 .. Len(s) : Append(s, p)[i] = s[i]
      /\ Append(s, p)[Len(s) + 1] = p
  OBVIOUS
<1> DEFINE a == Append(s, p)
           n == Len(s)
<1>2. /\ DOMAIN a = 1 .. (n + 1) /\ DOMAIN s = 1 .. n /\ n \in Nat
      /\ \A i \in 1 .. n : a[i] = s[i]
      /\ a[n + 1] = p
  BY <1>1
<1> HIDE DEF a, n
<1>3. \A i : i \in 1 .. (n + 1) <=> i \in 1 .. n \/ i = n + 1
  BY <1>2
<1>4. n + 1 \notin 1 .. n
  BY <1>2
<1>5. Has(a, t) <=> Has(s, t) \/ Tag(p) = t
  BY <1>2, <1>3 DEF Has
<1>6. AtMostOne(s, t) /\ (Tag(p) = t => ~ Has(s, t)) => AtMostOne(a, t)
  BY <1>2, <1>3 DEF Has, AtMostOne
<1> QED BY <1>5, <1>6 DEF a

LEMMA HasTail ==
  ASSUME NEW S, NEW s \in Seq(S), s # <<>>, NEW t
  PROVE  /\ Has(s, t) <=> Has(Tail(s), t) \/ Tag(Head(s)) = t
         /\ AtMostOne(s, t) => AtMostOne(Tail(s), t) /\ (Tag(Head(s)) = t => ~ Has(Tail(s), t))
<1> DEFINE a == Tail(s)
           n == Len(s)
<1>1. /\ DOMAIN a = 1 .. (n - 1) /\ DOMAIN s = 1 .. n /\ n \in Nat /\ n >= 1
      /\ \A i \in 1 .. (n - 1) : a[i] = s[i + 1]
      /\ Head(s) = s[1]
  OBVIOUS
<1> HIDE DEF a, n
<1>2. \A i \in 1 .. (n - 1) : i + 1 \in 1 .. n /\ i + 1 # 1
  BY <1>1
<1>3. \A i \in 1 .. n : i = 1 \/ (i - 1 \in 1 .. (n - 1) /\ (i - 1) + 1 = i)
  BY <1>1
<1>4. 1 \in 1 .. n
  BY <1>1
<1>5. Has(s, t) <=> Has(a, t) \/ Tag(Head(s)) = t
  <2>1. ASSUME Has(s, t) PROVE Has(a, t) \/ Tag(Head(s)) = t
    <3>1. PICK i \in 1 .. n : Tag(s[i]) = t
      BY <1>1, <2>1 DEF Has
    <3>2. i # 1 => i - 1 \in 1 .. (n - 1) /\ a[i - 1] = s[i]
      <4>1. i # 1 => i - 1 \in 1 .. (n - 1) /\ (i - 1) + 1 = i
        BY <1>3
      <4> QED BY <1>1, <4>1
    <3> QED BY <1>1, <3>1, <3>2 DEF Has
  <2>2. Has(a, t) \/ Tag(Head(s)) = t => Has(s, t)
    BY <1>1, <1>2, <1>4 DEF Has
  <2> QED BY <2>1, <2>2
<1>6. AtMostOne(s, t) => AtMostOne(a, t) /\ (Tag(Head(s)) = t => ~ Has(a, t))
  <2> SUFFICES ASSUME AtMostOne(s, t)
               PROVE  AtMostOne(a, t) /\ (Tag(Head(s)) = t => ~ Has(a, t))
    OBVIOUS
  <2>1. AtMostOne(a, t)
    <3> SUFFICES ASSUME NEW i \in 1 .. (n - 1), NEW j \in 1 .. (n - 1),
                        Tag(a[i]) = t, Tag(a[j]) = t
                 PROVE  i = j
      BY <1>1 DEF AtMostOne
    <3>1. i + 1 = j + 1
      BY <1>1, <1>2 DEF AtMostOne
    <3> QED BY <3>1
  <2>2. ASSUME Tag(Head(s)) = t PROVE ~ Has(a, t)
    BY <1>1, <1>2, <1>4, <2>2 DEF Has, AtMostOne
  <2> QED BY <2>1, <2>2
<1> QED BY <1>5, <1>6 DEF a

LEMMA HasConcat ==
  ASSUME NEW S, NEW s \in Seq(S), NEW r \in Seq(S), NEW t
  PROVE  /\ Has(s \o r, t) <=> Has(s, t) \/ Has(r, t)
         /\ AtMostOne(s, t) /\ AtMostOne(r, t) /\ ~ (Has(s, t) /\ Has(r, t))
              => AtMostOne(s \o r, t)
<1> DEFINE a == s \o r
           n == Len(s)
           m == Len(r)
<1>1. /\ DOMAIN a = 1 .. (n + m) /\ DOMAIN s = 1 .. n /\ DOMAIN r = 1 .. m
      /\ n \in Nat /\ m \in Nat
      /\ \A i \in 1 .. (n + m) : a[i] = IF i <= n THEN s[i] ELSE r[i - n]
  OBVIOUS
<1> HIDE DEF a, n, m
<1>2. \A i \in 1 .. (n + m) : (i <= n /\ i \in 1 .. n) \/ (~ (i <= n) /\ i - n \in 1 .. m)
  BY <1>1
<1>3. /\ \A i \in 1 .. n : i \in 1 .. (n + m) /\ a[i] = s[i]
      /\ \A i \in 1 .. m : i + n \in 1 .. (n + m) /\ a[i + n] = r[i]
  <2>1. \A i \in 1 .. n : i \in 1 .. (n + m) /\ i <= n
    BY <1>1
  <2>2. \A i \in 1 .. m : i + n \in 1 .. (n + m) /\ ~ (i + n <= n) /\ (i + n) - n = i
    BY <1>1
  <2> QED BY <1>1, <2>1, <2>2
<1>4. \A i \in 1 .. (n + m) : (i \in 1 .. n /\ a[i] = s[i]) \/ (i - n \in 1 .. m /\ a[i] = r[i - n])
  BY <1>1, <1>2
<1>5. Has(a, t) <=> Has(s, t) \/ Has(r, t)
  <2>1. Has(a, t) => Has(s, t) \/ Has(r, t)
    BY <1>1, <1>4 DEF Has
  <2>2. Has(s, t) \/ Has(r, t) => Has(a, t)
    BY <1>1, <1>3 DEF Has
  <2> QED BY <2>1, <2>2
<1>6. ASSUME AtMostOne(s, t), AtMostOne(r, t), ~ (Has(s, t) /\ Has(r, t))
      PROVE  AtMostOne(a, t)
  <2> SUFFICES ASSUME NEW i \in 1 .. (n + m), NEW j \in 1 .. (n + m),
                      Tag(a[i]) = t, Tag(a[j]) = t
               PROVE  i = j
    BY <1>1 DEF AtMostOne
  <2>1. (i \in 1 .. n /\ Tag(s[i]) = t) \/ (i - n \in 1 .. m /\ Tag(r[i - n]) = t)
    BY <1>4
  <2>2. (j \in 1 .. n /\ Tag(s[j]) = t) \/ (j - n \in 1 .. m /\ Tag(r[j - n]) = t)
    BY <1>4
  <2>3. CASE i \in 1 .. n /\ Tag(s[i]) = t /\ j \in 1 .. n /\ Tag(s[j]) = t
    BY <1>1, <1>6, <2>3 DEF AtMostOne
  <2>4. CASE i - n \in 1 .. m /\ Tag(r[i - n]) = t /\ j - n \in 1 .. m /\ Tag(r[j - n]) = t
    <3>1. i - n = j - n
      BY <1>1, <1>6, <2>4 DEF AtMostOne
    <3> QED BY <1>1, <3>1
  <2>5. CASE i \in 1 .. n /\ Tag(s[i]) = t /\ j - n \in 1 .. m /\ Tag(r[j - n]) = t
    BY <1>1, <1>6, <2>5 DEF Has
  <2>6. CASE i - n \in 1 .. m /\ Tag(r[i - n]) = t /\ j \in 1 .. n /\ Tag(s[j]) = t
    BY <1>1, <1>6, <2>6 DEF Has
  <2> QED BY <2>1, <2>2, <2>3, <2>4, <2>5, <2>6
<1> QED BY <1>5, <1>6 DEF a

LEMMA Tags ==
  /\ \A n : Tag(Subscribe(n)) = IF n # 0 THEN "first" ELSE "again"
  /\ \A n, ok : Tag(Suback(n, ok)) = IF n # 0 THEN "first" ELSE "again"
  /\ \A e : Tag(Message(e)) = "message"
  /\ Tag(UNSUBSCRIBE) = "unsub" /\ Tag(UNSUBACK) = "unsub"
  /\ Tag(ONLINE) = "publish" /\ Tag(DISCONNECT) = "disconnect"
<1> QED BY DEF Tag, Subscribe, Suback, Message, UNSUBSCRIBE, UNSUBACK, ONLINE, DISCONNECT

\* A step that neither adds a packet of this kind to a connection nor doubles one.
Conserved(c, n, t) ==
  /\ Underway(c, n, t)' => Underway(c, n, t)
  /\ Single(c, n, t) => Single(c, n, t)'

LEMMA KeepsWires ==
  ASSUME NEW c, NEW n, NEW t, out'[c][n] = out[c][n], in'[c][n] = in[c][n]
  PROVE  Conserved(c, n, t) /\ (Underway(c, n, t)' <=> Underway(c, n, t))
<1> QED BY DEF Conserved, Underway, Single

LEMMA AddsOut ==
  ASSUME WiresOK, NEW c \in Client, NEW n \in Conn, NEW t, NEW p \in OutPacket,
         out'[c][n] = Append(out[c][n], p), in'[c][n] = in[c][n]
  PROVE  /\ Tag(p) # t => Conserved(c, n, t) /\ (Underway(c, n, t)' <=> Underway(c, n, t))
         /\ ~ Underway(c, n, t) /\ Single(c, n, t) => Single(c, n, t)'
<1>1. out[c][n] \in Seq(OutPacket)
  BY DEF WiresOK
<1>2. /\ Has(Append(out[c][n], p), t) <=> Has(out[c][n], t) \/ Tag(p) = t
      /\ AtMostOne(out[c][n], t) /\ (Tag(p) = t => ~ Has(out[c][n], t))
           => AtMostOne(Append(out[c][n], p), t)
  BY <1>1, HasAppend
<1> QED BY <1>2 DEF Conserved, Underway, Single

LEMMA AddsIn ==
  ASSUME WiresOK, NEW c \in Client, NEW n \in Conn, NEW t, NEW p \in InPacket,
         in'[c][n] = Append(in[c][n], p), out'[c][n] = out[c][n], Tag(p) # t
  PROVE  Conserved(c, n, t)
<1>1. in[c][n] \in Seq(InPacket)
  BY DEF WiresOK
<1>2. /\ Has(Append(in[c][n], p), t) <=> Has(in[c][n], t)
      /\ AtMostOne(in[c][n], t) => AtMostOne(Append(in[c][n], p), t)
  BY <1>1, HasAppend
<1> QED BY <1>2 DEF Conserved, Underway, Single

LEMMA ClearsBoth ==
  ASSUME NEW c, NEW n, NEW t, out'[c][n] = <<>>, in'[c][n] = <<>>
  PROVE  ~ Underway(c, n, t)' /\ Single(c, n, t)'
<1> QED BY HasEmpty DEF Underway, Single

LEMMA TakesOut ==
  ASSUME WiresOK, NEW c \in Client, NEW n \in Conn, NEW t, out[c][n] # <<>>,
         out'[c][n] = Tail(out[c][n]), in'[c][n] = in[c][n]
  PROVE  Conserved(c, n, t)
<1>1. out[c][n] \in Seq(OutPacket)
  BY DEF WiresOK
<1>2. /\ Has(Tail(out[c][n]), t) => Has(out[c][n], t)
      /\ AtMostOne(out[c][n], t) => AtMostOne(Tail(out[c][n]), t)
  BY <1>1, HasTail
<1> QED BY <1>2 DEF Conserved, Underway, Single

LEMMA TakesIn ==
  ASSUME WiresOK, NEW c \in Client, NEW n \in Conn, NEW t, in[c][n] # <<>>,
         in'[c][n] = Tail(in[c][n]), out'[c][n] = out[c][n]
  PROVE  /\ Conserved(c, n, t)
         /\ Tag(Head(in[c][n])) = t => Underway(c, n, t)
         /\ Tag(Head(in[c][n])) = t /\ Single(c, n, t) => ~ Underway(c, n, t)'
<1>1. in[c][n] \in Seq(InPacket)
  BY DEF WiresOK
<1>2. /\ Has(in[c][n], t) <=> Has(Tail(in[c][n]), t) \/ Tag(Head(in[c][n])) = t
      /\ AtMostOne(in[c][n], t)
           => AtMostOne(Tail(in[c][n]), t)
                /\ (Tag(Head(in[c][n])) = t => ~ Has(Tail(in[c][n]), t))
  BY <1>1, HasTail
<1> QED BY <1>2 DEF Conserved, Underway, Single

\* The broker answers a packet with one of the same kind.
LEMMA Answers ==
  ASSUME WiresOK, NEW c \in Client, NEW n \in Conn, NEW t, NEW q \in InPacket, out[c][n] # <<>>,
         out'[c][n] = Tail(out[c][n]), in'[c][n] = Append(in[c][n], q),
         Tag(q) = Tag(Head(out[c][n]))
  PROVE  Conserved(c, n, t)
<1>1. out[c][n] \in Seq(OutPacket) /\ in[c][n] \in Seq(InPacket)
  BY DEF WiresOK
<1>2. /\ Has(out[c][n], t) <=> Has(Tail(out[c][n]), t) \/ Tag(q) = t
      /\ AtMostOne(out[c][n], t)
           => AtMostOne(Tail(out[c][n]), t) /\ (Tag(q) = t => ~ Has(Tail(out[c][n]), t))
  BY <1>1, HasTail
<1>3. /\ Has(Append(in[c][n], q), t) <=> Has(in[c][n], t) \/ Tag(q) = t
      /\ AtMostOne(in[c][n], t) /\ (Tag(q) = t => ~ Has(in[c][n], t))
           => AtMostOne(Append(in[c][n], q), t)
  BY <1>1, HasAppend
<1> QED BY <1>2, <1>3 DEF Conserved, Underway, Single

-----------------------------------------------------------------------------
(* Answers.                                                                *)

LEMMA AnswerSame ==
  ASSUME NEW d \in Client, Same(d), AnswerOK(d)
  PROVE  AnswerOK(d)'
<1>1. ConnectOnce(d)'
  BY DEF Same, Alike, AnswerOK, ConnectOnce, Used
<1>2. FirstOnce(d)'
  BY KeepsWires DEF Same, Alike, AnswerOK, FirstOnce, Conserved
<1>3. UnsubOnce(d)'
  BY KeepsWires DEF Same, Alike, AnswerOK, UnsubOnce, Conserved
<1>4. RequestsOnce(d)'
  BY DEF Same, Alike, AnswerOK, RequestsOnce
<1> QED BY <1>1, <1>2, <1>3, <1>4 DEF AnswerOK

LEMMA FirstKept ==
  ASSUME NEW c, FirstOnce(c), \A n \in Conn : Conserved(c, n, "first"),
         subscribing[c] \subseteq subscribing'[c]
  PROVE  FirstOnce(c)'
<1> QED BY DEF FirstOnce, Conserved

LEMMA UnsubKept ==
  ASSUME NEW c, UnsubOnce(c), \A n \in Conn : Conserved(c, n, "unsub"),
         closing'[c] = closing[c]
  PROVE  UnsubOnce(c)'
<1> QED BY DEF UnsubOnce, Conserved

LEMMA ConnectKept ==
  ASSUME NEW c, ConnectOnce(c), client'[c] = client[c], link'[c] = link[c],
         connected'[c] = connected[c], topic_inbox'[c] = topic_inbox[c],
         subscribing'[c] = subscribing[c], answered'[c] = answered[c],
         closing'[c] = closing[c]
  PROVE  ConnectOnce(c)'
<1> QED BY DEF ConnectOnce, Used

LEMMA RequestsKept ==
  ASSUME NEW c, RequestsOnce(c), requests'[c] = requests[c]
  PROVE  RequestsOnce(c)'
<1> QED BY DEF RequestsOnce

LEMMA ConnectEffects ==
  ASSUME TypeInv, NEW c \in Client, connect(c)
  PROVE  LET old == client[c] IN
         /\ old \in Sock /\ old + 1 \in Conn /\ old # old + 1
         /\ client'[c] = old + 1
         /\ \A m \in Conn : link'[c][m] = IF m = old + 1 THEN "down"
                                        ELSE IF m = old THEN EndOf(link[c][old])
                                        ELSE link[c][m]
         /\ \A m \in Conn :
              \/ out'[c][m] = out[c][m]
              \/ m = old /\ out'[c][m] = Append(out[c][m], DISCONNECT)
         /\ \A m \in Conn : \A t : t # "disconnect" => Conserved(c, m, t)
         /\ raced'[c] = (raced[c] \/ topic_inbox[c])
         /\ UNCHANGED <<connected, on_message_handler, topic_inbox, listening, resubscribe,
                        subscribing, closing, answered, kept, in, session, requests, refused>>
<1> DEFINE old == client[c]
           n == old + 1
<1>1. old \in Sock /\ n \in Conn /\ old # n /\ Conn \subseteq Sock
  BY Bounds DEF connect, TypeInv, ObjectOK, Sock, Conn
<1>2. /\ client'[c] = n
      /\ link'[c] = [link[c] EXCEPT ![old] = EndOf(link[c][old]), ![n] = "down"]
      /\ out'[c] = [m \in Conn |-> IF m = old THEN out[c][m] \o Goodbye(c, m) ELSE out[c][m]]
      /\ raced'[c] = (raced[c] \/ topic_inbox[c])
      /\ UNCHANGED <<connected, on_message_handler, topic_inbox, listening, resubscribe,
                     subscribing, closing, answered, kept, in, session, requests, refused>>
  BY Domains DEF connect, broker
<1> HIDE DEF n
<1>3. \A m \in Conn : link'[c][m] = IF m = n THEN "down"
                                    ELSE IF m = old THEN EndOf(link[c][old]) ELSE link[c][m]
  BY <1>1, <1>2 DEF TypeInv, ObjectOK
<1>4. \A m \in Conn : out'[c][m] = out[c][m]
                       \/ (m = old /\ out'[c][m] = Append(out[c][m], DISCONNECT))
  <2> TAKE m \in Conn
  <2>1. out[c][m] \in Seq(OutPacket) /\ DISCONNECT \in OutPacket
    BY Packets DEF TypeInv, WiresOK
  <2>2. CASE m # old \/ link[c][old] # "up"
    <3>1. out'[c][m] = out[c][m] \/ out'[c][m] = out[c][m] \o <<>>
      BY <1>2, <2>2 DEF Goodbye
    <3> QED BY <2>1, <3>1
  <2>3. CASE m = old /\ link[c][old] = "up"
    <3>1. out'[c][m] = out[c][m] \o <<DISCONNECT>>
      BY <1>2, <2>3 DEF Goodbye
    <3> QED BY <2>1, <2>3, <3>1
  <2> QED BY <2>2, <2>3
<1>5. ASSUME NEW t, t # "disconnect", NEW m \in Conn PROVE Conserved(c, m, t)
  BY <1>2, <1>4, <1>5, KeepsWires, AddsOut, Tags, Packets DEF TypeInv
<1> QED BY <1>1, <1>2, <1>3, <1>4, <1>5 DEF n

LEMMA AnswerConnect ==
  ASSUME TypeInv, NEW c \in Client, AnswerOK(c), connect(c)
  PROVE  AnswerOK(c)'
<1> DEFINE old == client[c]
           n == old + 1
<1>1. /\ old \in Sock /\ n \in Conn /\ client'[c] = n
      /\ \A m \in Conn : link'[c][m] = IF m = n THEN "down"
                                       ELSE IF m = old THEN EndOf(link[c][old]) ELSE link[c][m]
      /\ UNCHANGED <<connected, topic_inbox, subscribing, closing, answered, requests>>
  BY ConnectEffects
<1>2. EndOf(link[c][old]) \in {"none", "ending", "ended"}
  BY <1>1 DEF EndOf, TypeInv, ObjectOK, LinkState
<1>3. n > old /\ \A m \in Conn : m > n => m > old
  BY <1>1 DEF Conn, Sock
<1> HIDE DEF n
<1>4. ConnectOnce(c)'
  BY <1>1, <1>2, <1>3 DEF AnswerOK, ConnectOnce, Used
<1>5. \A m \in Conn : Conserved(c, m, "first") /\ Conserved(c, m, "unsub")
  BY ConnectEffects
<1> QED BY <1>1, <1>4, <1>5, FirstKept, UnsubKept, RequestsKept DEF AnswerOK

LEMMA AnswerClose ==
  ASSUME TypeInv, NEW c \in Client, AnswerOK(c), close(c)
  PROVE  AnswerOK(c)'
<1> DEFINE n == client[c]
<1>1. /\ topic_inbox[c] /\ closing[c].wait = "no"
      /\ closing'[c] = [wait |-> "unsubscribe", sock |-> n]
      /\ client'[c] = client[c] /\ link'[c] = link[c] /\ connected'[c] = connected[c]
      /\ topic_inbox'[c] = topic_inbox[c] /\ subscribing'[c] = subscribing[c]
      /\ answered'[c] = answered[c] /\ in'[c] = in[c] /\ requests'[c] = requests[c]
  BY Domains DEF close
<1>2. n \in Sock
  BY DEF TypeInv, ObjectOK
<1>3. \A m \in Conn :
        \/ out'[c][m] = out[c][m]
        \/ m = n /\ out'[c][m] = Append(out[c][m], UNSUBSCRIBE)
  BY DEF close, TypeInv, WiresOK
<1> HIDE DEF n
<1>4. ConnectOnce(c)'
  BY <1>1 DEF AnswerOK, ConnectOnce, Used
<1>5. UNSUBSCRIBE \in OutPacket
  BY Packets
<1>6. \A m \in Conn : Conserved(c, m, "first")
  BY <1>1, <1>3, <1>5, KeepsWires, AddsOut, Tags DEF TypeInv
<1>7. \A m \in Conn : ~ Underway(c, m, "unsub") /\ Single(c, m, "unsub")
  <2> TAKE m \in Conn
  <2>1. closing[c] # [wait |-> "unsubscribe", sock |-> m]
    BY <1>1
  <2> QED BY <2>1 DEF AnswerOK, UnsubOnce
<1>8. UnsubOnce(c)'
  <2> SUFFICES ASSUME NEW m \in Conn
               PROVE  /\ Single(c, m, "unsub")'
                      /\ Underway(c, m, "unsub")' => m = n
    BY <1>1 DEF UnsubOnce
  <2>1. CASE out'[c][m] = out[c][m]
    BY <1>1, <1>7, <2>1, KeepsWires DEF Conserved
  <2>2. CASE m = n /\ out'[c][m] = Append(out[c][m], UNSUBSCRIBE)
    BY <1>1, <1>5, <1>7, <2>2, AddsOut DEF TypeInv
  <2> QED BY <1>3, <2>1, <2>2
<1> QED BY <1>1, <1>4, <1>6, <1>8, FirstKept, RequestsKept DEF AnswerOK

LEMMA AnswerImHere ==
  ASSUME TypeInv, NEW c \in Client, AnswerOK(c), ImHere(c)
  PROVE  AnswerOK(c)'
<1>1. UNCHANGED <<object, in, requests>>
  BY DEF ImHere
<1>2. \A m \in Conn : out'[c][m] = out[c][m] \/ out'[c][m] = Append(out[c][m], ONLINE)
  BY DEF ImHere, TypeInv, WiresOK
<1>3. \A t \in {"first", "unsub"} : \A m \in Conn : Conserved(c, m, t)
  BY <1>1, <1>2, KeepsWires, AddsOut, Tags, Packets DEF TypeInv
<1> QED BY <1>1, <1>3, FirstKept, UnsubKept, RequestsKept, ConnectKept DEF AnswerOK, object

\* A request alone.
LEMMA AnswerRequest ==
  ASSUME TypeInv, NEW c \in Client, AnswerOK(c), NEW kind, myrequest(c, kind)
  PROVE  AnswerOK(c)'
<1> DEFINE r == [kind |-> kind, got |-> "nothing", answers |-> <<>>, threw |-> FALSE]
<1>1. UNCHANGED <<object, wires>> /\ requests'[c] = Append(requests[c], r)
  BY Domains DEF myrequest
<1>2. r.got = "nothing" /\ r.answers = <<>> /\ Len(r.answers) = 0
  OBVIOUS
<1> HIDE DEF r
<1>3. requests[c] \in Seq(Request)
  BY DEF TypeInv, RestOK
<1>4. \A i \in DOMAIN requests'[c] :
        requests'[c][i] = r \/ (i \in DOMAIN requests[c] /\ requests'[c][i] = requests[c][i])
  BY <1>1, <1>3
<1>5. RequestsOnce(c)'
  BY <1>2, <1>4 DEF AnswerOK, RequestsOnce
<1> QED BY <1>1, <1>5, FirstKept, UnsubKept, ConnectKept, KeepsWires DEF AnswerOK, object, wires

LEMMA AnswerResponse ==
  ASSUME TypeInv, NEW c \in Client, AnswerOK(c), Response(c)
  PROVE  AnswerOK(c)'
<1>1. UNCHANGED <<object, wires>>
  BY DEF Response
<1>2. PICK i \in DOMAIN requests[c], got \in {"body", "empty", "error"}, threw \in BOOLEAN :
        requests'[c] = [requests[c] EXCEPT ![i] =
          [requests[c][i] EXCEPT !.got = got,
             !.answers = AnswerTo(requests[c][i].kind, got)
               \o (IF threw /\ got # "error"
                   THEN AnswerTo(requests[c][i].kind, "error") ELSE <<>>),
             !.threw = threw]]
  <2>1. \E i \in DOMAIN requests[c], got \in {"body", "empty", "error"}, threw \in BOOLEAN :
          requests' = [requests EXCEPT ![c] = [requests[c] EXCEPT ![i] =
            [requests[c][i] EXCEPT !.got = got,
               !.answers = AnswerTo(requests[c][i].kind, got)
                 \o (IF threw /\ got # "error"
                     THEN AnswerTo(requests[c][i].kind, "error") ELSE <<>>),
               !.threw = threw]]]
    BY DEF Response
  <2> QED BY <2>1, Domains
<1> DEFINE first == AnswerTo(requests[c][i].kind, got)
           again == IF threw /\ got # "error" THEN AnswerTo(requests[c][i].kind, "error") ELSE <<>>
           r == [requests[c][i] EXCEPT !.got = got, !.answers = first \o again, !.threw = threw]
<1>3. requests[c] \in Seq(Request) /\ requests[c][i] \in Request
  BY DEF TypeInv, RestOK
<1>4. ~ threw => Len(first \o again) <= 1
  <2>1. first \in Seq({"body", "null", "error"}) /\ Len(first) <= 1
    BY AnswerType
  <2>2. ~ threw => again = <<>>
    OBVIOUS
  <2> HIDE DEF first, again
  <2> QED BY <2>1, <2>2
<1> HIDE DEF first, again
<1>5. r.got = got /\ r.answers = first \o again /\ r.threw = threw
  BY <1>3 DEF Request
<1>6. requests'[c] = [requests[c] EXCEPT ![i] = r]
  BY <1>2 DEF first, again
<1> HIDE DEF r
<1>7. \A k \in DOMAIN requests'[c] :
        k \in DOMAIN requests[c] /\ requests'[c][k] = IF k = i THEN r ELSE requests[c][k]
  BY <1>6
<1>8. RequestsOnce(c)'
  BY <1>4, <1>5, <1>7 DEF AnswerOK, RequestsOnce
<1> QED BY <1>1, <1>8, FirstKept, UnsubKept, ConnectKept, KeepsWires DEF AnswerOK, object, wires

\* The packets that wait for the connection, and what follows them.
LEMMA WaitingTags ==
  ASSUME TypeInv, NEW c \in Client, NEW n \in Conn
  PROVE  /\ Waiting(c, n) \o Announce(c) \in Seq(OutPacket)
         /\ Waiting(c, n) \o <<Subscribe(n)>> \o Announce(c) \in Seq(OutPacket)
         /\ \A w \in {Waiting(c, n) \o Announce(c),
                      Waiting(c, n) \o <<Subscribe(n)>> \o Announce(c)} :
              /\ AtMostOne(w, "unsub")
              /\ Has(w, "unsub") => closing[c] = [wait |-> "unsubscribe", sock |-> n]
              /\ ~ Has(w, "disconnect")
              /\ Has(w, "again") <=> n \in resubscribe[c]
              /\ Has(w, "publish")
         /\ ~ Has(Waiting(c, n) \o Announce(c), "first")
         /\ AtMostOne(Waiting(c, n) \o Announce(c), "first")
         /\ AtMostOne(Waiting(c, n) \o <<Subscribe(n)>> \o Announce(c), "first")
         /\ Has(Waiting(c, n) \o <<Subscribe(n)>> \o Announce(c), "first")
<1> DEFINE x == IF closing[c] = [wait |-> "unsubscribe", sock |-> n]
                THEN <<UNSUBSCRIBE>> ELSE <<>>
           y == IF n \in kept[c] THEN <<ONLINE>> ELSE <<>>
           z == IF n \in resubscribe[c] THEN <<Subscribe(0)>> ELSE <<>>
           s == <<Subscribe(n)>>
           a == <<ONLINE>>
<1>1. Waiting(c, n) = x \o y \o z /\ Announce(c) = a
  BY DEF Waiting, Announce
<1>2. n \in Sock /\ 0 \in Sock /\ n # 0
  BY Bounds DEF TypeInv, Conn, Sock
<1>3. /\ Subscribe(n) \in OutPacket /\ Subscribe(0) \in OutPacket
      /\ UNSUBSCRIBE \in OutPacket /\ ONLINE \in OutPacket
  BY <1>2, Packets
<1>4. /\ x \in Seq(OutPacket) /\ y \in Seq(OutPacket) /\ z \in Seq(OutPacket)
      /\ s \in Seq(OutPacket) /\ a \in Seq(OutPacket)
  <2>1. <<>> \in Seq(OutPacket) /\ \A p \in OutPacket : <<p>> \in Seq(OutPacket)
    OBVIOUS
  <2> QED BY <1>3, <2>1
<1>5. ASSUME NEW t
      PROVE  /\ AtMostOne(x, t) /\ AtMostOne(y, t) /\ AtMostOne(z, t)
             /\ AtMostOne(s, t) /\ AtMostOne(a, t)
             /\ Has(x, t) <=> t = "unsub" /\ closing[c] = [wait |-> "unsubscribe", sock |-> n]
             /\ Has(y, t) <=> t = "publish" /\ n \in kept[c]
             /\ Has(z, t) <=> t = "again" /\ n \in resubscribe[c]
             /\ Has(s, t) <=> t = "first"
             /\ Has(a, t) <=> t = "publish"
  <2>1. Has(x, t) <=> t = "unsub" /\ closing[c] = [wait |-> "unsubscribe", sock |-> n]
    BY HasEmpty, HasOne, Tags
  <2>2. Has(y, t) <=> t = "publish" /\ n \in kept[c]
    BY HasEmpty, HasOne, Tags
  <2>3. Has(z, t) <=> t = "again" /\ n \in resubscribe[c]
    BY HasEmpty, HasOne, Tags
  <2>4. (Has(s, t) <=> t = "first") /\ (Has(a, t) <=> t = "publish")
    BY <1>2, HasOne, Tags
  <2>5. /\ AtMostOne(x, t) /\ AtMostOne(y, t) /\ AtMostOne(z, t)
        /\ AtMostOne(s, t) /\ AtMostOne(a, t)
    BY HasEmpty, HasOne
  <2> QED BY <2>1, <2>2, <2>3, <2>4, <2>5
<1> HIDE DEF x, y, z, s, a
<1> DEFINE b == x \o y
           d == b \o z
           e == d \o s
           short == d \o a
           long == e \o a
<1>6. b \in Seq(OutPacket)
  BY ONLY <1>4
<1>7. ASSUME NEW t
      PROVE  /\ Has(b, t) <=> Has(x, t) \/ Has(y, t)
             /\ t # "publish" => AtMostOne(b, t)
  BY <1>4, <1>5, HasConcat
<1> HIDE DEF b
<1>8. d \in Seq(OutPacket)
  BY ONLY <1>4, <1>6
<1>9. ASSUME NEW t
      PROVE  /\ Has(d, t) <=> Has(x, t) \/ Has(y, t) \/ Has(z, t)
             /\ t # "publish" => AtMostOne(d, t)
  <2>1. ~ (t # "publish" /\ Has(b, t) /\ Has(z, t))
    BY <1>5, <1>7
  <2> QED BY <1>4, <1>5, <1>6, <1>7, <2>1, HasConcat
<1> HIDE DEF d
<1>10. short \in Seq(OutPacket) /\ e \in Seq(OutPacket)
  BY ONLY <1>4, <1>8
<1>11. ASSUME NEW t
       PROVE  /\ Has(short, t) <=> Has(x, t) \/ Has(y, t) \/ Has(z, t) \/ Has(a, t)
              /\ t # "publish" => AtMostOne(short, t)
  <2>1. ~ (t # "publish" /\ Has(d, t) /\ Has(a, t))
    BY <1>5, <1>9
  <2> QED BY <1>4, <1>5, <1>8, <1>9, <2>1, HasConcat
<1>12. ASSUME NEW t
       PROVE  /\ Has(e, t) <=> Has(x, t) \/ Has(y, t) \/ Has(z, t) \/ Has(s, t)
              /\ t # "publish" => AtMostOne(e, t)
  <2>1. ~ (t # "publish" /\ Has(d, t) /\ Has(s, t))
    BY <1>5, <1>9
  <2> QED BY <1>4, <1>5, <1>8, <1>9, <2>1, HasConcat
<1>13. Waiting(c, n) \o Announce(c) = short /\ Waiting(c, n) \o s \o Announce(c) = long
  BY <1>1 DEF b, d
<1> HIDE DEF e, short
<1>14. long \in Seq(OutPacket)
  BY ONLY <1>4, <1>10
<1>15. ASSUME NEW t
       PROVE  /\ Has(long, t) <=> Has(x, t) \/ Has(y, t) \/ Has(z, t) \/ Has(s, t) \/ Has(a, t)
              /\ t # "publish" => AtMostOne(long, t)
  <2>1. ~ (t # "publish" /\ Has(e, t) /\ Has(a, t))
    BY <1>5, <1>12
  <2> QED BY <1>4, <1>5, <1>10, <1>12, <2>1, HasConcat
<1> HIDE DEF long
<1>16. ASSUME NEW w \in {short, long}
       PROVE  /\ AtMostOne(w, "unsub")
              /\ Has(w, "unsub") => closing[c] = [wait |-> "unsubscribe", sock |-> n]
              /\ ~ Has(w, "disconnect")
              /\ Has(w, "again") <=> n \in resubscribe[c]
              /\ Has(w, "publish")
  <2>1. AtMostOne(short, "unsub") /\ AtMostOne(long, "unsub")
    BY <1>11, <1>15
  <2>2. /\ Has(w, "unsub") => Has(x, "unsub") \/ Has(y, "unsub") \/ Has(z, "unsub")
                                \/ Has(s, "unsub") \/ Has(a, "unsub")
        /\ Has(w, "disconnect") => Has(x, "disconnect") \/ Has(y, "disconnect")
             \/ Has(z, "disconnect") \/ Has(s, "disconnect") \/ Has(a, "disconnect")
    BY <1>11, <1>15
  <2>3. /\ Has(w, "again") <=> Has(z, "again")
        /\ Has(w, "publish")
    BY <1>5, <1>11, <1>15
  <2> QED BY <1>5, <2>1, <2>2, <2>3
<1>17. /\ ~ Has(short, "first") /\ AtMostOne(short, "first")
       /\ AtMostOne(long, "first") /\ Has(long, "first")
  BY <1>5, <1>11, <1>15
<1>18. /\ Waiting(c, n) \o Announce(c) = short
       /\ Waiting(c, n) \o <<Subscribe(n)>> \o Announce(c) = long
  BY <1>13 DEF s
<1> QED BY <1>10, <1>14, <1>16, <1>17, <1>18

LEMMA AnswerOnConnect ==
  ASSUME TypeInv, NEW c \in Client, AnswerOK(c), onConnect(c)
  PROVE  AnswerOK(c)'
<1> DEFINE n == client[c]
<1>1. n \in Conn /\ link[c][n] = "down" /\ Conn \subseteq Sock
  BY Bounds DEF TypeInv, ObjectOK, onConnect, Sock, Conn
<1>2. /\ client'[c] = n /\ link'[c] = [link[c] EXCEPT ![n] = "up"] /\ connected'[c] = TRUE
      /\ closing'[c] = closing[c] /\ requests'[c] = requests[c]
      /\ in'[c] = [in[c] EXCEPT ![n] = <<>>]
  BY Domains DEF onConnect
<1> DEFINE short == Waiting(c, n) \o Announce(c)
           long == Waiting(c, n) \o <<Subscribe(n)>> \o Announce(c)
<1>3. \/ /\ connected[c]
         /\ out'[c] = [out[c] EXCEPT ![n] = short]
         /\ topic_inbox'[c] = topic_inbox[c] /\ subscribing'[c] = subscribing[c]
         /\ answered'[c] = answered[c]
      \/ /\ ~ connected[c]
         /\ out'[c] = [out[c] EXCEPT ![n] = short]
         /\ topic_inbox'[c] = topic_inbox[c] /\ subscribing'[c] = subscribing[c]
         /\ answered'[c] = [answered[c] EXCEPT ![n] = answered[c][n] + 1]
      \/ /\ ~ connected[c]
         /\ out'[c] = [out[c] EXCEPT ![n] = long]
         /\ topic_inbox'[c] /\ subscribing'[c] = subscribing[c] \cup {n}
         /\ answered'[c] = answered[c]
  BY Domains DEF onConnect, start, FirstConnection
<1>4. /\ AtMostOne(short, "unsub") /\ AtMostOne(long, "unsub")
      /\ AtMostOne(short, "first") /\ AtMostOne(long, "first")
      /\ Has(short, "unsub") \/ Has(long, "unsub")
           => closing[c] = [wait |-> "unsubscribe", sock |-> n]
      /\ ~ Has(short, "first")
  BY <1>1, WaitingTags
<1> HIDE DEF n, short, long
<1>5. /\ out'[c][n] \in {short, long}
      /\ out'[c][n] = short \/ n \in subscribing'[c]
      /\ \A m \in Conn : m # n => out'[c][m] = out[c][m] /\ answered'[c][m] = answered[c][m]
      /\ subscribing'[c] \in {subscribing[c], subscribing[c] \cup {n}}
  <2>1. out[c] \in [Conn -> Seq(OutPacket)] /\ answered[c] \in [Conn -> Nat]
    BY DEF TypeInv, WiresOK, ObjectOK
  <2>2. CASE /\ out'[c] = [out[c] EXCEPT ![n] = short]
             /\ subscribing'[c] = subscribing[c]
             /\ answered'[c] = answered[c]
    BY <1>1, <2>1, <2>2
  <2>3. CASE /\ out'[c] = [out[c] EXCEPT ![n] = short]
             /\ subscribing'[c] = subscribing[c]
             /\ answered'[c] = [answered[c] EXCEPT ![n] = answered[c][n] + 1]
    BY <1>1, <2>1, <2>3
  <2>4. CASE /\ out'[c] = [out[c] EXCEPT ![n] = long]
             /\ subscribing'[c] = subscribing[c] \cup {n}
             /\ answered'[c] = answered[c]
    BY <1>1, <2>1, <2>4
  <2> QED BY <1>3, <2>2, <2>3, <2>4
<1>6. /\ in'[c][n] = <<>>
      /\ \A m \in Conn : m # n => out'[c][m] = out[c][m] /\ in'[c][m] = in[c][m]
  BY <1>1, <1>2, <1>5 DEF TypeInv, WiresOK
<1>7. subscribing[c] \subseteq subscribing'[c]
  BY <1>5
<1>8. ConnectOnce(c)'
  <2>1. n = client[c] /\ ConnectOnce(c)
    BY DEF n, AnswerOK
  <2>2. \A m \in Conn : link'[c][m] = IF m = n THEN "up" ELSE link[c][m]
    BY <1>1, <1>2 DEF TypeInv, ObjectOK
  <2>3. \A m \in Conn : answered[c][m] \in Nat
    BY DEF TypeInv, ObjectOK
  <2>4. ~ connected[c] => ~ Used(c, n) /\ closing[c].wait = "no"
    BY <1>1, <2>1 DEF ConnectOnce
  <2>5. \A m \in Conn : m # n => (Used(c, m)' <=> Used(c, m)) /\ answered'[c][m] = answered[c][m]
                                  /\ (m \in subscribing'[c] <=> m \in subscribing[c])
    BY <1>5 DEF Used
  <2>6. answered'[c][n] <= 1 /\ (n \in subscribing'[c] => answered'[c][n] = 0)
    <3>1. CASE connected[c]
      BY <1>1, <1>3, <2>1, <3>1 DEF ConnectOnce
    <3>2. CASE ~ connected[c]
      <4>1. answered[c][n] = 0 /\ n \notin subscribing[c]
        BY <1>1, <2>3, <2>4, <3>2 DEF Used
      <4>2. CASE /\ subscribing'[c] = subscribing[c]
                 /\ answered'[c] = [answered[c] EXCEPT ![n] = answered[c][n] + 1]
        <5>1. answered'[c][n] = 1
          BY <1>1, <4>1, <4>2 DEF TypeInv, ObjectOK
        <5> QED BY <4>1, <4>2, <5>1
      <4>3. CASE answered'[c] = answered[c]
        BY <4>1, <4>3
      <4> QED BY <1>3, <3>2, <4>2, <4>3
    <3> QED BY <3>1, <3>2
  <2>7. /\ \A m \in Conn : m > n => ~ Used(c, m)'
        /\ \A m \in Conn : m # n => link'[c][m] \in {"none", "ending", "ended"}
        /\ \A m \in Conn : answered'[c][m] <= 1 /\ (m \in subscribing'[c] => answered'[c][m] = 0)
    BY <1>1, <2>1, <2>2, <2>5, <2>6 DEF ConnectOnce, Conn
  <2>8. \A m \in Conn : m = n /\ Used(c, m)' => closing'[c].wait # "end"
    <3>1. CASE connected[c]
      <4>1. subscribing'[c] = subscribing[c] /\ answered'[c] = answered[c]
        BY <1>3, <3>1
      <4>2. \A m \in Conn : Used(c, m)' <=> Used(c, m)
        BY <4>1 DEF Used
      <4>3. Used(c, n) => closing[c].wait # "end"
        BY <1>1, <2>1 DEF ConnectOnce
      <4> QED BY <1>2, <4>2, <4>3
    <3>2. CASE ~ connected[c]
      BY <1>2, <2>4, <3>2
    <3> QED BY <3>1, <3>2
  <2>9. (topic_inbox'[c] => connected'[c]) /\ (closing'[c].wait # "no" => topic_inbox'[c])
    BY <1>2, <1>3, <2>1 DEF ConnectOnce
  <2>10. \A m \in Conn : Used(c, m)' /\ link'[c][m] \in {"down", "up"}
           => connected'[c] /\ closing'[c].wait # "end"
    <3> SUFFICES ASSUME NEW m \in Conn, Used(c, m)', link'[c][m] \in {"down", "up"}
                 PROVE  connected'[c] /\ closing'[c].wait # "end"
      OBVIOUS
    <3>1. m = n
      BY <2>7
    <3> QED BY <1>2, <2>8, <3>1
  <2> QED BY <1>2, <2>1, <2>7, <2>9, <2>10 DEF ConnectOnce
<1>9. FirstOnce(c)'
  <2> SUFFICES ASSUME NEW m \in Conn
               PROVE  Single(c, m, "first")' /\ (Underway(c, m, "first")' => m \in subscribing'[c])
    BY DEF FirstOnce
  <2>1. CASE m # n
    BY <1>6, <1>7, <2>1, KeepsWires DEF AnswerOK, FirstOnce, Conserved
  <2>2. CASE m = n
    BY <1>4, <1>5, <1>6, <2>2, HasEmpty DEF Single, Underway
  <2> QED BY <2>1, <2>2
<1>10. UnsubOnce(c)'
  <2> SUFFICES ASSUME NEW m \in Conn
               PROVE  /\ Single(c, m, "unsub")'
                      /\ Underway(c, m, "unsub")' => closing'[c] = [wait |-> "unsubscribe", sock |-> m]
    BY DEF UnsubOnce
  <2>1. CASE m # n
    BY <1>2, <1>6, <2>1, KeepsWires DEF AnswerOK, UnsubOnce, Conserved
  <2>2. CASE m = n
    BY <1>2, <1>4, <1>5, <1>6, <2>2, HasEmpty DEF Single, Underway
  <2> QED BY <2>1, <2>2
<1> QED BY <1>2, <1>8, <1>9, <1>10, RequestsKept DEF AnswerOK

\* What the end of the stream of object n changes.
Cut(c, n, l) ==
  /\ out'[c][n] = <<>> /\ in'[c][n] = <<>>
  /\ \A m \in Conn : m # n => in'[c][m] = in[c][m]
  /\ \A m \in Conn : m # n /\ m # client[c] =>
       out'[c][m] = out[c][m] /\ link'[c][m] = link[c][m]
  /\ \A m \in Conn : m # n =>
       out'[c][m] = out[c][m] \/ out'[c][m] = Append(out[c][m], DISCONNECT)
  /\ n # client[c] => link'[c][n] = l
  /\ subscribing'[c] = subscribing[c] \ {n}
  /\ \A m \in Conn : answered'[c][m] =
       IF m = n /\ n \in subscribing[c] THEN answered[c][m] + 1 ELSE answered[c][m]
  /\ IF n \in subscribing[c]
     THEN /\ listening'[c] = listening[c] \cup {client[c]}
          /\ on_message_handler'[c] = client[c]
     ELSE UNCHANGED <<listening, on_message_handler>>
  /\ IF closing[c] = [wait |-> "unsubscribe", sock |-> n]
     THEN /\ closing'[c] = [wait |-> "end", sock |-> client[c]]
          /\ client[c] = n => link'[c][n] = "ended"
          /\ client[c] # n => link'[c][client[c]] = EndOf(link[c][client[c]])
     ELSE /\ closing'[c] = closing[c]
          /\ link'[c] = [link[c] EXCEPT ![n] = l]
          /\ \A m \in Conn : m # n => out'[c][m] = out[c][m]

LEMMA FailEffects ==
  ASSUME TypeInv, NEW c \in Client, NEW n \in Conn, NEW l \in {"down", "ended"},
         Fail(c, n, l)
  PROVE  Cut(c, n, l)
<1> USE DEF Cut
<1>0. l \in LinkState
  BY DEF LinkState
<1> DEFINE s == client[c]
<1>1. Conn \subseteq Sock /\ s \in Sock
  BY Bounds DEF TypeInv, ObjectOK, Sock, Conn
<1>2. /\ in'[c] = [in[c] EXCEPT ![n] = <<>>]
      /\ subscribing'[c] = subscribing[c] \ {n}
      /\ IF n \in subscribing[c]
         THEN /\ listening'[c] = listening[c] \cup {s}
              /\ on_message_handler'[c] = s
              /\ answered'[c] = [answered[c] EXCEPT ![n] = answered[c][n] + 1]
         ELSE UNCHANGED <<listening, on_message_handler, answered>>
  BY Domains DEF Fail, Subscribed, StillSubscribing
<1>3. \A m \in Conn : answered'[c][m] =
        IF m = n /\ n \in subscribing[c] THEN answered[c][m] + 1 ELSE answered[c][m]
  BY <1>2 DEF TypeInv, ObjectOK
<1>4. in'[c][n] = <<>> /\ \A m \in Conn : m # n => in'[c][m] = in[c][m]
  BY <1>2 DEF TypeInv, WiresOK
<1> DEFINE k == Moved(c, n, l)
           o == Severed(c, n)
<1>5. /\ \A m \in Sock : k[m] = IF m = n THEN l ELSE link[c][m]
      /\ k \in [Sock -> LinkState] /\ DOMAIN k = Sock
  BY <1>0, <1>1 DEF Moved, TypeInv, ObjectOK
<1>6. /\ \A m \in Conn : o[m] = IF m = n THEN <<>> ELSE out[c][m]
      /\ DOMAIN o = Conn
  BY DEF Severed, TypeInv, WiresOK
<1>7. CASE closing[c] = [wait |-> "unsubscribe", sock |-> n]
  <2>1. Unsubscribed(c, k, o)
    BY <1>7 DEF Fail, Moved, Severed
  <2> HIDE DEF k, o, s
  <2>2. /\ link'[c] = [k EXCEPT ![s] = EndOf(k[s])]
        /\ out'[c] = IF k[s] = "up" THEN [o EXCEPT ![s] = Append(o[s], DISCONNECT)] ELSE o
        /\ closing'[c] = [wait |-> "end", sock |-> s]
    BY <2>1, Domains DEF Unsubscribed, s
  <2>3. \A m \in Sock : link'[c][m] = IF m = s THEN EndOf(k[m]) ELSE k[m]
    BY <1>1, <1>5, <2>2
  <2>4. \A m \in Conn : out'[c][m] =
          IF m = s /\ k[s] = "up" THEN Append(o[m], DISCONNECT) ELSE o[m]
    BY <1>6, <2>2
  <2>5. EndOf(l) = "ended"
    BY DEF EndOf
  <2>6. out'[c][n] = <<>>
    BY <1>1, <1>5, <1>6, <2>4
  <2>7. \A m \in Conn : m # n =>
          out'[c][m] = out[c][m] \/ (m = s /\ out'[c][m] = Append(out[c][m], DISCONNECT))
    BY <1>6, <2>4
  <2>8. /\ n # s => link'[c][n] = l
        /\ s = n => link'[c][n] = "ended"
        /\ s # n => link'[c][s] = EndOf(link[c][s])
        /\ \A m \in Conn : m # n /\ m # s => link'[c][m] = link[c][m]
    BY <1>1, <1>5, <2>3, <2>5
  <2> QED BY <1>2, <1>3, <1>4, <1>7, <2>2, <2>6, <2>7, <2>8 DEF s
<1>8. CASE closing[c] # [wait |-> "unsubscribe", sock |-> n]
  <2>1. link'[c] = k /\ out'[c] = o /\ closing'[c] = closing[c]
    BY <1>8, Domains DEF Fail, Moved, Severed
  <2>2. link'[c] = [link[c] EXCEPT ![n] = l]
    BY <2>1 DEF Moved
  <2> HIDE DEF k, o
  <2> QED BY <1>1, <1>2, <1>3, <1>4, <1>5, <1>6, <1>8, <2>1, <2>2
<1> QED BY <1>7, <1>8

LEMMA AnswerFail ==
  ASSUME TypeInv, NEW c \in Client, NEW n \in Conn, NEW l \in {"down", "ended"},
         AnswerOK(c), Fail(c, n, l), link[c][n] # "none",
         l = "down" => link[c][n] \in {"up", "down"},
         client'[c] = client[c], connected'[c] = connected[c],
         topic_inbox'[c] = topic_inbox[c], requests'[c] = requests[c]
  PROVE  AnswerOK(c)'
<1> DEFINE s == client[c]
           ending == closing[c] = [wait |-> "unsubscribe", sock |-> n]
<1>0. Cut(c, n, l)
  BY FailEffects
<1>1. s \in Sock /\ n <= s
  BY DEF TypeInv, ObjectOK, LinkState
<1>2. /\ out'[c][n] = <<>> /\ in'[c][n] = <<>>
      /\ \A m \in Conn : m # n => in'[c][m] = in[c][m]
      /\ \A m \in Conn : m # n =>
           out'[c][m] = out[c][m] \/ out'[c][m] = Append(out[c][m], DISCONNECT)
  BY <1>0 DEF Cut
<1>3. /\ \A m \in Conn : m # n /\ m # s => link'[c][m] = link[c][m]
      /\ n # s => link'[c][n] = l
      /\ subscribing'[c] = subscribing[c] \ {n}
      /\ \A m \in Conn : answered'[c][m] =
           IF m = n /\ n \in subscribing[c] THEN answered[c][m] + 1 ELSE answered[c][m]
      /\ IF ending
         THEN /\ closing'[c] = [wait |-> "end", sock |-> s]
              /\ s = n => link'[c][n] = "ended"
              /\ s # n => link'[c][s] = EndOf(link[c][s])
         ELSE /\ closing'[c] = closing[c]
              /\ link'[c] = [link[c] EXCEPT ![n] = l]
  BY <1>0 DEF Cut
<1>4. \A m \in Conn : Used(c, m)' => Used(c, m)
  BY <1>3 DEF Used, TypeInv, ObjectOK
<1>5. ConnectOnce(c) /\ FirstOnce(c) /\ UnsubOnce(c)
  BY DEF AnswerOK
<1>6. Conn \subseteq Sock /\ s \in 0 .. MaxConn /\ MaxConn \in Nat /\ 0 \notin Conn
  BY Bounds DEF TypeInv, ObjectOK, Sock, Conn
<1>7. \A m \in Conn : answered[c][m] \in Nat
  BY DEF TypeInv, ObjectOK
<1> HIDE DEF s, ending
<1>8. \A m \in Conn : m # s => link'[c][m] \in {"none", "ending", "ended"}
  <2> SUFFICES ASSUME NEW m \in Conn, m # s
               PROVE  link'[c][m] \in {"none", "ending", "ended"}
    OBVIOUS
  <2>1. link[c][m] \in {"none", "ending", "ended"}
    BY <1>5 DEF ConnectOnce, s
  <2>2. CASE m = n
    BY <1>3, <2>1, <2>2
  <2>3. CASE m # n
    BY <1>3, <2>1, <2>3
  <2> QED BY <2>2, <2>3
<1>9. \A m \in Conn : answered'[c][m] <= 1 /\ (m \in subscribing'[c] => answered'[c][m] = 0)
  <2> TAKE m \in Conn
  <2>1. answered[c][m] <= 1 /\ (m \in subscribing[c] => answered[c][m] = 0)
    BY <1>5 DEF ConnectOnce
  <2>2. CASE m = n /\ n \in subscribing[c]
    <3>1. answered'[c][m] = 1 /\ m \notin subscribing'[c]
      BY <1>3, <2>1, <2>2
    <3> QED BY <3>1
  <2>3. CASE ~ (m = n /\ n \in subscribing[c])
    BY <1>3, <2>1, <2>3
  <2> QED BY <2>2, <2>3
<1>10. \A m \in Conn : Used(c, m)' /\ link'[c][m] \in {"down", "up"}
                         => connected'[c] /\ closing'[c].wait # "end"
  <2> SUFFICES ASSUME NEW m \in Conn, Used(c, m)', link'[c][m] \in {"down", "up"}
               PROVE  connected'[c] /\ closing'[c].wait # "end"
    OBVIOUS
  <2>1. m = s /\ Used(c, m)
    BY <1>4, <1>8
  <2>2. CASE ending
    <3>1. s # n /\ link'[c][s] = EndOf(link[c][s])
      BY <1>3, <2>1, <2>2
    <3> QED BY <2>1, <3>1 DEF EndOf
  <2>3. CASE ~ ending
    <3>1. link[c][m] \in {"down", "up"}
      BY <1>3, <1>6, <2>1, <2>3 DEF TypeInv, ObjectOK
    <3> QED BY <1>3, <1>5, <2>1, <2>3, <3>1 DEF ConnectOnce
  <2> QED BY <2>2, <2>3
<1>11. (topic_inbox'[c] => connected'[c]) /\ (closing'[c].wait # "no" => topic_inbox'[c])
  BY <1>3, <1>5 DEF ConnectOnce, ending
<1>12. ConnectOnce(c)'
  <2>1. \A m \in Conn : m > client'[c] => ~ Used(c, m)'
    BY <1>4, <1>5 DEF ConnectOnce
  <2>2. \A m \in Conn : m # client'[c] => link'[c][m] \in {"none", "ending", "ended"}
    BY <1>8 DEF s
  <2> QED BY <1>9, <1>10, <1>11, <2>1, <2>2 DEF ConnectOnce
<1>13. DISCONNECT \in OutPacket
  BY Packets
<1>14. \A t \in {"first", "unsub"} : \A m \in Conn : m # n => Conserved(c, m, t)
  BY <1>2, <1>13, KeepsWires, AddsOut, Tags DEF TypeInv
<1>15. \A t \in {"first", "unsub"} : ~ Underway(c, n, t)' /\ Single(c, n, t)'
  BY <1>2, ClearsBoth
<1>16. FirstOnce(c)'
  BY <1>3, <1>5, <1>14, <1>15 DEF FirstOnce, Conserved
<1>17. UnsubOnce(c)'
  <2>1. ASSUME ending, NEW m \in Conn, m # n PROVE ~ Underway(c, m, "unsub")
    <3>1. closing[c] # [wait |-> "unsubscribe", sock |-> m]
      BY <2>1 DEF ending
    <3> QED BY <1>5, <3>1 DEF UnsubOnce
  <2> QED BY <1>3, <1>5, <1>14, <1>15, <2>1 DEF UnsubOnce, Conserved
<1> QED BY <1>12, <1>16, <1>17, RequestsKept DEF AnswerOK

LEMMA AnswerStreams ==
  ASSUME TypeInv, NEW c \in Client, NEW n \in Conn, AnswerOK(c),
         Lost(c, n) \/ StreamEnds(c, n) \/ AttemptFails(c, n)
  PROVE  AnswerOK(c)'
<1>1. CASE Lost(c, n)
  <2> DEFINE l == IF link[c][n] = "up" THEN "down" ELSE "ended"
  <2>1. /\ Fail(c, n, l) /\ l \in {"down", "ended"} /\ link[c][n] # "none"
        /\ l = "down" => link[c][n] \in {"up", "down"}
        /\ UNCHANGED <<client, connected, topic_inbox, requests>>
    BY <1>1 DEF Lost
  <2> HIDE DEF l
  <2> QED BY <2>1, AnswerFail
<1>2. CASE StreamEnds(c, n)
  BY <1>2, AnswerFail DEF StreamEnds
<1>3. CASE AttemptFails(c, n)
  BY <1>3, AnswerFail DEF AttemptFails
<1> QED BY <1>1, <1>2, <1>3

LEMMA AnswerClosed ==
  ASSUME TypeInv, NEW c \in Client, AnswerOK(c), Closed(c)
  PROVE  AnswerOK(c)'
<1>1. /\ closing[c].wait = "end"
      /\ closing'[c] = [wait |-> "no", sock |-> 0]
      /\ topic_inbox'[c] = FALSE
      /\ UNCHANGED <<client, link, subscribing, answered, out, in, requests>>
  BY Domains DEF Closed, Reset, ResetTo, wires
<1>2. \A n \in Conn : Used(c, n)' <=> Used(c, n)
  BY <1>1 DEF Used
<1>3. \A n \in Conn : ~ (Used(c, n) /\ link[c][n] \in {"down", "up"})
  BY <1>1 DEF AnswerOK, ConnectOnce
<1>4. ConnectOnce(c)'
  BY <1>1, <1>2, <1>3 DEF AnswerOK, ConnectOnce
<1>5. FirstOnce(c)'
  BY <1>1, KeepsWires, FirstKept DEF AnswerOK
<1>6. UnsubOnce(c)'
  <2> SUFFICES ASSUME NEW n \in Conn PROVE Single(c, n, "unsub")' /\ ~ Underway(c, n, "unsub")'
    BY DEF UnsubOnce
  <2>1. closing[c] # [wait |-> "unsubscribe", sock |-> n]
    BY <1>1
  <2>2. Single(c, n, "unsub") /\ ~ Underway(c, n, "unsub")
    BY <2>1 DEF AnswerOK, UnsubOnce
  <2> QED BY <1>1, <2>2, KeepsWires DEF Conserved
<1> QED BY <1>1, <1>4, <1>5, <1>6, RequestsKept DEF AnswerOK

\* A step of the packets only, that adds none of the two kinds.
LEMMA AnswerPackets ==
  ASSUME NEW c \in Client, AnswerOK(c), UNCHANGED <<object, requests>>,
         \A t \in {"first", "unsub"} : \A n \in Conn : Conserved(c, n, t)
  PROVE  AnswerOK(c)'
<1>1. ConnectOnce(c)'
  BY ConnectKept DEF AnswerOK, object
<1>2. FirstOnce(c)' /\ UnsubOnce(c)'
  BY FirstKept, UnsubKept DEF AnswerOK, object
<1>3. RequestsOnce(c)'
  BY RequestsKept DEF AnswerOK
<1> QED BY <1>1, <1>2, <1>3 DEF AnswerOK

\* What the broker does with a packet.
LEMMA BrokerEffects ==
  ASSUME TypeInv, NEW c \in Client, BrokerTakes(c)
  PROVE  LET n == session[c].sock
             p == Head(out[c][n])
         IN /\ n \in Conn /\ ~ session[c].stale /\ out[c][n] # <<>>
            /\ p \in OutPacket
            /\ out'[c][n] = Tail(out[c][n])
            /\ \A m \in Conn : m # n => out'[c][m] = out[c][m] /\ in'[c][m] = in[c][m]
            /\ UNCHANGED <<object, kept, requests, raced>>
            /\ \/ /\ p.packet = "subscribe" /\ p.by \in Sock
                  /\ in'[c][n] = Append(in[c][n], Suback(p.by, TRUE))
                  /\ session'[c] = [session[c] EXCEPT !.subscribed = TRUE]
                  /\ UNCHANGED <<presence, bye, refused>>
               \/ /\ p.packet = "subscribe" /\ p.by \in Sock
                  /\ in'[c][n] = Append(in[c][n], Suback(p.by, FALSE))
                  /\ refused'[c] = TRUE
                  /\ UNCHANGED broker
               \/ /\ p.packet = "unsubscribe"
                  /\ in'[c][n] = Append(in[c][n], UNSUBACK)
                  /\ session'[c] = [session[c] EXCEPT !.subscribed = FALSE]
                  /\ UNCHANGED <<presence, bye, refused>>
               \/ /\ p = ONLINE
                  /\ presence' = Append(presence, [client |-> c, status |-> "online"])
                  /\ in'[c][n] = in[c][n]
                  /\ UNCHANGED <<session, bye, refused>>
               \/ /\ p = DISCONNECT
                  /\ in'[c][n] = in[c][n]
                  /\ session'[c] = NoSession
                  /\ bye'[c] = TRUE
                  /\ UNCHANGED <<presence, refused>>
<1> DEFINE n == session[c].sock
           p == Head(out[c][n])
<1>1. n \in Conn /\ ~ session[c].stale /\ out[c][n] # <<>>
  BY Bounds DEF BrokerTakes, TypeInv, BrokerOK, Sock, Conn
<1>2. out[c] \in [Conn -> Seq(OutPacket)] /\ in[c] \in [Conn -> Seq(InPacket)]
  BY DEF TypeInv, WiresOK
<1>3. p \in OutPacket
  BY <1>1, <1>2
<1>4. p.packet = "publish" => p = ONLINE
  BY <1>3 DEF OutPacket, ONLINE
<1>5. p.packet = "disconnect" => p = DISCONNECT
  BY <1>3 DEF OutPacket, DISCONNECT
<1>6. p.packet = "subscribe" => p.by \in Sock
  BY <1>3 DEF OutPacket
<1>7. /\ out' = [out EXCEPT ![c] = [out[c] EXCEPT ![n] = Tail(out[c][n])]]
      /\ UNCHANGED <<object, kept, requests, raced>>
  BY DEF BrokerTakes, Take
<1>8. out'[c][n] = Tail(out[c][n]) /\ \A m \in Conn : m # n => out'[c][m] = out[c][m]
  BY <1>1, <1>2, <1>7, Domains
<1> HIDE DEF p
<1>9. ASSUME NEW q, Send(c, n, q)
      PROVE  in'[c][n] = Append(in[c][n], q) /\ \A m \in Conn : m # n => in'[c][m] = in[c][m]
  <2>1. in' = [in EXCEPT ![c] = [in[c] EXCEPT ![n] = Append(in[c][n], q)]]
    BY <1>9 DEF Send
  <2> QED BY <1>1, <1>2, <2>1, Domains
<1> HIDE DEF n
<1>10. CASE /\ p.packet = "subscribe"
            /\ session' = [session EXCEPT ![c].subscribed = TRUE]
            /\ Send(c, n, Suback(p.by, TRUE))
            /\ UNCHANGED <<presence, bye, refused, faults>>
  BY <1>1, <1>3, <1>6, <1>7, <1>8, <1>9, <1>10, Domains DEF n, p
<1>11. CASE /\ p.packet = "subscribe"
            /\ Send(c, n, Suback(p.by, FALSE))
            /\ refused' = [refused EXCEPT ![c] = TRUE]
            /\ UNCHANGED broker
  BY <1>1, <1>3, <1>6, <1>7, <1>8, <1>9, <1>11, Domains DEF n, p
<1>12. CASE /\ p.packet = "unsubscribe"
            /\ session' = [session EXCEPT ![c].subscribed = FALSE]
            /\ Send(c, n, UNSUBACK)
            /\ UNCHANGED <<presence, bye, refused, faults>>
  BY <1>1, <1>3, <1>7, <1>8, <1>9, <1>12, Domains DEF n, p
<1>13. CASE /\ p.packet = "publish"
            /\ presence' = Append(presence, [client |-> c, status |-> "online"])
            /\ UNCHANGED <<in, session, bye, refused, faults>>
  BY <1>1, <1>3, <1>4, <1>7, <1>8, <1>13 DEF n, p
<1>14. CASE /\ p.packet = "disconnect"
            /\ session' = [session EXCEPT ![c] = NoSession]
            /\ bye' = [bye EXCEPT ![c] = TRUE]
            /\ UNCHANGED <<in, presence, refused, faults>>
  BY <1>1, <1>3, <1>5, <1>7, <1>8, <1>14, Domains DEF n, p
<1> QED BY <1>10, <1>11, <1>12, <1>13, <1>14 DEF BrokerTakes, n, p

LEMMA BrokerConserves ==
  ASSUME TypeInv, NEW c \in Client, BrokerTakes(c)
  PROVE  \A m \in Conn : \A t : Conserved(c, m, t)
<1> DEFINE n == session[c].sock
           p == Head(out[c][n])
<1>1. /\ n \in Conn /\ out[c][n] # <<>> /\ p \in OutPacket
      /\ out'[c][n] = Tail(out[c][n])
      /\ \A m \in Conn : m # n => out'[c][m] = out[c][m] /\ in'[c][m] = in[c][m]
      /\ UNCHANGED <<object, requests>>
  BY BrokerEffects
<1>2. \/ in'[c][n] = in[c][n]
      \/ /\ p.packet = "subscribe" /\ p.by \in Sock
         /\ \E ok \in BOOLEAN : in'[c][n] = Append(in[c][n], Suback(p.by, ok))
      \/ p.packet = "unsubscribe" /\ in'[c][n] = Append(in[c][n], UNSUBACK)
  BY BrokerEffects
<1>3. WiresOK
  BY DEF TypeInv
<1> HIDE DEF n, p
<1>4. ASSUME NEW t, NEW m \in Conn PROVE Conserved(c, m, t)
  <2>1. CASE m # n
    BY <1>1, <2>1, KeepsWires
  <2>2. CASE m = n /\ in'[c][n] = in[c][n]
    BY <1>1, <1>3, <2>2, TakesOut
  <2>3. ASSUME m = n, p.packet = "subscribe", p.by \in Sock, NEW ok \in BOOLEAN,
               in'[c][n] = Append(in[c][n], Suback(p.by, ok))
        PROVE  Conserved(c, m, t)
    <3>1. Suback(p.by, ok) \in InPacket
      BY <2>3, Packets
    <3>2. Tag(Suback(p.by, ok)) = Tag(p)
      BY <2>3, Tags DEF Tag
    <3> QED BY <1>1, <1>3, <2>3, <3>1, <3>2, Answers DEF p
  <2>4. CASE m = n /\ p.packet = "unsubscribe" /\ in'[c][n] = Append(in[c][n], UNSUBACK)
    <3>1. UNSUBACK \in InPacket /\ Tag(UNSUBACK) = Tag(p)
      BY <2>4, Packets, Tags DEF Tag
    <3> QED BY <1>1, <1>3, <2>4, <3>1, Answers DEF p
  <2> QED BY <1>2, <2>1, <2>2, <2>3, <2>4
<1> QED BY <1>4

LEMMA AnswerBroker ==
  ASSUME TypeInv, NEW c \in Client, AnswerOK(c), BrokerTakes(c)
  PROVE  AnswerOK(c)'
<1> QED BY BrokerConserves, BrokerEffects, AnswerPackets

LEMMA PublishEffects ==
  ASSUME TypeInv, NEW c \in Client, NEW e \in Event, Publish(c, e)
  PROVE  LET n == session[c].sock IN
         /\ n \in Conn /\ session[c].subscribed /\ ~ session[c].stale
         /\ in'[c][n] = Append(in[c][n], Message(e))
         /\ \A m \in Conn : m # n => in'[c][m] = in[c][m]
         /\ \A m \in Conn : \A t : t # "message" => Conserved(c, m, t)
         /\ UNCHANGED <<object, kept, out, session, bye, presence, requests, raced, refused>>
<1> DEFINE n == session[c].sock
<1>1. /\ in' = [in EXCEPT ![c] = [in[c] EXCEPT ![n] = Append(in[c][n], Message(e))]]
      /\ session[c].subscribed /\ ~ session[c].stale
      /\ UNCHANGED <<object, kept, out, session, bye, presence, requests, raced, refused>>
  BY DEF Publish, Send, broker, history
<1>2. n \in Conn
  BY <1>1, Bounds DEF TypeInv, BrokerOK, NoSession, Sock, Conn
<1> HIDE DEF n
<1>3. /\ in'[c][n] = Append(in[c][n], Message(e))
      /\ \A m \in Conn : m # n => in'[c][m] = in[c][m]
  BY <1>1, <1>2 DEF TypeInv, WiresOK
<1>4. Message(e) \in InPacket /\ Tag(Message(e)) = "message"
  BY Packets, Tags
<1>5. ASSUME NEW t, t # "message", NEW m \in Conn PROVE Conserved(c, m, t)
  <2>1. CASE m # n
    BY <1>1, <1>3, <2>1, KeepsWires
  <2>2. CASE m = n
    BY <1>1, <1>3, <1>4, <1>5, <2>2, AddsIn DEF TypeInv
  <2> QED BY <2>1, <2>2
<1> QED BY <1>1, <1>2, <1>3, <1>5 DEF n

LEMMA AnswerPublish ==
  ASSUME TypeInv, NEW c \in Client, AnswerOK(c), NEW e \in Event, Publish(c, e)
  PROVE  AnswerOK(c)'
<1> QED BY PublishEffects, AnswerPackets

\* What a client does with the packet "p" of connection n.
ReadsFirst(c, n, p) ==
  /\ p.packet = "suback" /\ p.by # 0
  /\ subscribing'[c] = subscribing[c] \ {n}
  /\ on_message_handler'[c] = client[c]
  /\ listening'[c] = listening[c] \cup {client[c]}
  /\ answered'[c] = [answered[c] EXCEPT ![n] = answered[c][n] + 1]
  /\ resubscribe'[c] = IF p.granted THEN resubscribe[c] ELSE resubscribe[c] \ {n}
  /\ UNCHANGED <<link, out, closing>>

ReadsAgain(c, n, p) ==
  /\ p.packet = "suback" /\ p.by = 0
  /\ resubscribe'[c] = IF p.granted THEN resubscribe[c] ELSE resubscribe[c] \ {n}
  /\ UNCHANGED <<subscribing, on_message_handler, listening, answered, link, out, closing>>

ReadsUnsuback(c, n, p) ==
  LET s == client[c] IN
  /\ p.packet = "unsuback"
  /\ closing'[c] = [wait |-> "end", sock |-> s]
  /\ \A m \in Sock : link'[c][m] = IF m = s THEN EndOf(link[c][m]) ELSE link[c][m]
  /\ \A m \in Conn : out'[c][m] =
       IF m = s /\ link[c][s] = "up" THEN Append(out[c][m], DISCONNECT) ELSE out[c][m]
  /\ UNCHANGED <<subscribing, on_message_handler, listening, answered, resubscribe>>

ReadsMessage(c, n, p) ==
  /\ p.packet = "message"
  /\ UNCHANGED <<subscribing, on_message_handler, listening, answered, link, out, closing,
                 resubscribe>>

LEMMA ClientEffects ==
  ASSUME TypeInv, NEW c \in Client, NEW n \in Conn, ClientTakes(c, n)
  PROVE  LET p == Head(in[c][n])
         IN /\ link[c][n] \in {"up", "ending"} /\ in[c][n] # <<>>
            /\ p \in InPacket
            /\ in'[c][n] = Tail(in[c][n])
            /\ \A m \in Conn : m # n => in'[c][m] = in[c][m]
            /\ UNCHANGED <<client, connected, topic_inbox, kept, session, presence, bye,
                           requests, status, raced, refused>>
            /\ \/ ReadsFirst(c, n, p) \/ ReadsAgain(c, n, p)
               \/ ReadsUnsuback(c, n, p) \/ ReadsMessage(c, n, p)
<1> DEFINE p == Head(in[c][n])
           s == client[c]
<1>1. out[c] \in [Conn -> Seq(OutPacket)] /\ in[c] \in [Conn -> Seq(InPacket)]
  BY DEF TypeInv, WiresOK
<1>2. link[c] \in [Sock -> LinkState] /\ link[c][0] = "none" /\ s \in Sock
  BY DEF TypeInv, ObjectOK
<1>3. /\ link[c][n] \in {"up", "ending"} /\ in[c][n] # <<>>
      /\ in' = [in EXCEPT ![c] = [in[c] EXCEPT ![n] = Tail(in[c][n])]]
      /\ UNCHANGED <<client, connected, topic_inbox, kept, session, presence, bye,
                     requests, status, raced, refused>>
  BY DEF ClientTakes, broker, history
<1>4. p \in InPacket
  BY <1>1, <1>3
<1>5. in'[c][n] = Tail(in[c][n]) /\ \A m \in Conn : m # n => in'[c][m] = in[c][m]
  BY <1>1, <1>3, Domains
<1> HIDE DEF p
<1>6. CASE /\ p.packet = "suback"
           /\ IF p.by # 0 THEN Subscribed(c, n) ELSE StillSubscribing
           /\ resubscribe' = [resubscribe EXCEPT ![c] = IF p.granted THEN @ ELSE @ \ {n}]
           /\ UNCHANGED <<link, out, closing, told>>
  <2>1. resubscribe'[c] = IF p.granted THEN resubscribe[c] ELSE resubscribe[c] \ {n}
    BY <1>6, Domains
  <2>2. CASE p.by # 0
    <3>1. /\ subscribing'[c] = subscribing[c] \ {n}
          /\ on_message_handler'[c] = s
          /\ listening'[c] = listening[c] \cup {s}
          /\ answered'[c] = [answered[c] EXCEPT ![n] = answered[c][n] + 1]
      BY <1>6, <2>2, Domains DEF Subscribed
    <3>2. ReadsFirst(c, n, p)
      BY <1>6, <2>1, <2>2, <3>1 DEF ReadsFirst
    <3> QED BY <1>3, <1>4, <1>5, <3>2 DEF p
  <2>3. CASE p.by = 0
    <3>1. ReadsAgain(c, n, p)
      BY <1>6, <2>1, <2>3 DEF StillSubscribing, ReadsAgain
    <3> QED BY <1>3, <1>4, <1>5, <3>1 DEF p
  <2> QED BY <2>2, <2>3
<1>7. CASE /\ p.packet = "unsuback"
           /\ Unsubscribed(c, link[c], out[c])
           /\ StillSubscribing
           /\ UNCHANGED <<resubscribe, told>>
  <2>1. /\ link'[c] = [link[c] EXCEPT ![s] = EndOf(link[c][s])]
        /\ out'[c] = IF link[c][s] = "up"
                     THEN [out[c] EXCEPT ![s] = Append(out[c][s], DISCONNECT)] ELSE out[c]
        /\ closing'[c] = [wait |-> "end", sock |-> s]
    BY <1>7, Domains DEF Unsubscribed
  <2>2. \A m \in Sock : link'[c][m] = IF m = s THEN EndOf(link[c][m]) ELSE link[c][m]
    BY <1>2, <2>1
  <2>3. \A m \in Conn : out'[c][m] =
          IF m = s /\ link[c][s] = "up" THEN Append(out[c][m], DISCONNECT) ELSE out[c][m]
    BY <1>1, <2>1
  <2>4. ReadsUnsuback(c, n, p)
    BY <1>7, <2>1, <2>2, <2>3 DEF StillSubscribing, ReadsUnsuback
  <2> QED BY <1>3, <1>4, <1>5, <2>4 DEF p
<1>8. CASE /\ p.packet = "message"
           /\ onMessage(c, n, p.event)
           /\ StillSubscribing
           /\ UNCHANGED <<link, out, closing, resubscribe>>
  <2>1. ReadsMessage(c, n, p)
    BY <1>8 DEF StillSubscribing, ReadsMessage
  <2> QED BY <1>3, <1>4, <1>5, <2>1 DEF p
<1> QED BY <1>6, <1>7, <1>8 DEF ClientTakes, p

LEMMA ClientConserves ==
  ASSUME TypeInv, NEW c \in Client, NEW n \in Conn, ClientTakes(c, n), NEW t, t # "disconnect"
  PROVE  /\ \A m \in Conn : Conserved(c, m, t)
         /\ Tag(Head(in[c][n])) = t => Has(in[c][n], t)
         /\ Tag(Head(in[c][n])) = t /\ Single(c, n, t) => ~ Underway(c, n, t)'
<1> DEFINE p == Head(in[c][n])
<1>1. /\ in[c][n] # <<>> /\ in'[c][n] = Tail(in[c][n])
      /\ \A m \in Conn : m # n => in'[c][m] = in[c][m]
  BY ClientEffects
<1>2. \A m \in Conn : out'[c][m] = out[c][m] \/ out'[c][m] = Append(out[c][m], DISCONNECT)
  <2>1. \/ ReadsFirst(c, n, p) \/ ReadsAgain(c, n, p)
        \/ ReadsUnsuback(c, n, p) \/ ReadsMessage(c, n, p)
    BY ClientEffects
  <2> HIDE DEF p
  <2>2. CASE ReadsFirst(c, n, p) \/ ReadsAgain(c, n, p) \/ ReadsMessage(c, n, p)
    BY <2>2 DEF ReadsFirst, ReadsAgain, ReadsMessage
  <2>3. CASE ReadsUnsuback(c, n, p)
    BY <2>3 DEF ReadsUnsuback
  <2> QED BY <2>1, <2>2, <2>3
<1>3. in[c][n] \in Seq(InPacket) /\ DISCONNECT \in OutPacket
  BY Packets DEF TypeInv, WiresOK
<1>4. ASSUME NEW m \in Conn
      PROVE  /\ Has(out'[c][m], t) <=> Has(out[c][m], t)
             /\ AtMostOne(out[c][m], t) => AtMostOne(out'[c][m], t)
  <2>1. out[c][m] \in Seq(OutPacket)
    BY DEF TypeInv, WiresOK
  <2>2. Tag(DISCONNECT) # t
    BY Tags
  <2>3. CASE out'[c][m] = out[c][m]
    BY <2>3
  <2>4. CASE out'[c][m] = Append(out[c][m], DISCONNECT)
    BY <1>3, <2>1, <2>2, <2>4, HasAppend
  <2> QED BY <1>2, <2>3, <2>4
<1>5. /\ Has(in[c][n], t) <=> Has(in'[c][n], t) \/ Tag(p) = t
      /\ AtMostOne(in[c][n], t)
           => AtMostOne(in'[c][n], t) /\ (Tag(p) = t => ~ Has(in'[c][n], t))
  BY <1>1, <1>3, HasTail
<1>6. ASSUME NEW m \in Conn PROVE Conserved(c, m, t)
  <2>1. CASE m # n
    BY <1>1, <1>4, <2>1 DEF Conserved, Underway, Single
  <2>2. CASE m = n
    BY <1>4, <1>5, <2>2 DEF Conserved, Underway, Single
  <2> QED BY <2>1, <2>2
<1> HIDE DEF p
<1>7. Tag(p) = t /\ Single(c, n, t) => ~ Underway(c, n, t)'
  BY <1>4, <1>5 DEF Underway, Single
<1> QED BY <1>5, <1>6, <1>7 DEF p

LEMMA AnswerTakes ==
  ASSUME TypeInv, NEW c \in Client, NEW n \in Conn, AnswerOK(c), ClientTakes(c, n)
  PROVE  AnswerOK(c)'
<1> DEFINE p == Head(in[c][n])
           s == client[c]
<1>1. /\ in[c][n] # <<>> /\ p \in InPacket
      /\ in'[c][n] = Tail(in[c][n])
      /\ \A m \in Conn : m # n => in'[c][m] = in[c][m]
      /\ client'[c] = s /\ UNCHANGED <<connected, topic_inbox, requests>>
  BY ClientEffects
<1>2. ConnectOnce(c) /\ FirstOnce(c) /\ UnsubOnce(c) /\ RequestsOnce(c) /\ RequestsOnce(c)'
  BY <1>1, RequestsKept DEF AnswerOK
<1>3. WiresOK /\ \A m \in Conn : answered[c][m] \in Nat
  BY DEF TypeInv, ObjectOK
<1> HIDE DEF p, s
<1>4. CASE /\ p.packet = "suback" /\ p.by # 0
           /\ subscribing'[c] = subscribing[c] \ {n}
           /\ answered'[c] = [answered[c] EXCEPT ![n] = answered[c][n] + 1]
           /\ UNCHANGED <<link, out, closing>>
  <2>1. Tag(p) = "first"
    BY <1>4 DEF Tag
  <2>2. \A m \in Conn : Conserved(c, m, "first") /\ Conserved(c, m, "unsub")
    BY ClientConserves
  <2>3. Underway(c, n, "first") /\ ~ Underway(c, n, "first")'
    BY <1>2, <2>1, ClientConserves DEF FirstOnce, Underway, p
  <2>4. n \in subscribing[c] /\ answered[c][n] = 0
    BY <1>2, <2>3 DEF FirstOnce, ConnectOnce
  <2>5. answered'[c][n] = 1 /\ \A m \in Conn : m # n => answered'[c][m] = answered[c][m]
    BY <1>4, <2>4 DEF TypeInv, ObjectOK
  <2>6. \A m \in Conn : Used(c, m)' => Used(c, m)
    BY <1>4, <2>4, <2>5 DEF Used
  <2>7. \A m \in Conn : answered'[c][m] <= 1 /\ (m \in subscribing'[c] => answered'[c][m] = 0)
    BY <1>2, <1>4, <2>5 DEF ConnectOnce
  <2>8. ConnectOnce(c)'
    BY <1>1, <1>2, <1>4, <2>6, <2>7 DEF ConnectOnce, s
  <2>9. FirstOnce(c)'
    BY <1>2, <1>4, <2>2, <2>3 DEF FirstOnce, Conserved
  <2>10. UnsubOnce(c)'
    BY <1>2, <1>4, <2>2, UnsubKept
  <2> QED BY <1>2, <2>8, <2>9, <2>10 DEF AnswerOK
<1>5. CASE UNCHANGED <<subscribing, answered, link, out, closing>>
  <2>1. \A m \in Conn : Conserved(c, m, "first") /\ Conserved(c, m, "unsub")
    BY ClientConserves
  <2>2. ConnectOnce(c)'
    BY <1>1, <1>2, <1>5, ConnectKept DEF s
  <2>3. FirstOnce(c)' /\ UnsubOnce(c)'
    BY <1>2, <1>5, <2>1, FirstKept, UnsubKept
  <2> QED BY <1>2, <2>2, <2>3 DEF AnswerOK
<1>6. CASE /\ p.packet = "unsuback"
           /\ closing'[c] = [wait |-> "end", sock |-> s]
           /\ \A m \in Sock : link'[c][m] = IF m = s THEN EndOf(link[c][m]) ELSE link[c][m]
           /\ \A m \in Conn : out'[c][m] =
                IF m = s /\ link[c][s] = "up" THEN Append(out[c][m], DISCONNECT) ELSE out[c][m]
           /\ UNCHANGED <<subscribing, answered>>
  <2>1. Tag(p) = "unsub"
    BY <1>6 DEF Tag
  <2>4. closing[c] = [wait |-> "unsubscribe", sock |-> n] /\ Single(c, n, "unsub")
    BY <1>2, <2>1, ClientConserves DEF UnsubOnce, Underway, p
  <2>7. \A m \in Conn : Conserved(c, m, "first") /\ Conserved(c, m, "unsub")
    BY ClientConserves
  <2>8. ~ Underway(c, n, "unsub")'
    BY <2>1, <2>4, ClientConserves DEF p
  <2>9. \A m \in Conn : m # n => ~ Underway(c, m, "unsub")
    <3> SUFFICES ASSUME NEW m \in Conn, m # n PROVE ~ Underway(c, m, "unsub")
      OBVIOUS
    <3>1. closing[c] # [wait |-> "unsubscribe", sock |-> m]
      BY <2>4
    <3> QED BY <1>2, <3>1 DEF UnsubOnce
  <2>10. UnsubOnce(c)'
    BY <1>2, <2>7, <2>8, <2>9 DEF UnsubOnce, Conserved
  <2>11. FirstOnce(c)'
    BY <1>2, <1>6, <2>7, FirstKept
  <2>12. \A m \in Conn : link'[c][m] = IF m = s THEN EndOf(link[c][m]) ELSE link[c][m]
    BY <1>6, Bounds DEF TypeInv, Conn, Sock
  <2>13. \A m \in Conn : link'[c][m] \notin {"down", "up"}
    <3> SUFFICES ASSUME NEW m \in Conn PROVE link'[c][m] \notin {"down", "up"}
      OBVIOUS
    <3>1. CASE m = s
      BY <2>12, <3>1 DEF EndOf
    <3>2. CASE m # s
      BY <1>2, <2>12, <3>2 DEF ConnectOnce, s
    <3> QED BY <3>1, <3>2
  <2>14. \A m \in Conn : m # s => link'[c][m] \in {"none", "ending", "ended"}
    BY <1>2, <2>12 DEF ConnectOnce, s
  <2>15. topic_inbox[c]
    BY <1>2, <2>4 DEF ConnectOnce
  <2>16. ConnectOnce(c)'
    BY <1>1, <1>2, <1>6, <2>13, <2>14, <2>15 DEF ConnectOnce, Used, s
  <2> QED BY <1>2, <2>10, <2>11, <2>16 DEF AnswerOK
<1>7. \/ ReadsFirst(c, n, p) \/ ReadsAgain(c, n, p)
      \/ ReadsUnsuback(c, n, p) \/ ReadsMessage(c, n, p)
  BY ClientEffects DEF p
<1> QED
  BY <1>4, <1>5, <1>6, <1>7 DEF ReadsFirst, ReadsAgain, ReadsUnsuback, ReadsMessage, s

LEMMA AnswerStep == AnswerInv /\ [Next]_vars => AnswerInv'
<1> SUFFICES ASSUME AnswerInv, [Next]_vars PROVE AnswerInv'
  OBVIOUS
<1>1. TypeInv'
  BY TypeStep DEF AnswerInv
<1> SUFFICES ASSUME NEW d \in Client PROVE AnswerOK(d)'
  BY <1>1 DEF AnswerInv
<1>2. TypeInv /\ AnswerOK(d)
  BY DEF AnswerInv
<1>3. CASE process_presence \/ UNCHANGED vars
  BY <1>2, <1>3, ReportSame, AnswerSame
<1>4. ASSUME NEW c \in Client, Application(c) \/ Progress(c) \/ Fault(c), c # d
      PROVE  AnswerOK(d)'
  BY <1>2, <1>4, CallsElsewhere, EventsElsewhere, AnswerSame
<1>5. CASE Application(d)
  <2>1. CASE connect(d) \/ close(d) \/ ImHere(d)
    BY <1>2, <2>1, AnswerConnect, AnswerClose, AnswerImHere
  <2>2. CASE \/ \E list \in Kind, conv \in Conv : onCallback(d, list, conv)
             \/ \E h \in registry[d] : removeHandler(d, h.list, h.id)
    <3>1. UNCHANGED <<object, requests, out, in>>
      BY <2>2 DEF onCallback, removeHandler, wires
    <3> QED BY <1>2, <3>1, KeepsWires, AnswerPackets
  <2>3. ASSUME NEW kind, myrequest(d, kind) PROVE AnswerOK(d)'
    BY <1>2, <2>3, AnswerRequest
  <2>4. CASE \/ groupCreate(d) \/ groupData(d) \/ groupLeave(d) \/ groupJoin(d)
             \/ groupSetMembers(d) \/ saveInstance(d)
             \/ conversationDetail(d) \/ archivedConversationDetail(d)
    BY <2>3, <2>4 DEF groupCreate, groupData, groupLeave, groupJoin,
       groupSetMembers, saveInstance, conversationDetail, archivedConversationDetail
  <2> QED BY <1>5, <2>1, <2>2, <2>4 DEF Application
<1>6. CASE Progress(d)
  <2>1. CASE Expire(d)
    <3>1. UNCHANGED <<object, requests, out, in>>
      BY <2>1 DEF Expire, wires
    <3> QED BY <1>2, <3>1, KeepsWires, AnswerPackets
  <2> QED BY <1>2, <1>6, <2>1, AnswerOnConnect, AnswerClosed, AnswerResponse, AnswerBroker,
             AnswerStreams, AnswerTakes DEF Progress
<1>7. CASE Fault(d)
  BY <1>2, <1>7, AnswerStreams, AnswerPublish DEF Fault
<1> QED BY <1>3, <1>4, <1>5, <1>6, <1>7 DEF Next

LEMMA InitAnswers == Init => AnswerInv
<1> SUFFICES ASSUME Init, NEW c \in Client PROVE AnswerOK(c)
  BY InitTypes DEF AnswerInv
<1>1. \A n \in Conn : out[c][n] = <<>> /\ in[c][n] = <<>> /\ answered[c][n] = 0
  BY DEF Init
<1>2. \A n \in Conn : n \in Sock /\ link[c][n] = "none"
  BY Bounds, InitTypes DEF Init, TypeInv, Conn, Sock
<1>3. ConnectOnce(c)
  BY <1>1, <1>2 DEF Init, ConnectOnce, Used
<1>4. FirstOnce(c) /\ UnsubOnce(c)
  BY <1>1, HasEmpty DEF FirstOnce, UnsubOnce, Single, Underway
<1>5. RequestsOnce(c)
  BY DEF Init, RequestsOnce
<1> QED BY <1>3, <1>4, <1>5 DEF AnswerOK

\* The callback of a connect() is called at most once, whatever is lost, connected
\* again or closed after it, and that of a request too, unless it throws.
THEOREM AnsweredOnceHolds == Spec => []AnsweredOnce
<1>1. AnswerInv => AnsweredOnce
  BY DEF AnswerInv, AnswerOK, ConnectOnce, RequestsOnce, AnsweredOnce
<1> QED BY InitAnswers, <1>1, AnswerStep, PTL DEF Spec

-----------------------------------------------------------------------------
(* Sessions.                                                               *)

LEMMA Refusals ==
  ASSUME NEW s \in Seq(InPacket)
  PROVE  /\ ~ Refusal(<<>>)
         /\ \A p \in InPacket :
              Refusal(Append(s, p)) => Refusal(s) \/ (p.packet = "suback" /\ ~ p.granted)
         /\ s # <<>> => /\ Refusal(Tail(s)) => Refusal(s)
                        /\ Head(s).packet = "suback" /\ ~ Head(s).granted => Refusal(s)
<1>1. ~ Refusal(<<>>)
  BY DEF Refusal
<1>2. ASSUME NEW p \in InPacket, Refusal(Append(s, p))
      PROVE  Refusal(s) \/ (p.packet = "suback" /\ ~ p.granted)
  <2>1. PICK i \in DOMAIN Append(s, p) :
          Append(s, p)[i].packet = "suback" /\ ~ Append(s, p)[i].granted
    BY <1>2 DEF Refusal
  <2>2. Append(s, p)[i] = p \/ (i \in DOMAIN s /\ Append(s, p)[i] = s[i])
    OBVIOUS
  <2> QED BY <2>1, <2>2 DEF Refusal
<1>3. ASSUME s # <<>>, Refusal(Tail(s)) PROVE Refusal(s)
  <2>1. PICK i \in DOMAIN Tail(s) : Tail(s)[i].packet = "suback" /\ ~ Tail(s)[i].granted
    BY <1>3 DEF Refusal
  <2>2. i + 1 \in DOMAIN s /\ Tail(s)[i] = s[i + 1]
    BY <1>3
  <2> QED BY <2>1, <2>2 DEF Refusal
<1>4. s # <<>> => 1 \in DOMAIN s /\ Head(s) = s[1]
  OBVIOUS
<1>5. s # <<>> => (Head(s).packet = "suback" /\ ~ Head(s).granted => Refusal(s))
  BY <1>4 DEF Refusal
<1> QED BY <1>1, <1>2, <1>3, <1>5

\* The parts of a step that PacketsOK depends on.
LEMMA PacketsStep ==
  ASSUME NEW c \in Client, PacketsOK(c), refused[c] => refused'[c],
         \A m \in Conn :
           /\ link'[c][m] # "up" \/ ~ Underway(c, m, "disconnect")'
                \/ (link[c][m] = "up" /\ Conserved(c, m, "disconnect"))
           /\ Refusal(in'[c][m]) => Refusal(in[c][m]) \/ refused'[c]
           /\ m > client'[c] =>
                /\ m > client[c] /\ Conserved(c, m, "again")
                /\ m \in resubscribe'[c] => m \in resubscribe[c]
  PROVE  PacketsOK(c)'
<1> QED BY DEF PacketsOK, Conserved

LEMMA SessionKept ==
  ASSUME NEW c \in Client, SessionOK(c), client'[c] = client[c], link'[c] = link[c],
         in'[c] = in[c], session'[c] = session[c]
  PROVE  SessionOK(c)'
<1> QED BY DEF SessionOK

LEMMA SessionConnect ==
  ASSUME TypeInv, NEW c \in Client, SessionOK(c), PacketsOK(c), connect(c)
  PROVE  SessionOK(c)' /\ PacketsOK(c)'
<1> DEFINE old == client[c]
           n == old + 1
<1>1. /\ old \in Sock /\ n \in Conn /\ client'[c] = n
      /\ \A m \in Conn : link'[c][m] = IF m = n THEN "down"
                                       ELSE IF m = old THEN EndOf(link[c][old]) ELSE link[c][m]
      /\ UNCHANGED <<resubscribe, in, session, refused>>
  BY ConnectEffects
<1>2. session[c].sock \in Sock
  BY DEF TypeInv, BrokerOK
<1>3. /\ \A m \in Conn : m > n => m > old
      /\ n > old /\ \A m \in Sock : m <= old => m <= n
  BY <1>1 DEF Conn, Sock
<1>4. \A m \in Sock : m <= old => m # n
  BY <1>1 DEF Conn, Sock
<1>5. \A m \in Sock : m # 0 => m \in Conn
  BY Bounds DEF Sock, Conn
<1> HIDE DEF n
<1>6. \A m \in Conn : link'[c][m] = "up" => link[c][m] = "up" /\ m # old
  BY <1>1 DEF EndOf
<1>7. \A m \in Conn : m # n /\ link[c][m] \in {"up", "ending"} => link'[c][m] \in {"up", "ending"}
  BY <1>1 DEF EndOf
<1>8. SessionOK(c)'
  BY <1>1, <1>2, <1>3, <1>4, <1>5, <1>6, <1>7 DEF SessionOK
<1>9. \A m \in Conn : m # old => out'[c][m] = out[c][m]
  BY ConnectEffects
<1>10. \A m \in Conn : m # old => Conserved(c, m, "disconnect")
  BY <1>1, <1>9, KeepsWires
<1>11. \A m \in Conn : Conserved(c, m, "again")
  BY ConnectEffects
<1>12. PacketsOK(c)'
  BY <1>1, <1>3, <1>6, <1>10, <1>11, PacketsStep
<1> QED BY <1>8, <1>12

\* A step of the object and its packets only, that ends and starts no connection.
LEMMA SessionCalls ==
  ASSUME TypeInv, NEW c \in Client, SessionOK(c), PacketsOK(c), close(c) \/ ImHere(c)
  PROVE  SessionOK(c)' /\ PacketsOK(c)'
<1>1. /\ client'[c] = client[c] /\ link'[c] = link[c] /\ in'[c] = in[c]
      /\ session'[c] = session[c] /\ refused'[c] = refused[c]
      /\ resubscribe'[c] \subseteq resubscribe[c]
  BY Domains DEF close, ImHere, object, broker, history, TypeInv, ObjectOK
<1>2. \A m \in Conn : \/ out'[c][m] = out[c][m]
                      \/ out'[c][m] = Append(out[c][m], UNSUBSCRIBE)
                      \/ out'[c][m] = Append(out[c][m], ONLINE)
  BY DEF close, ImHere, TypeInv, WiresOK
<1>3. \A t \in {"again", "disconnect"} : \A m \in Conn : Conserved(c, m, t)
  BY <1>1, <1>2, KeepsWires, AddsOut, Tags, Packets DEF TypeInv
<1>4. PacketsOK(c)'
  BY <1>1, <1>3, PacketsStep
<1> QED BY <1>1, <1>4, SessionKept

\* What the 'connect' event changes; "w" is what object n sends.
Greets(c, n, w) ==
  /\ AtMostOne(w, "unsub") /\ AtMostOne(w, "first")
  /\ Has(w, "unsub") => closing[c] = [wait |-> "unsubscribe", sock |-> n]
  /\ ~ Has(w, "disconnect")
  /\ Has(w, "again") <=> n \in resubscribe[c]
  /\ Has(w, "publish")
  /\ \/ /\ connected[c] \/ on_message_handler[c] # 0
        /\ ~ Has(w, "first")
        /\ topic_inbox'[c] = topic_inbox[c] /\ resubscribe'[c] = resubscribe[c]
        /\ subscribing'[c] = subscribing[c]
     \/ /\ ~ connected[c] /\ on_message_handler[c] = 0
        /\ Has(w, "first")
        /\ topic_inbox'[c] /\ resubscribe'[c] = resubscribe[c] \cup {n}
        /\ subscribing'[c] = subscribing[c] \cup {n}
        /\ answered'[c] = answered[c]
  /\ connected[c] => answered'[c] = answered[c]

LEMMA OnConnectEffects ==
  ASSUME TypeInv, NEW c \in Client, onConnect(c)
  PROVE  LET n == client[c] IN
         /\ n \in Conn /\ link[c][n] = "down"
         /\ client'[c] = n /\ connected'[c]
         /\ \A m \in Conn : link'[c][m] = IF m = n THEN "up" ELSE link[c][m]
         /\ session'[c] = [sock |-> n, stale |-> FALSE, subscribed |-> FALSE]
         /\ in'[c][n] = <<>>
         /\ \A m \in Conn : m # n => out'[c][m] = out[c][m] /\ in'[c][m] = in[c][m]
         /\ presence' = Takeover(c)
         /\ UNCHANGED <<on_message_handler, listening, closing, requests, raced, refused>>
         /\ Greets(c, n, out'[c][n])
<1> DEFINE n == client[c]
           short == Waiting(c, n) \o Announce(c)
           long == Waiting(c, n) \o <<Subscribe(n)>> \o Announce(c)
<1>1. n \in Conn /\ link[c][n] = "down" /\ Conn \subseteq Sock
  BY Bounds DEF TypeInv, ObjectOK, onConnect, Sock, Conn
<1>2. /\ client'[c] = n /\ link'[c] = [link[c] EXCEPT ![n] = "up"] /\ connected'[c]
      /\ in'[c] = [in[c] EXCEPT ![n] = <<>>]
      /\ session'[c] = [sock |-> n, stale |-> FALSE, subscribed |-> FALSE]
      /\ presence' = Takeover(c)
      /\ UNCHANGED <<on_message_handler, listening, closing, requests, raced, refused>>
  BY Domains DEF onConnect, history
<1>3. /\ \A w \in {short, long} :
           /\ AtMostOne(w, "unsub")
           /\ Has(w, "unsub") => closing[c] = [wait |-> "unsubscribe", sock |-> n]
           /\ ~ Has(w, "disconnect")
           /\ Has(w, "again") <=> n \in resubscribe[c]
           /\ Has(w, "publish")
           /\ AtMostOne(w, "first")
      /\ ~ Has(short, "first") /\ Has(long, "first")
  BY <1>1, WaitingTags
<1>4. \/ /\ connected[c] \/ on_message_handler[c] # 0
         /\ out'[c] = [out[c] EXCEPT ![n] = short]
         /\ topic_inbox'[c] = topic_inbox[c] /\ resubscribe'[c] = resubscribe[c]
         /\ subscribing'[c] = subscribing[c]
      \/ /\ ~ connected[c] /\ on_message_handler[c] = 0
         /\ out'[c] = [out[c] EXCEPT ![n] = long]
         /\ topic_inbox'[c] /\ resubscribe'[c] = resubscribe[c] \cup {n}
         /\ subscribing'[c] = subscribing[c] \cup {n}
         /\ answered'[c] = answered[c]
  BY Domains DEF onConnect, start, FirstConnection
<1>5. connected[c] => answered'[c] = answered[c]
  BY DEF onConnect, FirstConnection
<1>6. out[c] \in [Conn -> Seq(OutPacket)] /\ in[c] \in [Conn -> Seq(InPacket)]
  BY DEF TypeInv, WiresOK
<1> HIDE DEF n, short, long
<1>7. in'[c][n] = <<>> /\ \A m \in Conn : m # n => in'[c][m] = in[c][m]
  BY <1>1, <1>2, <1>6
<1>8. \A m \in Conn : link'[c][m] = IF m = n THEN "up" ELSE link[c][m]
  BY <1>1, <1>2 DEF TypeInv, ObjectOK
<1>9. CASE /\ connected[c] \/ on_message_handler[c] # 0
           /\ out'[c] = [out[c] EXCEPT ![n] = short]
           /\ topic_inbox'[c] = topic_inbox[c] /\ resubscribe'[c] = resubscribe[c]
           /\ subscribing'[c] = subscribing[c]
  <2>1. out'[c][n] = short /\ \A m \in Conn : m # n => out'[c][m] = out[c][m]
    BY <1>1, <1>6, <1>9
  <2>2. Greets(c, n, out'[c][n])
    BY <1>3, <1>5, <1>9, <2>1 DEF Greets
  <2> QED BY <1>1, <1>2, <1>7, <1>8, <2>1, <2>2 DEF n
<1>10. CASE /\ ~ connected[c] /\ on_message_handler[c] = 0
            /\ out'[c] = [out[c] EXCEPT ![n] = long]
            /\ topic_inbox'[c] /\ resubscribe'[c] = resubscribe[c] \cup {n}
            /\ subscribing'[c] = subscribing[c] \cup {n}
            /\ answered'[c] = answered[c]
  <2>1. out'[c][n] = long /\ \A m \in Conn : m # n => out'[c][m] = out[c][m]
    BY <1>1, <1>6, <1>10
  <2>2. Greets(c, n, out'[c][n])
    BY <1>3, <1>5, <1>10, <2>1 DEF Greets
  <2> QED BY <1>1, <1>2, <1>7, <1>8, <2>1, <2>2 DEF n
<1> QED BY <1>4, <1>9, <1>10

LEMMA SessionOnConnect ==
  ASSUME TypeInv, NEW c \in Client, AnswerOK(c), SessionOK(c), PacketsOK(c), onConnect(c)
  PROVE  SessionOK(c)' /\ PacketsOK(c)'
<1> DEFINE n == client[c]
           w == out'[c][n]
<1>1. /\ n \in Conn /\ link[c][n] = "down" /\ client'[c] = n
      /\ \A m \in Conn : link'[c][m] = IF m = n THEN "up" ELSE link[c][m]
      /\ session'[c] = [sock |-> n, stale |-> FALSE, subscribed |-> FALSE]
      /\ in'[c][n] = <<>>
      /\ \A m \in Conn : m # n => out'[c][m] = out[c][m] /\ in'[c][m] = in[c][m]
      /\ refused'[c] = refused[c] /\ Greets(c, n, w)
  BY OnConnectEffects
<1>2. n <= n /\ \A m \in Conn : m > n => m # n
  BY <1>1 DEF Conn
<1>3. \A m \in Conn : m # n => link[c][m] \in {"none", "ending", "ended"}
  BY DEF AnswerOK, ConnectOnce
<1> HIDE DEF n, w
<1>4. SessionOK(c)'
  BY <1>1, <1>2, <1>3 DEF SessionOK
<1>5. /\ ~ Has(w, "disconnect") /\ ~ Has(in'[c][n], "disconnect")
      /\ resubscribe'[c] = resubscribe[c] \/ resubscribe'[c] = resubscribe[c] \cup {n}
  BY <1>1, HasEmpty DEF Greets
<1>6. ASSUME NEW m \in Conn
      PROVE  /\ link'[c][m] # "up" \/ ~ Underway(c, m, "disconnect")'
                  \/ (link[c][m] = "up" /\ Conserved(c, m, "disconnect"))
             /\ Refusal(in'[c][m]) => Refusal(in[c][m]) \/ refused'[c]
             /\ m > client'[c] =>
                  /\ m > client[c] /\ Conserved(c, m, "again")
                  /\ m \in resubscribe'[c] => m \in resubscribe[c]
  <2>1. CASE m = n
    BY <1>1, <1>2, <1>5, <2>1 DEF Underway, Refusal, w
  <2>2. CASE m # n
    BY <1>1, <1>3, <1>5, <2>2, KeepsWires DEF n
  <2> QED BY <2>1, <2>2
<1>7. PacketsOK(c)'
  BY <1>1, <1>6, PacketsStep
<1> QED BY <1>4, <1>7

\* What the end of a stream changes, lost or not.
LEMMA StreamEffects ==
  ASSUME TypeInv, NEW c \in Client, NEW n \in Conn,
         Lost(c, n) \/ StreamEnds(c, n) \/ AttemptFails(c, n)
  PROVE  /\ \E l \in {"down", "ended"} : Fail(c, n, l)
         /\ link[c][n] \in {"up", "down", "ending"} /\ n <= client[c]
         /\ session'[c].sock = session[c].sock
         /\ session'[c].subscribed = session[c].subscribed
         /\ session'[c].stale <=>
              session[c].stale \/ (n = session[c].sock /\ link[c][n] \in {"up", "ending"})
         /\ UNCHANGED <<client, connected, topic_inbox, resubscribe, kept, bye, presence,
                        requests, status, raced, refused>>
<1>1. session[c] \in [sock : Sock, stale : BOOLEAN, subscribed : BOOLEAN]
  BY DEF TypeInv, BrokerOK
<1>3. link[c][n] # "none" => n <= client[c]
  BY DEF TypeInv, ObjectOK
<1>4. CASE Lost(c, n)
  <2> DEFINE l == IF link[c][n] = "up" THEN "down" ELSE "ended"
  <2>1. Fail(c, n, l) /\ l \in {"down", "ended"} /\ link[c][n] \in {"up", "ending"}
    BY <1>4 DEF Lost
  <2>2. UNCHANGED <<client, connected, topic_inbox, resubscribe, kept, bye, presence,
                    requests, status, raced, refused>>
    BY <1>4 DEF Lost, history
  <2>3. session'[c] = IF session[c].sock = n THEN [session[c] EXCEPT !.stale = TRUE]
                      ELSE session[c]
    BY <1>4, Domains DEF Lost
  <2> HIDE DEF l
  <2>4. /\ session'[c].sock = session[c].sock
        /\ session'[c].subscribed = session[c].subscribed
        /\ session'[c].stale <=> session[c].stale \/ n = session[c].sock
    BY <1>1, <2>3
  <2> QED BY <1>3, <2>1, <2>2, <2>4
<1>5. CASE StreamEnds(c, n) \/ AttemptFails(c, n)
  <2>1. /\ \E l \in {"down", "ended"} : Fail(c, n, l)
        /\ link[c][n] \in {"down", "ending"}
        /\ link[c][n] = "ending" => session[c].sock # n
    BY <1>5 DEF StreamEnds, AttemptFails
  <2>2. /\ UNCHANGED <<client, connected, topic_inbox, resubscribe, kept, bye, presence,
                       requests, status, raced, refused>>
        /\ UNCHANGED session
    BY <1>5 DEF StreamEnds, AttemptFails, broker, history
  <2> QED BY <1>3, <2>1, <2>2
<1> QED BY <1>4, <1>5

LEMMA SessionStreams ==
  ASSUME TypeInv, NEW c \in Client, NEW n \in Conn, SessionOK(c), PacketsOK(c),
         Lost(c, n) \/ StreamEnds(c, n) \/ AttemptFails(c, n)
  PROVE  SessionOK(c)' /\ PacketsOK(c)'
<1> DEFINE s == client[c]
           k == session[c].sock
<1>1. /\ link[c][n] \in {"up", "down", "ending"} /\ n <= s
      /\ session'[c].sock = k
      /\ session'[c].stale <=> session[c].stale \/ (n = k /\ link[c][n] \in {"up", "ending"})
      /\ client'[c] = s /\ UNCHANGED <<resubscribe, refused>>
  BY StreamEffects
<1>2. PICK l \in {"down", "ended"} : Cut(c, n, l)
  BY StreamEffects, FailEffects
<1>3. /\ out'[c][n] = <<>> /\ in'[c][n] = <<>>
      /\ \A m \in Conn : m # n => in'[c][m] = in[c][m]
  BY <1>2 DEF Cut
<1>4. \A m \in Conn : m # n /\ m # s => out'[c][m] = out[c][m] /\ link'[c][m] = link[c][m]
  BY <1>2 DEF Cut
<1>5. IF closing[c] = [wait |-> "unsubscribe", sock |-> n]
      THEN /\ s = n => link'[c][n] = "ended"
           /\ s # n => link'[c][s] = EndOf(link[c][s]) /\ link'[c][n] = l
      ELSE /\ link'[c] = [link[c] EXCEPT ![n] = l]
           /\ \A m \in Conn : m # n => out'[c][m] = out[c][m]
  BY <1>2 DEF Cut
<1>6. k \in Sock /\ Conn \subseteq Sock /\ \A m \in Sock : m # 0 => m \in Conn
  BY Bounds DEF TypeInv, BrokerOK, Sock, Conn
<1> HIDE DEF s, k
<1>7. link'[c][n] \in {"down", "ended"}
  BY <1>2, <1>5, <1>6 DEF TypeInv, LinkState, ObjectOK
<1>8. \A m \in Conn : m # n =>
        \/ link'[c][m] = link[c][m] /\ out'[c][m] = out[c][m]
        \/ m = s /\ link'[c][m] = EndOf(link[c][m])
  <2> SUFFICES ASSUME NEW m \in Conn, m # n
               PROVE  \/ link'[c][m] = link[c][m] /\ out'[c][m] = out[c][m]
                      \/ m = s /\ link'[c][m] = EndOf(link[c][m])
    OBVIOUS
  <2>1. CASE closing[c] = [wait |-> "unsubscribe", sock |-> n]
    BY <1>4, <1>5, <2>1
  <2>2. CASE closing[c] # [wait |-> "unsubscribe", sock |-> n]
    BY <1>5, <1>6, <2>2 DEF TypeInv, ObjectOK
  <2> QED BY <2>1, <2>2
<1>9. \A m \in Conn : link'[c][m] = "up" =>
        m # n /\ link[c][m] = "up" /\ out'[c][m] = out[c][m]
  BY <1>7, <1>8 DEF EndOf
<1>10. \A m \in Conn : m # n /\ link[c][m] \in {"up", "ending"} => link'[c][m] \in {"up", "ending"}
  BY <1>8 DEF EndOf
<1>11. SessionOK(c)'
  <2> DEFINE stale_next == session'[c].stale
  <2>1. k <= s /\ (k # 0 /\ ~ session[c].stale => link[c][k] \in {"up", "ending"})
    BY DEF SessionOK, k, s
  <2>2. k # 0 /\ session[c].stale => in[c][k] = <<>>
    BY DEF SessionOK, k
  <2>3. \A m \in Conn : link[c][m] = "up" => k = m /\ ~ session[c].stale
    BY DEF SessionOK, k
  <2>4. k # 0 /\ ~ stale_next => link'[c][k] \in {"up", "ending"}
    BY <1>1, <1>6, <1>10, <2>1
  <2>5. k # 0 /\ stale_next => in'[c][k] = <<>>
    BY <1>1, <1>3, <1>6, <2>2
  <2>6. \A m \in Conn : link'[c][m] = "up" => k = m /\ ~ stale_next
    BY <1>1, <1>9, <2>3
  <2> QED BY <1>1, <2>1, <2>4, <2>5, <2>6 DEF SessionOK
<1>12. \A m \in Conn : m > s => m # n /\ m # s
  BY <1>1 DEF TypeInv, ObjectOK, s, Conn, Sock
<1>13. \A m \in Conn : Refusal(in'[c][m]) => Refusal(in[c][m])
  BY <1>3 DEF Refusal
<1>14. \A m \in Conn : link'[c][m] = "up" => Conserved(c, m, "disconnect")
  BY <1>3, <1>9, KeepsWires
<1>15. \A m \in Conn : m > s => Conserved(c, m, "again")
  BY <1>3, <1>4, <1>12, KeepsWires
<1>16. PacketsOK(c)'
  BY <1>1, <1>9, <1>13, <1>14, <1>15, PacketsStep DEF s
<1> QED BY <1>11, <1>16

LEMMA SessionBroker ==
  ASSUME TypeInv, NEW c \in Client, SessionOK(c), PacketsOK(c), BrokerTakes(c)
  PROVE  SessionOK(c)' /\ PacketsOK(c)'
<1> DEFINE n == session[c].sock
           p == Head(out[c][n])
<1>1. /\ n \in Conn /\ ~ session[c].stale /\ out[c][n] # <<>>
      /\ \A m \in Conn : m # n => in'[c][m] = in[c][m]
      /\ UNCHANGED object
  BY BrokerEffects
<1>2. \/ /\ in'[c][n] = in[c][n] \/ \E q \in InPacket : in'[c][n] = Append(in[c][n], q)
                                      /\ ~ (q.packet = "suback" /\ ~ q.granted)
         /\ refused' = refused
      \/ /\ \E q \in InPacket : in'[c][n] = Append(in[c][n], q)
         /\ refused'[c]
  <2>1. ASSUME p.by \in Sock
        PROVE  /\ Suback(p.by, TRUE) \in InPacket /\ Suback(p.by, FALSE) \in InPacket
               /\ Suback(p.by, TRUE).granted
    BY <2>1, Packets DEF Suback
  <2>2. UNSUBACK \in InPacket /\ UNSUBACK.packet # "suback"
    BY Packets DEF UNSUBACK
  <2> HIDE DEF p
  <2>3. \/ p.by \in Sock /\ in'[c][n] = Append(in[c][n], Suback(p.by, TRUE)) /\ refused' = refused
        \/ p.by \in Sock /\ in'[c][n] = Append(in[c][n], Suback(p.by, FALSE)) /\ refused'[c]
        \/ in'[c][n] = Append(in[c][n], UNSUBACK) /\ refused' = refused
        \/ in'[c][n] = in[c][n] /\ refused' = refused
    BY BrokerEffects DEF p
  <2> QED BY <2>1, <2>2, <2>3
<1>3. /\ session'[c].sock \in {0, n}
      /\ session'[c].sock = n => ~ session'[c].stale
      /\ session'[c].sock = 0 => Head(out[c][n]) = DISCONNECT
  <2>1. session[c] \in [sock : Sock, stale : BOOLEAN, subscribed : BOOLEAN] /\ n # 0
    BY <1>1 DEF TypeInv, BrokerOK, Conn
  <2>2. \/ session'[c] = [session[c] EXCEPT !.subscribed = TRUE]
        \/ session'[c] = [session[c] EXCEPT !.subscribed = FALSE]
        \/ session'[c] = session[c]
        \/ session'[c] = NoSession /\ Head(out[c][n]) = DISCONNECT
    BY BrokerEffects DEF broker
  <2>3. CASE session'[c] = NoSession /\ Head(out[c][n]) = DISCONNECT
    BY <2>1, <2>3 DEF NoSession
  <2>4. CASE \/ session'[c] = [session[c] EXCEPT !.subscribed = TRUE]
             \/ session'[c] = [session[c] EXCEPT !.subscribed = FALSE]
             \/ session'[c] = session[c]
    BY <1>1, <2>1, <2>4
  <2> QED BY <2>2, <2>3, <2>4
<1>4. \A m \in Conn : Conserved(c, m, "disconnect") /\ Conserved(c, m, "again")
  BY BrokerConserves
<1>5. \A m \in Conn : in[c][m] \in Seq(InPacket)
  BY DEF TypeInv, WiresOK
<1>6. out[c][n] \in Seq(OutPacket)
  BY <1>1 DEF TypeInv, WiresOK
<1>7. Head(out[c][n]) = DISCONNECT => Underway(c, n, "disconnect")
  BY <1>1, <1>6, HasTail, Tags DEF Underway
<1> HIDE DEF n, p
<1>8. SessionOK(c)'
  <2>1. client'[c] = client[c] /\ link'[c] = link[c]
    BY <1>1 DEF object
  <2>2. n <= client[c] /\ link[c][n] \in {"up", "ending"}
    BY <1>1 DEF SessionOK, n, Conn
  <2>3. \A m \in Conn : link[c][m] = "up" => n = m
    BY DEF SessionOK, n
  <2>4. link[c][n] = "up" => session'[c].sock = n
    BY <1>1, <1>3, <1>7 DEF PacketsOK
  <2>5. 0 <= client[c]
    BY DEF TypeInv, ObjectOK, Sock
  <2> QED BY <1>3, <2>1, <2>2, <2>3, <2>4, <2>5 DEF SessionOK
<1>9. \A m \in Conn : Refusal(in'[c][m]) => Refusal(in[c][m]) \/ refused'[c]
  <2> SUFFICES ASSUME NEW m \in Conn, Refusal(in'[c][m]), ~ refused'[c]
               PROVE  Refusal(in[c][m])
    OBVIOUS
  <2>1. CASE m # n
    BY <1>1, <2>1
  <2>2. CASE m = n
    BY <1>2, <1>5, <2>2, Refusals
  <2> QED BY <2>1, <2>2
<1>10. PacketsOK(c)'
  BY <1>1, <1>2, <1>4, <1>9, PacketsStep DEF object
<1> QED BY <1>8, <1>10

LEMMA SessionClosed ==
  ASSUME TypeInv, NEW c \in Client, SessionOK(c), PacketsOK(c), Closed(c)
  PROVE  SessionOK(c)' /\ PacketsOK(c)'
<1>1. UNCHANGED <<client, link, in, out, session, resubscribe, refused>>
  BY DEF Closed, wires, broker, history
<1>2. \A m \in Conn : Conserved(c, m, "disconnect") /\ Conserved(c, m, "again")
  BY <1>1, KeepsWires
<1> QED BY <1>1, <1>2, PacketsStep, SessionKept

LEMMA SessionExpire ==
  ASSUME TypeInv, NEW c \in Client, SessionOK(c), PacketsOK(c), Expire(c)
  PROVE  SessionOK(c)' /\ PacketsOK(c)'
<1>1. /\ UNCHANGED <<object, in, out, refused>>
      /\ session'[c] = NoSession /\ session[c].stale
  BY Domains DEF Expire, wires, history
<1>2. \A m \in Conn : Conserved(c, m, "disconnect") /\ Conserved(c, m, "again")
  BY <1>1, KeepsWires
<1>3. PacketsOK(c)'
  BY <1>1, <1>2, PacketsStep DEF object
<1>4. 0 <= client[c]
  BY DEF TypeInv, ObjectOK, Sock
<1>5. SessionOK(c)'
  BY <1>1, <1>4 DEF SessionOK, NoSession, object
<1> QED BY <1>3, <1>5

LEMMA SessionPublish ==
  ASSUME TypeInv, NEW c \in Client, SessionOK(c), PacketsOK(c), NEW e \in Event, Publish(c, e)
  PROVE  SessionOK(c)' /\ PacketsOK(c)'
<1> DEFINE n == session[c].sock
<1>1. /\ n \in Conn /\ ~ session[c].stale
      /\ in'[c][n] = Append(in[c][n], Message(e))
      /\ \A m \in Conn : m # n => in'[c][m] = in[c][m]
      /\ UNCHANGED <<object, session, refused>>
      /\ \A m \in Conn : Conserved(c, m, "disconnect") /\ Conserved(c, m, "again")
  BY PublishEffects
<1>2. SessionOK(c)'
  BY <1>1 DEF SessionOK, object
<1>3. \A m \in Conn : Refusal(in'[c][m]) => Refusal(in[c][m])
  <2> SUFFICES ASSUME NEW m \in Conn, Refusal(in'[c][m]) PROVE Refusal(in[c][m])
    OBVIOUS
  <2>1. in[c][m] \in Seq(InPacket) /\ Message(e) \in InPacket /\ Message(e).packet # "suback"
    BY Packets DEF TypeInv, WiresOK, Message
  <2>2. CASE m # n
    BY <1>1, <2>2
  <2>3. CASE m = n
    BY <1>1, <2>1, <2>3, Refusals
  <2> QED BY <2>2, <2>3
<1>4. PacketsOK(c)'
  BY <1>1, <1>3, PacketsStep DEF object
<1> QED BY <1>2, <1>4

LEMMA SessionTakes ==
  ASSUME TypeInv, NEW c \in Client, NEW n \in Conn, SessionOK(c), PacketsOK(c), ClientTakes(c, n)
  PROVE  SessionOK(c)' /\ PacketsOK(c)'
<1> DEFINE p == Head(in[c][n])
           k == session[c].sock
<1>1. /\ link[c][n] \in {"up", "ending"} /\ in[c][n] # <<>>
      /\ in'[c][n] = Tail(in[c][n])
      /\ \A m \in Conn : m # n => in'[c][m] = in[c][m]
      /\ UNCHANGED <<client, session, refused>>
      /\ \/ ReadsFirst(c, n, p) \/ ReadsAgain(c, n, p)
         \/ ReadsUnsuback(c, n, p) \/ ReadsMessage(c, n, p)
  BY ClientEffects
<1>2. \A m \in Conn : Conserved(c, m, "again")
  BY ClientConserves
<1>3. /\ Conn \subseteq Sock /\ \A m \in Sock : m # 0 => m \in Conn
      /\ k \in Sock /\ resubscribe[c] \subseteq Conn
  BY Bounds DEF TypeInv, BrokerOK, ObjectOK, Sock, Conn
<1> HIDE DEF p, k
<1>4. resubscribe'[c] \subseteq resubscribe[c]
  <2>1. CASE ReadsFirst(c, n, p)
    BY <2>1 DEF ReadsFirst
  <2>2. CASE ReadsAgain(c, n, p)
    BY <2>2 DEF ReadsAgain
  <2>3. CASE ReadsUnsuback(c, n, p) \/ ReadsMessage(c, n, p)
    BY <2>3 DEF ReadsUnsuback, ReadsMessage
  <2> QED BY <1>1, <2>1, <2>2, <2>3
<1>5. ASSUME NEW m \in Conn
      PROVE  /\ link'[c][m] = "up" => link[c][m] = "up" /\ out'[c][m] = out[c][m]
             /\ link[c][m] \in {"up", "ending"} => link'[c][m] \in {"up", "ending"}
  <2>1. CASE UNCHANGED <<link, out>>
    BY <2>1
  <2>2. CASE ReadsUnsuback(c, n, p)
    BY <1>3, <2>2 DEF ReadsUnsuback, EndOf
  <2> QED BY <1>1, <2>1, <2>2 DEF ReadsFirst, ReadsAgain, ReadsMessage
<1>6. in[c][n] \in Seq(InPacket)
  BY DEF TypeInv, WiresOK
<1>7. SessionOK(c)'
  <2>1. k # 0 /\ session[c].stale => in'[c][k] = <<>>
    BY <1>1, <1>3 DEF SessionOK, k
  <2> QED BY <1>1, <1>3, <1>5, <2>1 DEF SessionOK, k
<1>8. \A m \in Conn : Refusal(in'[c][m]) => Refusal(in[c][m])
  <2> SUFFICES ASSUME NEW m \in Conn, Refusal(in'[c][m]) PROVE Refusal(in[c][m])
    OBVIOUS
  <2>1. CASE m # n
    BY <1>1, <2>1
  <2>2. CASE m = n
    BY <1>1, <1>6, <2>2, Refusals
  <2> QED BY <2>1, <2>2
<1>9. ASSUME NEW m \in Conn, link'[c][m] = "up" PROVE ~ Underway(c, m, "disconnect")'
  <2>1. ~ Has(out[c][m], "disconnect") /\ ~ Has(in[c][m], "disconnect")
    BY <1>5, <1>9 DEF PacketsOK, Underway
  <2>2. Has(in'[c][m], "disconnect") => Has(in[c][m], "disconnect")
    BY <1>1, <1>6, HasTail
  <2> QED BY <1>5, <1>9, <2>1, <2>2 DEF Underway
<1>10. PacketsOK(c)'
  BY <1>1, <1>2, <1>4, <1>8, <1>9, PacketsStep
<1> QED BY <1>7, <1>10

-----------------------------------------------------------------------------
(* The listener.                                                           *)

LEMMA LeadsFacts ==
  ASSUME NEW q \in Seq(InPacket)
  PROVE  /\ Leads(<<>>)
         /\ \A p \in InPacket : Leads(q) /\ p.packet # "message" => Leads(Append(q, p))
         /\ \A p \in InPacket : Leads(q) /\ Has(q, "first") => Leads(Append(q, p))
         /\ Leads(q) /\ q # <<>> /\ Head(q).packet # "suback" => Leads(Tail(q))
<1>1. Leads(<<>>)
  BY DEF Leads
<1>2. ASSUME NEW p \in InPacket, Leads(q), p.packet # "message" \/ Has(q, "first")
      PROVE  Leads(Append(q, p))
  <2> DEFINE a == Append(q, p)
             n == Len(q)
  <2>1. /\ DOMAIN a = 1 .. (n + 1) /\ DOMAIN q = 1 .. n /\ n \in Nat
        /\ \A i \in 1 .. n : a[i] = q[i]
        /\ a[n + 1] = p
        /\ \A i \in 1 .. n : q[i] \in InPacket
    OBVIOUS
  <2> HIDE DEF a, n
  <2> SUFFICES ASSUME NEW i \in 1 .. (n + 1), a[i].packet = "message"
               PROVE  \E j \in 1 .. (i - 1) : a[j].packet = "suback"
    BY <2>1 DEF Leads, a
  <2>2. CASE i \in 1 .. n
    <3>1. PICK j \in 1 .. (i - 1) : q[j].packet = "suback"
      BY <1>2, <2>1, <2>2 DEF Leads
    <3>2. j \in 1 .. n
      BY <2>1, <2>2, <3>1
    <3> QED BY <2>1, <3>1, <3>2
  <2>3. CASE i \notin 1 .. n
    <3>1. i = n + 1 /\ i - 1 = n
      BY <2>1, <2>3
    <3>2. PICK j \in 1 .. n : Tag(q[j]) = "first"
      BY <1>2, <2>1, <3>1 DEF Has
    <3>3. q[j] \in InPacket
      BY <2>1
    <3>4. q[j].packet = "suback"
      BY <3>2, <3>3 DEF Tag, InPacket
    <3> QED BY <2>1, <3>1, <3>4
  <2> QED BY <2>2, <2>3
<1>3. ASSUME Leads(q), q # <<>>, Head(q).packet # "suback" PROVE Leads(Tail(q))
  <2> DEFINE a == Tail(q)
             n == Len(q)
  <2>1. /\ DOMAIN a = 1 .. (n - 1) /\ DOMAIN q = 1 .. n /\ n \in Nat /\ n >= 1
        /\ \A i \in 1 .. (n - 1) : a[i] = q[i + 1]
        /\ Head(q) = q[1]
    BY <1>3
  <2> HIDE DEF a, n
  <2> SUFFICES ASSUME NEW i \in 1 .. (n - 1), a[i].packet = "message"
               PROVE  \E j \in 1 .. (i - 1) : a[j].packet = "suback"
    BY <2>1 DEF Leads, a
  <2>2. i + 1 \in 1 .. n /\ q[i + 1].packet = "message" /\ (i + 1) - 1 = i
    BY <2>1
  <2>3. PICK j \in 1 .. i : q[j].packet = "suback"
    BY <1>3, <2>1, <2>2 DEF Leads
  <2>4. j # 1
    BY <1>3, <2>1, <2>3
  <2>5. j - 1 \in 1 .. (i - 1) /\ j - 1 \in 1 .. (n - 1) /\ (j - 1) + 1 = j
    BY <2>1, <2>4
  <2> QED BY <2>1, <2>3, <2>5
<1> QED BY <1>1, <1>2, <1>3

LEMMA ListenSame ==
  ASSUME NEW d \in Client, Alike(d), ListenOK(d)
  PROVE  ListenOK(d)'
<1>1. \A m \in Conn : \A t : Conserved(d, m, t) /\ (Underway(d, m, t)' <=> Underway(d, m, t))
  BY KeepsWires DEF Alike
<1>2. SessionOK(d)' /\ PacketsOK(d)'
  BY <1>1, SessionKept, PacketsStep DEF Alike, ListenOK
<1>3. BeforeStart(d) => BeforeStart(d)'
  BY DEF Alike, BeforeStart
<1>4. Started(d) => Started(d)'
  BY DEF Alike, Started
<1>5. Subscribes(d) => Subscribes(d)'
  BY DEF Alike, Subscribes, Underway
<1>6. MessagesFollow(d) => MessagesFollow(d)'
  BY DEF Alike, MessagesFollow
<1>7. OneAlive(d) => OneAlive(d)'
  BY DEF Alike, OneAlive
<1> QED BY <1>2, <1>3, <1>4, <1>5, <1>6, <1>7 DEF CleanOK, Alike, ListenOK

\* A step of the broker or of the packets leaves the object as it was.
LEMMA ObjectKept ==
  ASSUME NEW c \in Client, CleanOK(c), UNCHANGED object, refused[c] => refused'[c]
  PROVE  BeforeStart(c)' /\ Started(c)' /\ OneAlive(c)'
<1>1. BeforeStart(c)'
  BY DEF CleanOK, BeforeStart, object
<1>2. Started(c)'
  BY DEF CleanOK, Started, object
<1>3. OneAlive(c)'
  BY DEF CleanOK, OneAlive, object
<1> QED BY <1>1, <1>2, <1>3

LEMMA CleanConnect ==
  ASSUME TypeInv, NEW c \in Client, AnswerOK(c), SessionOK(c), PacketsOK(c), CleanOK(c),
         connect(c), ~ raced'[c]
  PROVE  CleanOK(c)'
<1> DEFINE old == client[c]
           n == old + 1
<1>1. /\ old \in Sock /\ n \in Conn /\ client'[c] = n
      /\ \A m \in Conn : link'[c][m] = IF m = n THEN "down"
                                       ELSE IF m = old THEN EndOf(link[c][old]) ELSE link[c][m]
      /\ ~ topic_inbox[c]
      /\ UNCHANGED <<connected, on_message_handler, topic_inbox, listening, resubscribe,
                     subscribing, closing, answered, kept, in, session, requests, refused>>
  BY ConnectEffects
<1>2. /\ ~ connected[c] /\ on_message_handler[c] = 0
      /\ subscribing[c] = {} /\ closing[c].wait = "no"
      /\ link[c][old] \in {"none", "down", "ended"}
  BY <1>1 DEF CleanOK, BeforeStart
<1>3. n > old /\ session[c].sock # n
  <2>1. session[c].sock <= old /\ session[c].sock \in Sock
    BY DEF SessionOK, TypeInv, BrokerOK
  <2> QED BY <1>1, <2>1 DEF Sock
<1>4. n \notin resubscribe[c]
      /\ \A m \in Conn : m = n => ~ Underway(c, m, "again") /\ Conserved(c, m, "again")
  BY <1>1, <1>3, ConnectEffects DEF PacketsOK
<1>5. \A m \in Conn : m = n => ~ Underway(c, m, "again")'
  BY <1>4 DEF Conserved
<1> HIDE DEF n, old
<1>6. BeforeStart(c)'
  BY <1>1, <1>2 DEF BeforeStart
<1>7. Started(c)'
  BY <1>1 DEF Started
<1>8. ~ Underway(c, client[c], "again")'
  BY <1>1, <1>5
<1>9. Subscribes(c)'
  <2>1. link'[c][n] = "down"
    BY <1>1
  <2> QED BY <1>1, <1>2, <1>3, <1>4, <1>8, <2>1 DEF Subscribes
<1>10. MessagesFollow(c)'
  BY <1>1 DEF CleanOK, MessagesFollow
<1>11. OneAlive(c)'
  BY <1>1, <1>2 DEF CleanOK, OneAlive, EndOf, old
<1> QED BY <1>6, <1>7, <1>9, <1>10, <1>11 DEF CleanOK

LEMMA CleanClose ==
  ASSUME TypeInv, NEW c \in Client, CleanOK(c), close(c)
  PROVE  CleanOK(c)'
<1> DEFINE s == client[c]
<1>1. /\ topic_inbox[c]
      /\ closing'[c] = [wait |-> "unsubscribe", sock |-> s]
      /\ resubscribe'[c] = resubscribe[c] \ {s}
      /\ UNCHANGED <<client, link, connected, on_message_handler, topic_inbox, listening,
                     subscribing, answered, in, session, refused>>
  BY Domains DEF close, broker, history
<1>2. s \in Sock
  BY DEF TypeInv, ObjectOK
<1>3. \A m \in Conn : out'[c][m] = out[c][m] \/ out'[c][m] = Append(out[c][m], UNSUBSCRIBE)
  BY DEF close, TypeInv, WiresOK
<1>4. \A m \in Conn : Conserved(c, m, "again")
  BY <1>1, <1>3, KeepsWires, AddsOut, Tags, Packets DEF TypeInv
<1>5. s # 0 => s \in Conn
  BY <1>2, Bounds DEF TypeInv, Sock, Conn
<1>6. \A m \in Conn : m = s /\ Underway(c, m, "again")' => Underway(c, m, "again")
  BY <1>4 DEF Conserved
<1> HIDE DEF s
<1>7. BeforeStart(c)'
  BY <1>1 DEF BeforeStart
<1>8. Started(c)'
  BY <1>1 DEF CleanOK, Started, s
<1>9. Subscribes(c)'
  <2>1. client'[c] = s /\ closing'[c].wait # "no"
    BY <1>1 DEF s
  <2>2. s # 0 => (Underway(c, client[c], "again")' => Underway(c, s, "again"))
    BY <1>5, <1>6, <2>1
  <2> QED BY <1>1, <2>1, <2>2 DEF CleanOK, Subscribes, s
<1>10. MessagesFollow(c)'
  BY <1>1 DEF CleanOK, MessagesFollow
<1>11. OneAlive(c)'
  BY <1>1 DEF CleanOK, OneAlive
<1> QED BY <1>7, <1>8, <1>9, <1>10, <1>11 DEF CleanOK

LEMMA CleanImHere ==
  ASSUME TypeInv, NEW c \in Client, CleanOK(c), ImHere(c)
  PROVE  CleanOK(c)'
<1> DEFINE s == client[c]
<1>1. UNCHANGED <<object, in, session, refused>>
  BY DEF ImHere, broker, history
<1>2. \A m \in Conn : out'[c][m] = out[c][m] \/ out'[c][m] = Append(out[c][m], ONLINE)
  BY DEF ImHere, TypeInv, WiresOK
<1>3. \A m \in Conn : Conserved(c, m, "again")
  BY <1>1, <1>2, KeepsWires, AddsOut, Tags, Packets DEF TypeInv
<1>4. \A m \in Conn : \A t : Has(out[c][m], t) => Has(out'[c][m], t)
  <2> SUFFICES ASSUME NEW m \in Conn, NEW t, Has(out[c][m], t) PROVE Has(out'[c][m], t)
    OBVIOUS
  <2>1. out[c][m] \in Seq(OutPacket) /\ ONLINE \in OutPacket
    BY Packets DEF TypeInv, WiresOK
  <2> QED BY <1>2, <2>1, HasAppend
<1>5. s # 0 => s \in Conn
  BY Bounds DEF TypeInv, ObjectOK, Sock, Conn
<1>6. Subscribes(c)'
  <2>1. client'[c] = s
    BY <1>1 DEF object
  <2>2. \A m \in Conn : m = s /\ Underway(c, m, "again")' => Underway(c, m, "again")
    BY <1>3 DEF Conserved
  <2>3. s # 0 => (Underway(c, client[c], "again")' => Underway(c, s, "again"))
    BY <1>5, <2>1, <2>2
  <2>4. s # 0 => (Has(out[c][s], "again") => Has(out'[c][s], "again"))
                  /\ (Has(out[c][s], "first") => Has(out'[c][s], "first"))
    BY <1>4, <1>5
  <2> QED BY <1>1, <2>1, <2>3, <2>4 DEF CleanOK, Subscribes, object
<1>7. MessagesFollow(c)'
  BY <1>1 DEF CleanOK, MessagesFollow, object
<1> QED BY <1>1, <1>6, <1>7, ObjectKept DEF CleanOK

LEMMA CleanOnConnect ==
  ASSUME TypeInv, NEW c \in Client, AnswerOK(c), SessionOK(c), PacketsOK(c), CleanOK(c),
         onConnect(c)
  PROVE  CleanOK(c)'
<1> DEFINE s == client[c]
           w == out'[c][s]
<1>1. /\ s \in Conn /\ link[c][s] = "down" /\ client'[c] = s /\ connected'[c]
      /\ \A m \in Conn : link'[c][m] = IF m = s THEN "up" ELSE link[c][m]
      /\ session'[c] = [sock |-> s, stale |-> FALSE, subscribed |-> FALSE]
      /\ in'[c][s] = <<>>
      /\ UNCHANGED <<on_message_handler, listening, closing, refused>>
      /\ Greets(c, s, w)
  BY OnConnectEffects
<1>2. s # 0
  BY <1>1, Bounds DEF TypeInv, Conn
<1>3. ~ connected[c] => on_message_handler[c] = 0 /\ subscribing[c] = {} /\ closing[c].wait = "no"
  BY DEF AnswerOK, ConnectOnce, CleanOK, BeforeStart
<1>4. connected[c] => topic_inbox[c]
  BY DEF CleanOK, BeforeStart
<1>5. ~ connected[c] => answered[c][s] = 0
  BY <1>1 DEF AnswerOK, ConnectOnce, Used, TypeInv, ObjectOK
<1>6. s \notin subscribing[c]
  BY <1>1, <1>2 DEF CleanOK, Subscribes
<1>7. s \in resubscribe[c] => s \in listening[c]
  BY <1>2, <1>6 DEF CleanOK, Subscribes
<1> HIDE DEF s, w
<1>8. topic_inbox'[c]
  BY <1>1, <1>3, <1>4 DEF Greets
<1>9. BeforeStart(c)'
  BY <1>8 DEF BeforeStart
<1>10. CASE connected[c]
  <2>1. /\ ~ Has(w, "first")
        /\ resubscribe'[c] = resubscribe[c] /\ subscribing'[c] = subscribing[c]
        /\ answered'[c] = answered[c] /\ (Has(w, "again") <=> s \in resubscribe[c])
    BY <1>1, <1>10 DEF Greets
  <2>2. Started(c)'
    BY <1>1, <1>4, <1>10, <2>1 DEF CleanOK, Started, s
  <2>3. closing[c].wait = "no" /\ ~ refused[c] => Has(w, "again")
    BY <1>4, <1>10, <2>1 DEF CleanOK, Started, s
  <2>4. ~ Has(in'[c][s], "again") /\ (Has(w, "again") => s \in listening[c])
    BY <1>1, <1>7, <2>1, HasEmpty
  <2>5. Underway(c, client[c], "again")' => s \in listening[c]
    BY <1>1, <2>4 DEF Underway, w
  <2>6. Subscribes(c)'
    BY <1>1, <1>6, <1>7, <2>1, <2>3, <2>5 DEF Subscribes, w
  <2> QED BY <1>9, <2>2, <2>6, <1>1, LeadsFacts DEF CleanOK, MessagesFollow, OneAlive, s, Leads
<1>11. CASE ~ connected[c]
  <2>1. /\ Has(w, "first")
        /\ resubscribe'[c] = resubscribe[c] \cup {s} /\ subscribing'[c] = {s}
        /\ answered'[c] = answered[c] /\ (Has(w, "again") <=> s \in resubscribe[c])
    BY <1>1, <1>3, <1>11 DEF Greets
  <2>2. Started(c)'
    BY <1>1, <1>2, <1>3, <1>5, <1>11, <2>1 DEF Started
  <2>3. ~ Has(in'[c][s], "again") /\ (Has(w, "again") => s \in listening[c])
    BY <1>1, <1>7, <2>1, HasEmpty
  <2>4. Underway(c, client[c], "again")' => s \in listening[c]
    BY <1>1, <2>3 DEF Underway, w
  <2>5. Subscribes(c)'
    BY <1>1, <2>1, <2>4 DEF Subscribes, w
  <2> QED BY <1>9, <2>2, <2>5, <1>1, LeadsFacts DEF CleanOK, MessagesFollow, OneAlive, s, Leads
<1> QED BY <1>10, <1>11

LEMMA CleanStreams ==
  ASSUME TypeInv, NEW c \in Client, NEW n \in Conn, AnswerOK(c), SessionOK(c), CleanOK(c),
         Lost(c, n) \/ StreamEnds(c, n) \/ AttemptFails(c, n)
  PROVE  CleanOK(c)'
<1> DEFINE k == session[c].sock
<1>1. /\ link[c][n] \in {"up", "down", "ending"}
      /\ session'[c].sock = k /\ session'[c].subscribed = session[c].subscribed
      /\ UNCHANGED <<client, connected, topic_inbox, resubscribe, raced, refused>>
  BY StreamEffects
<1>2. n = client[c]
  BY <1>1 DEF CleanOK, OneAlive
<1>3. PICK l \in {"down", "ended"} : Cut(c, n, l)
  BY StreamEffects, FailEffects
<1>4. /\ out'[c][n] = <<>> /\ in'[c][n] = <<>>
      /\ \A m \in Conn : m # n => in'[c][m] = in[c][m] /\ link'[c][m] = link[c][m]
      /\ subscribing'[c] = subscribing[c] \ {n}
      /\ n \notin subscribing[c] => answered'[c][n] = answered[c][n]
  BY <1>2, <1>3 DEF Cut
<1>5. IF n \in subscribing[c]
      THEN listening'[c] = listening[c] \cup {n} /\ on_message_handler'[c] = n
      ELSE UNCHANGED <<listening, on_message_handler>>
  BY <1>2, <1>3 DEF Cut
<1>6. link'[c][n] \in {"down", "ended"}
  <2>1. link[c] \in [Sock -> LinkState] /\ Conn \subseteq Sock
    BY Bounds DEF TypeInv, ObjectOK, Sock, Conn
  <2> QED BY <1>2, <1>3, <2>1 DEF Cut
<1>7. \/ closing'[c] = closing[c]
      \/ closing[c].wait = "unsubscribe" /\ closing'[c] = [wait |-> "end", sock |-> n]
  BY <1>2, <1>3 DEF Cut
<1>8. n # 0 /\ k \in Sock /\ \A m \in Sock : m # 0 => m \in Conn
  BY Bounds DEF TypeInv, BrokerOK, Sock, Conn
<1>9. ~ Underway(c, n, "again")' /\ ~ Has(in'[c][n], "first")
  BY <1>4, HasEmpty DEF Underway
<1> HIDE DEF k
<1>10. BeforeStart(c)'
  <2>1. CASE topic_inbox[c]
    BY <1>1, <2>1 DEF BeforeStart
  <2>2. CASE ~ topic_inbox[c]
    <3>1. ~ connected[c] /\ on_message_handler[c] = 0 /\ subscribing[c] = {}
          /\ closing[c].wait = "no"
      BY <2>2 DEF CleanOK, BeforeStart
    <3>2. on_message_handler'[c] = 0 /\ subscribing'[c] = {} /\ closing'[c].wait = "no"
      BY <1>4, <1>5, <1>7, <3>1
    <3> QED BY <1>1, <1>2, <1>6, <3>1, <3>2 DEF BeforeStart
  <2> QED BY <2>1, <2>2
<1>11. listening[c] \subseteq listening'[c]
  BY <1>5
<1>12. Started(c)'
  <2> SUFFICES ASSUME topic_inbox[c] PROVE Started(c)'
    BY <1>1 DEF Started
  <2>1. /\ n \in subscribing[c] \cup listening[c]
        /\ subscribing[c] \subseteq {n}
        /\ closing[c].wait # "no" => closing[c].sock = n
        /\ answered[c][n] > 0 => on_message_handler[c] = n /\ n \in listening[c]
        /\ closing[c].wait = "no" /\ ~ refused[c] => n \in resubscribe[c]
    BY <1>2, <1>8 DEF CleanOK, Started
  <2>2. n \in listening'[c] /\ subscribing'[c] \subseteq {n}
    BY <1>4, <1>5, <2>1
  <2>3. answered'[c][n] > 0 => on_message_handler'[c] = n
    BY <1>4, <1>5, <2>1
  <2>4. /\ closing'[c].wait # "no" => closing'[c].sock = n
        /\ closing'[c].wait = "no" /\ ~ refused'[c] => n \in resubscribe'[c]
    BY <1>1, <1>7, <2>1
  <2> QED BY <1>1, <1>2, <1>8, <2>2, <2>3, <2>4 DEF Started
<1>13. Subscribes(c)'
  <2>1. n \in resubscribe[c] => n \in listening'[c]
    BY <1>2, <1>5, <1>8 DEF CleanOK, Subscribes
  <2>2. k = n /\ session[c].subscribed => n \in listening'[c]
    <3>1. k = n /\ session[c].subscribed => n \in listening[c] \/ Has(in[c][n], "first")
      BY <1>2, <1>8 DEF CleanOK, Subscribes, k
    <3>2. Has(in[c][n], "first") => n \in subscribing[c]
      BY DEF AnswerOK, FirstOnce, Underway
    <3> QED BY <1>5, <3>1, <3>2
  <2>3. n \notin subscribing'[c] /\ client'[c] = n
    BY <1>1, <1>2, <1>4
  <2>4. ~ Underway(c, client[c], "again")'
    BY <1>9, <2>3 DEF Underway
  <2> QED BY <1>1, <1>6, <2>1, <2>2, <2>3, <2>4 DEF Subscribes
<1>14. MessagesFollow(c)'
  <2>1. k # 0 => k \in listening[c] \/ Leads(in[c][k])
    BY DEF CleanOK, MessagesFollow, k
  <2>2. k # 0 => k \in listening'[c] \/ Leads(in'[c][k])
    BY <1>4, <1>8, <1>11, <2>1 DEF Leads
  <2> QED BY <1>1, <2>2 DEF MessagesFollow
<1>15. OneAlive(c)'
  BY <1>1, <1>2, <1>4 DEF CleanOK, OneAlive
<1> QED BY <1>10, <1>12, <1>13, <1>14, <1>15 DEF CleanOK

LEMMA CleanClosed ==
  ASSUME TypeInv, NEW c \in Client, AnswerOK(c), CleanOK(c), Closed(c)
  PROVE  CleanOK(c)'
<1> DEFINE s == client[c]
<1>1. /\ closing[c].wait = "end" /\ link[c][closing[c].sock] = "ended"
      /\ ~ connected'[c] /\ on_message_handler'[c] = 0 /\ ~ topic_inbox'[c]
      /\ closing'[c] = [wait |-> "no", sock |-> 0]
      /\ UNCHANGED <<client, link, listening, resubscribe, subscribing, answered, out, in,
                     session, refused>>
  BY Domains DEF Closed, Reset, ResetTo, wires, broker, history
<1>2. topic_inbox[c]
  BY <1>1 DEF AnswerOK, ConnectOnce
<1>3. s # 0 /\ closing[c].sock = s /\ subscribing[c] \subseteq {s}
  BY <1>1, <1>2 DEF CleanOK, Started
<1>4. s \notin subscribing[c]
  BY <1>1, <1>3 DEF CleanOK, Subscribes
<1>5. BeforeStart(c)'
  BY <1>1, <1>3, <1>4 DEF BeforeStart
<1>6. Started(c)'
  BY <1>1 DEF Started
<1>7. Subscribes(c)'
  BY <1>1, <1>3 DEF CleanOK, Subscribes, Underway
<1>8. MessagesFollow(c)' /\ OneAlive(c)'
  BY <1>1 DEF CleanOK, MessagesFollow, OneAlive
<1> QED BY <1>5, <1>6, <1>7, <1>8 DEF CleanOK

LEMMA CleanExpire ==
  ASSUME TypeInv, NEW c \in Client, SessionOK(c), CleanOK(c), Expire(c)
  PROVE  CleanOK(c)'
<1>1. /\ UNCHANGED <<object, in, out, refused>>
      /\ session'[c] = NoSession /\ session[c].stale
  BY Domains DEF Expire, wires, history
<1>2. client[c] # 0 => client[c] \in Conn
  BY Bounds DEF TypeInv, ObjectOK, Sock, Conn
<1>3. client[c] # 0 => link[c][client[c]] # "up"
  BY <1>1, <1>2 DEF SessionOK
<1>4. Subscribes(c)'
  BY <1>1, <1>3 DEF CleanOK, Subscribes, NoSession, Underway, object
<1>5. MessagesFollow(c)'
  BY <1>1 DEF MessagesFollow, NoSession
<1> QED BY <1>1, <1>4, <1>5, ObjectKept DEF CleanOK

LEMMA CleanBroker ==
  ASSUME TypeInv, NEW c \in Client, AnswerOK(c), SessionOK(c), PacketsOK(c), CleanOK(c),
         BrokerTakes(c)
  PROVE  CleanOK(c)'
<1> DEFINE n == session[c].sock
           s == client[c]
           p == Head(out[c][n])
           Granted == /\ p.packet = "subscribe" /\ p.by \in Sock
                      /\ in'[c][n] = Append(in[c][n], Suback(p.by, TRUE))
                      /\ session'[c] = [session[c] EXCEPT !.subscribed = TRUE]
                      /\ refused'[c] = refused[c]
           Refused == /\ p.packet = "subscribe" /\ p.by \in Sock
                      /\ in'[c][n] = Append(in[c][n], Suback(p.by, FALSE))
                      /\ session'[c] = session[c]
                      /\ refused'[c]
           Left == /\ p.packet = "unsubscribe"
                   /\ in'[c][n] = Append(in[c][n], UNSUBACK)
                   /\ session'[c] = [session[c] EXCEPT !.subscribed = FALSE]
                   /\ refused'[c] = refused[c]
           Online == /\ p = ONLINE /\ in'[c][n] = in[c][n] /\ session'[c] = session[c]
                     /\ refused'[c] = refused[c]
           Gone == /\ p = DISCONNECT /\ in'[c][n] = in[c][n] /\ session'[c] = NoSession
                   /\ refused'[c] = refused[c]
<1>1. /\ n \in Conn /\ out[c][n] # <<>> /\ p \in OutPacket
      /\ out'[c][n] = Tail(out[c][n])
      /\ \A m \in Conn : m # n => out'[c][m] = out[c][m] /\ in'[c][m] = in[c][m]
      /\ UNCHANGED object
  BY BrokerEffects
<1>2. Granted \/ Refused \/ Left \/ Online \/ Gone
  BY BrokerEffects DEF broker
<1>3. /\ session[c] \in [sock : Sock, stale : BOOLEAN, subscribed : BOOLEAN]
      /\ out[c][n] \in Seq(OutPacket) /\ in[c][n] \in Seq(InPacket)
      /\ n # 0 /\ \A m \in Sock : m # 0 => m \in Conn
      /\ s \in Sock
  BY <1>1, Bounds DEF TypeInv, BrokerOK, WiresOK, ObjectOK, Conn, Sock
<1>4. \A m \in Conn : Conserved(c, m, "again")
  BY BrokerConserves
<1>5. \A t : Has(out[c][n], t) <=> Has(out'[c][n], t) \/ Tag(p) = t
  BY <1>1, <1>3, HasTail
<1>6. /\ p.by \in Sock => Suback(p.by, TRUE) \in InPacket /\ Suback(p.by, FALSE) \in InPacket
      /\ UNSUBACK \in InPacket
      /\ UNSUBACK.packet # "message"
      /\ Suback(p.by, TRUE).packet # "message" /\ Suback(p.by, FALSE).packet # "message"
      /\ p.by # 0 => Tag(Suback(p.by, TRUE)) = "first"
  BY Packets DEF UNSUBACK, Suback, Tag
<1> HIDE DEF n, p, s
\* What each packet does.
<1>7. Granted => session'[c].sock = n /\ session'[c].subscribed
  BY <1>3 DEF n
<1>8. Left => session'[c].sock = n /\ ~ session'[c].subscribed
  BY <1>3 DEF n
<1>9. Gone => session'[c].sock = 0 /\ ~ session'[c].subscribed
  BY DEF NoSession
<1>10. ASSUME p.by \in Sock, p.by # 0, in'[c][n] = Append(in[c][n], Suback(p.by, TRUE))
       PROVE  Has(in'[c][n], "first")
  <2>1. Suback(p.by, TRUE) \in InPacket /\ Tag(Suback(p.by, TRUE)) = "first"
    BY <1>6, <1>10
  <2> DEFINE q == Suback(p.by, TRUE)
  <2> HIDE DEF q
  <2>2. Has(Append(in[c][n], q), "first")
    <3>1. q \in InPacket /\ Tag(q) = "first" /\ in[c][n] \in Seq(InPacket)
      BY <1>3, <2>1 DEF q
    <3> HIDE DEF Granted, Refused, Left, Online, Gone
    <3> QED BY <3>1, HasAppend
  <2> QED BY <1>10, <2>2 DEF q
<1>11. /\ Granted \/ Refused => p.packet = "subscribe" /\ p.by \in Sock
       /\ Left => p.packet = "unsubscribe"
       /\ Online => p = ONLINE
       /\ Gone => p = DISCONNECT
  OBVIOUS
<1>12. /\ Granted => in'[c][n] = Append(in[c][n], Suback(p.by, TRUE))
       /\ Refused => in'[c][n] = Append(in[c][n], Suback(p.by, FALSE))
       /\ Left => in'[c][n] = Append(in[c][n], UNSUBACK)
       /\ Online \/ Gone => in'[c][n] = in[c][n]
  OBVIOUS
<1>13. Refused \/ Online => session'[c] = session[c]
  OBVIOUS
<1>14. /\ Refused => refused'[c]
       /\ Granted \/ Left \/ Online \/ Gone => refused'[c] = refused[c]
  OBVIOUS
<1> HIDE DEF Granted, Refused, Left, Online, Gone
<1>15. /\ session'[c].sock \in {0, n}
       /\ session'[c].subscribed => Granted \/ session[c].subscribed
       /\ ~ Left /\ ~ Gone /\ session[c].subscribed => session'[c].subscribed
  BY <1>2, <1>7, <1>8, <1>9, <1>13 DEF n
<1>16. \/ in'[c][n] = in[c][n]
       \/ \E q \in InPacket : q.packet # "message" /\ in'[c][n] = Append(in[c][n], q)
  BY <1>2, <1>6, <1>11, <1>12
<1>17. ASSUME NEW t, Has(in[c][n], t) PROVE Has(in'[c][n], t)
  <2>1. \A q \in InPacket : Has(Append(in[c][n], q), t)
    BY <1>3, <1>17, HasAppend
  <2> QED BY <1>16, <1>17, <2>1
<1>18. \A m \in Conn : m # n => out'[c][m] = out[c][m] /\ in'[c][m] = in[c][m]
  BY <1>1
<1>19. Subscribes(c)'
  <2> SUFFICES ASSUME s # 0 PROVE Subscribes(c)'
    BY <1>1 DEF Subscribes, object, s
  <2>1. /\ s \in Conn
        /\ s \in subscribing[c] => link[c][s] \in {"up", "ending"}
        /\ s \in resubscribe[c] => s \in subscribing[c] \cup listening[c]
        /\ Underway(c, s, "again") => s \in listening[c]
        /\ n = s /\ session[c].subscribed => s \in listening[c] \/ Has(in[c][s], "first")
        /\ closing[c].wait = "no" /\ ~ refused[c] /\ link[c][s] = "up"
             => session[c].subscribed \/ Has(out[c][s], "again") \/ Has(out[c][s], "first")
    BY <1>3 DEF CleanOK, Subscribes, s, n
  <2>2. \A m \in Conn : m = s /\ Underway(c, m, "again")' => s \in listening[c]
    BY <1>4, <2>1 DEF Conserved
  <2>3. session'[c].sock = s /\ session'[c].subscribed
          => s \in listening[c] \/ Has(in'[c][s], "first")
    <3> SUFFICES ASSUME session'[c].sock = s, session'[c].subscribed
                 PROVE  s \in listening[c] \/ Has(in'[c][s], "first")
      OBVIOUS
    <3>1. n = s
      BY <1>15
    <3>2. CASE session[c].subscribed
      BY <1>17, <2>1, <3>1, <3>2
    <3>3. CASE Granted /\ p.by # 0
      BY <1>10, <1>11, <1>12, <3>1, <3>3
    <3>4. CASE Granted /\ p.by = 0
      <4>1. Has(out[c][n], "again")
        BY <1>5, <1>11, <3>4 DEF Tag
      <4> QED BY <2>1, <3>1, <4>1 DEF Underway
    <3> QED BY <1>15, <3>2, <3>3, <3>4
  <2>4. closing[c].wait = "no" /\ ~ refused'[c] /\ link[c][s] = "up"
          => session'[c].subscribed \/ Has(out'[c][s], "again") \/ Has(out'[c][s], "first")
    <3> SUFFICES ASSUME closing[c].wait = "no", ~ refused'[c], link[c][s] = "up"
                 PROVE  session'[c].subscribed \/ Has(out'[c][s], "again")
                          \/ Has(out'[c][s], "first")
      OBVIOUS
    <3>1. n = s
      BY <2>1 DEF SessionOK, n
    <3>2. ~ Gone
      <4>1. ~ Has(out[c][s], "disconnect")
        BY <2>1 DEF PacketsOK, Underway
      <4> QED BY <1>5, <1>11, <3>1, <4>1, Tags
    <3>3. ~ Left
      <4>1. closing[c] # [wait |-> "unsubscribe", sock |-> s]
        OBVIOUS
      <4>2. ~ Has(out[c][s], "unsub")
        BY <2>1, <4>1 DEF AnswerOK, UnsubOnce, Underway
      <4> QED BY <1>5, <1>11, <3>1, <4>2 DEF Tag
    <3>4. CASE Granted
      BY <1>7, <3>4
    <3>5. CASE Online
      BY <1>5, <1>11, <1>13, <1>14, <2>1, <3>1, <3>5, Tags
    <3> QED BY <1>2, <1>14, <3>2, <3>3, <3>4, <3>5
  <2>5. client'[c] = s /\ closing'[c] = closing[c] /\ link'[c] = link[c]
        /\ subscribing'[c] = subscribing[c] /\ resubscribe'[c] = resubscribe[c]
        /\ listening'[c] = listening[c]
    BY <1>1 DEF object, s
  <2>6. Underway(c, client[c], "again")' => s \in listening[c]
    BY <2>1, <2>2, <2>5
  <2> QED BY <2>1, <2>3, <2>4, <2>5, <2>6 DEF Subscribes
<1>20. MessagesFollow(c)'
  <2>1. n \in listening[c] \/ Leads(in[c][n])
    BY <1>3 DEF CleanOK, MessagesFollow, n
  <2>2. Leads(in[c][n]) => Leads(in'[c][n])
    BY <1>3, <1>16, LeadsFacts
  <2>3. listening'[c] = listening[c]
    BY <1>1 DEF object
  <2> QED BY <1>15, <2>1, <2>2, <2>3 DEF MessagesFollow
<1>21. refused[c] => refused'[c]
  BY <1>2, <1>14
<1> QED BY <1>1, <1>19, <1>20, <1>21, ObjectKept DEF CleanOK

LEMMA CleanPublish ==
  ASSUME TypeInv, NEW c \in Client, SessionOK(c), CleanOK(c), NEW e \in Event, Publish(c, e)
  PROVE  CleanOK(c)'
<1> DEFINE n == session[c].sock
           s == client[c]
<1>1. /\ n \in Conn /\ session[c].subscribed /\ ~ session[c].stale
      /\ in'[c][n] = Append(in[c][n], Message(e))
      /\ \A m \in Conn : m # n => in'[c][m] = in[c][m]
      /\ \A m \in Conn : Conserved(c, m, "again")
      /\ UNCHANGED <<object, out, session, refused>>
  BY PublishEffects
<1>2. in[c][n] \in Seq(InPacket) /\ Message(e) \in InPacket /\ n # 0
  BY <1>1, Packets, Bounds DEF TypeInv, WiresOK, Conn
<1>3. n = s
  BY <1>1, <1>2 DEF SessionOK, CleanOK, OneAlive
<1>4. \A t : Has(in[c][n], t) => Has(in'[c][n], t)
  BY <1>1, <1>2, HasAppend
<1>5. n \in listening[c] \/ Has(in[c][n], "first")
  BY <1>1, <1>2, <1>3 DEF CleanOK, Subscribes
<1>6. n \in listening[c] \/ Leads(in[c][n])
  BY <1>2 DEF CleanOK, MessagesFollow
<1> HIDE DEF n, s
<1>7. MessagesFollow(c)'
  <2>1. n \in listening[c] \/ Leads(in'[c][n])
    BY <1>1, <1>2, <1>5, <1>6, LeadsFacts
  <2>2. session'[c].sock = n /\ listening'[c] = listening[c]
    BY <1>1 DEF object, n
  <2> QED BY <2>1, <2>2 DEF MessagesFollow
<1>8. Subscribes(c)'
  <2>1. client'[c] = s /\ session'[c] = session[c] /\ session[c].sock = n
    BY <1>1 DEF object, n, s
  <2>2. \A m \in Conn : m = s /\ Underway(c, m, "again")' => Underway(c, m, "again")
    BY <1>1 DEF Conserved
  <2>3. Underway(c, client[c], "again")' => Underway(c, s, "again")
    BY <1>1, <1>3, <2>1, <2>2
  <2>4. Has(in[c][s], "first") => Has(in'[c][s], "first")
    BY <1>3, <1>4
  <2> QED BY <1>1, <2>1, <2>3, <2>4 DEF CleanOK, Subscribes, object, s
<1> QED BY <1>1, <1>7, <1>8, ObjectKept DEF CleanOK

LEMMA CleanTakes ==
  ASSUME TypeInv, NEW c \in Client, NEW n \in Conn, AnswerOK(c), SessionOK(c), PacketsOK(c),
         CleanOK(c), ClientTakes(c, n)
  PROVE  CleanOK(c)'
<1> DEFINE p == Head(in[c][n])
           k == session[c].sock
<1>1. /\ link[c][n] \in {"up", "ending"} /\ in[c][n] # <<>> /\ p \in InPacket
      /\ in'[c][n] = Tail(in[c][n])
      /\ \A m \in Conn : m # n => in'[c][m] = in[c][m]
      /\ UNCHANGED <<client, connected, topic_inbox, session, refused>>
      /\ \/ ReadsFirst(c, n, p) \/ ReadsAgain(c, n, p)
         \/ ReadsUnsuback(c, n, p) \/ ReadsMessage(c, n, p)
  BY ClientEffects
<1>2. n = client[c]
  BY <1>1 DEF CleanOK, OneAlive
<1>3. /\ n # 0 /\ Conn \subseteq Sock /\ k \in Sock /\ \A m \in Sock : m # 0 => m \in Conn
      /\ in[c][n] \in Seq(InPacket) /\ answered[c] \in [Conn -> Nat]
      /\ resubscribe[c] \subseteq Conn
  <2>1. n # 0 /\ Conn \subseteq Sock /\ \A m \in Sock : m # 0 => m \in Conn
    BY Bounds DEF TypeInv, Conn, Sock
  <2>2. k \in Sock
    BY DEF TypeInv, BrokerOK
  <2>3. answered[c] \in [Conn -> Nat] /\ resubscribe[c] \subseteq Conn
    BY DEF TypeInv, ObjectOK
  <2>4. in[c][n] \in Seq(InPacket)
    BY DEF TypeInv, WiresOK
  <2> QED BY <2>1, <2>2, <2>3, <2>4
<1>4. /\ \A m \in Conn : Conserved(c, m, "again")
      /\ \A t \in {"first", "again", "unsub"} : Tag(p) = t => Underway(c, n, t)
  BY ClientConserves DEF Underway
<1>5. p.packet = "suback" /\ ~ p.granted => refused[c]
  BY <1>1, <1>3, Refusals DEF PacketsOK
<1>6. \A t : Has(in[c][n], t) <=> Has(in'[c][n], t) \/ Tag(p) = t
  BY <1>1, <1>3, HasTail
<1> HIDE DEF p, k
<1>7. Tag(p) = "first" => n \in subscribing[c] /\ topic_inbox[c]
  BY <1>4 DEF AnswerOK, FirstOnce, CleanOK, BeforeStart
<1>8. Tag(p) = "again" => n \in listening[c]
  BY <1>2, <1>3, <1>4 DEF CleanOK, Subscribes
<1>9. Tag(p) = "unsub" => closing[c].wait # "no" /\ topic_inbox[c]
  <2>1. Tag(p) = "unsub" => closing[c] = [wait |-> "unsubscribe", sock |-> n]
    BY <1>4 DEF AnswerOK, UnsubOnce
  <2> QED BY <2>1 DEF AnswerOK, ConnectOnce
\* What every packet leaves.
<1>10. /\ listening'[c] \in {listening[c], listening[c] \cup {n}}
       /\ Tag(p) = "first" => n \in listening'[c]
       /\ subscribing'[c] \subseteq subscribing[c]
       /\ n \in subscribing[c] /\ n \notin subscribing'[c] => Tag(p) = "first"
       /\ Tag(p) # "first" => UNCHANGED <<on_message_handler, answered>>
       /\ Tag(p) = "first" => on_message_handler'[c] = n
       /\ resubscribe'[c] \subseteq resubscribe[c]
       /\ ~ refused[c] => resubscribe'[c] = resubscribe[c]
       /\ closing'[c] = closing[c] \/ (Tag(p) = "unsub" /\ closing'[c] = [wait |-> "end", sock |-> n])
       /\ \A m \in Conn : m # n => link'[c][m] = link[c][m]
       /\ link[c][n] \in {"up", "ending"} => link'[c][n] \in {"up", "ending"}
       /\ closing'[c].wait = "no" => out'[c] = out[c] /\ link'[c] = link[c]
  <2>1. CASE ReadsFirst(c, n, p)
    <3>1. Tag(p) = "first"
      BY <2>1 DEF ReadsFirst, Tag
    <3> QED BY <1>2, <1>5, <2>1, <3>1 DEF ReadsFirst
  <2>2. CASE ReadsAgain(c, n, p)
    <3>1. Tag(p) = "again"
      BY <2>2 DEF ReadsAgain, Tag
    <3> QED BY <1>5, <2>2, <3>1 DEF ReadsAgain
  <2>3. CASE ReadsUnsuback(c, n, p)
    <3>1. Tag(p) = "unsub"
      BY <2>3 DEF ReadsUnsuback, Tag
    <3> QED BY <1>2, <1>3, <2>3, <3>1 DEF ReadsUnsuback, EndOf
  <2>4. CASE ReadsMessage(c, n, p)
    <3>1. Tag(p) = "message"
      BY <2>4 DEF ReadsMessage, Tag
    <3> QED BY <2>4, <3>1 DEF ReadsMessage
  <2> QED BY <1>1, <2>1, <2>2, <2>3, <2>4
<1>11. BeforeStart(c)'
  <2>1. CASE topic_inbox[c]
    BY <1>1, <2>1 DEF BeforeStart
  <2>2. CASE ~ topic_inbox[c]
    BY <1>1, <1>2, <2>2 DEF CleanOK, BeforeStart
  <2> QED BY <2>1, <2>2
<1>12. Started(c)'
  <2> SUFFICES ASSUME topic_inbox[c] PROVE Started(c)'
    BY <1>1 DEF Started
  <2>1. /\ n \in subscribing[c] \cup listening[c]
        /\ subscribing[c] \subseteq {n}
        /\ closing[c].wait # "no" => closing[c].sock = n
        /\ answered[c][n] > 0 => on_message_handler[c] = n /\ n \in listening[c]
        /\ closing[c].wait = "no" /\ ~ refused[c] => n \in resubscribe[c]
    BY <1>2, <1>3 DEF CleanOK, Started
  <2>2. /\ n \in subscribing'[c] \cup listening'[c] /\ subscribing'[c] \subseteq {n}
        /\ closing'[c].wait # "no" => closing'[c].sock = n
        /\ closing'[c].wait = "no" /\ ~ refused[c] => n \in resubscribe'[c]
    BY <1>9, <1>10, <2>1
  <2>3. answered'[c][n] > 0 => on_message_handler'[c] = n /\ n \in listening'[c]
    BY <1>10, <2>1
  <2> QED BY <1>1, <1>2, <1>3, <2>2, <2>3 DEF Started
<1>13. Subscribes(c)'
  <2>1. /\ n \in resubscribe[c] => n \in subscribing[c] \cup listening[c]
        /\ Underway(c, n, "again") => n \in listening[c]
        /\ k = n /\ session[c].subscribed => n \in listening[c] \/ Has(in[c][n], "first")
        /\ closing[c].wait = "no" /\ ~ refused[c] /\ link[c][n] = "up"
             => session[c].subscribed \/ Has(out[c][n], "again") \/ Has(out[c][n], "first")
    BY <1>2, <1>3 DEF CleanOK, Subscribes, k
  <2>2. \A m \in Conn : m = n /\ Underway(c, m, "again")' => n \in listening[c]
    BY <1>4, <2>1 DEF Conserved
  <2>3. Underway(c, client[c], "again")' => n \in listening'[c]
    BY <1>1, <1>2, <1>10, <2>2
  <2>4. n \in resubscribe'[c] => n \in subscribing'[c] \cup listening'[c]
    BY <1>10, <2>1
  <2>5. k = n /\ session[c].subscribed => n \in listening'[c] \/ Has(in'[c][n], "first")
    BY <1>6, <1>10, <2>1
  <2>6. closing'[c].wait = "no" /\ ~ refused[c] /\ link'[c][n] = "up"
          => session[c].subscribed \/ Has(out'[c][n], "again") \/ Has(out'[c][n], "first")
    BY <1>9, <1>10, <2>1
  <2>7. n \in subscribing'[c] => link'[c][n] \in {"up", "ending"}
    BY <1>1, <1>10
  <2> QED BY <1>1, <1>2, <2>3, <2>4, <2>5, <2>6, <2>7 DEF Subscribes, k
<1>14. MessagesFollow(c)'
  <2>1. k # 0 => k \in listening[c] \/ Leads(in[c][k])
    BY DEF CleanOK, MessagesFollow, k
  <2>2. p.packet = "suback" => n \in listening'[c]
    BY <1>8, <1>10 DEF Tag
  <2>3. p.packet # "suback" => (Leads(in[c][n]) => Leads(in'[c][n]))
    BY <1>1, <1>3, LeadsFacts DEF p
  <2>4. k # 0 => k \in listening'[c] \/ Leads(in'[c][k])
    BY <1>1, <1>3, <1>10, <2>1, <2>2, <2>3
  <2> QED BY <1>1, <2>4 DEF MessagesFollow, k
<1>15. OneAlive(c)'
  BY <1>1, <1>2, <1>10 DEF CleanOK, OneAlive
<1> QED BY <1>11, <1>12, <1>13, <1>14, <1>15 DEF CleanOK

LEMMA ListenCalls ==
  ASSUME ListenInv, NEW d \in Client, Application(d)
  PROVE  ListenOK(d)'
<1>1. TypeInv /\ AnswerOK(d) /\ ListenOK(d)
  BY DEF ListenInv, AnswerInv
<1>2. CASE connect(d)
  <2>1. SessionOK(d)' /\ PacketsOK(d)'
    BY <1>1, <1>2, SessionConnect DEF ListenOK
  <2>2. ~ raced'[d] => ~ raced[d]
    BY <1>1, <1>2, Domains DEF connect
  <2> QED BY <1>1, <1>2, <2>1, <2>2, CleanConnect DEF ListenOK
<1>3. CASE close(d) \/ ImHere(d)
  <2>1. SessionOK(d)' /\ PacketsOK(d)'
    BY <1>1, <1>3, SessionCalls DEF ListenOK
  <2>2. raced' = raced
    BY <1>3 DEF close, ImHere, history
  <2> QED BY <1>1, <1>3, <2>1, <2>2, CleanClose, CleanImHere DEF ListenOK
<1>4. ASSUME NEW list, NEW conv, onCallback(d, list, conv) PROVE Alike(d)
  BY <1>4 DEF onCallback, Alike, object, wires, broker, history
<1>5. ASSUME NEW list, NEW id, removeHandler(d, list, id) PROVE Alike(d)
  BY <1>5 DEF removeHandler, Alike, object, wires, broker, history
<1>6. ASSUME NEW kind, myrequest(d, kind) PROVE Alike(d)
  BY <1>6 DEF myrequest, Alike, object, wires, broker, history
<1>7. CASE \/ groupCreate(d) \/ groupData(d) \/ groupLeave(d) \/ groupJoin(d)
           \/ groupSetMembers(d) \/ saveInstance(d)
           \/ conversationDetail(d) \/ archivedConversationDetail(d)
  BY <1>1, <1>6, <1>7, ListenSame DEF groupCreate, groupData, groupLeave, groupJoin,
     groupSetMembers, saveInstance, conversationDetail, archivedConversationDetail
<1> QED BY <1>1, <1>2, <1>3, <1>4, <1>5, <1>7, ListenSame DEF Application

LEMMA ListenProgress ==
  ASSUME ListenInv, NEW d \in Client, Progress(d)
  PROVE  ListenOK(d)'
<1>1. TypeInv /\ AnswerOK(d) /\ SessionOK(d) /\ PacketsOK(d) /\ (~ raced[d] => CleanOK(d))
  BY DEF ListenInv, AnswerInv, ListenOK
<1>2. CASE onConnect(d)
  <2>1. raced' = raced
    BY <1>2 DEF onConnect, history
  <2> QED BY <1>1, <1>2, <2>1, SessionOnConnect, CleanOnConnect DEF ListenOK
<1>3. CASE Closed(d)
  <2>1. raced' = raced
    BY <1>3 DEF Closed, history
  <2> QED BY <1>1, <1>3, <2>1, SessionClosed, CleanClosed DEF ListenOK
<1>4. CASE Response(d)
  <2>1. Alike(d)
    BY <1>4 DEF Response, Alike, object, wires, broker, history
  <2> QED BY <1>1, <2>1, ListenSame DEF ListenOK
<1>5. CASE BrokerTakes(d)
  <2>1. raced' = raced
    BY <1>5 DEF BrokerTakes
  <2> QED BY <1>1, <1>5, <2>1, SessionBroker, CleanBroker DEF ListenOK
<1>6. CASE Expire(d)
  <2>1. raced' = raced
    BY <1>6 DEF Expire, history
  <2> QED BY <1>1, <1>6, <2>1, SessionExpire, CleanExpire DEF ListenOK
<1>7. ASSUME NEW n \in Conn, StreamEnds(d, n) PROVE ListenOK(d)'
  <2>1. raced' = raced
    BY <1>7 DEF StreamEnds, history
  <2> QED BY <1>1, <1>7, <2>1, SessionStreams, CleanStreams DEF ListenOK
<1>8. ASSUME NEW n \in Conn, ClientTakes(d, n) PROVE ListenOK(d)'
  <2>1. raced' = raced
    BY <1>8 DEF ClientTakes, history
  <2> QED BY <1>1, <1>8, <2>1, SessionTakes, CleanTakes DEF ListenOK
<1> QED BY <1>2, <1>3, <1>4, <1>5, <1>6, <1>7, <1>8 DEF Progress

LEMMA ListenFault ==
  ASSUME ListenInv, NEW d \in Client, Fault(d)
  PROVE  ListenOK(d)'
<1>1. TypeInv /\ AnswerOK(d) /\ SessionOK(d) /\ PacketsOK(d) /\ (~ raced[d] => CleanOK(d))
  BY DEF ListenInv, AnswerInv, ListenOK
<1>2. ASSUME NEW n \in Conn, Lost(d, n) \/ AttemptFails(d, n) PROVE ListenOK(d)'
  <2>1. raced' = raced
    BY <1>2 DEF Lost, AttemptFails, history
  <2> QED BY <1>1, <1>2, <2>1, SessionStreams, CleanStreams DEF ListenOK
<1>3. ASSUME NEW e \in Event, Publish(d, e) PROVE ListenOK(d)'
  <2>1. raced' = raced
    BY <1>3 DEF Publish, history
  <2> QED BY <1>1, <1>3, <2>1, SessionPublish, CleanPublish DEF ListenOK
<1> QED BY <1>2, <1>3 DEF Fault

LEMMA ListenStep == ListenInv /\ [Next]_vars => ListenInv'
<1> SUFFICES ASSUME ListenInv, [Next]_vars PROVE ListenInv'
  OBVIOUS
<1>1. AnswerInv'
  BY AnswerStep DEF ListenInv
<1> SUFFICES ASSUME NEW d \in Client PROVE ListenOK(d)'
  BY <1>1 DEF ListenInv
<1>2. TypeInv /\ ListenOK(d)
  BY DEF ListenInv, AnswerInv
<1>3. CASE process_presence \/ UNCHANGED vars
  BY <1>2, <1>3, ReportSame, ListenSame DEF Same
<1>4. ASSUME NEW c \in Client, Application(c) \/ Progress(c) \/ Fault(c), c # d
      PROVE  ListenOK(d)'
  BY <1>2, <1>4, CallsElsewhere, EventsElsewhere, ListenSame DEF Same
<1>5. CASE Application(d) \/ Progress(d) \/ Fault(d)
  BY <1>5, ListenCalls, ListenProgress, ListenFault
<1> QED BY <1>3, <1>4, <1>5 DEF Next

LEMMA InitListens == Init => ListenInv
<1> SUFFICES ASSUME Init PROVE ListenInv
  OBVIOUS
<1>1. AnswerInv
  BY InitAnswers
<1> SUFFICES ASSUME NEW c \in Client PROVE ListenOK(c)
  BY <1>1 DEF ListenInv
<1>2. /\ client[c] = 0 /\ session[c] = NoSession /\ subscribing[c] = {} /\ resubscribe[c] = {}
      /\ ~ topic_inbox[c] /\ ~ connected[c] /\ on_message_handler[c] = 0
      /\ closing[c].wait = "no"
      /\ \A m \in Conn : out[c][m] = <<>> /\ in[c][m] = <<>>
  BY DEF Init
<1>3. \A m \in Sock : link[c][m] = "none"
  BY DEF Init
<1>4. 0 \in Sock /\ Conn \subseteq Sock
  BY <1>1, Bounds DEF AnswerInv, TypeInv, Conn, Sock
<1>5. SessionOK(c)
  BY <1>2, <1>3, <1>4 DEF SessionOK, NoSession
<1>6. PacketsOK(c)
  <2>1. ~ Refusal(<<>>)
    BY DEF Refusal
  <2> QED BY <1>2, <2>1, HasEmpty DEF PacketsOK, Underway
<1>7. BeforeStart(c)
  BY <1>2, <1>3, <1>4 DEF BeforeStart
<1>8. Started(c) /\ Subscribes(c)
  BY <1>2 DEF Started, Subscribes
<1>9. MessagesFollow(c) /\ OneAlive(c)
  BY <1>2, <1>3, <1>4 DEF MessagesFollow, OneAlive, NoSession
<1> QED BY <1>5, <1>6, <1>7, <1>8, <1>9 DEF ListenOK, CleanOK

LEMMA ListensWhenListenInv == ListenInv => ListensWhenReady
<1> SUFFICES ASSUME ListenInv, NEW c \in Client, ~ raced[c]
             PROVE  LET n == session[c].sock
                        s == client[c]
                    IN /\ n # 0 =>
                            \A i \in DOMAIN in[c][n] : in[c][n][i].packet = "message" =>
                              \/ n \in listening[c]
                              \/ \E j \in 1 .. (i - 1) : in[c][n][j].packet = "suback"
                       /\ (Calm(c) /\ ~ refused[c] /\ answered[c][s] > 0 /\ link[c][s] = "up") =>
                            /\ on_message_handler[c] = s /\ s \in listening[c]
                            /\ \/ session[c].subscribed
                               \/ Subscribe(0) \in Range(out[c][s])
  BY DEF ListensWhenReady
<1> DEFINE n == session[c].sock
           s == client[c]
<1>1. TypeInv /\ AnswerOK(c) /\ SessionOK(c) /\ PacketsOK(c) /\ CleanOK(c)
  BY DEF ListenInv, AnswerInv, ListenOK
<1>2. n # 0 => n \in listening[c] \/ Leads(in[c][n])
  BY <1>1 DEF CleanOK, MessagesFollow
<1>3. ASSUME Calm(c), ~ refused[c], answered[c][s] > 0, link[c][s] = "up"
      PROVE  /\ on_message_handler[c] = s /\ s \in listening[c]
             /\ \/ session[c].subscribed
                \/ Subscribe(0) \in Range(out[c][s])
  <2>1. s \in Conn /\ closing[c].wait = "no" /\ s # 0
    BY <1>1, <1>3, Bounds DEF Calm, TypeInv, ObjectOK, Sock, Conn
  <2>2. topic_inbox[c]
    BY <1>1, <1>3 DEF CleanOK, BeforeStart
  <2>3. on_message_handler[c] = s /\ s \in listening[c]
    BY <1>1, <1>3, <2>2 DEF CleanOK, Started
  <2>4. session[c].subscribed \/ Has(out[c][s], "again") \/ Has(out[c][s], "first")
    BY <1>1, <1>3, <2>1 DEF CleanOK, Subscribes
  <2>5. ~ Has(out[c][s], "first")
    <3>1. answered[c][s] \in Nat
      BY <1>1, <2>1 DEF TypeInv, ObjectOK
    <3>2. s \notin subscribing[c]
      BY <1>1, <1>3, <2>1, <3>1 DEF AnswerOK, ConnectOnce
    <3> QED BY <1>1, <2>1, <3>2 DEF AnswerOK, FirstOnce, Underway
  <2>6. ASSUME Has(out[c][s], "again") PROVE Subscribe(0) \in Range(out[c][s])
    <3>1. out[c][s] \in Seq(OutPacket)
      BY <1>1, <2>1 DEF TypeInv, WiresOK
    <3>2. PICK i \in DOMAIN out[c][s] : Tag(out[c][s][i]) = "again"
      BY <2>6 DEF Has
    <3>3. out[c][s][i] \in OutPacket
      BY <3>1, <3>2
    <3>4. out[c][s][i] = Subscribe(0)
      BY <3>2, <3>3 DEF Tag, OutPacket, Subscribe
    <3> QED BY <3>2, <3>4 DEF Range
  <2> QED BY <2>3, <2>4, <2>5, <2>6
<1> QED BY <1>2, <1>3 DEF Leads

\* What the broker sends to a client that was not connected twice at once finds
\* the listener, and a client that has told the application it is connected is
\* subscribed or about to be.
THEOREM ListensWhenReadyHolds == Spec => []ListensWhenReady
<1> QED BY InitListens, ListenStep, ListensWhenListenInv, PTL DEF Spec

-----------------------------------------------------------------------------
(* Presence.                                                               *)

LEMMA EndsAppend ==
  ASSUME NEW q \in Seq(PresenceMessage), NEW p \in PresenceMessage, NEW st, NEW u, NEW s
  PROVE  /\ OfUser(p, u) => (Ends(Append(q, p), st, u, s) <=> p.status = s)
         /\ ~ OfUser(p, u) => (Ends(Append(q, p), st, u, s) <=> Ends(q, st, u, s))
<1> DEFINE a == Append(q, p)
           n == Len(q)
<1>1. /\ DOMAIN a = 1 .. (n + 1) /\ DOMAIN q = 1 .. n /\ n \in Nat
      /\ \A i \in 1 .. n : a[i] = q[i]
      /\ a[n + 1] = p
  OBVIOUS
<1> HIDE DEF a, n
<1>2. \A i : i \in 1 .. (n + 1) <=> i \in 1 .. n \/ i = n + 1
  BY <1>1
<1>3. /\ \A i, j \in 1 .. (n + 1) : i <= j /\ j <= i => i = j
      /\ n + 1 \in 1 .. (n + 1)
      /\ \A i \in 1 .. (n + 1) : i <= n + 1
      /\ \A i \in 1 .. n : ~ (n + 1 <= i)
  BY <1>1
<1>4. CASE OfUser(p, u)
  <2>1. ASSUME Ends(a, st, u, s) PROVE p.status = s
    <3>1. PICK i \in 1 .. (n + 1) : /\ a[i].status = s
                                    /\ \A j \in 1 .. (n + 1) : OfUser(a[j], u) => j <= i
      BY <1>1, <1>3, <1>4, <2>1 DEF Ends
    <3>2. i = n + 1
      BY <1>1, <1>3, <1>4, <3>1
    <3> QED BY <1>1, <3>1, <3>2
  <2>2. ASSUME p.status = s PROVE Ends(a, st, u, s)
    BY <1>1, <1>3, <1>4, <2>2 DEF Ends
  <2> QED BY <1>4, <2>1, <2>2 DEF a
<1>5. CASE ~ OfUser(p, u)
  <2>1. ASSUME Ends(a, st, u, s) PROVE Ends(q, st, u, s)
    BY <1>1, <1>2, <1>5, <2>1 DEF Ends
  <2>2. ASSUME Ends(q, st, u, s) PROVE Ends(a, st, u, s)
    BY <1>1, <1>2, <1>5, <2>2 DEF Ends
  <2> QED BY <1>5, <2>1, <2>2 DEF a
<1> QED BY <1>4, <1>5

LEMMA EndsTail ==
  ASSUME NEW q \in Seq(PresenceMessage), q # <<>>, NEW st, NEW next, NEW u, NEW s,
         OfUser(Head(q), u) => next[u] = Head(q).status,
         ~ OfUser(Head(q), u) => next[u] = st[u]
  PROVE  Ends(Tail(q), next, u, s) <=> Ends(q, st, u, s)
<1> DEFINE a == Tail(q)
           n == Len(q)
<1>1. /\ DOMAIN a = 1 .. (n - 1) /\ DOMAIN q = 1 .. n /\ n \in Nat /\ n >= 1
      /\ \A i \in 1 .. (n - 1) : a[i] = q[i + 1]
      /\ Head(q) = q[1]
  OBVIOUS
<1> HIDE DEF a, n
<1>2. /\ \A i \in 1 .. (n - 1) : i + 1 \in 1 .. n
      /\ \A i \in 1 .. n : i # 1 => i - 1 \in 1 .. (n - 1) /\ (i - 1) + 1 = i
      /\ 1 \in 1 .. n
  BY <1>1
<1>3. ASSUME Ends(a, next, u, s) PROVE Ends(q, st, u, s)
  <2>1. CASE \E i \in 1 .. (n - 1) :
               /\ OfUser(a[i], u) /\ a[i].status = s
               /\ \A j \in 1 .. (n - 1) : OfUser(a[j], u) => j <= i
    <3>1. PICK i \in 1 .. (n - 1) :
                 /\ OfUser(a[i], u) /\ a[i].status = s
                 /\ \A j \in 1 .. (n - 1) : OfUser(a[j], u) => j <= i
      BY <2>1
    <3>2. ASSUME NEW j \in 1 .. n, OfUser(q[j], u) PROVE j <= i + 1
      <4>1. CASE j = 1
        BY <3>1, <4>1
      <4>2. CASE j # 1
        <5>1. j - 1 \in 1 .. (n - 1) /\ a[j - 1] = q[j]
          BY <1>1, <1>2, <4>2
        <5>2. j - 1 <= i
          BY <3>1, <3>2, <5>1
        <5> QED BY <5>2
      <4> QED BY <4>1, <4>2
    <3>3. i + 1 \in 1 .. n /\ OfUser(q[i + 1], u) /\ q[i + 1].status = s
      BY <1>1, <1>2, <3>1
    <3> QED BY <1>1, <3>2, <3>3 DEF Ends
  <2>2. CASE (\A i \in 1 .. (n - 1) : ~ OfUser(a[i], u)) /\ next[u] = s
    <3>1. \A j \in 1 .. n : OfUser(q[j], u) => j = 1
      BY <1>1, <1>2, <2>2
    <3>2. CASE OfUser(q[1], u)
      <4>1. q[1].status = s /\ \A j \in 1 .. n : OfUser(q[j], u) => j <= 1
        BY <1>1, <2>2, <3>1, <3>2
      <4> QED BY <1>1, <1>2, <3>2, <4>1 DEF Ends
    <3>3. CASE ~ OfUser(q[1], u)
      BY <1>1, <2>2, <3>1, <3>3 DEF Ends
    <3> QED BY <3>2, <3>3
  <2> QED BY <1>1, <1>3, <2>1, <2>2 DEF Ends
<1>4. ASSUME Ends(q, st, u, s) PROVE Ends(a, next, u, s)
  <2>1. CASE \E i \in 1 .. n : /\ OfUser(q[i], u) /\ q[i].status = s
                               /\ \A j \in 1 .. n : OfUser(q[j], u) => j <= i
    <3>1. PICK i \in 1 .. n : /\ OfUser(q[i], u) /\ q[i].status = s
                              /\ \A j \in 1 .. n : OfUser(q[j], u) => j <= i
      BY <2>1
    <3>2. CASE i = 1
      <4>1. \A j \in 1 .. (n - 1) : ~ OfUser(a[j], u)
        <5> SUFFICES ASSUME NEW j \in 1 .. (n - 1), OfUser(a[j], u) PROVE FALSE
          OBVIOUS
        <5>1. j + 1 \in 1 .. n /\ OfUser(q[j + 1], u)
          BY <1>1, <1>2
        <5>2. j + 1 <= 1
          BY <3>1, <3>2, <5>1
        <5> QED BY <5>2
      <4>2. next[u] = s
        BY <1>1, <3>1, <3>2
      <4> QED BY <1>1, <4>1, <4>2 DEF Ends
    <3>3. CASE i # 1
      <4>1. /\ i - 1 \in 1 .. (n - 1) /\ OfUser(a[i - 1], u) /\ a[i - 1].status = s
        BY <1>1, <1>2, <3>1, <3>3
      <4>2. ASSUME NEW j \in 1 .. (n - 1), OfUser(a[j], u) PROVE j <= i - 1
        <5>1. j + 1 \in 1 .. n /\ OfUser(q[j + 1], u)
          BY <1>1, <1>2, <4>2
        <5>2. j + 1 <= i
          BY <3>1, <5>1
        <5> QED BY <5>2
      <4> QED BY <1>1, <4>1, <4>2 DEF Ends
    <3> QED BY <3>2, <3>3
  <2>2. CASE (\A i \in 1 .. n : ~ OfUser(q[i], u)) /\ st[u] = s
    <3>1. \A i \in 1 .. (n - 1) : ~ OfUser(a[i], u)
      BY <1>1, <1>2, <2>2
    <3>2. next[u] = s
      BY <1>1, <1>2, <2>2
    <3> QED BY <1>1, <3>1, <3>2 DEF Ends
  <2> QED BY <1>1, <1>4, <2>1, <2>2 DEF Ends
<1> QED BY <1>3, <1>4 DEF a

\* A step after which client d is not newly connected and, while it is, still
\* announces what it did; nor is it gone without a DISCONNECT.
Quiet(d) ==
  /\ session'[d].sock # 0 => session[d].sock # 0 /\ (Announcing(d) => Announcing(d)')
  /\ session[d].sock # 0 \/ bye[d] => session'[d].sock # 0 \/ bye'[d]

LEMMA QuietAlike ==
  ASSUME NEW d, Alike(d)
  PROVE  Quiet(d)
<1> QED BY DEF Alike, Quiet, Announcing

LEMMA QuietOut ==
  ASSUME NEW d, session'[d].sock = session[d].sock, session[d].stale => session'[d].stale,
         bye'[d] = bye[d],
         \A m \in Conn : m = session[d].sock /\ ~ session'[d].stale
                           => (Has(out[d][m], "publish") => Has(out'[d][m], "publish"))
  PROVE  Quiet(d)
<1> QED BY DEF Quiet, Announcing

LEMMA QuietUsers ==
  ASSUME \A d \in Client : Quiet(d), \A u \in User : UserOK(u),
         \A u \in User : Ends(presence', status', u, "online")
                           <=> Ends(presence, status, u, "online")
  PROVE  \A u \in User : UserOK(u)'
<1> QED BY DEF UserOK, Quiet

LEMMA UserElsewhere ==
  ASSUME NEW c \in Client, NEW u, u # Owner[c], UserOK(u),
         \A d \in Client : d # c => Quiet(d),
         Ends(presence', status', u, "online") <=> Ends(presence, status, u, "online")
  PROVE  UserOK(u)'
<1> QED BY DEF UserOK, Quiet

LEMMA KeepsOut ==
  ASSUME WiresOK, NEW d \in Client, NEW m \in Conn, NEW p \in OutPacket,
         out'[d][m] = out[d][m] \/ out'[d][m] = Append(out[d][m], p)
  PROVE  Has(out[d][m], "publish") => Has(out'[d][m], "publish")
<1>1. out[d][m] \in Seq(OutPacket)
  BY DEF WiresOK
<1>2. Has(out[d][m], "publish") => Has(Append(out[d][m], p), "publish")
  BY <1>1, HasAppend
<1> QED BY <1>2

\* An object that only sends, or whose stream is not that of the session.
LEMMA QuietCalls ==
  ASSUME ListenInv, NEW d \in Client, Application(d)
  PROVE  Quiet(d)
<1>1. TypeInv /\ WiresOK
  BY DEF ListenInv, AnswerInv, TypeInv
<1>2. ASSUME UNCHANGED <<session, bye>>,
             \A m \in Conn : \/ out'[d][m] = out[d][m]
                             \/ \E p \in OutPacket : out'[d][m] = Append(out[d][m], p)
      PROVE  Quiet(d)
  <2>1. \A m \in Conn : Has(out[d][m], "publish") => Has(out'[d][m], "publish")
    <3> TAKE m \in Conn
    <3>1. CASE out'[d][m] = out[d][m]
      BY <3>1
    <3>2. CASE \E p \in OutPacket : out'[d][m] = Append(out[d][m], p)
      BY <1>1, <3>2, KeepsOut
    <3> QED BY <1>2, <3>1, <3>2
  <2> QED BY <1>2, <2>1, QuietOut
<1>3. CASE connect(d)
  <2>1. UNCHANGED <<session, bye>>
    BY <1>3 DEF connect, broker
  <2>2. \A m \in Conn : out'[d][m] = out[d][m] \/ out'[d][m] = Append(out[d][m], DISCONNECT)
    BY <1>1, <1>3, ConnectEffects
  <2> QED BY <1>2, <2>1, <2>2, Packets
<1>4. CASE close(d) \/ ImHere(d)
  <2>1. UNCHANGED <<session, bye>>
    BY <1>4 DEF close, ImHere, broker
  <2>2. \A m \in Conn : \/ out'[d][m] = out[d][m]
                        \/ out'[d][m] = Append(out[d][m], UNSUBSCRIBE)
                        \/ out'[d][m] = Append(out[d][m], ONLINE)
    BY <1>1, <1>4 DEF close, ImHere, WiresOK
  <2> QED BY <1>2, <2>1, <2>2, Packets
<1>5. ASSUME NEW list, NEW conv, onCallback(d, list, conv) PROVE Alike(d)
  BY <1>5 DEF onCallback, Alike, object, wires, broker, history
<1>6. ASSUME NEW list, NEW id, removeHandler(d, list, id) PROVE Alike(d)
  BY <1>6 DEF removeHandler, Alike, object, wires, broker, history
<1>7. ASSUME NEW kind, myrequest(d, kind) PROVE Alike(d)
  BY <1>7 DEF myrequest, Alike, object, wires, broker, history
<1>8. CASE \/ groupCreate(d) \/ groupData(d) \/ groupLeave(d) \/ groupJoin(d)
           \/ groupSetMembers(d) \/ saveInstance(d)
           \/ conversationDetail(d) \/ archivedConversationDetail(d)
  BY <1>7, <1>8, QuietAlike DEF groupCreate, groupData, groupLeave, groupJoin,
     groupSetMembers, saveInstance, conversationDetail, archivedConversationDetail
<1> QED BY <1>3, <1>4, <1>5, <1>6, <1>8, QuietAlike DEF Application

LEMMA QuietStreams ==
  ASSUME ListenInv, NEW d \in Client, NEW n \in Conn,
         Lost(d, n) \/ StreamEnds(d, n) \/ AttemptFails(d, n)
  PROVE  Quiet(d) /\ UNCHANGED <<presence, status>>
<1>1. TypeInv /\ WiresOK /\ SessionOK(d)
  BY DEF ListenInv, ListenOK, AnswerInv, TypeInv
<1>2. /\ \E l \in {"down", "ended"} : Fail(d, n, l)
      /\ session'[d].sock = session[d].sock
      /\ link[d][n] \in {"up", "down", "ending"}
      /\ session'[d].stale <=>
           session[d].stale \/ (n = session[d].sock /\ link[d][n] \in {"up", "ending"})
      /\ UNCHANGED <<bye, presence, status>>
  BY <1>1, StreamEffects
<1>3. \A m \in Conn : m # n =>
        out'[d][m] = out[d][m] \/ out'[d][m] = Append(out[d][m], DISCONNECT)
  <2>1. PICK l \in {"down", "ended"} : Fail(d, n, l)
    BY <1>2
  <2>2. Cut(d, n, l)
    BY <1>1, <2>1, FailEffects
  <2> QED BY <2>2 DEF Cut
<1>4. \A m \in Conn : m # n => (Has(out[d][m], "publish") => Has(out'[d][m], "publish"))
  BY <1>1, <1>3, KeepsOut, Packets
<1>5. n = session[d].sock => session'[d].stale
  <2>1. n # 0
    BY DEF Conn
  <2> QED BY <1>1, <1>2, <2>1 DEF SessionOK
<1> QED BY <1>2, <1>4, <1>5, QuietOut

LEMMA QuietTakes ==
  ASSUME ListenInv, NEW d \in Client, NEW n \in Conn, ClientTakes(d, n)
  PROVE  Quiet(d) /\ UNCHANGED <<presence, status>>
<1>1. TypeInv /\ WiresOK
  BY DEF ListenInv, AnswerInv, TypeInv
<1> DEFINE p == Head(in[d][n])
<1>2. /\ UNCHANGED <<session, bye, presence, status>>
      /\ \/ ReadsFirst(d, n, p) \/ ReadsAgain(d, n, p)
         \/ ReadsUnsuback(d, n, p) \/ ReadsMessage(d, n, p)
  BY <1>1, ClientEffects
<1> HIDE DEF p
<1>3. \A m \in Conn : out'[d][m] = out[d][m] \/ out'[d][m] = Append(out[d][m], DISCONNECT)
  BY <1>2 DEF ReadsFirst, ReadsAgain, ReadsUnsuback, ReadsMessage
<1>4. \A m \in Conn : Has(out[d][m], "publish") => Has(out'[d][m], "publish")
  BY <1>1, <1>3, KeepsOut, Packets
<1> QED BY <1>2, <1>4, QuietOut

\* The broker has something to report of client c: all of its clients but c are
\* as they were, and the last report of its user is this one.
LEMMA ReportOf ==
  ASSUME ListenInv, NEW c \in Client, NEW p \in PresenceMessage, p.client = c,
         presence' = Append(presence, p), status' = status,
         \A d \in Client : d # c => Quiet(d), \A u \in User : UserOK(u)
  PROVE  /\ \A u \in User : u # Owner[c] => UserOK(u)'
         /\ Ends(presence', status', Owner[c], "online") <=> p.status = "online"
<1>1. presence \in Seq(PresenceMessage)
  BY DEF ListenInv, AnswerInv, TypeInv, BrokerOK, PresenceMessage
<1>2. \A u : OfUser(p, u) <=> u = Owner[c]
  BY DEF OfUser
<1> QED BY <1>1, <1>2, EndsAppend, UserElsewhere

LEMMA SettleOnConnect ==
  ASSUME PresenceInv, NEW c \in Client, onConnect(c), \A d \in Client : d # c => Quiet(d)
  PROVE  \A u \in User : UserOK(u)'
<1>1. ListenInv /\ TypeInv /\ \A u \in User : UserOK(u)
  BY DEF PresenceInv, ListenInv, AnswerInv
<1>2. /\ client[c] \in Conn
      /\ session'[c] = [sock |-> client[c], stale |-> FALSE, subscribed |-> FALSE]
      /\ presence' = Takeover(c)
      /\ Greets(c, client[c], out'[c][client[c]])
  BY <1>1, OnConnectEffects
<1>3. status' = status
  BY DEF onConnect
<1>4. session'[c].sock # 0
  BY <1>2 DEF Conn
<1>5. Announcing(c)'
  BY <1>2 DEF Announcing, Greets
<1>6. UserOK(Owner[c])'
  BY <1>4, <1>5 DEF UserOK
<1>7. ASSUME NEW u \in User, u # Owner[c] PROVE UserOK(u)'
  <2>1. CASE presence' = presence
    BY <1>1, <1>3, <1>7, <2>1, UserElsewhere
  <2>2. CASE presence' = Append(presence, [client |-> c, status |-> "offline"])
    <3>1. [client |-> c, status |-> "offline"] \in PresenceMessage
      BY DEF PresenceMessage
    <3> QED BY <1>1, <1>3, <1>7, <2>2, <3>1, ReportOf
  <2> QED BY <1>2, <2>1, <2>2 DEF Takeover
<1> QED BY <1>6, <1>7

LEMMA SettleExpire ==
  ASSUME PresenceInv, NEW c \in Client, Expire(c), \A d \in Client : d # c => Quiet(d)
  PROVE  \A u \in User : UserOK(u)'
<1>1. ListenInv /\ TypeInv /\ \A u \in User : UserOK(u)
  BY DEF PresenceInv, ListenInv, AnswerInv
<1> DEFINE p == [client |-> c, status |-> "offline"]
<1>2. /\ session'[c] = NoSession /\ status' = status
      /\ presence' = Append(presence, p)
  BY <1>1, Domains DEF Expire
<1>3. p \in PresenceMessage /\ p.client = c /\ p.status = "offline"
  BY DEF PresenceMessage
<1> HIDE DEF p
<1>4. /\ \A u \in User : u # Owner[c] => UserOK(u)'
      /\ ~ Ends(presence', status', Owner[c], "online")
  BY <1>1, <1>2, <1>3, ReportOf
<1>5. UserOK(Owner[c])'
  BY <1>2, <1>4 DEF UserOK, NoSession
<1> QED BY <1>4, <1>5

LEMMA SettleBroker ==
  ASSUME PresenceInv, NEW c \in Client, BrokerTakes(c), \A d \in Client : d # c => Quiet(d)
  PROVE  \A u \in User : UserOK(u)'
<1>1. ListenInv /\ TypeInv /\ WiresOK /\ \A u \in User : UserOK(u)
  BY DEF PresenceInv, ListenInv, AnswerInv, TypeInv
<1> DEFINE n == session[c].sock
           p == Head(out[c][n])
<1>2. /\ n \in Conn /\ out[c][n] # <<>> /\ out'[c][n] = Tail(out[c][n])
      /\ ~ session[c].stale
  BY <1>1, BrokerEffects
<1>3. status' = status
  BY DEF BrokerTakes
<1>4. session[c] \in [sock : Sock, stale : BOOLEAN, subscribed : BOOLEAN]
  BY <1>1 DEF TypeInv, BrokerOK
<1>5. \/ /\ p.packet \in {"subscribe", "unsubscribe"}
         /\ \/ session'[c] = [session[c] EXCEPT !.subscribed = TRUE]
            \/ session'[c] = [session[c] EXCEPT !.subscribed = FALSE]
            \/ session'[c] = session[c]
         /\ UNCHANGED <<presence, bye>>
      \/ /\ presence' = Append(presence, [client |-> c, status |-> "online"])
         /\ UNCHANGED session
      \/ /\ session'[c] = NoSession /\ bye'[c] /\ UNCHANGED presence
  BY <1>1, BrokerEffects DEF broker
<1>6. n # 0
  BY <1>2 DEF Conn
<1> HIDE DEF p
<1>7. CASE /\ p.packet \in {"subscribe", "unsubscribe"}
           /\ \/ session'[c] = [session[c] EXCEPT !.subscribed = TRUE]
              \/ session'[c] = [session[c] EXCEPT !.subscribed = FALSE]
              \/ session'[c] = session[c]
           /\ UNCHANGED <<presence, bye>>
  <2>1. session'[c].sock = session[c].sock
    BY <1>4, <1>7
  <2>2. Tag(p) # "publish"
    BY <1>7 DEF Tag
  <2>3. Has(out[c][n], "publish") => Has(out'[c][n], "publish")
    BY <1>1, <1>2, <2>2, HasTail DEF WiresOK, p
  <2>4. Quiet(c)
    BY <1>2, <1>7, <2>1, <2>3, QuietOut
  <2> QED BY <1>1, <1>3, <1>7, <2>4, QuietUsers
<1>8. CASE /\ presence' = Append(presence, [client |-> c, status |-> "online"])
           /\ UNCHANGED session
  <2>1. [client |-> c, status |-> "online"] \in PresenceMessage
    BY DEF PresenceMessage
  <2>2. /\ \A u \in User : u # Owner[c] => UserOK(u)'
        /\ Ends(presence', status', Owner[c], "online")
    BY <1>1, <1>3, <1>8, <2>1, ReportOf
  <2>3. UserOK(Owner[c])'
    BY <1>6, <1>8, <2>2 DEF UserOK
  <2> QED BY <2>2, <2>3
<1>9. CASE session'[c] = NoSession /\ bye'[c] /\ UNCHANGED presence
  <2>1. Quiet(c)
    BY <1>9 DEF Quiet, NoSession
  <2> QED BY <1>1, <1>3, <1>9, <2>1, QuietUsers
<1> QED BY <1>5, <1>7, <1>8, <1>9

\* process_presence() changes what is reported of a user to what was going to be.
LEMMA SettleReport ==
  ASSUME PresenceInv, process_presence
  PROVE  \A u \in User : UserOK(u)'
<1>1. /\ \A u \in User : UserOK(u)
      /\ presence \in Seq(PresenceMessage) /\ Owner \in [Client -> User]
      /\ status \in [User -> {"unknown", "online", "offline"}]
  BY ClientAssumption DEF PresenceInv, ListenInv, AnswerInv, TypeInv, BrokerOK, RestOK,
     PresenceMessage
<1> DEFINE h == Head(presence)
<1>2. /\ presence # <<>> /\ presence' = Tail(presence)
      /\ status' = [status EXCEPT ![Owner[h.client]] = h.status]
  BY DEF process_presence
<1>3. h \in PresenceMessage
  BY <1>1, <1>2
<1> HIDE DEF h
<1>4. Owner[h.client] \in User
  BY <1>1, <1>3 DEF PresenceMessage
<1>5. ASSUME NEW u \in User
      PROVE  /\ OfUser(h, u) => status'[u] = h.status
             /\ ~ OfUser(h, u) => status'[u] = status[u]
  BY <1>1, <1>2, <1>4 DEF OfUser
<1>6. ASSUME NEW u \in User
      PROVE  Ends(presence', status', u, "online") <=> Ends(presence, status, u, "online")
  <2>1. ASSUME NEW st, NEW next,
               OfUser(h, u) => next[u] = h.status,
               ~ OfUser(h, u) => next[u] = st[u]
        PROVE  Ends(Tail(presence), next, u, "online") <=> Ends(presence, st, u, "online")
    BY <1>1, <1>2, <2>1, EndsTail DEF h
  <2>2. Ends(Tail(presence), status', u, "online") <=> Ends(presence, status, u, "online")
    BY <1>5, <2>1
  <2> QED BY <1>2, <2>2
<1>7. \A d \in Client : Quiet(d)
  BY ReportSame, QuietAlike DEF Same
<1> QED BY <1>1, <1>6, <1>7, QuietUsers

LEMMA PresenceStep == PresenceInv /\ [Next]_vars => PresenceInv'
<1> SUFFICES ASSUME PresenceInv, [Next]_vars PROVE PresenceInv'
  OBVIOUS
<1>1. ListenInv /\ TypeInv /\ \A u \in User : UserOK(u)
  BY DEF PresenceInv, ListenInv, AnswerInv
<1>2. ListenInv'
  BY <1>1, ListenStep
<1>3. CASE UNCHANGED vars
  <2>1. \A d \in Client : Quiet(d)
    BY <1>3, ReportSame, QuietAlike DEF Same
  <2>2. UNCHANGED <<presence, status>>
    BY <1>3 DEF vars, broker
  <2> QED BY <1>1, <1>2, <2>1, <2>2, QuietUsers DEF PresenceInv
<1>4. ASSUME NEW c \in Client, Application(c) \/ Progress(c) \/ Fault(c)
      PROVE  \A u \in User : UserOK(u)'
  <2>1. \A d \in Client : d # c => Quiet(d)
    BY <1>1, <1>4, CallsElsewhere, EventsElsewhere, QuietAlike DEF Same
  <2>2. ASSUME Quiet(c), UNCHANGED <<presence, status>>
        PROVE  \A u \in User : UserOK(u)'
    BY <1>1, <2>1, <2>2, QuietUsers
  <2>3. CASE Application(c)
    <3>1. UNCHANGED <<presence, status>>
      BY <2>3 DEF Application, connect, close, ImHere, onCallback, removeHandler, myrequest,
         groupCreate, groupData, groupLeave, groupJoin, groupSetMembers, saveInstance,
         conversationDetail, archivedConversationDetail, broker
    <3> QED BY <1>1, <2>2, <2>3, <3>1, QuietCalls
  <2>4. CASE onConnect(c) \/ Expire(c) \/ BrokerTakes(c)
    BY <2>1, <2>4, SettleOnConnect, SettleExpire, SettleBroker
  <2>5. CASE Closed(c)
    <3>1. UNCHANGED <<presence, status, session, bye, out>>
      BY <2>5 DEF Closed, broker, wires
    <3> QED BY <2>2, <3>1, QuietOut
  <2>6. CASE Response(c)
    <3>1. Alike(c) /\ UNCHANGED <<presence, status>>
      BY <2>6 DEF Response, Alike, object, wires, broker, history
    <3> QED BY <2>2, <3>1, QuietAlike
  <2>7. ASSUME NEW n \in Conn,
               StreamEnds(c, n) \/ Lost(c, n) \/ AttemptFails(c, n) \/ ClientTakes(c, n)
        PROVE  \A u \in User : UserOK(u)'
    BY <1>1, <2>2, <2>7, QuietStreams, QuietTakes
  <2>8. ASSUME NEW e \in Event, Publish(c, e) PROVE \A u \in User : UserOK(u)'
    <3>1. UNCHANGED <<presence, status, session, bye, out>>
      BY <2>8 DEF Publish, broker
    <3> QED BY <2>2, <3>1, QuietOut
  <2> QED BY <1>4, <2>3, <2>4, <2>5, <2>6, <2>7, <2>8 DEF Progress, Fault
<1>5. \A u \in User : UserOK(u)'
  BY <1>1, <1>3, <1>4, SettleReport, <1>2 DEF Next, PresenceInv
<1> QED BY <1>2, <1>5 DEF PresenceInv

LEMMA InitSettles == Init => PresenceInv
<1> SUFFICES ASSUME Init PROVE PresenceInv
  OBVIOUS
<1>1. presence = <<>> /\ \A u \in User : status[u] = "unknown"
  BY DEF Init
<1>2. \A c \in Client : session[c].sock = 0
  BY DEF Init, NoSession
<1>3. \A u \in User : ~ Ends(presence, status, u, "online")
  BY <1>1 DEF Ends
<1> QED BY <1>2, <1>3, InitListens DEF PresenceInv, UserOK

LEMMA SettlesWhenHandled == PresenceInv => PresenceSettles
<1> SUFFICES ASSUME PresenceInv, PresenceHandled, NEW u \in User
             PROVE  LET own == {c \in Client : Owner[c] = u} IN
                    /\ (own # {} /\ \A c \in own : session[c].sock # 0) => status[u] = "online"
                    /\ status[u] = "online" => \E c \in own : session[c].sock # 0 \/ bye[c]
  BY DEF PresenceSettles
<1>1. UserOK(u) /\ TypeInv
  BY DEF PresenceInv, ListenInv, AnswerInv
<1>2. Ends(presence, status, u, "online") <=> status[u] = "online"
  BY DEF PresenceHandled, Ends
<1>3. ASSUME NEW c \in Client PROVE ~ Announcing(c)
  <2> SUFFICES ASSUME NEW m \in Conn, m = session[c].sock, Has(out[c][m], "publish")
               PROVE  FALSE
    BY DEF PresenceHandled, Announcing
  <2>1. out[c][m] \in Seq(OutPacket)
    BY <1>1 DEF TypeInv, WiresOK
  <2>2. PICK i \in DOMAIN out[c][m] : Tag(out[c][m][i]) = "publish"
    BY DEF Has
  <2>3. out[c][m][i] \in OutPacket
    BY <2>1, <2>2
  <2>4. out[c][m][i] = ONLINE
    BY <2>2, <2>3 DEF Tag, OutPacket, ONLINE
  <2>5. m # 0
    BY DEF Conn
  <2> QED BY <2>2, <2>4, <2>5 DEF PresenceHandled, Range
<1> QED BY <1>1, <1>2, <1>3 DEF UserOK

\* Once every report is handled, a user all of whose clients are connected is
\* reported online, and one reported online has a client that is connected or that
\* left by close().
THEOREM PresenceSettlesHolds == Spec => []PresenceSettles
<1> QED BY InitSettles, PresenceStep, SettlesWhenHandled, PTL DEF Spec

=============================================================================
