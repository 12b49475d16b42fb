----------------------------- MODULE ChatStore -----------------------------
(***************************************************************************)
(* Storage: process_persist, process_update and process_archive of the     *)
(* observer, and the upserts of ChatDB they run on MongoDB.                *)
(*                                                                         *)
(* The "persist" queue carries the copies the message path stores, the     *)
(* "messages" queue the commands of the clients that were shown them.  A   *)
(* handler is a chain of database calls and publishes, each suspending it; *)
(* handlers overlap freely, for the queues are consumed with noAck and the *)
(* driver has a pool of connections.  An upsert that finds nothing looks   *)
(* first and inserts later, and only conversations have a unique index.    *)
(***************************************************************************)
EXTENDS Naturals, Sequences, FiniteSets

CONSTANTS
  User,         \* chat users
  Group,        \* groups; Inbox, the owners of timelines, are both
  Msg,          \* message ids
  NONE,         \* a field that is not set
  Workloads,    \* sets of copies the message path may make
  Commands,     \* the commands clients send: "receipt", "seen", "archive", "update"
  IdLen,        \* length of a user's or group's id
  MsgIdLen,     \* length of a message id
  MaxCommands,  \* bound: commands sent
  MaxFaults     \* bound: database errors, failed publishes and crashes

Inbox == User \cup Group
Copies == UNION Workloads

SENT == 100
DELIVERED == 150
RECEIVED == 200
RETURN_RECEIPT == 250

\* A copy: the timeline it goes to, convers_with of its topic, the status in its
\* payload, attributes.updateconversation, and whether it is the replay of a message
\* to a member of the group who was shown it before.
Copy == [msg : Msg, box : Inbox, peer : Inbox, status : {SENT, DELIVERED},
         conv : BOOLEAN, again : BOOLEAN]

ASSUME ChatStoreAssumption ==
  /\ User \cap Group = {}
  /\ NONE \notin Msg \cup Nat \cup BOOLEAN
  /\ Copies \subseteq Copy
  /\ Commands \subseteq {"receipt", "seen", "archive", "update"}
  /\ IdLen \in [Inbox -> Nat] /\ MsgIdLen \in Nat
  /\ MaxCommands \in Nat /\ MaxFaults \in Nat

SenderOf(d, c) ==
  /\ d.msg = c.msg /\ d.box = c.peer /\ d.peer = c.box
  /\ d.status = SENT /\ c.status = DELIVERED

\* A workload is made once: it has a message on a timeline twice only if its sender
\* is its recipient or the message is replayed, and no recipient is the sender of
\* another copy.
ASSUME WorkloadAssumption ==
  \A w \in Workloads : \A c, d \in w : c.msg = d.msg =>
    /\ c.box = d.box => c = d \/ c.again \/ d.again \/ SenderOf(c, d) \/ SenderOf(d, c)
    /\ c.status = DELIVERED /\ d.status = DELIVERED /\ c.peer = d.box => c = d

\* What a queue holds: a copy to persist, or a command about a copy shown.
Job == [kind : {"persist", "receipt", "seen", "archive", "update"}, copy : Copies]

\* A message document.  The upsert of a receipt sets nothing but the status.
Document == [whole : BOOLEAN, status : {SENT, DELIVERED, RECEIVED, RETURN_RECEIPT}]
NoDocument == [whole |-> FALSE, status |-> NONE]

\* A conversation: the last message, set together with app_id, and the flags.
Conversation == [last : {NONE} \cup Msg, archived : {NONE} \cup BOOLEAN,
                 is_new : {NONE} \cup BOOLEAN]
NoConversation == [last |-> NONE, archived |-> NONE, is_new |-> NONE]

\* Mutant: a receipt with any status is taken for "received".
StepsSeen(kind, conv) ==
  CASE kind = "persist" -> IF conv THEN <<"message", "conversation">> ELSE <<"message">>
    [] kind \in {"receipt", "seen"} -> <<"told", "mine", "theirs">>
    [] kind = "update"  -> <<"conversation", "told">>
    [] kind = "archive" -> <<"conversation", "detail", "deleted", "archived">>

\* Mutant: the sender's document is written before the recipient's.
StepsTheirsFirst(kind, conv) ==
  CASE kind = "persist" -> IF conv THEN <<"message", "conversation">> ELSE <<"message">>
    [] kind = "receipt" -> <<"told", "theirs", "mine">>
    [] kind = "update"  -> <<"conversation", "told">>
    [] kind = "archive" -> <<"conversation", "detail", "deleted", "archived">>
    [] kind = "seen"    -> <<>>

\* The suspension points of a handler, in order.  It waits at each in phase
\* "go", and in phase "wait" for an insert to run or a publish to be confirmed.
Steps(kind, conv) ==
  CASE kind = "persist" -> IF conv THEN <<"message", "conversation">> ELSE <<"message">>
    [] kind = "receipt" -> <<"told", "mine", "theirs">>
    [] kind = "update"  -> <<"conversation", "told">>
    [] kind = "archive" -> <<"conversation", "detail", "deleted", "archived">>
    [] kind = "seen"    -> <<>>

Handler == [kind : {"persist", "receipt", "archive", "update"}, copy : Copies,
            step : 1 .. 4, phase : {"go", "wait"}, detail : Conversation]

VARIABLES
  shown,          \* copies given to clientadded subscribers
  queued,         \* copies the message path has put on the "persist" queue
  asked,          \* commands the clients have sent
  persistQueue,   \* broker: the "persist" queue
  messageQueue,   \* broker: the commands on the "messages" queue
  handlers,       \* suspended handlers
  messages,       \* MongoDB: the documents of each timeline and message
  conversations,  \* MongoDB: the document of each timeline and peer
  announced,      \* notices given to clients, as the handlers that sent them
  stored,         \* history: jobs whose message documents have all been written
  failed,         \* history: jobs with a write or a publish that failed
  raced,          \* history: documents that a receipt, a replay or a persist raced for
  faults          \* faults so far

clients == <<shown, queued, asked>>
queues == <<persistQueue, messageQueue>>
database == <<messages, conversations>>
history == <<stored, failed, raced>>
vars == <<clients, queues, handlers, database, announced, history, faults>>

Place == Inbox \X Msg      \* the filter of saveOrUpdateMessage
Pair == Inbox \X Inbox     \* the filter of saveOrUpdateConversation

At(h) == Steps(h.kind, h.copy.conv)[h.step]

JobOf(h) == [kind |-> h.kind, copy |-> h.copy]

Notice == [topic : {"told", "deleted", "archived"}, job : Job, detail : Conversation]

TypeOK ==
  /\ shown \subseteq Copies /\ queued \subseteq Copies
  /\ asked \subseteq Job
  /\ persistQueue \in Seq(Job) /\ messageQueue \in Seq(Job)
  /\ handlers \subseteq Handler
  /\ \A h \in handlers : h.step \in DOMAIN Steps(h.kind, h.copy.conv)
  /\ messages \in [Place -> Seq(Document)]
  /\ conversations \in [Pair -> Conversation]
  /\ announced \subseteq Notice
  /\ stored \subseteq Job /\ failed \subseteq Job
  /\ raced \subseteq Place
  /\ faults \in 0 .. MaxFaults

Init ==
  /\ shown = {} /\ queued = {} /\ asked = {}
  /\ persistQueue = <<>> /\ messageQueue = <<>>
  /\ handlers = {}
  /\ messages = [k \in Place |-> <<>>]
  /\ conversations = [k \in Pair |-> NoConversation]
  /\ announced = {}
  /\ stored = {} /\ failed = {} /\ raced = {}
  /\ faults = 0

-----------------------------------------------------------------------------
(* The message path and the clients.                                       *)

\* The server replays what is on the group's timeline when a member joins again.
Replayable(c) ==
  /\ messages[<<c.peer, c.msg>>] # <<>>
  /\ \E d \in shown : d.msg = c.msg /\ d.box = c.box /\ ~ d.again

\* The sender's copy of a direct message is queued before the recipient's is shown.
ShowCopy(c) ==
  /\ c \notin shown
  /\ \E w \in Workloads : shown \cup {c} \subseteq w
  /\ \A d \in Copies : SenderOf(d, c) => d \in queued
  /\ c.again => Replayable(c)
  /\ shown' = shown \cup {c}
  /\ UNCHANGED <<queued, asked, queues, handlers, database, announced, history, faults>>

QueuePersist(c) ==
  /\ c \in shown \ queued
  /\ queued' = queued \cup {c}
  /\ persistQueue' = Append(persistQueue, [kind |-> "persist", copy |-> c])
  /\ UNCHANGED <<shown, asked, messageQueue, handlers, database, announced, history,
                 faults>>

\* The key of a command: apps.tilechat.users.<box>.messages.<peer>.<id>.update,
\* ...conversations.<peer>.update or ...conversations.<peer>.archive
CommandKeyLength(kind, c) ==
  IdLen[c.box] + IdLen[c.peer]
    + CASE kind \in {"receipt", "seen"} -> 38 + MsgIdLen
        [] kind = "update" -> 42
        [] kind = "archive" -> 43

\* A client that was shown a copy reports it received or seen, archives the
\* conversation or marks it read.
Ask(kind, c) ==
  LET job == [kind |-> kind, copy |-> c] IN
  /\ c \in shown /\ c.box \in User
  /\ Cardinality(asked) < MaxCommands /\ job \notin asked
  /\ kind \in {"receipt", "seen"} => c.status = DELIVERED
  /\ CommandKeyLength(kind, c) <= 255
  /\ asked' = asked \cup {job}
  /\ messageQueue' = Append(messageQueue, job)
  /\ UNCHANGED <<shown, queued, persistQueue, handlers, database, announced, history,
                 faults>>

-----------------------------------------------------------------------------
(* Taking a job from a queue.                                              *)

\* The timelines on which a job writes a message document.
Places(job) ==
  CASE job.kind = "persist" -> {<<job.copy.box, job.copy.msg>>}
    [] job.kind = "receipt" -> {<<job.copy.box, job.copy.msg>>,
                                <<job.copy.peer, job.copy.msg>>}
    [] OTHER -> {}

Saved(k) == \E j \in stored : j.kind = "persist" /\ k \in Places(j)

\* The places a job taken now will race for: another persist of the place has not
\* written yet, the job is a receipt ahead of its copies, or it persists a replay,
\* which may come after a receipt.
Races(job) ==
  {k \in Places(job) :
     \/ job.kind = "persist" /\ job.copy.again
     \/ \E h \in handlers :
          h.kind = "persist" /\ At(h) = "message" /\ k \in Places(JobOf(h))
     \/ /\ job.kind = "receipt"
        /\ ~ Saved(k) \/ [kind |-> "persist", copy |-> job.copy] \notin stored}

\* work() runs a handler to its first suspension; an update of a message with a
\* status other than 200 ends there.
Take(job) ==
  /\ handlers' = handlers \cup
       IF Steps(job.kind, job.copy.conv) = <<>> THEN {}
       ELSE {[kind |-> job.kind, copy |-> job.copy, step |-> 1, phase |-> "go",
              detail |-> NoConversation]}
  /\ raced' = raced \cup Races(job)
  /\ UNCHANGED <<clients, database, announced, stored, failed, faults>>

TakePersist ==
  /\ persistQueue # <<>>
  /\ persistQueue' = Tail(persistQueue)
  /\ Take(Head(persistQueue))
  /\ UNCHANGED messageQueue

TakeCommand ==
  /\ messageQueue # <<>>
  /\ messageQueue' = Tail(messageQueue)
  /\ Take(Head(messageQueue))
  /\ UNCHANGED persistQueue

-----------------------------------------------------------------------------
(* How a handler goes on.                                                  *)

Wait(h) == handlers' = (handlers \ {h}) \cup {[h EXCEPT !.phase = "wait"]}

End(h) == handlers' = handlers \ {h}

\* The callback of a step: the next step, or callback(true).
Advance(h) ==
  IF h.step = Len(Steps(h.kind, h.copy.conv))
  THEN End(h)
  ELSE handlers' = (handlers \ {h}) \cup
                     {[h EXCEPT !.step = @ + 1, !.phase = "go"]}

\* process_persist ignores the error of saveOrUpdateMessage; every other error
\* ends the handler.
OnError(h) == IF At(h) = "message" THEN Advance(h) ELSE End(h)

-----------------------------------------------------------------------------
(* ChatDB.saveOrUpdateMessage.                                             *)

PlaceOf(h) ==
  <<IF At(h) = "theirs" THEN h.copy.peer ELSE h.copy.box, h.copy.msg>>

\* Mutant: the sender's patch has the recipient's status.
SetMessageSame(h, doc) ==
  IF At(h) = "message" THEN [whole |-> TRUE, status |-> h.copy.status]
                       ELSE [doc EXCEPT !.status = RECEIVED]

\* The $set of each caller.
SetMessage(h, doc) ==
  CASE At(h) = "message" -> [whole |-> TRUE, status |-> h.copy.status]
    [] At(h) = "mine"    -> [doc EXCEPT !.status = RECEIVED]
    [] At(h) = "theirs"  -> [doc EXCEPT !.status = RETURN_RECEIPT]

MessageWritten(h) ==
  /\ Advance(h)
  /\ stored' = IF At(h) \in {"message", "theirs"} THEN stored \cup {JobOf(h)} ELSE stored
  /\ UNCHANGED <<clients, queues, conversations, announced, failed, raced, faults>>

UpdateMessage(h) ==
  /\ h \in handlers /\ At(h) \in {"message", "mine", "theirs"} /\ h.phase = "go"
  /\ LET k == PlaceOf(h) IN
     \E i \in DOMAIN messages[k] :
       messages' = [messages EXCEPT ![k][i] = SetMessage(h, @)]
  /\ MessageWritten(h)

\* Mutant: an update without upsert.
MissMessageDone(h) ==
  /\ h \in handlers /\ At(h) \in {"message", "mine", "theirs"} /\ h.phase = "go"
  /\ messages[PlaceOf(h)] = <<>>
  /\ Advance(h)
  /\ UNCHANGED <<clients, queues, database, announced, history, faults>>

\* The upsert finds no document ...
MissMessage(h) ==
  /\ h \in handlers /\ At(h) \in {"message", "mine", "theirs"} /\ h.phase = "go"
  /\ messages[PlaceOf(h)] = <<>>
  /\ Wait(h)
  /\ UNCHANGED <<clients, queues, database, announced, history, faults>>

\* ... and inserts one, which no index forbids.
InsertMessage(h) ==
  /\ h \in handlers /\ At(h) \in {"message", "mine", "theirs"} /\ h.phase = "wait"
  /\ messages' = [messages EXCEPT ![PlaceOf(h)] = Append(@, SetMessage(h, NoDocument))]
  /\ MessageWritten(h)

-----------------------------------------------------------------------------
(* ChatDB.saveOrUpdateConversation and conversationDetail.                 *)

PairOf(h) == <<h.copy.box, h.copy.peer>>

\* Mutant: a new message leaves the conversation in the archive.
SetConversationKept(h, conv) ==
  CASE h.kind = "persist" -> [conv EXCEPT !.last = h.copy.msg, !.is_new = TRUE]
    [] h.kind = "update"  -> [conv EXCEPT !.is_new = FALSE]
    [] h.kind = "archive" -> [conv EXCEPT !.archived = TRUE]

SetConversation(h, conv) ==
  CASE h.kind = "persist" -> [last |-> h.copy.msg, archived |-> FALSE, is_new |-> TRUE]
    [] h.kind = "update"  -> [conv EXCEPT !.is_new = FALSE]
    [] h.kind = "archive" -> [conv EXCEPT !.archived = TRUE]

WriteConversation(h) ==
  /\ conversations' = [conversations EXCEPT ![PairOf(h)] = SetConversation(h, @)]
  /\ Advance(h)
  /\ UNCHANGED <<clients, queues, messages, announced, history, faults>>

UpdateConversation(h) ==
  /\ h \in handlers /\ At(h) = "conversation" /\ h.phase = "go"
  /\ conversations[PairOf(h)] # NoConversation
  /\ WriteConversation(h)

MissConversation(h) ==
  /\ h \in handlers /\ At(h) = "conversation" /\ h.phase = "go"
  /\ conversations[PairOf(h)] = NoConversation
  /\ Wait(h)
  /\ UNCHANGED <<clients, queues, database, announced, history, faults>>

\* The insert, or the update the server makes of it when the unique index already
\* has the pair.
InsertConversation(h) ==
  /\ h \in handlers /\ At(h) = "conversation" /\ h.phase = "wait"
  /\ WriteConversation(h)

\* A server that does not retry answers with a duplicate key error.
DuplicateKey(h) ==
  /\ h \in handlers /\ At(h) = "conversation" /\ h.phase = "wait"
  /\ conversations[PairOf(h)] # NoConversation
  /\ End(h)
  /\ failed' = failed \cup {JobOf(h)}
  /\ UNCHANGED <<clients, queues, database, announced, stored, raced, faults>>

\* The filter of conversationDetail(app_id, box, peer, archived = true).
Finds(conv) == conv.last # NONE /\ conv.archived = TRUE

Detail(h) ==
  LET conv == conversations[PairOf(h)] IN
  /\ h \in handlers /\ At(h) = "detail"
  /\ IF Finds(conv)
     THEN handlers' = (handlers \ {h}) \cup
                        {[h EXCEPT !.step = @ + 1, !.detail = conv]}
     ELSE End(h)
  /\ UNCHANGED <<clients, queues, database, announced, history, faults>>

-----------------------------------------------------------------------------
(* Publishing to the clients.                                              *)

Topics == {"told", "deleted", "archived"}

\* apps.tilechat.users.<peer>.messages.<box>.<id>.clientupdated,
\* ...users.<box>.conversations.<peer>.clientupdated and .clientdeleted,
\* ...users.<box>.archived_conversations.<peer>.clientadded
KeyLength(topic, job) ==
  IdLen[job.copy.box] + IdLen[job.copy.peer]
    + CASE topic = "told" /\ job.kind = "receipt" -> 45 + MsgIdLen
        [] topic = "told" /\ job.kind # "receipt" -> 49
        [] topic = "deleted"  -> 49
        [] topic = "archived" -> 56

Fits(topic, job) == KeyLength(topic, job) <= 255

\* publish() calls back at once for a key that is too long.
DropNotice(h) ==
  /\ h \in handlers /\ At(h) \in Topics /\ h.phase = "go" /\ ~ Fits(At(h), JobOf(h))
  /\ Advance(h)
  /\ UNCHANGED <<clients, queues, database, announced, history, faults>>

\* The notice reaches the subscribers.
GiveNotice(h) ==
  /\ h \in handlers /\ At(h) \in Topics /\ h.phase = "go" /\ Fits(At(h), JobOf(h))
  /\ announced' = announced \cup
       {[topic |-> At(h), job |-> JobOf(h), detail |-> h.detail]}
  /\ Wait(h)
  /\ UNCHANGED <<clients, queues, database, history, faults>>

ConfirmNotice(h) ==
  /\ h \in handlers /\ At(h) \in Topics /\ h.phase = "wait"
  /\ Advance(h)
  /\ UNCHANGED <<clients, queues, database, announced, history, faults>>

-----------------------------------------------------------------------------
(* Faults.                                                                 *)

\* A database call or a publish of h answers with an error, or a lost channel leaves
\* a publish without any answer.  A write that was applied before its error is the
\* write followed by the failure of the next step.
Fail(h) ==
  /\ faults < MaxFaults
  /\ h \in handlers
  /\ OnError(h)
  /\ failed' = failed \cup {JobOf(h)}
  /\ faults' = faults + 1
  /\ UNCHANGED <<clients, queues, database, announced, stored, raced>>

\* A process ends: one that consumes both queues, or either.  Its handlers are
\* lost, and what the broker had pushed to it.
Crash(kinds) ==
  /\ faults < MaxFaults
  /\ handlers' = {h \in handlers : h.kind \notin kinds}
  /\ \E n \in 0 .. Len(persistQueue) :
       persistQueue' = IF "persist" \in kinds
                       THEN SubSeq(persistQueue, n + 1, Len(persistQueue))
                       ELSE persistQueue
  /\ \E n \in 0 .. Len(messageQueue) :
       messageQueue' = IF "receipt" \in kinds
                       THEN SubSeq(messageQueue, n + 1, Len(messageQueue))
                       ELSE messageQueue
  /\ faults' = faults + 1
  /\ UNCHANGED <<clients, database, announced, history>>

Processes == {{"persist"}, {"receipt", "archive", "update"},
              {"persist", "receipt", "archive", "update"}}

-----------------------------------------------------------------------------

Write(h) ==
  \/ UpdateMessage(h) \/ MissMessage(h) \/ InsertMessage(h)
  \/ UpdateConversation(h) \/ MissConversation(h) \/ InsertConversation(h)
  \/ DuplicateKey(h)

Step(h) ==
  Write(h) \/ Detail(h) \/ DropNotice(h) \/ GiveNotice(h) \/ ConfirmNotice(h)

Next ==
  \/ \E c \in Copies : ShowCopy(c) \/ QueuePersist(c)
  \/ \E kind \in Commands, c \in Copies : Ask(kind, c)
  \/ TakePersist \/ TakeCommand
  \/ \E h \in handlers : Step(h) \/ Fail(h)
  \/ \E kinds \in Processes : Crash(kinds)

Spec == Init /\ [][Next]_vars

-----------------------------------------------------------------------------
(* Properties.                                                             *)

Receipt(c) == [kind |-> "receipt", copy |-> c]

\* A return receipt that was stored stays.  The recipient's document says received,
\* unless the receipt overtook the copies or a replay came after it, whose persist
\* writes the older status over it.  The sender's document, of which there is one,
\* says so for good, replays or not, unless the receipt overtook the copies.
ReceiptKept ==
  \A j \in stored :
    j.kind = "receipt" =>
      LET mine == <<j.copy.box, j.copy.msg>>
          theirs == <<j.copy.peer, j.copy.msg>> IN
      /\ mine \notin raced =>
           \E i \in DOMAIN messages[mine] :
             messages[mine][i].whole /\ messages[mine][i].status >= RECEIVED
      /\ theirs \notin raced =>
           messages[theirs] = <<[whole |-> TRUE, status |-> RETURN_RECEIPT]>>

\* What a client may rely on is backed.  A return receipt on the sender's timeline:
\* the sender's clients were told of it, if the topic fits, and the recipient's
\* timeline has the message, for process_update publishes, then writes the one,
\* then the other, and any error ends it.  The last message of a conversation: it
\* is on its timeline in full, unless saving it failed, for process_persist writes
\* the conversation after the message, whatever became of the first write.
Backed ==
  /\ \A k \in Place : \A i \in DOMAIN messages[k] :
       messages[k][i].status = RETURN_RECEIPT =>
         \E j \in asked :
           /\ j.kind = "receipt" /\ <<j.copy.peer, j.copy.msg>> = k
           /\ messages[<<j.copy.box, j.copy.msg>>] # <<>>
           /\ ~ Fits("told", j) \/ \E n \in announced : n.topic = "told" /\ n.job = j
  /\ \A p \in Pair :
       LET m == conversations[p].last IN
       m # NONE =>
         \/ \E i \in DOMAIN messages[<<p[1], m>>] : messages[<<p[1], m>>][i].whole
         \/ \E j \in failed : j.kind = "persist" /\ j.copy.box = p[1] /\ j.copy.msg = m

\* Whenever MongoDB has a conversation in the archive in full, and no archive command
\* is being handled, one of them has told the clients, with the last message the
\* conversation still has: that it left the list and that it is in the archive, as
\* far as the topics fit.  process_archive writes, reads what it wrote and publishes
\* that; a persist, an update or another archive may write before and after the
\* read, and it may find nothing to publish.
ArchivedIsTold ==
  faults = 0 =>
    \A p \in Pair :
      Finds(conversations[p]) =>
        \/ \E h \in handlers : h.kind = "archive" /\ PairOf(h) = p
        \/ \E j \in asked :
             /\ j.kind = "archive" /\ <<j.copy.box, j.copy.peer>> = p
             /\ \A topic \in {"deleted", "archived"} :
                  Fits(topic, j) =>
                    \E n \in announced :
                      /\ n.topic = topic /\ n.job = j
                      /\ n.detail.last = conversations[p].last /\ n.detail.archived = TRUE

\* Once the queues and the handlers have come to rest without a failure, each copy
\* put on the persist queue is on its timeline in full, and its conversation has a
\* last message, unless a command created the conversation at the same time and
\* MongoDB answered with a duplicate key.
PersistedIsStored ==
  faults = 0 /\ persistQueue = <<>> /\ handlers = {} =>
    \A c \in queued :
      /\ \E i \in DOMAIN messages[<<c.box, c.msg>>] : messages[<<c.box, c.msg>>][i].whole
      /\ \/ ~ c.conv \/ conversations[<<c.box, c.peer>>].last # NONE
         \/ [kind |-> "persist", copy |-> c] \in failed

=============================================================================
