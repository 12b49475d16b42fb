-------------------------- MODULE ChatStore_proofs --------------------------
(***************************************************************************)
(* Type correctness of ChatStore and its four safety invariants, for any   *)
(* users, groups, messages and workloads, any commands and any number of   *)
(* faults.                                                                 *)
(***************************************************************************)
EXTENDS ChatStore, TLAPS, SequenceTheorems

-----------------------------------------------------------------------------
(* The inductive invariants.                                               *)

\* Where jobs come from.
Persisting(c) == [kind |-> "persist", copy |-> c]

Issued(j) == IF j.kind = "persist" THEN j.copy \in queued ELSE j \in asked

Origins ==
  /\ queued \subseteq shown
  /\ \A c \in shown, d \in Copies : SenderOf(d, c) => d \in queued
  /\ shown # {} => \E w \in Workloads : shown \subseteq w
  /\ \A j \in asked :
       /\ j.copy \in shown /\ j.kind # "persist"
       /\ j.kind = "receipt" => j.copy.status = DELIVERED
  /\ \A i \in DOMAIN persistQueue :
       persistQueue[i].kind = "persist" /\ Issued(persistQueue[i])
  /\ \A i \in DOMAIN messageQueue :
       messageQueue[i].kind # "persist" /\ Issued(messageQueue[i])
  /\ \A h \in handlers : Issued(JobOf(h))
  /\ \A j \in stored : Issued(j)

\* An archive command that is telling the clients of p: what it has read is what
\* the conversation still says, and what it has published said so.
Notified(topic, j, last) ==
  Fits(topic, j) =>
    \E n \in announced :
      n.topic = topic /\ n.job = j /\ n.detail.last = last /\ n.detail.archived = TRUE

Telling(h, p) ==
  /\ h.kind = "archive" /\ PairOf(h) = p /\ h.step \in {2, 3, 4}
  /\ h.step = 2 => h.phase = "go"
  /\ h.step \in {3, 4} => h.detail.last = conversations[p].last /\ h.detail.archived = TRUE
  /\ h.step = 4 \/ (h.step = 3 /\ h.phase = "wait") =>
       Notified("deleted", JobOf(h), conversations[p].last)
  /\ h.step = 4 /\ h.phase = "wait" =>
       Notified("archived", JobOf(h), conversations[p].last)

ToldOf(p) ==
  \E j \in asked :
    /\ j.kind = "archive" /\ <<j.copy.box, j.copy.peer>> = p
    /\ \A topic \in {"deleted", "archived"} : Notified(topic, j, conversations[p].last)

Announcing(p) ==
  Finds(conversations[p]) => ToldOf(p) \/ \E h \in handlers : Telling(h, p)

ArchivedInv == TypeOK /\ Origins /\ (faults = 0 => \A p \in Pair : Announcing(p))

\* What Backed says of what was written, said of what is about to be.
Home(c) == <<c.box, c.msg>>
Far(c) == <<c.peer, c.msg>>

HasWhole(s) == \E i \in DOMAIN s : s[i].whole

Whole(c) == HasWhole(messages[Home(c)])

Told(j) == ~ Fits("told", j) \/ \E n \in announced : n.topic = "told" /\ n.job = j

WriterOK(h) ==
  /\ h.kind = "receipt" =>
       /\ h.step \in {2, 3} \/ h.phase = "wait" => Told(JobOf(h))
       /\ h.step = 3 => messages[Home(h.copy)] # <<>>
  /\ h.kind = "persist" /\ h.step = 2 => Whole(h.copy) \/ JobOf(h) \in failed

BackedInv == TypeOK /\ Origins /\ Backed /\ \A h \in handlers : WriterOK(h)

\* Without a failure, a copy that was queued is written, waits or is being handled.
OnQueue(c) == \E i \in DOMAIN persistQueue : persistQueue[i] = Persisting(c)
Saving(c, steps) == \E h \in handlers : JobOf(h) = Persisting(c) /\ h.step \in steps

OnItsWay(c) ==
  /\ Whole(c) \/ OnQueue(c) \/ Saving(c, {1})
  /\ c.conv =>
       \/ conversations[<<c.box, c.peer>>].last # NONE
       \/ Persisting(c) \in failed
       \/ OnQueue(c) \/ Saving(c, {1, 2})

PersistedInv == TypeOK /\ Origins /\ (faults = 0 => \A c \in queued : OnItsWay(c))

\* A job is taken once.
Once ==
  /\ \A i, k \in DOMAIN persistQueue : persistQueue[i] = persistQueue[k] => i = k
  /\ \A i, k \in DOMAIN messageQueue : messageQueue[i] = messageQueue[k] => i = k
  /\ \A i \in DOMAIN persistQueue : persistQueue[i] \notin stored
  /\ \A i \in DOMAIN messageQueue : messageQueue[i] \notin stored
  /\ \A h \in handlers, i \in DOMAIN persistQueue : persistQueue[i] # JobOf(h)
  /\ \A h \in handlers, i \in DOMAIN messageQueue : messageQueue[i] # JobOf(h)
  /\ \A g, h \in handlers : JobOf(g) = JobOf(h) => g = h
  /\ \A h \in handlers : JobOf(h) \in stored => h.kind = "persist" /\ h.step = 2

\* The sender's copy of a message to oneself is queued before the other.
Ordered ==
  \A i \in DOMAIN persistQueue, c \in queued :
    SenderOf(persistQueue[i].copy, c) =>
      \E k \in DOMAIN persistQueue : i < k /\ persistQueue[k] = Persisting(c)

\* A persist that is about to write at k.
Writes(h, k) == h.kind = "persist" /\ h.step = 1 /\ Home(h.copy) = k

\* The copies for k have been saved, and no other will be but a replay.
Closed(k) ==
  /\ Saved(k)
  /\ \A h \in handlers : ~ Writes(h, k)
  /\ \A i \in DOMAIN persistQueue :
       Home(persistQueue[i].copy) = k => persistQueue[i].copy.again
  /\ \A w \in Workloads : shown \subseteq w =>
       \A c \in w : Home(c) = k => c.again \/ c \in queued

\* A replay races for its place from when it is taken.
Replays ==
  /\ \A h \in handlers : h.kind = "persist" /\ h.copy.again => Home(h.copy) \in raced
  /\ \A j \in stored : j.kind = "persist" /\ j.copy.again => Home(j.copy) \in raced

\* Where nothing raced there is one document at most, a receipt comes after the
\* copies, and what it wrote stays.
One(k) ==
  /\ Len(messages[k]) <= 1
  /\ \A i \in DOMAIN messages[k] : messages[k][i].whole
  /\ Saved(k) => messages[k] # <<>>

OneWriter(k) ==
  /\ \A g, h \in handlers : Writes(g, k) /\ Writes(h, k) => g = h
  /\ \A h \in handlers : Writes(h, k) /\ h.phase = "wait" => messages[k] = <<>>

IsReceipt(j, k) == j.kind = "receipt" /\ k \in {Home(j.copy), Far(j.copy)}

AfterCopies(k) ==
  /\ \A h \in handlers : IsReceipt(JobOf(h), k) => Closed(k)
  /\ \A j \in stored : IsReceipt(j, k) => Closed(k)
  /\ \A h \in handlers : h.kind = "receipt" /\ h.step \in {2, 3} /\ h.phase = "wait"
       => PlaceOf(h) # k

\* Of a place with one document, its status.
Status(k) == messages[k][1].status

Stays(k) ==
  /\ \A h \in handlers :
       h.kind = "receipt" /\ h.step = 3 /\ Home(h.copy) = k => Status(k) >= RECEIVED
  /\ \A j \in stored :
       /\ j.kind = "receipt" /\ Home(j.copy) = k => Status(k) >= RECEIVED
       /\ j.kind = "receipt" /\ Far(j.copy) = k => Status(k) = RETURN_RECEIPT

Calm(k) == One(k) /\ OneWriter(k) /\ AfterCopies(k) /\ Stays(k)

Undisputed == \A k \in Place \ raced : Calm(k)

ReceiptInv == TypeOK /\ Origins /\ Once /\ Ordered /\ Replays /\ Undisputed

-----------------------------------------------------------------------------
(* The helpers of the model.                                               *)

LEMMA CopyFields ==
  ASSUME NEW c \in Copies
  PROVE  /\ c.msg \in Msg /\ c.box \in Inbox /\ c.peer \in Inbox
         /\ c.status \in {SENT, DELIVERED} /\ c.conv \in BOOLEAN /\ c.again \in BOOLEAN
         /\ Home(c) \in Place /\ Far(c) \in Place /\ <<c.box, c.peer>> \in Pair
<1>1. c \in Copy
  BY ChatStoreAssumption
<1> QED BY <1>1 DEF Copy, Home, Far, Place, Pair

\* Where each kind of handler suspends.
LEMMA Positions ==
  ASSUME NEW h \in Handler, h.step \in DOMAIN Steps(h.kind, h.copy.conv)
  PROVE  LET n == Len(Steps(h.kind, h.copy.conv)) IN
         \/ /\ h.kind = "persist" /\ h.step = 1 /\ At(h) = "message"
            /\ IF h.copy.conv THEN n = 2 ELSE n = 1
         \/ /\ h.kind = "persist" /\ h.step = 2 /\ At(h) = "conversation"
            /\ h.copy.conv /\ n = 2
         \/ h.kind = "receipt" /\ h.step = 1 /\ At(h) = "told" /\ n = 3
         \/ h.kind = "receipt" /\ h.step = 2 /\ At(h) = "mine" /\ n = 3
         \/ h.kind = "receipt" /\ h.step = 3 /\ At(h) = "theirs" /\ n = 3
         \/ h.kind = "update" /\ h.step = 1 /\ At(h) = "conversation" /\ n = 2
         \/ h.kind = "update" /\ h.step = 2 /\ At(h) = "told" /\ n = 2
         \/ h.kind = "archive" /\ h.step = 1 /\ At(h) = "conversation" /\ n = 4
         \/ h.kind = "archive" /\ h.step = 2 /\ At(h) = "detail" /\ n = 4
         \/ h.kind = "archive" /\ h.step = 3 /\ At(h) = "deleted" /\ n = 4
         \/ h.kind = "archive" /\ h.step = 4 /\ At(h) = "archived" /\ n = 4
<1> DEFINE s == Steps(h.kind, h.copy.conv)
<1>1. h.kind \in {"persist", "receipt", "archive", "update"} /\ h.step \in 1 .. 4
      /\ At(h) = s[h.step] /\ h.step \in DOMAIN s
  BY DEF Handler, At
<1>2. CASE h.kind = "persist" /\ h.copy.conv
  <2>1. s = <<"message", "conversation">>
    BY <1>2 DEF Steps
  <2>2. DOMAIN s = 1 .. 2 /\ s[1] = "message" /\ s[2] = "conversation" /\ Len(s) = 2
    BY <2>1
  <2>3. h.step = 1 \/ h.step = 2
    <3> HIDE DEF s
    <3> QED BY <1>1, <2>2
  <2> QED BY <1>1, <1>2, <2>2, <2>3
<1>3. CASE h.kind = "persist" /\ ~ h.copy.conv
  <2>1. s = <<"message">>
    BY <1>3 DEF Steps
  <2>2. DOMAIN s = 1 .. 1 /\ s[1] = "message" /\ Len(s) = 1
    BY <2>1
  <2> QED BY <1>1, <1>3, <2>2
<1>4. CASE h.kind = "receipt"
  <2>1. s = <<"told", "mine", "theirs">>
    BY <1>4 DEF Steps
  <2>2. DOMAIN s = 1 .. 3 /\ s[1] = "told" /\ s[2] = "mine" /\ s[3] = "theirs" /\ Len(s) = 3
    BY <2>1
  <2> QED BY <1>1, <1>4, <2>2
<1>5. CASE h.kind = "update"
  <2>1. s = <<"conversation", "told">>
    BY <1>5 DEF Steps
  <2>2. DOMAIN s = 1 .. 2 /\ s[1] = "conversation" /\ s[2] = "told" /\ Len(s) = 2
    BY <2>1
  <2> QED BY <1>1, <1>5, <2>2
<1>6. CASE h.kind = "archive"
  <2>1. s = <<"conversation", "detail", "deleted", "archived">>
    BY <1>6 DEF Steps
  <2>2. DOMAIN s = 1 .. 4 /\ s[1] = "conversation" /\ s[2] = "detail"
        /\ s[3] = "deleted" /\ s[4] = "archived" /\ Len(s) = 4
    BY <2>1
  <2> QED BY <1>1, <1>6, <2>2
<1> QED BY <1>1, <1>2, <1>3, <1>4, <1>5, <1>6

LEMMA DomainOfSteps ==
  ASSUME NEW h \in Handler, h.step \in DOMAIN Steps(h.kind, h.copy.conv)
  PROVE  DOMAIN Steps(h.kind, h.copy.conv) = 1 .. Len(Steps(h.kind, h.copy.conv))
<1> DEFINE s == Steps(h.kind, h.copy.conv)
<1>1. h.kind \in {"persist", "receipt", "archive", "update"}
  BY DEF Handler
<1>2. s \in {<<"message", "conversation">>, <<"message">>, <<"told", "mine", "theirs">>,
             <<"conversation", "told">>,
             <<"conversation", "detail", "deleted", "archived">>}
  BY <1>1 DEF Steps
<1> QED BY <1>2

\* h goes on as g, with a new position or phase.
Same(h, g) ==
  /\ g \in Handler /\ g.step \in DOMAIN Steps(g.kind, g.copy.conv)
  /\ g.kind = h.kind /\ g.copy = h.copy

Onward(h, g) == Same(h, g) /\ g.step = h.step + 1 /\ g.phase = "go" /\ g.detail = h.detail

Waits(h, g) == Same(h, g) /\ g.step = h.step /\ g.phase = "wait" /\ g.detail = h.detail

Replaced(h, g) == handlers' = (handlers \ {h}) \cup {g}

LEMMA HandlerMoves ==
  ASSUME TypeOK, NEW h \in handlers
  PROVE  /\ Advance(h) =>
              \/ h.step = Len(Steps(h.kind, h.copy.conv)) /\ End(h)
              \/ \E g \in Handler : Onward(h, g) /\ Replaced(h, g)
         /\ Wait(h) => \E g \in Handler : Waits(h, g) /\ Replaced(h, g)
<1>1. h \in Handler /\ h.step \in DOMAIN Steps(h.kind, h.copy.conv)
  BY DEF TypeOK
<1> DEFINE s == Steps(h.kind, h.copy.conv)
<1>2. DOMAIN s = 1 .. Len(s) /\ Len(s) \in {1, 2, 3, 4} /\ h.step \in DOMAIN s
  BY <1>1, DomainOfSteps, Positions
<1>3. h.step \in 1 .. 4
  BY <1>1 DEF Handler
<1>4. ASSUME Advance(h), h.step # Len(s)
      PROVE  \E g \in Handler : Onward(h, g) /\ Replaced(h, g)
  <2> DEFINE g == [h EXCEPT !.step = @ + 1, !.phase = "go"]
  <2>1. h.step + 1 \in DOMAIN s /\ h.step + 1 \in 1 .. 4
    <3> HIDE DEF s
    <3> QED BY <1>2, <1>3, <1>4
  <2>2. g \in Handler /\ g.step = h.step + 1 /\ g.phase = "go" /\ g.detail = h.detail
        /\ g.kind = h.kind /\ g.copy = h.copy
    BY <1>1, <2>1 DEF Handler
  <2>3. Replaced(h, g)
    BY <1>4 DEF Advance, Replaced
  <2> QED
    <3> HIDE DEF g
    <3> QED BY <2>1, <2>2, <2>3 DEF Onward, Same
<1>5. ASSUME Wait(h) PROVE \E g \in Handler : Waits(h, g) /\ Replaced(h, g)
  <2> DEFINE g == [h EXCEPT !.phase = "wait"]
  <2>1. g \in Handler /\ g.step = h.step /\ g.phase = "wait" /\ g.detail = h.detail
        /\ g.kind = h.kind /\ g.copy = h.copy
    BY <1>1 DEF Handler
  <2>2. Replaced(h, g)
    BY <1>5 DEF Wait, Replaced
  <2> QED
    <3> HIDE DEF g
    <3> QED BY <1>1, <2>1, <2>2 DEF Waits, Same
<1>6. Advance(h) /\ h.step = Len(s) => End(h)
  BY DEF Advance
<1> QED BY <1>4, <1>5, <1>6

LEMMA SameJob ==
  ASSUME NEW h, NEW g, Same(h, g)
  PROVE  JobOf(g) = JobOf(h)
BY DEF Same, JobOf

LEMMA JobTypes ==
  ASSUME NEW h \in Handler
  PROVE  JobOf(h) \in Job /\ JobOf(h).kind = h.kind /\ JobOf(h).copy = h.copy
BY DEF Handler, JobOf, Job

-----------------------------------------------------------------------------
(* Type correctness.                                                       *)

HandlersOK ==
  /\ handlers \subseteq Handler
  /\ \A h \in handlers : h.step \in DOMAIN Steps(h.kind, h.copy.conv)

LEMMA MoveTypes ==
  ASSUME TypeOK, NEW h \in handlers, Advance(h) \/ Wait(h) \/ End(h)
  PROVE  HandlersOK'
<1>1. \/ \E g \in Handler : Same(h, g) /\ Replaced(h, g)
      \/ End(h)
  BY HandlerMoves DEF Onward, Waits
<1>2. CASE End(h)
  BY <1>2 DEF End, TypeOK, HandlersOK
<1>3. CASE \E g \in Handler : Same(h, g) /\ Replaced(h, g)
  BY <1>3 DEF Same, Replaced, TypeOK, HandlersOK
<1> QED BY <1>1, <1>2, <1>3

LEMMA TakeTypes ==
  ASSUME TypeOK, NEW job \in Job, Take(job)
  PROVE  HandlersOK' /\ raced' \subseteq Place
<1>1. raced' \subseteq Place
  <2>1. job.copy \in Copies /\ job.kind \in {"persist", "receipt", "seen", "archive", "update"}
    BY DEF Job
  <2>2. Places(job) \subseteq Place
    BY <2>1, CopyFields DEF Places, Home, Far
  <2> QED BY <2>2 DEF Take, Races, TypeOK
<1>2. CASE Steps(job.kind, job.copy.conv) = <<>>
  BY <1>1, <1>2 DEF Take, TypeOK, HandlersOK
<1>3. CASE Steps(job.kind, job.copy.conv) # <<>>
  <2> DEFINE g == [kind |-> job.kind, copy |-> job.copy, step |-> 1, phase |-> "go",
                   detail |-> NoConversation]
  <2>1. job.kind # "seen"
    BY <1>3 DEF Steps
  <2>2. NoConversation \in Conversation
    BY DEF NoConversation, Conversation
  <2>3. g \in Handler
    BY <2>1, <2>2 DEF Handler, Job
  <2>4. g.step \in DOMAIN Steps(g.kind, g.copy.conv)
    <3>1. Steps(job.kind, job.copy.conv) \in
            {<<"message", "conversation">>, <<"message">>, <<"told", "mine", "theirs">>,
             <<"conversation", "told">>,
             <<"conversation", "detail", "deleted", "archived">>}
      BY <2>1 DEF Steps, Job
    <3> QED BY <3>1
  <2>5. handlers' = handlers \cup {g}
    BY <1>3 DEF Take
  <2> HIDE DEF g
  <2> QED BY <1>1, <2>3, <2>4, <2>5 DEF TypeOK, HandlersOK
<1> QED BY <1>1, <1>2, <1>3

\* Writing a message document.
LEMMA SetTypes ==
  ASSUME NEW h \in Handler, h.step \in DOMAIN Steps(h.kind, h.copy.conv),
         At(h) \in {"message", "mine", "theirs"}
  PROVE  /\ PlaceOf(h) \in Place
         /\ \A doc \in Document \cup {NoDocument} : SetMessage(h, doc) \in Document
<1>1. h.copy \in Copies /\ h.copy.status \in {SENT, DELIVERED}
  BY CopyFields DEF Handler
<1>2. PlaceOf(h) \in Place
  BY <1>1, CopyFields DEF PlaceOf, Home, Far
<1>3. ASSUME NEW doc \in Document \cup {NoDocument}
      PROVE  SetMessage(h, doc) \in Document
  <2>0. doc \in [whole : BOOLEAN,
                 status : {SENT, DELIVERED, RECEIVED, RETURN_RECEIPT, NONE}]
    <3>1. CASE doc \in Document
      BY <3>1 DEF Document
    <3>2. CASE doc = [whole |-> FALSE, status |-> NONE]
      BY <3>2
    <3> QED BY <3>1, <3>2 DEF NoDocument
  <2>1. CASE At(h) = "message"
    BY <1>1, <2>1 DEF SetMessage, Document
  <2>2. CASE At(h) = "mine"
    <3>1. [doc EXCEPT !.status = RECEIVED] \in Document
      BY <2>0 DEF Document
    <3>2. SetMessage(h, doc) = [doc EXCEPT !.status = RECEIVED]
      BY <2>2 DEF SetMessage
    <3> QED BY <3>1, <3>2
  <2>3. CASE At(h) = "theirs"
    <3>1. [doc EXCEPT !.status = RETURN_RECEIPT] \in Document
      BY <2>0 DEF Document
    <3>2. SetMessage(h, doc) = [doc EXCEPT !.status = RETURN_RECEIPT]
      BY <2>3 DEF SetMessage
    <3> QED BY <3>1, <3>2
  <2> QED BY <2>1, <2>2, <2>3
<1> QED BY <1>2, <1>3

\* What the two ways of writing a document leave in its place.
LEMMA WrittenTypes ==
  ASSUME TypeOK, NEW h \in handlers, UpdateMessage(h) \/ InsertMessage(h)
  PROVE  /\ messages' \in [Place -> Seq(Document)]
         /\ \A k \in Place \ {PlaceOf(h)} : messages'[k] = messages[k]
         /\ PlaceOf(h) \in Place
<1>1. h \in Handler /\ h.step \in DOMAIN Steps(h.kind, h.copy.conv)
      /\ At(h) \in {"message", "mine", "theirs"}
  BY DEF TypeOK, UpdateMessage, InsertMessage
<1> DEFINE k == PlaceOf(h)
<1>2. k \in Place /\ \A doc \in Document \cup {NoDocument} : SetMessage(h, doc) \in Document
  BY <1>1, SetTypes
<1>3. messages \in [Place -> Seq(Document)] /\ messages[k] \in Seq(Document)
  BY <1>2 DEF TypeOK
<1> HIDE DEF k
<1>4. CASE UpdateMessage(h)
  <2>1. PICK i \in DOMAIN messages[k] :
          messages' = [messages EXCEPT ![k] =
                         [messages[k] EXCEPT ![i] = SetMessage(h, messages[k][i])]]
    BY <1>4 DEF UpdateMessage, k
  <2>2. i \in 1 .. Len(messages[k]) /\ messages[k][i] \in Document
    BY <1>3, LenProperties, ElementOfSeq
  <2>3. [messages[k] EXCEPT ![i] = SetMessage(h, messages[k][i])] \in Seq(Document)
    BY <1>2, <1>3, <2>2, ExceptSeq
  <2> QED BY <1>2, <1>3, <2>1, <2>3 DEF k
<1>5. CASE InsertMessage(h)
  <2>1. messages' = [messages EXCEPT ![k] = Append(@, SetMessage(h, NoDocument))]
    BY <1>5 DEF InsertMessage, k
  <2>2. Append(messages[k], SetMessage(h, NoDocument)) \in Seq(Document)
    BY <1>2, <1>3, AppendProperties
  <2> QED BY <1>2, <1>3, <2>1, <2>2 DEF k
<1> QED BY <1>4, <1>5

LEMMA ConversationTypes ==
  ASSUME TypeOK, NEW h \in handlers, At(h) = "conversation",
         conversations' = [conversations EXCEPT ![PairOf(h)] = SetConversation(h, @)]
  PROVE  /\ conversations' \in [Pair -> Conversation]
         /\ PairOf(h) \in Pair
         /\ conversations'[PairOf(h)] = SetConversation(h, conversations[PairOf(h)])
         /\ \A p \in Pair \ {PairOf(h)} : conversations'[p] = conversations[p]
<1>1. h \in Handler /\ h.copy \in Copies
  BY DEF TypeOK, Handler
<1>2. PairOf(h) \in Pair /\ h.copy.msg \in Msg
  BY <1>1, CopyFields DEF PairOf
<1>3. h.kind \in {"persist", "update", "archive"}
  BY <1>1, Positions DEF TypeOK
<1>4. \A c \in Conversation : SetConversation(h, c) \in Conversation
  BY <1>2, <1>3 DEF SetConversation, Conversation
<1> QED BY <1>2, <1>4 DEF TypeOK

LEMMA TypeInit == Init => TypeOK
<1> SUFFICES ASSUME Init PROVE TypeOK
  OBVIOUS
<1>1. /\ shown \subseteq Copies /\ queued \subseteq Copies /\ asked \subseteq Job
      /\ handlers = {} /\ announced \subseteq Notice /\ stored \subseteq Job
      /\ failed \subseteq Job /\ raced \subseteq Place
  BY DEF Init
<1>2. persistQueue \in Seq(Job) /\ messageQueue \in Seq(Job)
  BY EmptySeq DEF Init
<1>3. messages \in [Place -> Seq(Document)]
  BY EmptySeq DEF Init
<1>4. conversations \in [Pair -> Conversation]
  BY DEF Init, NoConversation, Conversation
<1>5. faults \in 0 .. MaxFaults
  BY ChatStoreAssumption DEF Init
<1> QED BY <1>1, <1>2, <1>3, <1>4, <1>5 DEF TypeOK

LEMMA TypeClients ==
  ASSUME TypeOK,
         \/ \E c \in Copies : ShowCopy(c) \/ QueuePersist(c)
         \/ \E kind \in Commands, c \in Copies : Ask(kind, c)
  PROVE  TypeOK'
<1>1. ASSUME NEW c \in Copies, ShowCopy(c) PROVE TypeOK'
  BY <1>1 DEF TypeOK, ShowCopy, clients, queues, database, history
<1>2. ASSUME NEW c \in Copies, QueuePersist(c) PROVE TypeOK'
  <2>1. [kind |-> "persist", copy |-> c] \in Job
    BY DEF Job
  <2>2. persistQueue' \in Seq(Job)
    BY <1>2, <2>1, AppendProperties DEF TypeOK, QueuePersist
  <2> QED BY <1>2, <2>2 DEF TypeOK, QueuePersist, database, history
<1>3. ASSUME NEW kind \in Commands, NEW c \in Copies, Ask(kind, c) PROVE TypeOK'
  <2> DEFINE job == [kind |-> kind, copy |-> c]
  <2>1. job \in Job
    BY ChatStoreAssumption DEF Job
  <2>2. asked' = asked \cup {job} /\ messageQueue' = Append(messageQueue, job)
    BY <1>3 DEF Ask
  <2> HIDE DEF job
  <2>3. messageQueue' \in Seq(Job)
    BY <2>1, <2>2, AppendProperties DEF TypeOK
  <2> QED BY <1>3, <2>1, <2>2, <2>3 DEF TypeOK, Ask, database, history
<1> QED BY <1>1, <1>2, <1>3

LEMMA TypeTake ==
  ASSUME TypeOK, TakePersist \/ TakeCommand
  PROVE  TypeOK'
<1>1. CASE TakePersist
  <2>1. Head(persistQueue) \in Job /\ persistQueue' \in Seq(Job)
    BY <1>1, HeadTailProperties DEF TypeOK, TakePersist
  <2>2. Take(Head(persistQueue)) /\ messageQueue' = messageQueue
    BY <1>1 DEF TakePersist
  <2>3. HandlersOK' /\ raced' \subseteq Place
    BY <2>1, <2>2, TakeTypes
  <2> QED BY <2>1, <2>2, <2>3 DEF TypeOK, HandlersOK, Take, clients, database
<1>2. CASE TakeCommand
  <2>1. Head(messageQueue) \in Job /\ messageQueue' \in Seq(Job)
    BY <1>2, HeadTailProperties DEF TypeOK, TakeCommand
  <2>2. Take(Head(messageQueue)) /\ persistQueue' = persistQueue
    BY <1>2 DEF TakeCommand
  <2>3. HandlersOK' /\ raced' \subseteq Place
    BY <2>1, <2>2, TakeTypes
  <2> QED BY <2>1, <2>2, <2>3 DEF TypeOK, HandlersOK, Take, clients, database
<1> QED BY <1>1, <1>2

LEMMA TypeWrite ==
  ASSUME TypeOK, NEW h \in handlers, Write(h)
  PROVE  TypeOK'
<1>0. h \in Handler /\ JobOf(h) \in Job
  BY JobTypes DEF TypeOK
<1>1. CASE UpdateMessage(h) \/ InsertMessage(h)
  <2>1. messages' \in [Place -> Seq(Document)]
    BY <1>1, WrittenTypes
  <2>2. MessageWritten(h)
    BY <1>1 DEF UpdateMessage, InsertMessage
  <2>3. HandlersOK'
    BY <2>2, MoveTypes DEF MessageWritten
  <2>4. stored' \subseteq Job
    BY <1>0, <2>2 DEF MessageWritten, TypeOK
  <2> QED BY <2>1, <2>2, <2>3, <2>4 DEF TypeOK, HandlersOK, MessageWritten, clients, queues
<1>2. CASE MissMessage(h) \/ MissConversation(h)
  <2>1. Wait(h) /\ UNCHANGED <<clients, queues, database, announced, history, faults>>
    BY <1>2 DEF MissMessage, MissConversation
  <2>2. HandlersOK'
    BY <2>1, MoveTypes
  <2> QED BY <2>1, <2>2 DEF TypeOK, HandlersOK, clients, queues, database, history
<1>3. CASE UpdateConversation(h) \/ InsertConversation(h)
  <2>1. At(h) = "conversation" /\ WriteConversation(h)
    BY <1>3 DEF UpdateConversation, InsertConversation
  <2>2. conversations' \in [Pair -> Conversation]
    BY <2>1, ConversationTypes DEF WriteConversation
  <2>3. HandlersOK'
    BY <2>1, MoveTypes DEF WriteConversation
  <2> QED BY <2>1, <2>2, <2>3
          DEF TypeOK, HandlersOK, WriteConversation, clients, queues, history
<1>4. CASE DuplicateKey(h)
  <2>1. HandlersOK'
    BY <1>4, MoveTypes DEF DuplicateKey
  <2> QED BY <1>0, <1>4, <2>1 DEF TypeOK, HandlersOK, DuplicateKey, clients, queues, database
<1> QED BY <1>1, <1>2, <1>3, <1>4 DEF Write

\* The archive handler goes on with the conversation it found, or ends.
LEMMA DetailMoves ==
  ASSUME TypeOK, NEW h \in handlers, Detail(h)
  PROVE  \/ End(h) /\ ~ Finds(conversations[PairOf(h)])
         \/ \E g \in Handler :
              /\ Same(h, g) /\ Replaced(h, g)
              /\ h.kind = "archive" /\ h.step = 2 /\ g.step = 3 /\ g.phase = h.phase
              /\ g.detail = conversations[PairOf(h)] /\ Finds(g.detail)
<1> DEFINE conv == conversations[PairOf(h)]
           g == [h EXCEPT !.step = @ + 1, !.detail = conv]
<1>1. h \in Handler /\ h.step \in DOMAIN Steps(h.kind, h.copy.conv) /\ At(h) = "detail"
      /\ h.copy \in Copies
  BY DEF TypeOK, Handler, Detail
<1>2. h.kind = "archive" /\ h.step = 2 /\ Len(Steps(h.kind, h.copy.conv)) = 4
  BY <1>1, Positions
<1>3. PairOf(h) \in Pair
  BY <1>1, CopyFields DEF PairOf
<1>4. conv \in Conversation
  BY <1>3 DEF TypeOK
<1>5. CASE Finds(conv)
  <2>1. Replaced(h, g)
    BY <1>5 DEF Detail, Replaced
  <2> HIDE DEF conv
  <2>2. g \in Handler /\ g.step = 3 /\ g.phase = h.phase /\ g.detail = conv
        /\ g.kind = h.kind /\ g.copy = h.copy
    <3>1. h.step + 1 = 3 /\ h.step + 1 \in 1 .. 4
      BY <1>2
    <3>2. g \in Handler
      BY <1>1, <1>4, <3>1 DEF Handler
    <3>3. g.step = h.step + 1 /\ g.phase = h.phase /\ g.detail = conv
          /\ g.kind = h.kind /\ g.copy = h.copy
      BY <1>1 DEF Handler
    <3> QED BY <3>1, <3>2, <3>3
  <2>3. 3 \in DOMAIN Steps(h.kind, h.copy.conv)
    BY <1>1, <1>2, DomainOfSteps
  <2> HIDE DEF g
  <2>4. Same(h, g)
    BY <2>2, <2>3 DEF Same
  <2> QED BY <1>2, <1>5, <2>1, <2>2, <2>4 DEF conv
<1>6. CASE ~ Finds(conv)
  BY <1>6 DEF Detail
<1> QED BY <1>5, <1>6

LEMMA TypeNotice ==
  ASSUME TypeOK, NEW h \in handlers,
         Detail(h) \/ DropNotice(h) \/ GiveNotice(h) \/ ConfirmNotice(h)
  PROVE  TypeOK'
<1>1. CASE Detail(h)
  <2>1. HandlersOK'
    <3>1. CASE End(h)
      BY <3>1, MoveTypes
    <3>2. CASE \E g \in Handler : Same(h, g) /\ Replaced(h, g)
      BY <3>2 DEF Same, Replaced, TypeOK, HandlersOK
    <3> QED BY <1>1, <3>1, <3>2, DetailMoves
  <2> QED BY <1>1, <2>1 DEF TypeOK, HandlersOK, Detail, clients, queues, database, history
<1>2. CASE DropNotice(h) \/ ConfirmNotice(h)
  <2>1. Advance(h) /\ UNCHANGED <<clients, queues, database, announced, history, faults>>
    BY <1>2 DEF DropNotice, ConfirmNotice
  <2>2. HandlersOK'
    BY <2>1, MoveTypes
  <2> QED BY <2>1, <2>2 DEF TypeOK, HandlersOK, clients, queues, database, history
<1>3. CASE GiveNotice(h)
  <2>1. HandlersOK'
    BY <1>3, MoveTypes DEF GiveNotice
  <2>2. h \in Handler /\ JobOf(h) \in Job /\ h.detail \in Conversation
    BY JobTypes DEF TypeOK, Handler
  <2>3. [topic |-> At(h), job |-> JobOf(h), detail |-> h.detail] \in Notice
    BY <1>3, <2>2 DEF GiveNotice, Topics, Notice
  <2>4. announced' \subseteq Notice
    BY <1>3, <2>3 DEF GiveNotice, TypeOK
  <2> QED BY <1>3, <2>1, <2>4 DEF TypeOK, HandlersOK, GiveNotice, clients, queues, database, history
<1> QED BY <1>1, <1>2, <1>3

LEMMA Suffix ==
  ASSUME NEW S, NEW s \in Seq(S), NEW n \in 0 .. Len(s)
  PROVE  LET t == SubSeq(s, n + 1, Len(s)) IN
         /\ t \in Seq(S) /\ Len(t) = Len(s) - n /\ DOMAIN t = 1 .. Len(s) - n
         /\ \A i \in DOMAIN t : i + n \in DOMAIN s /\ t[i] = s[i + n]
<1> DEFINE t == SubSeq(s, n + 1, Len(s))
<1>1. Len(s) \in Nat /\ DOMAIN s = 1 .. Len(s) /\ \A i \in 1 .. Len(s) : s[i] \in S
  BY LenProperties, ElementOfSeq
<1>2. n + 1 \in Int /\ Len(s) \in Int /\ \A i \in n + 1 .. Len(s) : s[i] \in S
  BY <1>1
<1>3. /\ t \in Seq(S)
      /\ Len(t) = IF n + 1 <= Len(s) THEN Len(s) - (n + 1) + 1 ELSE 0
      /\ \A i \in 1 .. Len(s) - (n + 1) + 1 : t[i] = s[n + 1 + i - 1]
  BY <1>2, SubSeqProperties
<1>4. Len(t) = Len(s) - n
  <2>1. Len(t) = IF n + 1 <= Len(s) THEN Len(s) - (n + 1) + 1 ELSE 0
    BY <1>3
  <2>2. Len(s) \in Nat /\ n \in 0 .. Len(s)
    BY <1>1
  <2> HIDE DEF t
  <2> QED BY ONLY <2>1, <2>2
<1>5. DOMAIN t = 1 .. Len(s) - n
  BY <1>3, <1>4, LenProperties
<1>6. ASSUME NEW i \in 1 .. Len(s) - n PROVE i + n \in DOMAIN s /\ t[i] = s[i + n]
  <2>1. i \in 1 .. Len(s) - (n + 1) + 1 /\ n + 1 + i - 1 = i + n /\ i + n \in 1 .. Len(s)
    BY <1>1
  <2> QED BY <1>1, <1>3, <2>1
<1> QED BY <1>3, <1>4, <1>5, <1>6

\* A crash takes a prefix of what a queue holds, or nothing of it.
Drops(q, t, n) ==
  /\ t \in Seq(Job) /\ Len(t) = Len(q) - n /\ DOMAIN t = 1 .. Len(q) - n
  /\ \A i \in DOMAIN t : i + n \in DOMAIN q /\ t[i] = q[i + n]

LEMMA CrashDrops ==
  ASSUME TypeOK, NEW kinds, Crash(kinds)
  PROVE  /\ \E n \in 0 .. Len(persistQueue) : Drops(persistQueue, persistQueue', n)
         /\ \E n \in 0 .. Len(messageQueue) : Drops(messageQueue, messageQueue', n)
         /\ handlers' \subseteq handlers
<1>1. ASSUME NEW q \in Seq(Job) PROVE 0 \in 0 .. Len(q) /\ q = SubSeq(q, 0 + 1, Len(q))
  <2>1. 0 \in 0 .. Len(q)
    BY LenProperties
  <2> QED BY <2>1, SubSeqFull
<1>2. persistQueue \in Seq(Job) /\ messageQueue \in Seq(Job)
  BY DEF TypeOK
<1>3. ASSUME NEW q \in Seq(Job), NEW n \in 0 .. Len(q)
      PROVE  Drops(q, SubSeq(q, n + 1, Len(q)), n)
  BY Suffix DEF Drops
<1>4. \E n \in 0 .. Len(persistQueue) : Drops(persistQueue, persistQueue', n)
  <2>1. \E n \in 0 .. Len(persistQueue) :
          persistQueue' = SubSeq(persistQueue, n + 1, Len(persistQueue))
    BY <1>1, <1>2 DEF Crash
  <2> QED BY <1>2, <1>3, <2>1
<1>5. \E n \in 0 .. Len(messageQueue) : Drops(messageQueue, messageQueue', n)
  <2>1. \E n \in 0 .. Len(messageQueue) :
          messageQueue' = SubSeq(messageQueue, n + 1, Len(messageQueue))
    BY <1>1, <1>2 DEF Crash
  <2> QED BY <1>2, <1>3, <2>1
<1> QED BY <1>4, <1>5 DEF Crash

LEMMA FaultCount == ASSUME TypeOK, faults < MaxFaults PROVE faults + 1 \in 1 .. MaxFaults
BY ChatStoreAssumption DEF TypeOK

LEMMA TypeFaults ==
  ASSUME TypeOK, (\E h \in handlers : Fail(h)) \/ (\E kinds \in Processes : Crash(kinds))
  PROVE  TypeOK'
<1>1. ASSUME NEW h \in handlers, Fail(h) PROVE TypeOK'
  <2>1. HandlersOK'
    BY <1>1, MoveTypes DEF Fail, OnError
  <2>2. JobOf(h) \in Job
    BY JobTypes DEF TypeOK
  <2>3. faults' \in 0 .. MaxFaults
    BY <1>1, FaultCount DEF Fail
  <2> QED BY <1>1, <2>1, <2>2, <2>3 DEF TypeOK, HandlersOK, Fail, clients, queues, database
<1>2. ASSUME NEW kinds \in Processes, Crash(kinds) PROVE TypeOK'
  <2>1. persistQueue' \in Seq(Job) /\ messageQueue' \in Seq(Job)
    BY <1>2, CrashDrops DEF Drops
  <2>2. HandlersOK'
    BY <1>2, CrashDrops DEF TypeOK, HandlersOK
  <2>3. faults' \in 0 .. MaxFaults
    BY <1>2, FaultCount DEF Crash
  <2> QED BY <1>2, <2>1, <2>2, <2>3 DEF TypeOK, HandlersOK, Crash, clients, database, history
<1> QED BY <1>1, <1>2

LEMMA TypeNext == TypeOK /\ [Next]_vars => TypeOK'
<1> SUFFICES ASSUME TypeOK, [Next]_vars PROVE TypeOK'
  OBVIOUS
<1>1. CASE UNCHANGED vars
  BY <1>1 DEF TypeOK, vars, clients, queues, database, history
<1>2. CASE Next
  BY <1>2, TypeClients, TypeTake, TypeWrite, TypeNotice, TypeFaults DEF Next, Step
<1> QED BY <1>1, <1>2

\* Every variable of ChatStore keeps its type, and no handler is outside its steps.
THEOREM TypeCorrect == Spec => []TypeOK
<1> QED BY TypeInit, TypeNext, PTL DEF Spec

-----------------------------------------------------------------------------
(* How handlers go on.                                                     *)

\* How a handler goes on, step by step.
LEMMA WriteMoves ==
  ASSUME TypeOK, NEW h \in handlers, Write(h)
  PROVE  /\ At(h) \in {"message", "mine", "theirs", "conversation"}
         /\ UNCHANGED <<clients, queues, announced, raced, faults>>
         /\ \/ End(h)
            \/ \E g \in Handler : (Onward(h, g) \/ Waits(h, g)) /\ Replaced(h, g)
<1>1. CASE UpdateMessage(h) \/ InsertMessage(h)
  <2>1. MessageWritten(h) /\ At(h) \in {"message", "mine", "theirs"}
    BY <1>1 DEF UpdateMessage, InsertMessage
  <2> QED BY <2>1, HandlerMoves DEF MessageWritten
<1>2. CASE MissMessage(h) \/ MissConversation(h)
  BY <1>2, HandlerMoves DEF MissMessage, MissConversation, history
<1>3. CASE UpdateConversation(h) \/ InsertConversation(h)
  <2>1. WriteConversation(h) /\ At(h) = "conversation"
    BY <1>3 DEF UpdateConversation, InsertConversation
  <2> QED BY <2>1, HandlerMoves DEF WriteConversation, history
<1>4. CASE DuplicateKey(h)
  BY <1>4, HandlerMoves DEF DuplicateKey, database
<1> QED BY <1>1, <1>2, <1>3, <1>4 DEF Write

LEMMA NoticeMoves ==
  ASSUME TypeOK, NEW h \in handlers,
         DropNotice(h) \/ GiveNotice(h) \/ ConfirmNotice(h)
  PROVE  /\ At(h) \in Topics
         /\ UNCHANGED <<clients, queues, database, history, faults>>
         /\ \/ End(h)
            \/ \E g \in Handler : (Onward(h, g) \/ Waits(h, g)) /\ Replaced(h, g)
<1>1. CASE DropNotice(h) \/ ConfirmNotice(h)
  BY <1>1, HandlerMoves DEF DropNotice, ConfirmNotice
<1>2. CASE GiveNotice(h)
  BY <1>2, HandlerMoves DEF GiveNotice
<1> QED BY <1>1, <1>2

\* Only process_persist goes on after an error.
LEMMA FailMoves ==
  ASSUME TypeOK, NEW h \in handlers, Fail(h)
  PROVE  /\ UNCHANGED <<clients, queues, database, announced, stored, raced>>
         /\ \/ End(h)
            \/ /\ h.kind = "persist" /\ h.step = 1
               /\ \E g \in Handler : Onward(h, g) /\ Replaced(h, g)
<1>1. h \in Handler /\ h.step \in DOMAIN Steps(h.kind, h.copy.conv)
  BY DEF TypeOK
<1>2. At(h) = "message" => h.kind = "persist" /\ h.step = 1
  BY <1>1, Positions
<1> QED BY <1>2, HandlerMoves DEF Fail, OnError

\* A job that is taken starts a handler at its first step, or none.
Started(job) ==
  \E g \in Handler :
    /\ g.step \in DOMAIN Steps(g.kind, g.copy.conv)
    /\ JobOf(g) = job /\ g.kind = job.kind /\ g.copy = job.copy
    /\ g.step = 1 /\ g.phase = "go"
    /\ handlers' = handlers \cup {g}

LEMMA TakeStarts ==
  ASSUME TypeOK, NEW job \in Job, Take(job)
  PROVE  /\ handlers' = handlers \/ Started(job)
         /\ job.kind # "seen" => Started(job)
<1>1. HandlersOK'
  BY TakeTypes
<1> DEFINE g == [kind |-> job.kind, copy |-> job.copy, step |-> 1, phase |-> "go",
                 detail |-> NoConversation]
<1>2. CASE Steps(job.kind, job.copy.conv) # <<>>
  <2>1. handlers' = handlers \cup {g}
    BY <1>2 DEF Take
  <2>2. g \in Handler /\ g.step \in DOMAIN Steps(g.kind, g.copy.conv)
    <3> HIDE DEF g
    <3> QED BY <1>1, <2>1 DEF HandlersOK
  <2>3. JobOf(g) = job
    BY DEF JobOf, Job
  <2>4. g.kind = job.kind /\ g.copy = job.copy /\ g.step = 1 /\ g.phase = "go"
    OBVIOUS
  <2> HIDE DEF g
  <2> QED BY <2>1, <2>2, <2>3, <2>4 DEF Started
<1>3. CASE Steps(job.kind, job.copy.conv) = <<>>
  <2>1. job.kind = "seen"
    <3>1. job.kind \in {"persist", "receipt", "seen", "archive", "update"}
      BY DEF Job
    <3>2. <<"message", "conversation">> # <<>> /\ <<"message">> # <<>>
          /\ <<"told", "mine", "theirs">> # <<>> /\ <<"conversation", "told">> # <<>>
          /\ <<"conversation", "detail", "deleted", "archived">> # <<>>
      OBVIOUS
    <3> QED BY <1>3, <3>1, <3>2 DEF Steps
  <2> QED BY <1>3, <2>1 DEF Take
<1> QED BY <1>2, <1>3

LEMMA TakeMoves ==
  ASSUME TypeOK, TakePersist \/ TakeCommand
  PROVE  /\ UNCHANGED <<clients, database, announced, stored, failed, faults>>
         /\ handlers' = handlers \/ \E job \in Job : Started(job)
<1>1. CASE TakePersist
  <2>1. Take(Head(persistQueue)) /\ Head(persistQueue) \in Job
    BY <1>1, HeadTailProperties DEF TakePersist, TypeOK
  <2> QED BY <2>1, TakeStarts DEF Take
<1>2. CASE TakeCommand
  <2>1. Take(Head(messageQueue)) /\ Head(messageQueue) \in Job
    BY <1>2, HeadTailProperties DEF TakeCommand, TypeOK
  <2> QED BY <2>1, TakeStarts DEF Take
<1> QED BY <1>1, <1>2

LEMMA ClientMoves ==
  ASSUME \/ \E c \in Copies : ShowCopy(c) \/ QueuePersist(c)
         \/ \E kind \in Commands, c \in Copies : Ask(kind, c)
  PROVE  UNCHANGED <<handlers, database, announced, history, faults>>
BY DEF ShowCopy, QueuePersist, Ask

-----------------------------------------------------------------------------
(* Where jobs come from.                                                   *)

LEMMA IssuedStays ==
  ASSUME NEW j, Issued(j), queued \subseteq queued', asked \subseteq asked'
  PROVE  Issued(j)'
BY DEF Issued

LEMMA OriginsClients ==
  ASSUME TypeOK, Origins,
         \/ \E c \in Copies : ShowCopy(c) \/ QueuePersist(c)
         \/ \E kind \in Commands, c \in Copies : Ask(kind, c)
  PROVE  Origins'
<1>0. /\ persistQueue \in Seq(Job) /\ messageQueue \in Seq(Job)
      /\ \A h \in handlers : Issued(JobOf(h))
      /\ \A j \in stored : Issued(j)
      /\ UNCHANGED <<handlers, stored>>
  BY ClientMoves DEF TypeOK, Origins, history
<1>1. ASSUME NEW c \in Copies, ShowCopy(c) PROVE Origins'
  <2>1. /\ shown' = shown \cup {c}
        /\ UNCHANGED <<queued, asked, persistQueue, messageQueue>>
        /\ \E w \in Workloads : shown \cup {c} \subseteq w
        /\ \A d \in Copies : SenderOf(d, c) => d \in queued
    BY <1>1 DEF ShowCopy, queues
  <2> QED BY <1>0, <2>1 DEF Origins, Issued
<1>2. ASSUME NEW c \in Copies, QueuePersist(c) PROVE Origins'
  <2> DEFINE job == [kind |-> "persist", copy |-> c]
  <2>1. /\ c \in shown /\ queued' = queued \cup {c}
        /\ persistQueue' = Append(persistQueue, job)
        /\ UNCHANGED <<shown, asked, messageQueue>>
    BY <1>2 DEF QueuePersist
  <2>2. job \in Job /\ job.kind = "persist" /\ job.copy = c
    BY DEF Job
  <2> HIDE DEF job
  <2>3. (\A i \in DOMAIN persistQueue :
           persistQueue[i].kind = "persist" /\ Issued(persistQueue[i]))'
    <3>1. /\ DOMAIN persistQueue' = 1 .. Len(persistQueue) + 1 /\ Len(persistQueue) \in Nat
          /\ DOMAIN persistQueue = 1 .. Len(persistQueue)
          /\ \A i \in 1 .. Len(persistQueue) : persistQueue'[i] = persistQueue[i]
          /\ persistQueue'[Len(persistQueue) + 1] = job
      BY <1>0, <2>1, <2>2, AppendProperties, LenProperties
    <3>2. ASSUME NEW i \in DOMAIN persistQueue'
          PROVE  (persistQueue[i].kind = "persist" /\ Issued(persistQueue[i]))'
      <4>1. CASE i \in 1 .. Len(persistQueue)
        BY <2>1, <3>1, <4>1 DEF Origins, Issued
      <4>2. CASE i = Len(persistQueue) + 1
        BY <2>1, <2>2, <3>1, <4>2 DEF Issued
      <4> QED BY <3>1, <4>1, <4>2
    <3> QED BY <3>2
  <2> QED BY <1>0, <2>1, <2>3 DEF Origins, Issued
<1>3. ASSUME NEW kind \in Commands, NEW c \in Copies, Ask(kind, c) PROVE Origins'
  <2> DEFINE job == [kind |-> kind, copy |-> c]
  <2>1. /\ c \in shown /\ asked' = asked \cup {job}
        /\ messageQueue' = Append(messageQueue, job)
        /\ UNCHANGED <<shown, queued, persistQueue>>
        /\ kind = "receipt" => c.status = DELIVERED
    BY <1>3 DEF Ask
  <2>2. job \in Job /\ job.kind = kind /\ job.copy = c /\ kind # "persist"
    BY ChatStoreAssumption DEF Job
  <2> HIDE DEF job
  <2>3. (\A i \in DOMAIN messageQueue :
           messageQueue[i].kind # "persist" /\ Issued(messageQueue[i]))'
    <3>1. /\ DOMAIN messageQueue' = 1 .. Len(messageQueue) + 1 /\ Len(messageQueue) \in Nat
          /\ DOMAIN messageQueue = 1 .. Len(messageQueue)
          /\ \A i \in 1 .. Len(messageQueue) : messageQueue'[i] = messageQueue[i]
          /\ messageQueue'[Len(messageQueue) + 1] = job
      BY <1>0, <2>1, <2>2, AppendProperties, LenProperties
    <3>2. ASSUME NEW i \in DOMAIN messageQueue'
          PROVE  (messageQueue[i].kind # "persist" /\ Issued(messageQueue[i]))'
      <4>1. CASE i \in 1 .. Len(messageQueue)
        BY <2>1, <3>1, <4>1 DEF Origins, Issued
      <4>2. CASE i = Len(messageQueue) + 1
        BY <2>1, <2>2, <3>1, <4>2 DEF Issued
      <4> QED BY <3>1, <4>1, <4>2
    <3> QED BY <3>2
  <2>4. \A j \in asked' :
          /\ j.copy \in shown' /\ j.kind # "persist"
          /\ j.kind = "receipt" => j.copy.status = DELIVERED
    BY <2>1, <2>2 DEF Origins
  <2> QED BY <1>0, <2>1, <2>3, <2>4 DEF Origins, Issued
<1> QED BY <1>1, <1>2, <1>3

\* What is left of the queues and the handlers was there, or was taken from them.
LEMMA OriginsLater ==
  ASSUME TypeOK, Origins, UNCHANGED clients,
         \A i \in DOMAIN persistQueue' : \E k \in DOMAIN persistQueue :
           persistQueue'[i] = persistQueue[k],
         \A i \in DOMAIN messageQueue' : \E k \in DOMAIN messageQueue :
           messageQueue'[i] = messageQueue[k],
         \A h \in handlers' :
           \/ \E g \in handlers : JobOf(h) = JobOf(g)
           \/ \E k \in DOMAIN persistQueue : JobOf(h) = persistQueue[k]
           \/ \E k \in DOMAIN messageQueue : JobOf(h) = messageQueue[k],
         \A j \in stored' : j \in stored \/ \E g \in handlers : j = JobOf(g)
  PROVE  Origins'
<1>1. shown' = shown /\ queued' = queued /\ asked' = asked
  BY DEF clients
<1>2. \A j : Issued(j)' <=> Issued(j)
  BY <1>1 DEF Issued
<1>3. \A h \in handlers' : Issued(JobOf(h))
  BY DEF Origins
<1>4. \A h \in handlers' : Issued(JobOf(h))'
  BY <1>1, <1>3 DEF Issued, JobOf
<1>5. \A j \in stored' : Issued(j)
  BY DEF Origins
<1>6. \A i \in DOMAIN persistQueue' :
        persistQueue'[i].kind = "persist" /\ Issued(persistQueue'[i])
  BY DEF Origins
<1>7. \A i \in DOMAIN messageQueue' :
        messageQueue'[i].kind # "persist" /\ Issued(messageQueue'[i])
  BY DEF Origins
<1> QED BY <1>1, <1>2, <1>4, <1>5, <1>6, <1>7 DEF Origins

\* A queue after its head was taken.
LEMMA TailOf ==
  ASSUME NEW S, NEW s \in Seq(S), s # <<>>
  PROVE  /\ Head(s) = s[1] /\ 1 \in DOMAIN s
         /\ DOMAIN s = 1 .. Len(s) /\ Len(s) \in Nat
         /\ DOMAIN Tail(s) = 1 .. Len(s) - 1
         /\ \A i \in DOMAIN Tail(s) : i + 1 \in DOMAIN s /\ Tail(s)[i] = s[i + 1]
<1>1. Len(s) \in Nat \ {0} /\ DOMAIN s = 1 .. Len(s)
  BY EmptySeq, LenProperties
<1>2. Tail(s) \in Seq(S) /\ Len(Tail(s)) = Len(s) - 1
      /\ \A i \in 1 .. Len(Tail(s)) : Tail(s)[i] = s[i + 1]
  BY HeadTailProperties
<1>3. DOMAIN Tail(s) = 1 .. Len(s) - 1
  BY <1>2, LenProperties
<1>4. Head(s) = s[1]
  OBVIOUS
<1>5. \A i \in 1 .. Len(s) - 1 : i + 1 \in DOMAIN s
  BY <1>1
<1> QED BY <1>1, <1>2, <1>3, <1>4, <1>5

\* The jobs of the handlers after a step of one of them.
LEMMA StepJobs ==
  ASSUME TypeOK, NEW h \in handlers, Step(h) \/ Fail(h)
  PROVE  /\ UNCHANGED <<clients, queues>>
         /\ \A x \in handlers' : \E y \in handlers : JobOf(x) = JobOf(y)
         /\ stored' \subseteq stored \cup {JobOf(h)}
<1>1. \/ End(h)
      \/ \E g \in Handler : Same(h, g) /\ Replaced(h, g)
  <2>1. CASE Write(h)
    BY <2>1, WriteMoves DEF Onward, Waits
  <2>2. CASE Detail(h)
    BY <2>2, DetailMoves
  <2>3. CASE DropNotice(h) \/ GiveNotice(h) \/ ConfirmNotice(h)
    BY <2>3, NoticeMoves DEF Onward, Waits
  <2>4. CASE Fail(h)
    BY <2>4, FailMoves DEF Onward
  <2> QED BY <2>1, <2>2, <2>3, <2>4 DEF Step
<1>2. \A x \in handlers' : \E y \in handlers : JobOf(x) = JobOf(y)
  <2>1. CASE End(h)
    BY <2>1 DEF End
  <2>2. CASE \E g \in Handler : Same(h, g) /\ Replaced(h, g)
    BY <2>2, SameJob DEF Replaced
  <2> QED BY <1>1, <2>1, <2>2
<1>3. UNCHANGED <<clients, queues>>
  BY WriteMoves, NoticeMoves, FailMoves DEF Step, Detail
<1>4. stored' \subseteq stored \cup {JobOf(h)}
  <2>1. CASE Write(h)
    BY <2>1 DEF Write, UpdateMessage, InsertMessage, MessageWritten, MissMessage,
                MissConversation, UpdateConversation, InsertConversation,
                WriteConversation, DuplicateKey, history
  <2>2. CASE ~ Write(h)
    BY <2>2, NoticeMoves, FailMoves DEF Step, Detail, history
  <2> QED BY <2>1, <2>2
<1> QED BY <1>2, <1>3, <1>4

LEMMA OriginsNext == TypeOK /\ Origins /\ [Next]_vars => Origins'
<1> SUFFICES ASSUME TypeOK, Origins, [Next]_vars PROVE Origins'
  OBVIOUS
<1>0. persistQueue \in Seq(Job) /\ messageQueue \in Seq(Job)
  BY DEF TypeOK
<1>1. CASE UNCHANGED vars
  BY <1>1, OriginsLater DEF vars, queues, history
<1>2. CASE \/ \E c \in Copies : ShowCopy(c) \/ QueuePersist(c)
           \/ \E kind \in Commands, c \in Copies : Ask(kind, c)
  BY <1>2, OriginsClients
<1>3. CASE TakePersist
  <2>1. /\ persistQueue # <<>> /\ persistQueue' = Tail(persistQueue)
        /\ messageQueue' = messageQueue /\ UNCHANGED <<clients, stored>>
        /\ Head(persistQueue) \in Job /\ Take(Head(persistQueue))
    BY <1>0, <1>3, HeadTailProperties DEF TakePersist, Take
  <2>2. handlers' = handlers \/ Started(persistQueue[1])
    BY <1>0, <2>1, TailOf, TakeStarts
  <2>3. \A h \in handlers' :
          h \in handlers \/ \E k \in DOMAIN persistQueue : JobOf(h) = persistQueue[k]
    BY <1>0, <2>1, <2>2, TailOf DEF Started
  <2>4. \A i \in DOMAIN persistQueue' : \E k \in DOMAIN persistQueue :
          persistQueue'[i] = persistQueue[k]
    BY <1>0, <2>1, TailOf
  <2> QED BY <2>1, <2>3, <2>4, OriginsLater
<1>4. CASE TakeCommand
  <2>1. /\ messageQueue # <<>> /\ messageQueue' = Tail(messageQueue)
        /\ persistQueue' = persistQueue /\ UNCHANGED <<clients, stored>>
        /\ Head(messageQueue) \in Job /\ Take(Head(messageQueue))
    BY <1>0, <1>4, HeadTailProperties DEF TakeCommand, Take
  <2>2. handlers' = handlers \/ Started(messageQueue[1])
    BY <1>0, <2>1, TailOf, TakeStarts
  <2>3. \A h \in handlers' :
          h \in handlers \/ \E k \in DOMAIN messageQueue : JobOf(h) = messageQueue[k]
    BY <1>0, <2>1, <2>2, TailOf DEF Started
  <2>4. \A i \in DOMAIN messageQueue' : \E k \in DOMAIN messageQueue :
          messageQueue'[i] = messageQueue[k]
    BY <1>0, <2>1, TailOf
  <2> QED BY <2>1, <2>3, <2>4, OriginsLater
<1>5. ASSUME NEW h \in handlers, Step(h) \/ Fail(h) PROVE Origins'
  BY <1>5, StepJobs, OriginsLater DEF queues
<1>6. ASSUME NEW kinds \in Processes, Crash(kinds) PROVE Origins'
  <2>1. handlers' \subseteq handlers /\ UNCHANGED <<clients, stored>>
    BY <1>6, CrashDrops DEF Crash, history
  <2>2. \A i \in DOMAIN persistQueue' : \E k \in DOMAIN persistQueue :
          persistQueue'[i] = persistQueue[k]
    BY <1>6, CrashDrops DEF Drops
  <2>3. \A i \in DOMAIN messageQueue' : \E k \in DOMAIN messageQueue :
          messageQueue'[i] = messageQueue[k]
    BY <1>6, CrashDrops DEF Drops
  <2> QED BY <2>1, <2>2, <2>3, OriginsLater
<1> QED BY <1>1, <1>2, <1>3, <1>4, <1>5, <1>6 DEF Next

LEMMA OriginsInit == Init => Origins
BY DEF Init, Origins

-----------------------------------------------------------------------------
(* What the clients are told of the archive.                               *)

LEMMA TellingStays ==
  ASSUME NEW h, NEW p, Telling(h, p), announced \subseteq announced',
         conversations'[p].last = conversations[p].last
  PROVE  Telling(h, p)'
BY DEF Telling, Notified, PairOf, JobOf, Fits, KeyLength

LEMMA ToldStays ==
  ASSUME NEW p, ToldOf(p), announced \subseteq announced', asked \subseteq asked',
         conversations'[p].last = conversations[p].last
  PROVE  ToldOf(p)'
BY DEF ToldOf, Notified, Fits, KeyLength

\* Nothing that concerns p was written, and who was telling of it still is.
LEMMA AnnouncingStays ==
  ASSUME NEW p, Announcing(p), announced \subseteq announced', asked \subseteq asked',
         conversations'[p].last = conversations[p].last,
         Finds(conversations'[p]) => Finds(conversations[p]),
         \A x \in handlers : Telling(x, p) => x \in handlers'
  PROVE  Announcing(p)'
<1>1. CASE ~ Finds(conversations'[p])
  BY <1>1 DEF Announcing, Finds
<1>2. CASE Finds(conversations[p]) /\ ToldOf(p)
  BY <1>2, ToldStays DEF Announcing
<1>3. CASE \E x \in handlers : Telling(x, p)
  BY <1>3, TellingStays DEF Announcing
<1> QED BY <1>1, <1>2, <1>3 DEF Announcing

LEMMA AnnouncingWrite ==
  ASSUME TypeOK, NEW h \in handlers, Write(h), NEW p \in Pair, Announcing(p)
  PROVE  Announcing(p)'
<1>0. /\ h \in Handler /\ h.step \in DOMAIN Steps(h.kind, h.copy.conv)
      /\ announced' = announced /\ asked' = asked
      /\ At(h) \in {"message", "mine", "theirs", "conversation"}
  BY WriteMoves DEF TypeOK, clients
<1>1. h.kind = "archive" => h.step = 1 /\ At(h) = "conversation"
  BY <1>0, Positions
<1>2. \A x \in handlers : Telling(x, p) => x \in handlers'
  <2>1. ~ Telling(h, p)
    BY <1>1 DEF Telling
  <2>2. handlers \ {h} \subseteq handlers'
    BY WriteMoves DEF End, Replaced
  <2> QED BY <2>1, <2>2
<1>3. CASE conversations'[p] = conversations[p]
  BY <1>0, <1>2, <1>3, AnnouncingStays
<1>4. CASE conversations'[p] # conversations[p]
  <2>1. WriteConversation(h) /\ At(h) = "conversation"
    BY <1>4 DEF Write, UpdateMessage, InsertMessage, MessageWritten, MissMessage,
                MissConversation, UpdateConversation, InsertConversation,
                DuplicateKey, database
  <2>2. /\ p = PairOf(h) /\ conversations'[p] = SetConversation(h, conversations[p])
        /\ conversations[p] \in Conversation /\ h.kind \in {"persist", "update", "archive"}
    BY <1>0, <1>4, <2>1, ConversationTypes, Positions DEF WriteConversation, TypeOK
  <2>3. CASE h.kind = "persist"
    <3>1. ~ Finds(conversations'[p])
      BY <2>2, <2>3 DEF SetConversation, Finds
    <3> QED BY <3>1 DEF Announcing, Finds
  <2>4. CASE h.kind = "update"
    <3>1. /\ conversations'[p].last = conversations[p].last
          /\ conversations'[p].archived = conversations[p].archived
      BY <2>2, <2>4 DEF SetConversation, Conversation
    <3>2. Finds(conversations'[p]) => Finds(conversations[p])
      BY <3>1 DEF Finds
    <3> QED BY <1>0, <1>2, <3>1, <3>2, AnnouncingStays
  <2>5. CASE h.kind = "archive"
    <3>1. Advance(h) /\ h.step # Len(Steps(h.kind, h.copy.conv))
      BY <1>0, <1>1, <2>1, <2>5, Positions DEF WriteConversation
    <3>3. PICK g \in Handler : Onward(h, g) /\ Replaced(h, g)
      BY <3>1, HandlerMoves
    <3>4. g.step = 2 /\ g.phase = "go" /\ g.kind = "archive" /\ PairOf(g) = p
      BY <1>1, <2>2, <2>5, <3>3 DEF Onward, Same, PairOf
    <3>5. Telling(g, p)'
      BY <3>4 DEF Telling, PairOf
    <3> QED BY <3>3, <3>5 DEF Announcing, Replaced
  <2> QED BY <2>2, <2>3, <2>4, <2>5
<1> QED BY <1>3, <1>4

LEMMA AnnouncingDetail ==
  ASSUME TypeOK, NEW h \in handlers, Detail(h), NEW p \in Pair, Announcing(p)
  PROVE  Announcing(p)'
<1>1. UNCHANGED <<announced, asked, conversations>>
  BY DEF Detail, clients, database
<1>2. CASE Finds(conversations[p]) /\ Telling(h, p)
  <2>1. PICK g \in Handler :
          /\ Same(h, g) /\ Replaced(h, g) /\ h.step = 2 /\ g.step = 3 /\ g.phase = h.phase
          /\ g.detail = conversations[PairOf(h)] /\ Finds(g.detail)
    BY <1>2, DetailMoves DEF Telling
  <2>2. /\ g.kind = "archive" /\ PairOf(g) = p /\ g.phase = "go"
        /\ g.detail = conversations[p] /\ g.detail.archived = TRUE
    BY <1>2, <2>1 DEF Telling, Same, PairOf, Finds
  <2>3. Telling(g, p)'
    BY <1>1, <2>1, <2>2 DEF Telling, PairOf
  <2> QED BY <2>1, <2>3 DEF Announcing, Replaced
<1>3. CASE ~ (Finds(conversations[p]) /\ Telling(h, p))
  <2>1. CASE ~ Finds(conversations[p])
    BY <1>1, <2>1 DEF Announcing
  <2>2. CASE ~ Telling(h, p)
    <3>1. handlers \ {h} \subseteq handlers'
      BY DetailMoves DEF End, Replaced
    <3>2. \A x \in handlers : Telling(x, p) => x \in handlers'
      BY <2>2, <3>1
    <3> QED BY <1>1, <3>2, AnnouncingStays
  <2> QED BY <1>3, <2>1, <2>2
<1> QED BY <1>2, <1>3

LEMMA AnnouncingNotice ==
  ASSUME TypeOK, Origins, NEW h \in handlers,
         DropNotice(h) \/ GiveNotice(h) \/ ConfirmNotice(h), NEW p \in Pair, Announcing(p)
  PROVE  Announcing(p)'
<1>0. /\ h \in Handler /\ h.step \in DOMAIN Steps(h.kind, h.copy.conv)
      /\ h.phase \in {"go", "wait"} /\ JobOf(h) \in Job /\ JobOf(h).kind = h.kind
      /\ JobOf(h).copy = h.copy /\ At(h) \in Topics
      /\ conversations' = conversations /\ asked' = asked
  BY JobTypes, NoticeMoves DEF TypeOK, Handler, clients, database
<1>1. announced \subseteq announced'
  BY DEF DropNotice, GiveNotice, ConfirmNotice
<1>2. CASE ~ Telling(h, p)
  <2>1. handlers \ {h} \subseteq handlers'
    BY NoticeMoves DEF End, Replaced
  <2>2. \A x \in handlers : Telling(x, p) => x \in handlers'
    BY <1>2, <2>1
  <2> QED BY <1>0, <1>1, <2>2, AnnouncingStays
<1>3. CASE Telling(h, p)
  <2> DEFINE last == conversations[p].last
  <2>1. /\ h.kind = "archive" /\ PairOf(h) = p
        /\ (h.step = 3 /\ At(h) = "deleted") \/ (h.step = 4 /\ At(h) = "archived")
        /\ h.detail.last = last /\ h.detail.archived = TRUE
        /\ Len(Steps(h.kind, h.copy.conv)) = 4
    BY <1>0, <1>3, Positions DEF Telling, Topics
  <2>2. JobOf(h) \in asked
    BY <1>0, <2>1 DEF Origins, Issued
  <2>3. ASSUME NEW topic, Notified(topic, JobOf(h), last)
        PROVE  Notified(topic, JobOf(h), last)'
    BY <1>0, <1>1, <2>3 DEF Notified, Fits, KeyLength, JobOf
  <2>4. h.step = 4 \/ h.phase = "wait" => Notified("deleted", JobOf(h), last)'
    BY <1>3, <2>1, <2>3 DEF Telling
  <2>5. CASE GiveNotice(h)
    <3>1. PICK g \in Handler : Waits(h, g) /\ Replaced(h, g)
      BY <2>5, HandlerMoves DEF GiveNotice
    <3>2. Notified(At(h), JobOf(h), last)'
      <4> DEFINE n == [topic |-> At(h), job |-> JobOf(h), detail |-> h.detail]
      <4>1. n \in announced' /\ n.topic = At(h) /\ n.job = JobOf(h) /\ n.detail = h.detail
        BY <2>5 DEF GiveNotice
      <4> HIDE DEF n
      <4>2. \E x \in announced' :
              /\ x.topic = At(h) /\ x.job = JobOf(h)
              /\ x.detail.last = last /\ x.detail.archived = TRUE
        BY <2>1, <4>1
      <4> QED BY <1>0, <4>2 DEF Notified, JobOf, At
    <3>3. /\ g.kind = "archive" /\ PairOf(g) = p /\ g.step = h.step /\ g.phase = "wait"
          /\ g.detail = h.detail /\ JobOf(g) = JobOf(h)
      BY <2>1, <3>1, SameJob DEF Waits, Same, PairOf
    <3>4. Telling(g, p)'
      <4>1. g.step = 3 => Notified("deleted", JobOf(g), last)'
        BY <2>1, <3>2, <3>3 DEF Notified, JobOf, At
      <4>2. g.step = 4 => Notified("deleted", JobOf(g), last)'
                          /\ Notified("archived", JobOf(g), last)'
        BY <2>1, <2>4, <3>2, <3>3 DEF Notified, JobOf, At
      <4> QED BY <1>0, <2>1, <3>3, <4>1, <4>2 DEF Telling, PairOf, Notified, JobOf
    <3> QED BY <3>1, <3>4 DEF Announcing, Replaced
  <2>6. CASE DropNotice(h) \/ ConfirmNotice(h)
    <3>1. Advance(h) /\ announced' = announced
      BY <2>6 DEF DropNotice, ConfirmNotice
    <3>2. Notified(At(h), JobOf(h), last)'
      <4>1. CASE DropNotice(h)
        BY <4>1 DEF DropNotice, Notified, Fits, KeyLength, JobOf, At
      <4>2. CASE ConfirmNotice(h)
        <5>1. Notified(At(h), JobOf(h), last)
          BY <1>3, <2>1, <4>2 DEF Telling, ConfirmNotice
        <5> QED BY <1>0, <3>1, <5>1 DEF Notified, Fits, KeyLength, JobOf, At
      <4> QED BY <2>6, <4>1, <4>2
    <3>3. CASE h.step = 3
      <4>1. PICK g \in Handler : Onward(h, g) /\ Replaced(h, g)
        BY <2>1, <3>1, <3>3, HandlerMoves
      <4>2. /\ g.kind = "archive" /\ PairOf(g) = p /\ g.step = 4 /\ g.phase = "go"
            /\ g.detail = h.detail /\ JobOf(g) = JobOf(h)
        BY <2>1, <3>3, <4>1, SameJob DEF Onward, Same, PairOf
      <4>3. Notified("deleted", JobOf(g), last)'
        BY <2>1, <3>2, <3>3, <4>2 DEF Notified, JobOf, At
      <4>4. Telling(g, p)'
        BY <1>0, <2>1, <4>2, <4>3 DEF Telling, PairOf, Notified, JobOf
      <4> QED BY <4>1, <4>4 DEF Announcing, Replaced
    <3>4. CASE h.step = 4
      <4>1. \A topic \in {"deleted", "archived"} : Notified(topic, JobOf(h), last)'
        BY <2>1, <2>4, <3>2, <3>4 DEF At, JobOf, Notified
      <4>2. PICK j : j = JobOf(h)
        OBVIOUS
      <4>3. /\ j \in asked' /\ j.kind = "archive" /\ <<j.copy.box, j.copy.peer>> = p
        BY <1>0, <2>1, <2>2, <4>2 DEF PairOf
      <4>4. \A topic \in {"deleted", "archived"} : Notified(topic, j, last)'
        BY <4>1, <4>2 DEF Notified, JobOf, Fits, KeyLength
      <4>5. ToldOf(p)'
        BY <4>3, <4>4 DEF ToldOf
      <4> QED BY <4>5 DEF Announcing
    <3> QED BY <2>1, <3>3, <3>4
  <2> QED BY <2>5, <2>6
<1> QED BY <1>2, <1>3

LEMMA ArchivedNext == ArchivedInv /\ [Next]_vars => ArchivedInv'
<1> SUFFICES ASSUME ArchivedInv, [Next]_vars PROVE ArchivedInv'
  OBVIOUS
<1>0. TypeOK /\ Origins /\ TypeOK' /\ Origins'
  BY TypeNext, OriginsNext DEF ArchivedInv
<1>1. SUFFICES ASSUME faults' = 0, NEW p \in Pair PROVE Announcing(p)'
  BY <1>0 DEF ArchivedInv
<1>2. ASSUME faults' = faults PROVE Announcing(p)
  BY <1>1, <1>2 DEF ArchivedInv
<1>3. ASSUME UNCHANGED <<conversations, announced, faults>>, asked \subseteq asked',
             handlers \subseteq handlers'
      PROVE  Announcing(p)'
  BY <1>2, <1>3, AnnouncingStays
<1>4. CASE UNCHANGED vars
  BY <1>3, <1>4 DEF vars, clients, database
<1>5. CASE \/ \E c \in Copies : ShowCopy(c) \/ QueuePersist(c)
           \/ \E kind \in Commands, c \in Copies : Ask(kind, c)
  <2>1. asked \subseteq asked'
    BY <1>5 DEF ShowCopy, QueuePersist, Ask
  <2> QED BY <1>3, <1>5, <2>1, ClientMoves DEF database
<1>6. CASE TakePersist \/ TakeCommand
  BY <1>0, <1>3, <1>6, TakeMoves DEF Started, clients, database
<1>7. ASSUME NEW h \in handlers, Step(h) PROVE Announcing(p)'
  <2>1. faults' = faults
    BY <1>0, <1>7, WriteMoves, NoticeMoves DEF Step, Detail
  <2> QED BY <1>0, <1>2, <1>7, <2>1, AnnouncingWrite, AnnouncingDetail, AnnouncingNotice
          DEF Step
<1>8. CASE \/ \E h \in handlers : Fail(h)
           \/ \E kinds \in Processes : Crash(kinds)
  <2>1. faults \in Nat /\ faults' = faults + 1
    BY <1>0, <1>8, ChatStoreAssumption DEF TypeOK, Fail, Crash
  <2> QED BY <1>1, <2>1
<1> QED BY <1>4, <1>5, <1>6, <1>7, <1>8 DEF Next

\* Without a fault, a conversation that is in the archive in full is one the clients
\* were told of as it is, or an archive command is about to tell them: a message that
\* comes takes it out of the archive again, in the same write, so no persist that
\* lands between the write, the read and the notices leaves it there unannounced.
THEOREM ArchivedIsToldHolds == Spec => []ArchivedIsTold
<1>1. Init => ArchivedInv
  <2>1. ASSUME Init, NEW p \in Pair PROVE Announcing(p)
    BY <2>1 DEF Init, Announcing, Finds, NoConversation
  <2> QED BY <2>1, TypeInit, OriginsInit DEF ArchivedInv
<1>2. ArchivedInv => ArchivedIsTold
  BY DEF ArchivedInv, ArchivedIsTold, Announcing, ToldOf, Telling, Notified
<1> QED BY <1>1, <1>2, ArchivedNext, PTL DEF Spec

-----------------------------------------------------------------------------
(* What is told and stored is backed.                                      *)

\* What a write does to the documents of its place: it sets one, or adds one.
Sets(h, s, t, i, doc) ==
  /\ DOMAIN t = DOMAIN s \cup {i}
  /\ t[i] = SetMessage(h, doc)
  /\ \A n \in DOMAIN s \ {i} : t[n] = s[n]
  /\ \/ i \in DOMAIN s /\ doc = s[i]
     \/ i = Len(s) + 1 /\ doc = NoDocument

LEMMA WriteEffect ==
  ASSUME TypeOK, NEW h \in handlers, UpdateMessage(h) \/ InsertMessage(h)
  PROVE  \E i \in Nat, doc \in Document \cup {NoDocument} :
           Sets(h, messages[PlaceOf(h)], messages'[PlaceOf(h)], i, doc)
<1> DEFINE k == PlaceOf(h)
           s == messages[k]
<1>1. h \in Handler /\ h.step \in DOMAIN Steps(h.kind, h.copy.conv)
      /\ At(h) \in {"message", "mine", "theirs"}
  BY DEF TypeOK, UpdateMessage, InsertMessage
<1>2. k \in Place /\ \A doc \in Document \cup {NoDocument} : SetMessage(h, doc) \in Document
  BY <1>1, SetTypes
<1>3. messages \in [Place -> Seq(Document)] /\ s \in Seq(Document)
  BY <1>2 DEF TypeOK
<1>4. DOMAIN s = 1 .. Len(s) /\ Len(s) \in Nat
  BY <1>3, LenProperties
<1>5. CASE UpdateMessage(h)
  <2>1. PICK i \in DOMAIN s :
          messages' = [messages EXCEPT ![k] = [s EXCEPT ![i] = SetMessage(h, s[i])]]
    BY <1>5 DEF UpdateMessage
  <2>2. messages'[k] = [s EXCEPT ![i] = SetMessage(h, s[i])]
    BY <1>2, <1>3, <2>1
  <2>3. s[i] \in Document /\ i \in 1 .. Len(s)
    BY <1>3, <1>4, ElementOfSeq
  <2> HIDE DEF k, s
  <2>4. Sets(h, s, messages'[k], i, s[i])
    BY <2>2, <2>3, <1>4 DEF Sets
  <2> QED BY <2>3, <2>4 DEF k, s
<1>6. CASE InsertMessage(h)
  <2> DEFINE e == SetMessage(h, NoDocument)
  <2>1. messages'[k] = Append(s, e)
    BY <1>2, <1>3, <1>6 DEF InsertMessage
  <2>2. e \in Document
    BY <1>2
  <2> HIDE DEF k, s, e
  <2>3. /\ Append(s, e) \in Seq(Document)
        /\ Len(Append(s, e)) = Len(s) + 1
        /\ \A n \in 1 .. Len(s) : Append(s, e)[n] = s[n]
        /\ Append(s, e)[Len(s) + 1] = e
    BY <1>3, <2>2, AppendProperties
  <2>4. DOMAIN Append(s, e) = 1 .. Len(s) + 1
    BY <2>3, LenProperties
  <2>5. Sets(h, s, messages'[k], Len(s) + 1, NoDocument)
    BY <1>4, <2>1, <2>3, <2>4 DEF Sets, e
  <2> QED BY <1>4, <2>5 DEF k, s
<1> QED BY <1>5, <1>6

LEMMA SetFields ==
  ASSUME NEW h, NEW doc \in Document \cup {NoDocument}
  PROVE  /\ At(h) = "message" =>
              SetMessage(h, doc).whole = TRUE /\ SetMessage(h, doc).status = h.copy.status
         /\ At(h) = "mine" =>
              SetMessage(h, doc).whole = doc.whole /\ SetMessage(h, doc).status = RECEIVED
         /\ At(h) = "theirs" =>
              /\ SetMessage(h, doc).whole = doc.whole
              /\ SetMessage(h, doc).status = RETURN_RECEIPT
<1>1. doc \in [whole : BOOLEAN, status : {SENT, DELIVERED, RECEIVED, RETURN_RECEIPT, NONE}]
  <2>1. CASE doc \in Document
    BY <2>1 DEF Document
  <2>2. CASE doc = [whole |-> FALSE, status |-> NONE]
    BY <2>2
  <2> QED BY <2>1, <2>2 DEF NoDocument
<1>2. CASE At(h) = "message"
  BY <1>2 DEF SetMessage
<1>3. CASE At(h) = "mine"
  <2>1. SetMessage(h, doc) = [doc EXCEPT !.status = RECEIVED]
    BY <1>3 DEF SetMessage
  <2> QED BY <1>1, <1>3, <2>1
<1>4. CASE At(h) = "theirs"
  <2>1. SetMessage(h, doc) = [doc EXCEPT !.status = RETURN_RECEIPT]
    BY <1>4 DEF SetMessage
  <2> QED BY <1>1, <1>4, <2>1
<1> QED BY <1>2, <1>3, <1>4

\* Documents are never removed, nor do they lose their message.
Grows(m, n) ==
  \A k \in Place : (m[k] # <<>> => n[k] # <<>>) /\ (HasWhole(m[k]) => HasWhole(n[k]))

LEMMA SequenceNotEmpty ==
  ASSUME NEW s \in Seq(Document)
  PROVE  s # <<>> <=> DOMAIN s # {}
<1>1. DOMAIN s = 1 .. Len(s) /\ Len(s) \in Nat
  BY LenProperties
<1>2. s # <<>> => Len(s) \in Nat \ {0}
  BY EmptySeq
<1>3. s # <<>> => 1 \in DOMAIN s
  BY <1>1, <1>2
<1>4. s = <<>> => DOMAIN s = {}
  OBVIOUS
<1> QED BY <1>3, <1>4

LEMMA WriteGrows ==
  ASSUME TypeOK, NEW h \in handlers, UpdateMessage(h) \/ InsertMessage(h)
  PROVE  /\ Grows(messages, messages')
         /\ messages'[PlaceOf(h)] # <<>>
         /\ At(h) = "message" => HasWhole(messages'[PlaceOf(h)])
<1> DEFINE k == PlaceOf(h)
<1>1. PICK i \in Nat, doc \in Document \cup {NoDocument} :
        Sets(h, messages[k], messages'[k], i, doc)
  BY WriteEffect
<1>2. /\ messages' \in [Place -> Seq(Document)] /\ k \in Place
      /\ \A p \in Place \ {k} : messages'[p] = messages[p]
  BY WrittenTypes
<1>3. At(h) \in {"message", "mine", "theirs"}
  BY DEF UpdateMessage, InsertMessage
<1>4. messages'[k] # <<>>
  BY <1>1, <1>2, SequenceNotEmpty DEF Sets
<1>5. At(h) = "message" => HasWhole(messages'[k])
  <2>1. messages'[k][i] = SetMessage(h, doc) /\ i \in DOMAIN messages'[k]
    BY <1>1 DEF Sets
  <2>2. At(h) = "message" => SetMessage(h, doc).whole
    BY SetFields
  <2> QED BY <2>1, <2>2 DEF HasWhole
<1>6. HasWhole(messages[k]) => HasWhole(messages'[k])
  <2>1. ASSUME NEW n \in DOMAIN messages[k], messages[k][n].whole
        PROVE  n \in DOMAIN messages'[k] /\ messages'[k][n].whole
    <3>1. CASE n # i
      BY <1>1, <2>1, <3>1 DEF Sets
    <3>2. CASE n = i
      <4>1. doc = messages[k][i]
        <5>1. messages[k] \in Seq(Document)
          BY <1>2 DEF TypeOK
        <5>2. n \in 1 .. Len(messages[k]) /\ Len(messages[k]) \in Nat
          BY <5>1, LenProperties
        <5>3. n # Len(messages[k]) + 1
          BY <5>2
        <5> QED BY <1>1, <2>1, <3>2, <5>3 DEF Sets
      <4>2. messages'[k][n] = SetMessage(h, doc) /\ n \in DOMAIN messages'[k]
        BY <1>1, <3>2 DEF Sets
      <4> QED BY <1>3, <2>1, <3>2, <4>1, <4>2, SetFields
    <3> QED BY <3>1, <3>2
  <2> QED BY <2>1 DEF HasWhole
<1> QED BY <1>2, <1>4, <1>5, <1>6 DEF Grows

LEMMA Unchanged == messages' = messages => Grows(messages, messages')
BY DEF Grows

\* Every step leaves the documents, the notices and the commands there were.
LEMMA StepGrows ==
  ASSUME TypeOK, NEW h \in handlers, Step(h) \/ Fail(h)
  PROVE  /\ Grows(messages, messages')
         /\ announced \subseteq announced' /\ failed \subseteq failed'
         /\ UNCHANGED <<shown, queued, asked>>
<1>1. CASE Write(h)
  <2>1. announced' = announced /\ UNCHANGED clients
    BY <1>1, WriteMoves
  <2>2. failed \subseteq failed'
    BY <1>1 DEF Write, UpdateMessage, InsertMessage, MessageWritten, MissMessage,
                MissConversation, UpdateConversation, InsertConversation,
                WriteConversation, DuplicateKey, history
  <2>3. Grows(messages, messages')
    <3>1. CASE UpdateMessage(h) \/ InsertMessage(h)
      BY <3>1, WriteGrows
    <3>2. CASE ~ (UpdateMessage(h) \/ InsertMessage(h))
      BY <1>1, <3>2, Unchanged
         DEF Write, MissMessage, MissConversation, UpdateConversation,
             InsertConversation, WriteConversation, DuplicateKey, database
    <3> QED BY <3>1, <3>2
  <2> QED BY <2>1, <2>2, <2>3 DEF clients
<1>2. CASE Detail(h) \/ DropNotice(h) \/ GiveNotice(h) \/ ConfirmNotice(h)
  <2>1. UNCHANGED <<clients, messages, failed>>
    BY <1>2, NoticeMoves DEF Detail, database, history
  <2>2. announced \subseteq announced'
    BY <1>2 DEF Detail, DropNotice, GiveNotice, ConfirmNotice
  <2> QED BY <2>1, <2>2, Unchanged DEF clients
<1>3. CASE Fail(h)
  BY <1>3, Unchanged DEF Fail, database, clients
<1> QED BY <1>1, <1>2, <1>3 DEF Step

\* The two parts of Backed.
ReturnBacked(k) ==
  \E j \in asked :
    /\ j.kind = "receipt" /\ Far(j.copy) = k
    /\ messages[Home(j.copy)] # <<>> /\ Told(j)

LastBacked(p) ==
  LET m == conversations[p].last IN
  m # NONE =>
    \/ HasWhole(messages[<<p[1], m>>])
    \/ \E j \in failed : j.kind = "persist" /\ j.copy.box = p[1] /\ j.copy.msg = m

LEMMA BackedParts ==
  Backed <=>
    /\ \A k \in Place : \A i \in DOMAIN messages[k] :
         messages[k][i].status = RETURN_RECEIPT => ReturnBacked(k)
    /\ \A p \in Pair : LastBacked(p)
BY DEF Backed, ReturnBacked, LastBacked, Home, Far, Told, HasWhole

LEMMA ReturnStays ==
  ASSUME TypeOK, NEW k, ReturnBacked(k), Grows(messages, messages'),
         announced \subseteq announced', asked \subseteq asked'
  PROVE  ReturnBacked(k)'
<1>1. PICK j \in asked : j.kind = "receipt" /\ Far(j.copy) = k
                         /\ messages[Home(j.copy)] # <<>> /\ Told(j)
  BY DEF ReturnBacked
<1>2. Home(j.copy) \in Place
  BY CopyFields DEF TypeOK, Job
<1>3. messages'[Home(j.copy)] # <<>> /\ Told(j)'
  BY <1>1, <1>2 DEF Grows, Told
<1> QED BY <1>1, <1>3 DEF ReturnBacked

LEMMA LastStays ==
  ASSUME TypeOK, NEW p \in Pair, LastBacked(p), Grows(messages, messages'),
         failed \subseteq failed', conversations'[p].last = conversations[p].last
  PROVE  LastBacked(p)'
<1> DEFINE m == conversations[p].last
<1>1. CASE m = NONE
  BY <1>1 DEF LastBacked
<1>2. CASE m # NONE
  <2>1. m \in Msg
    BY <1>2 DEF TypeOK, Conversation
  <2>2. <<p[1], m>> \in Place
    BY <2>1 DEF Pair, Place
  <2>3. HasWhole(messages[<<p[1], m>>]) => HasWhole(messages'[<<p[1], m>>])
    BY <2>2 DEF Grows
  <2>4. \/ HasWhole(messages[<<p[1], m>>])
        \/ \E j \in failed : j.kind = "persist" /\ j.copy.box = p[1] /\ j.copy.msg = m
    BY <1>2 DEF LastBacked
  <2>5. \/ HasWhole(messages'[<<p[1], m>>])
        \/ \E j \in failed' : j.kind = "persist" /\ j.copy.box = p[1] /\ j.copy.msg = m
    BY <2>3, <2>4
  <2> QED BY <2>5 DEF LastBacked
<1> QED BY <1>1, <1>2

LEMMA WriterStays ==
  ASSUME NEW h \in Handler, WriterOK(h), Grows(messages, messages'),
         announced \subseteq announced', failed \subseteq failed'
  PROVE  WriterOK(h)'
<1>1. h.copy \in Copies /\ Home(h.copy) \in Place
  BY CopyFields DEF Handler
<1>2. /\ Whole(h.copy) => Whole(h.copy)'
      /\ messages[Home(h.copy)] # <<>> => messages'[Home(h.copy)] # <<>>
  BY <1>1 DEF Grows, Whole
<1>3. Told(JobOf(h)) => Told(JobOf(h))'
  BY DEF Told, JobOf
<1>4. JobOf(h)' = JobOf(h)
  BY DEF JobOf
<1> QED BY <1>2, <1>3, <1>4 DEF WriterOK

\* A handler that goes on has done what its next step relies on.
LEMMA WriterMoves ==
  ASSUME TypeOK, NEW h \in handlers, WriterOK(h), Step(h) \/ Fail(h)
  PROVE  End(h) \/ \E g \in Handler : Replaced(h, g) /\ WriterOK(g)'
<1>0. /\ h \in Handler /\ h.step \in DOMAIN Steps(h.kind, h.copy.conv)
      /\ Home(h.copy) \in Place
  BY CopyFields DEF TypeOK, Handler
<1>1. Grows(messages, messages') /\ announced \subseteq announced' /\ failed \subseteq failed'
  BY StepGrows
<1>2. WriterOK(h)'
  BY <1>0, <1>1, WriterStays
<1>3. ASSUME NEW g \in Handler, Same(h, g),
             g.kind = "receipt" /\ (g.step \in {2, 3} \/ g.phase = "wait") => Told(JobOf(h))',
             g.kind = "receipt" /\ g.step = 3 => messages'[Home(h.copy)] # <<>>,
             g.kind = "persist" /\ g.step = 2 => Whole(h.copy)' \/ JobOf(h) \in failed'
      PROVE  WriterOK(g)'
  <2>1. JobOf(g) = JobOf(h) /\ g.copy = h.copy
    BY <1>3, SameJob DEF Same
  <2>2. WriterOK(g)' <=>
          /\ g.kind = "receipt" =>
               /\ g.step \in {2, 3} \/ g.phase = "wait" => Told(JobOf(g))'
               /\ g.step = 3 => messages'[Home(g.copy)] # <<>>
          /\ g.kind = "persist" /\ g.step = 2 => Whole(g.copy)' \/ JobOf(g) \in failed'
    BY DEF WriterOK, JobOf
  <2> QED BY <1>3, <2>1, <2>2 DEF Told, Whole, JobOf
<1>4. Told(JobOf(h)) => Told(JobOf(h))'
  BY <1>1 DEF Told, JobOf
<1>5. CASE UpdateMessage(h) \/ InsertMessage(h)
  <2>1. At(h) \in {"message", "mine", "theirs"} /\ MessageWritten(h)
    BY <1>5 DEF UpdateMessage, InsertMessage
  <2>2. /\ At(h) \in {"message", "mine"} => PlaceOf(h) = Home(h.copy)
        /\ messages'[PlaceOf(h)] # <<>>
        /\ At(h) = "message" => HasWhole(messages'[PlaceOf(h)])
    BY <1>5, WriteGrows DEF PlaceOf, Home
  <2>3. ASSUME NEW g \in Handler, Onward(h, g) PROVE WriterOK(g)'
    <3>1. /\ g.kind = h.kind /\ g.copy = h.copy /\ g.step = h.step + 1
          /\ g.phase = "go" /\ g.step \in DOMAIN Steps(g.kind, g.copy.conv)
      BY <2>3 DEF Onward, Same
    <3>2. \/ g.kind = "persist" /\ At(h) = "message"
          \/ g.kind = "receipt" /\ g.step = 3 /\ h.step = 2 /\ At(h) = "mine"
      <4>1. h.kind = "receipt" /\ h.step = 3 => FALSE
        BY <3>1, Positions
      <4> QED BY <1>0, <2>1, <3>1, <4>1, Positions
    <3>3. h.kind = "receipt" => Told(JobOf(h))
      BY <3>1, <3>2 DEF WriterOK
    <3> QED BY <1>3, <1>4, <2>2, <2>3, <3>1, <3>2, <3>3 DEF Onward, Whole
  <2> QED BY <2>1, <2>3, HandlerMoves DEF MessageWritten
<1>6. CASE MissMessage(h) \/ MissConversation(h)
  <2>1. Wait(h) /\ At(h) \in {"message", "mine", "theirs", "conversation"}
        /\ UNCHANGED <<messages, announced, failed>>
    BY <1>6 DEF MissMessage, MissConversation, database, history
  <2>2. h.kind = "receipt" => h.step \in {2, 3}
    BY <1>0, <2>1, Positions
  <2>3. ASSUME NEW g \in Handler, Waits(h, g) PROVE WriterOK(g)'
    <3>1. g.kind = h.kind /\ g.step = h.step /\ Same(h, g)
      BY <2>3 DEF Waits, Same
    <3> QED BY <1>3, <1>4, <2>1, <2>2, <3>1 DEF WriterOK, Whole, JobOf
  <2> QED BY <2>1, <2>3, HandlerMoves
<1>7. CASE UpdateConversation(h) \/ InsertConversation(h)
  <2>1. At(h) = "conversation" /\ Advance(h)
    BY <1>7 DEF UpdateConversation, InsertConversation, WriteConversation
  <2>2. ASSUME NEW g \in Handler, Onward(h, g) PROVE WriterOK(g)'
    <3>1. g.kind = h.kind /\ g.step = h.step + 1 /\ g.step \in DOMAIN Steps(g.kind, g.copy.conv)
      BY <2>2 DEF Onward, Same
    <3>2. h.kind # "receipt"
      BY <1>0, <2>1, Positions
    <3>3. h.kind # "persist"
      <4>1. h.kind = "persist" => h.step = 2
        BY <1>0, <2>1, Positions
      <4> QED BY <3>1, <4>1, Positions
    <3> QED BY <1>3, <2>2, <3>1, <3>2, <3>3 DEF Onward
  <2> QED BY <2>1, <2>2, HandlerMoves
<1>8. CASE DuplicateKey(h)
  BY <1>8 DEF DuplicateKey
<1>9. CASE Detail(h)
  <2>1. ASSUME NEW g \in Handler, Same(h, g), h.kind = "archive" PROVE WriterOK(g)'
    BY <2>1 DEF WriterOK, Same
  <2> QED BY <1>9, <2>1, DetailMoves
<1>10. CASE DropNotice(h) \/ ConfirmNotice(h)
  <2>1. At(h) \in Topics /\ Advance(h)
    BY <1>10 DEF DropNotice, ConfirmNotice
  <2>2. ASSUME NEW g \in Handler, Onward(h, g) PROVE WriterOK(g)'
    <3>1. g.kind = h.kind /\ g.step = h.step + 1
      BY <2>2 DEF Onward, Same
    <3>2. h.kind # "persist" /\ (h.kind = "receipt" => h.step = 1 /\ At(h) = "told")
      BY <1>0, <2>1, Positions DEF Topics
    <3>3. h.kind = "receipt" => Told(JobOf(h))
      BY <1>10, <3>2 DEF DropNotice, ConfirmNotice, Told, WriterOK
    <3> QED BY <1>3, <1>4, <2>2, <3>1, <3>2, <3>3 DEF Onward
  <2> QED BY <2>1, <2>2, HandlerMoves
<1>11. CASE GiveNotice(h)
  <2> DEFINE n == [topic |-> At(h), job |-> JobOf(h), detail |-> h.detail]
  <2>1. At(h) \in Topics /\ Wait(h) /\ n \in announced'
    BY <1>11 DEF GiveNotice
  <2>2. n.topic = At(h) /\ n.job = JobOf(h)
    OBVIOUS
  <2> HIDE DEF n
  <2>3. ASSUME NEW g \in Handler, Waits(h, g) PROVE WriterOK(g)'
    <3>1. g.kind = h.kind /\ g.step = h.step /\ Same(h, g)
      BY <2>3 DEF Waits, Same
    <3>2. h.kind # "persist" /\ (h.kind = "receipt" => h.step = 1 /\ At(h) = "told")
      BY <1>0, <2>1, Positions DEF Topics
    <3>3. h.kind = "receipt" => Told(JobOf(h))'
      BY <2>1, <2>2, <3>2 DEF Told, JobOf
    <3> QED BY <1>3, <3>1, <3>2, <3>3
  <2> QED BY <2>1, <2>3, HandlerMoves
<1>12. CASE Fail(h)
  <2>1. JobOf(h) \in failed'
    BY <1>12 DEF Fail
  <2>2. ASSUME NEW g \in Handler, Onward(h, g), h.kind = "persist" PROVE WriterOK(g)'
    <3>1. g.kind = h.kind /\ Same(h, g)
      BY <2>2 DEF Onward, Same
    <3> QED BY <1>3, <2>1, <2>2, <3>1
  <2> QED BY <1>12, <2>2, FailMoves
<1> QED BY <1>5, <1>6, <1>7, <1>8, <1>9, <1>10, <1>11, <1>12 DEF Step, Write

LEMMA BackedStep ==
  ASSUME BackedInv, NEW h \in handlers, Step(h) \/ Fail(h)
  PROVE  Backed'
<1>0. /\ TypeOK /\ WriterOK(h) /\ h \in Handler
      /\ h.step \in DOMAIN Steps(h.kind, h.copy.conv)
      /\ h.copy \in Copies
  BY DEF BackedInv, TypeOK, Handler
<1>1. /\ Grows(messages, messages') /\ announced \subseteq announced'
      /\ failed \subseteq failed' /\ UNCHANGED <<shown, queued, asked>>
  BY <1>0, StepGrows
<1>2. /\ \A k \in Place : \A i \in DOMAIN messages[k] :
           messages[k][i].status = RETURN_RECEIPT => ReturnBacked(k)
      /\ \A p \in Pair : LastBacked(p)
  BY BackedParts DEF BackedInv
<1>3. ASSUME NEW k \in Place, NEW i \in DOMAIN messages'[k],
             messages'[k][i].status = RETURN_RECEIPT
      PROVE  ReturnBacked(k)'
  <2>1. CASE i \in DOMAIN messages[k] /\ messages[k][i].status = RETURN_RECEIPT
    BY <1>0, <1>1, <1>2, <2>1, ReturnStays
  <2>2. CASE ~ (i \in DOMAIN messages[k] /\ messages[k][i].status = RETURN_RECEIPT)
    <3>1. UpdateMessage(h) \/ InsertMessage(h)
      <4>1. messages' # messages
        BY <1>3, <2>2
      <4> QED BY <1>0, <4>1, NoticeMoves, FailMoves
              DEF Step, Write, MissMessage, MissConversation, UpdateConversation,
                  InsertConversation, WriteConversation, DuplicateKey, Detail, database
    <3>2. k = PlaceOf(h)
      BY <1>0, <1>3, <2>2, <3>1, WrittenTypes
    <3>3. PICK n \in Nat, doc \in Document \cup {NoDocument} :
            Sets(h, messages[k], messages'[k], n, doc)
      BY <1>0, <3>1, <3>2, WriteEffect
    <3>4. i = n /\ messages'[k][i] = SetMessage(h, doc)
      BY <1>3, <2>2, <3>3 DEF Sets
    <3>5. At(h) = "theirs"
      <4>1. At(h) \in {"message", "mine", "theirs"}
        BY <3>1 DEF UpdateMessage, InsertMessage
      <4>2. h.copy.status # RETURN_RECEIPT /\ RECEIVED # RETURN_RECEIPT
        <5>1. h.copy.status \in {SENT, DELIVERED}
          BY <1>0, CopyFields
        <5> QED BY ONLY <5>1 DEF SENT, DELIVERED, RECEIVED, RETURN_RECEIPT
      <4> QED BY <1>3, <3>4, <4>1, <4>2, SetFields
    <3>6. h.kind = "receipt" /\ h.step = 3 /\ k = Far(h.copy)
      BY <1>0, <3>2, <3>5, Positions DEF PlaceOf, Far
    <3>7. JobOf(h) \in asked
      BY <1>0, <3>6, JobTypes DEF BackedInv, Origins, Issued
    <3>8. JobOf(h).kind = "receipt" /\ JobOf(h).copy = h.copy
      BY <1>0, <3>6, JobTypes
    <3>9. messages[Home(h.copy)] # <<>> /\ Told(JobOf(h))
      BY <1>0, <3>6 DEF WriterOK
    <3>10. ReturnBacked(k)
      BY <3>6, <3>7, <3>8, <3>9 DEF ReturnBacked
    <3> QED BY <1>0, <1>1, <3>10, ReturnStays
  <2> QED BY <2>1, <2>2
<1>4. ASSUME NEW p \in Pair PROVE LastBacked(p)'
  <2>1. CASE conversations'[p].last = conversations[p].last
    BY <1>0, <1>1, <1>2, <2>1, LastStays
  <2>2. CASE conversations'[p].last # conversations[p].last
    <3>1. WriteConversation(h) /\ At(h) = "conversation"
      <4>1. conversations' # conversations
        BY <2>2
      <4> QED BY <1>0, <4>1, NoticeMoves, FailMoves
              DEF Step, Write, UpdateMessage, InsertMessage, MessageWritten, MissMessage,
                  MissConversation, UpdateConversation, InsertConversation,
                  DuplicateKey, Detail, database
    <3>2. p = PairOf(h) /\ conversations'[p] = SetConversation(h, conversations[p])
      BY <1>0, <2>2, <3>1, ConversationTypes DEF WriteConversation
    <3>3. h.kind = "persist" /\ h.step = 2
      <4>1. conversations[p] \in Conversation
        BY <1>0 DEF TypeOK
      <4>2. h.kind = "update" \/ h.kind = "archive" =>
              SetConversation(h, conversations[p]).last = conversations[p].last
        BY <4>1 DEF SetConversation, Conversation
      <4> QED BY <1>0, <2>2, <3>1, <3>2, <4>2, Positions
    <3>4. conversations'[p].last = h.copy.msg /\ p[1] = h.copy.box
      BY <3>2, <3>3 DEF SetConversation, PairOf
    <3>5. messages' = messages /\ failed' = failed
      BY <3>1 DEF WriteConversation, history
    <3>6. Whole(h.copy) \/ JobOf(h) \in failed
      BY <1>0, <3>3 DEF WriterOK
    <3>7. JobOf(h).kind = "persist" /\ JobOf(h).copy = h.copy
      BY <1>0, <3>3, JobTypes
    <3>8. \/ HasWhole(messages'[<<p[1], conversations'[p].last>>])
          \/ \E j \in failed' : /\ j.kind = "persist" /\ j.copy.box = p[1]
                                /\ j.copy.msg = conversations'[p].last
      BY <3>4, <3>5, <3>6, <3>7 DEF Whole, Home
    <3> QED BY <3>8 DEF LastBacked
  <2> QED BY <2>1, <2>2
<1> QED BY <1>3, <1>4 DEF Backed, ReturnBacked, LastBacked, Home, Far, Told, HasWhole

LEMMA BackedNext == BackedInv /\ [Next]_vars => BackedInv'
<1> SUFFICES ASSUME BackedInv, [Next]_vars PROVE BackedInv'
  OBVIOUS
<1>0. /\ TypeOK /\ TypeOK' /\ Origins /\ Origins' /\ Backed
      /\ \A h \in handlers : h \in Handler /\ WriterOK(h)
  BY TypeNext, OriginsNext DEF BackedInv, TypeOK
<1>1. ASSUME UNCHANGED <<messages, announced, failed, conversations>>, asked \subseteq asked',
             \A x \in handlers' \ handlers : WriterOK(x)'
      PROVE  BackedInv'
  <2>1. Grows(messages, messages')
    BY <1>1, Unchanged
  <2>2. \A x \in handlers' : WriterOK(x)'
    BY <1>0, <1>1, <2>1, WriterStays
  <2>3. ASSUME NEW k \in Place, NEW i \in DOMAIN messages'[k],
               messages'[k][i].status = RETURN_RECEIPT
        PROVE  ReturnBacked(k)'
    BY <1>0, <1>1, <2>1, <2>3, ReturnStays, BackedParts
  <2>4. ASSUME NEW p \in Pair PROVE LastBacked(p)'
    BY <1>0, <1>1, <2>1, LastStays, BackedParts
  <2>5. Backed'
    BY <2>3, <2>4 DEF Backed, ReturnBacked, LastBacked, Home, Far, Told, HasWhole
  <2> QED BY <1>0, <2>2, <2>5 DEF BackedInv
<1>2. CASE UNCHANGED vars
  BY <1>1, <1>2 DEF vars, clients, database, history
<1>3. CASE \/ \E c \in Copies : ShowCopy(c) \/ QueuePersist(c)
           \/ \E kind \in Commands, c \in Copies : Ask(kind, c)
  <2>1. UNCHANGED <<handlers, database, announced, history>>
    BY <1>3, ClientMoves
  <2>2. asked \subseteq asked'
    BY <1>3 DEF ShowCopy, QueuePersist, Ask
  <2> QED BY <1>1, <2>1, <2>2 DEF database, history
<1>4. CASE TakePersist \/ TakeCommand
  <2>1. /\ UNCHANGED <<clients, database, announced, stored, failed, faults>>
        /\ handlers' = handlers \/ \E job \in Job : Started(job)
    BY <1>0, <1>4, TakeMoves
  <2>2. \A g : g.step = 1 /\ g.phase = "go" => WriterOK(g)'
    BY DEF WriterOK
  <2> QED BY <1>1, <2>1, <2>2 DEF Started, clients, database
<1>5. ASSUME NEW h \in handlers, Step(h) \/ Fail(h) PROVE BackedInv'
  <2>1. Grows(messages, messages') /\ announced \subseteq announced' /\ failed \subseteq failed'
    BY <1>0, <1>5, StepGrows
  <2>2. \A x \in handlers \ {h} : WriterOK(x)'
    BY <1>0, <2>1, WriterStays
  <2>3. \A x \in handlers' : WriterOK(x)'
    BY <1>0, <1>5, <2>2, WriterMoves DEF End, Replaced
  <2>4. Backed'
    BY <1>5, BackedStep
  <2> QED BY <1>0, <2>3, <2>4 DEF BackedInv
<1>6. ASSUME NEW kinds \in Processes, Crash(kinds) PROVE BackedInv'
  BY <1>1, <1>6 DEF Crash, clients, database, history
<1> QED BY <1>2, <1>3, <1>4, <1>5, <1>6 DEF Next

\* A return receipt is written after the sender's clients were told and the reader's
\* timeline has the message; a conversation's last message is on its timeline, unless
\* saving it failed.
THEOREM BackedHolds == Spec => []Backed
<1>1. Init => BackedInv
  <2>1. Init => Backed
    BY DEF Init, Backed, NoConversation
  <2> QED BY <2>1, TypeInit, OriginsInit DEF Init, BackedInv
<1>2. BackedInv => Backed
  BY DEF BackedInv
<1> QED BY <1>1, <1>2, BackedNext, PTL DEF Spec

-----------------------------------------------------------------------------
(* What was put on the persist queue is stored.                            *)

\* A conversation that has a last message keeps one.
LEMMA LastKept ==
  ASSUME TypeOK, NEW h \in handlers, Step(h), NEW p \in Pair, conversations[p].last # NONE
  PROVE  conversations'[p].last # NONE
<1>0. h \in Handler /\ h.step \in DOMAIN Steps(h.kind, h.copy.conv) /\ h.copy \in Copies
  BY DEF TypeOK, Handler
<1>1. CASE conversations' = conversations
  BY <1>1
<1>2. CASE conversations' # conversations
  <2>1. WriteConversation(h) /\ At(h) = "conversation"
    BY <1>0, <1>2, NoticeMoves
       DEF Step, Write, UpdateMessage, InsertMessage, MessageWritten, MissMessage,
           MissConversation, UpdateConversation, InsertConversation,
           DuplicateKey, Detail, database
  <2>2. CASE p = PairOf(h)
    <3>1. conversations'[p] = SetConversation(h, conversations[p])
      BY <2>1, <2>2, ConversationTypes DEF WriteConversation
    <3>2. conversations[p] \in Conversation /\ h.copy.msg \in Msg /\ NONE \notin Msg
      BY <1>0, CopyFields, ChatStoreAssumption DEF TypeOK
    <3>3. h.kind \in {"persist", "update", "archive"}
      BY <1>0, <2>1, Positions
    <3>4. CASE h.kind = "persist"
      BY <3>1, <3>2, <3>4 DEF SetConversation
    <3>5. CASE h.kind = "update" \/ h.kind = "archive"
      BY <3>1, <3>2, <3>5 DEF SetConversation, Conversation
    <3> QED BY <3>3, <3>4, <3>5
  <2>3. CASE p # PairOf(h)
    BY <2>1, <2>3, ConversationTypes DEF WriteConversation
  <2> QED BY <2>2, <2>3
<1> QED BY <1>1, <1>2

\* A handler that saves c goes on saving it until it has.
LEMMA SavesOn ==
  ASSUME TypeOK, NEW h \in handlers, Step(h), NEW c \in Copies, JobOf(h) = Persisting(c)
  PROVE  /\ h.step = 1 => Whole(c)' \/ Saving(c, {1})'
         /\ c.conv => \/ conversations'[<<c.box, c.peer>>].last # NONE
                      \/ Persisting(c) \in failed'
                      \/ Saving(c, {1, 2})'
<1>0. /\ h \in Handler /\ h.step \in DOMAIN Steps(h.kind, h.copy.conv)
      /\ h.kind = "persist" /\ h.copy = c
  BY DEF TypeOK, JobOf, Persisting
<1>1. \/ h.step = 1 /\ At(h) = "message"
      \/ h.step = 2 /\ At(h) = "conversation"
  BY <1>0, Positions
<1>2. Write(h)
  BY <1>1, NoticeMoves DEF Step, Detail, Topics
<1>3. ASSUME NEW g \in Handler, Same(h, g), Replaced(h, g), NEW steps, g.step \in steps
      PROVE  Saving(c, steps)'
  <2>1. g \in handlers' /\ JobOf(g) = Persisting(c)
    BY <1>3, SameJob DEF Replaced
  <2> QED BY <1>3, <2>1 DEF Saving, JobOf, Persisting
<1>4. CASE UpdateMessage(h) \/ InsertMessage(h)
  <2>1. h.step = 1 /\ At(h) = "message" /\ Advance(h)
    BY <1>1, <1>4 DEF UpdateMessage, InsertMessage, MessageWritten
  <2>2. PlaceOf(h) = Home(c)
    BY <1>0, <2>1 DEF PlaceOf, Home
  <2>3. Whole(c)'
    BY <1>4, <2>1, <2>2, WriteGrows DEF Whole
  <2>4. ASSUME c.conv PROVE Saving(c, {1, 2})'
    <3>1. Len(Steps(h.kind, h.copy.conv)) = 2
      BY <1>0, <2>1, <2>4, Positions
    <3>2. PICK g \in Handler : Onward(h, g) /\ Replaced(h, g)
      BY <2>1, <3>1, HandlerMoves
    <3> QED BY <1>3, <2>1, <3>2 DEF Onward
  <2> QED BY <2>3, <2>4
<1>5. CASE MissMessage(h) \/ MissConversation(h)
  <2>1. PICK g \in Handler : Waits(h, g) /\ Replaced(h, g)
    BY <1>5, HandlerMoves DEF MissMessage, MissConversation
  <2> QED BY <1>1, <1>3, <2>1 DEF Waits
<1>6. CASE UpdateConversation(h) \/ InsertConversation(h)
  <2>1. h.step = 2 /\ At(h) = "conversation" /\ WriteConversation(h)
    BY <1>1, <1>6 DEF UpdateConversation, InsertConversation
  <2>2. PairOf(h) = <<c.box, c.peer>>
    BY <1>0 DEF PairOf
  <2>3. conversations'[PairOf(h)] = SetConversation(h, conversations[PairOf(h)])
    BY <2>1, ConversationTypes DEF WriteConversation
  <2>4. conversations'[PairOf(h)].last = c.msg
    BY <1>0, <2>3 DEF SetConversation
  <2>5. c.msg # NONE
    BY CopyFields, ChatStoreAssumption
  <2> QED BY <2>1, <2>2, <2>4, <2>5
<1>7. CASE DuplicateKey(h)
  BY <1>1, <1>7 DEF DuplicateKey
<1> QED BY <1>2, <1>4, <1>5, <1>6, <1>7 DEF Write

LEMMA StepKeepsOthers ==
  ASSUME TypeOK, NEW h \in handlers, Step(h)
  PROVE  handlers \ {h} \subseteq handlers'
<1>1. CASE Write(h)
  BY <1>1, WriteMoves DEF End, Replaced
<1>2. CASE Detail(h)
  BY <1>2, DetailMoves DEF End, Replaced
<1>3. CASE DropNotice(h) \/ GiveNotice(h) \/ ConfirmNotice(h)
  BY <1>3, NoticeMoves DEF End, Replaced
<1> QED BY <1>1, <1>2, <1>3 DEF Step

\* A copy taken from the queue is being saved.
LEMMA TakeSaves ==
  ASSUME TypeOK, Origins, TakePersist, NEW c \in Copies, OnQueue(c)
  PROVE  OnQueue(c)' \/ Saving(c, {1})'
<1>0. persistQueue \in Seq(Job) /\ persistQueue # <<>> /\ persistQueue' = Tail(persistQueue)
      /\ Take(Head(persistQueue))
  BY DEF TypeOK, TakePersist
<1>1. PICK i \in DOMAIN persistQueue : persistQueue[i] = Persisting(c)
  BY DEF OnQueue
<1>2. /\ Head(persistQueue) = persistQueue[1] /\ Len(persistQueue) \in Nat
      /\ DOMAIN persistQueue = 1 .. Len(persistQueue)
      /\ DOMAIN Tail(persistQueue) = 1 .. Len(persistQueue) - 1
      /\ \A n \in DOMAIN Tail(persistQueue) : Tail(persistQueue)[n] = persistQueue[n + 1]
  BY <1>0, TailOf
<1>3. CASE i = 1
  <2>1. Persisting(c) \in Job /\ Persisting(c).kind = "persist"
    BY DEF Job, Persisting
  <2>2. Started(Persisting(c))
    BY <1>0, <1>1, <1>2, <1>3, <2>1, TakeStarts
  <2> QED BY <2>2 DEF Started, Saving, Persisting, JobOf
<1>4. CASE i # 1
  <2>1. i - 1 \in DOMAIN Tail(persistQueue) /\ (i - 1) + 1 = i
    BY <1>1, <1>2, <1>4
  <2>2. persistQueue'[i - 1] = Persisting(c) /\ i - 1 \in DOMAIN persistQueue'
    BY <1>0, <1>1, <1>2, <2>1
  <2> QED BY <2>2 DEF OnQueue, Persisting
<1> QED BY <1>3, <1>4

LEMMA PersistedNext == PersistedInv /\ [Next]_vars => PersistedInv'
<1> SUFFICES ASSUME PersistedInv, [Next]_vars PROVE PersistedInv'
  OBVIOUS
<1>0. /\ TypeOK /\ TypeOK' /\ Origins /\ Origins'
      /\ faults = 0 => \A c \in queued : OnItsWay(c)
      /\ queued \subseteq Copies /\ queued' \subseteq Copies
      /\ faults \in Nat
  BY TypeNext, OriginsNext DEF PersistedInv, TypeOK
<1> SUFFICES ASSUME faults' = 0, NEW c \in queued' PROVE OnItsWay(c)'
  BY <1>0 DEF PersistedInv
<1>1. CASE UNCHANGED vars
  <2>1. faults = 0 /\ c \in queued /\ OnItsWay(c)
    BY <1>0, <1>1 DEF vars, clients
  <2> QED BY <1>1, <2>1 DEF vars, clients, queues, database, history,
                            OnItsWay, Whole, OnQueue, Saving, Persisting, JobOf, Home
<1>2. ASSUME UNCHANGED <<messages, conversations, failed, handlers, faults>>,
             c \in queued /\ OnQueue(c) => OnQueue(c)',
             c \notin queued => OnQueue(c)'
      PROVE  OnItsWay(c)'
  <2>1. CASE c \in queued
    <3>1. OnItsWay(c)
      BY <1>0, <1>2, <2>1
    <3>2. /\ Whole(c)' <=> Whole(c)
          /\ Saving(c, {1})' <=> Saving(c, {1})
          /\ Saving(c, {1, 2})' <=> Saving(c, {1, 2})
      BY <1>2 DEF Whole, Saving, JobOf, Persisting, Home
    <3> QED BY <1>2, <2>1, <3>1, <3>2 DEF OnItsWay, Persisting
  <2>2. CASE c \notin queued
    BY <1>2, <2>2 DEF OnItsWay
  <2> QED BY <2>1, <2>2
<1>3. ASSUME NEW d \in Copies, ShowCopy(d) PROVE OnItsWay(c)'
  BY <1>2, <1>3 DEF ShowCopy, queues, database, history, OnQueue, Persisting
<1>4. ASSUME NEW d \in Copies, QueuePersist(d) PROVE OnItsWay(c)'
  <2>1. persistQueue \in Seq(Job) /\ Persisting(d) \in Job
        /\ persistQueue' = Append(persistQueue, Persisting(d))
    BY <1>0, <1>4 DEF QueuePersist, Persisting, Job, TypeOK
  <2>2. /\ \A i \in DOMAIN persistQueue :
             i \in DOMAIN persistQueue' /\ persistQueue'[i] = persistQueue[i]
        /\ \E i \in DOMAIN persistQueue' : persistQueue'[i] = Persisting(d)
    BY <2>1, AppendProperties, LenProperties
  <2>3. OnQueue(c) => OnQueue(c)'
    BY <2>2 DEF OnQueue, Persisting
  <2>4. c \notin queued => c = d
    BY <1>4 DEF QueuePersist
  <2>5. OnQueue(d)'
    BY <2>2 DEF OnQueue, Persisting
  <2> QED BY <1>2, <1>4, <2>3, <2>4, <2>5 DEF QueuePersist, database, history
<1>5. ASSUME NEW kind \in Commands, NEW d \in Copies, Ask(kind, d) PROVE OnItsWay(c)'
  BY <1>2, <1>5 DEF Ask, database, history, OnQueue, Persisting
<1>6. ASSUME UNCHANGED <<queued, database, failed, faults>>, handlers \subseteq handlers',
             OnQueue(c) => OnQueue(c)' \/ Saving(c, {1})'
      PROVE  OnItsWay(c)'
  <2>1. OnItsWay(c)
    BY <1>0, <1>6
  <2>2. /\ Whole(c) => Whole(c)'
        /\ Saving(c, {1}) => Saving(c, {1})'
        /\ Saving(c, {1, 2}) => Saving(c, {1, 2})'
        /\ Saving(c, {1})' => Saving(c, {1, 2})'
    BY <1>6 DEF Whole, Saving, JobOf, Persisting, Home, database
  <2> QED BY <1>6, <2>1, <2>2 DEF OnItsWay, Persisting, database
<1>7. CASE TakePersist
  <2>1. handlers \subseteq handlers' /\ UNCHANGED <<clients, database, failed, faults>>
    BY <1>0, <1>7, TakeMoves DEF Started
  <2> QED BY <1>0, <1>6, <1>7, <2>1, TakeSaves DEF clients
<1>8. CASE TakeCommand
  <2>1. handlers \subseteq handlers' /\ UNCHANGED <<clients, database, failed, faults>>
    BY <1>0, <1>8, TakeMoves DEF Started
  <2> QED BY <1>6, <1>8, <2>1 DEF TakeCommand, OnQueue, Persisting, clients
<1>9. ASSUME NEW h \in handlers, Step(h) PROVE OnItsWay(c)'
  <2>1. /\ UNCHANGED <<clients, queues>> /\ faults' = faults
        /\ Grows(messages, messages') /\ failed \subseteq failed'
        /\ handlers \ {h} \subseteq handlers'
    <3>1. faults' = faults
      BY <1>0, <1>9, WriteMoves, NoticeMoves DEF Step, Detail
    <3> QED BY <1>0, <1>9, <3>1, StepJobs, StepGrows, StepKeepsOthers
  <2>2. c \in Copies /\ OnItsWay(c)
    BY <1>0, <2>1 DEF clients
  <2>3. Home(c) \in Place /\ <<c.box, c.peer>> \in Pair
    BY <2>2, CopyFields
  <2>4. /\ Whole(c) => Whole(c)'
        /\ OnQueue(c) => OnQueue(c)'
        /\ conversations[<<c.box, c.peer>>].last # NONE
             => conversations'[<<c.box, c.peer>>].last # NONE
    BY <1>0, <1>9, <2>1, <2>3, LastKept DEF Grows, Whole, OnQueue, Persisting, queues
  <2>5. Saving(c, {1}) => Whole(c)' \/ Saving(c, {1})'
    <3>1. ASSUME NEW y \in handlers, JobOf(y) = Persisting(c), y.step \in {1}
          PROVE  Whole(c)' \/ Saving(c, {1})'
      <4>1. CASE y = h
        BY <1>0, <1>9, <2>2, <3>1, <4>1, SavesOn
      <4>2. CASE y # h
        BY <2>1, <3>1, <4>2 DEF Saving, JobOf, Persisting
      <4> QED BY <4>1, <4>2
    <3> QED BY <3>1 DEF Saving
  <2>6. c.conv /\ Saving(c, {1, 2}) =>
          \/ conversations'[<<c.box, c.peer>>].last # NONE
          \/ Persisting(c) \in failed'
          \/ Saving(c, {1, 2})'
    <3>1. ASSUME NEW y \in handlers, JobOf(y) = Persisting(c), y.step \in {1, 2}, c.conv
          PROVE  \/ conversations'[<<c.box, c.peer>>].last # NONE
                 \/ Persisting(c) \in failed'
                 \/ Saving(c, {1, 2})'
      <4>1. CASE y = h
        BY <1>0, <1>9, <2>2, <3>1, <4>1, SavesOn
      <4>2. CASE y # h
        BY <2>1, <3>1, <4>2 DEF Saving, JobOf, Persisting
      <4> QED BY <4>1, <4>2
    <3> QED BY <3>1 DEF Saving
  <2> QED BY <2>1, <2>2, <2>4, <2>5, <2>6 DEF OnItsWay, Persisting
<1>10. ASSUME (\E h \in handlers : Fail(h)) \/ (\E kinds \in Processes : Crash(kinds))
       PROVE  FALSE
  BY <1>0, <1>10 DEF Fail, Crash
<1> QED BY <1>1, <1>3, <1>4, <1>5, <1>7, <1>8, <1>9, <1>10 DEF Next

\* Once the queues and the handlers have come to rest without a failure, each copy
\* that was queued is on its timeline, and its conversation has a last message unless
\* a command disputed it: process_persist takes each copy through both writes.
THEOREM PersistedIsStoredHolds == Spec => []PersistedIsStored
<1>1. Init => PersistedInv
  BY TypeInit, OriginsInit DEF Init, PersistedInv
<1>2. PersistedInv => PersistedIsStored
  <2> SUFFICES ASSUME PersistedInv, faults = 0, persistQueue = <<>>, handlers = {},
                      NEW c \in queued
               PROVE  /\ \E i \in DOMAIN messages[Home(c)] : messages[Home(c)][i].whole
                      /\ \/ ~ c.conv \/ conversations[<<c.box, c.peer>>].last # NONE
                         \/ Persisting(c) \in failed
    BY DEF PersistedIsStored, Home, Persisting
  <2>1. OnItsWay(c)
    BY DEF PersistedInv
  <2>2. ~ OnQueue(c) /\ ~ Saving(c, {1}) /\ ~ Saving(c, {1, 2})
    BY DEF OnQueue, Saving
  <2> QED BY <2>1, <2>2 DEF OnItsWay, Whole, HasWhole
<1> QED BY <1>1, <1>2, PersistedNext, PTL DEF Spec

-----------------------------------------------------------------------------
(* A job is taken once, and in order.                                      *)

\* A handler whose job is stored is a persist on its second step.
LEMMA StoredMoves ==
  ASSUME TypeOK, NEW h \in handlers, Step(h) \/ Fail(h),
         JobOf(h) \in stored => h.kind = "persist" /\ h.step = 2
  PROVE  \/ End(h)
         \/ \E g \in Handler :
              /\ Same(h, g) /\ Replaced(h, g)
              /\ JobOf(h) \in stored' => g.kind = "persist" /\ g.step = 2
<1>0. h \in Handler /\ h.step \in DOMAIN Steps(h.kind, h.copy.conv)
  BY DEF TypeOK
<1>1. CASE UpdateMessage(h) \/ InsertMessage(h)
  <2>1. At(h) \in {"message", "mine", "theirs"} /\ MessageWritten(h)
    BY <1>1 DEF UpdateMessage, InsertMessage
  <2>2. ASSUME NEW g \in Handler, Onward(h, g), JobOf(h) \in stored'
        PROVE  g.kind = "persist" /\ g.step = 2
    <3>1. g.kind = h.kind /\ g.step = h.step + 1 /\ g.step \in DOMAIN Steps(g.kind, g.copy.conv)
      BY <2>2 DEF Onward, Same
    <3>2. At(h) = "theirs" => FALSE
      BY <1>0, <3>1, Positions
    <3>3. At(h) = "mine" => stored' = stored
      BY <2>1 DEF MessageWritten
    <3> QED BY <1>0, <2>1, <2>2, <3>1, <3>2, <3>3, Positions
  <2> QED BY <2>1, <2>2, HandlerMoves DEF MessageWritten, Onward
<1>2. CASE MissMessage(h) \/ MissConversation(h)
  <2>1. stored' = stored /\ Wait(h)
    BY <1>2 DEF MissMessage, MissConversation, history
  <2> QED BY <2>1, HandlerMoves DEF Waits, Same
<1>3. CASE UpdateConversation(h) \/ InsertConversation(h)
  <2>1. stored' = stored /\ Advance(h) /\ At(h) = "conversation"
    BY <1>3 DEF UpdateConversation, InsertConversation, WriteConversation, history
  <2>2. ASSUME NEW g \in Handler, Onward(h, g) PROVE JobOf(h) \notin stored
    <3>1. g.kind = h.kind /\ g.step = h.step + 1 /\ g.step \in DOMAIN Steps(g.kind, g.copy.conv)
      BY <2>2 DEF Onward, Same
    <3>2. ~ (h.kind = "persist" /\ h.step = 2)
      BY <3>1, Positions
    <3> QED BY <3>2
  <2> QED BY <2>1, <2>2, HandlerMoves DEF Onward
<1>4. CASE DuplicateKey(h)
  BY <1>4 DEF DuplicateKey
<1>5. CASE Detail(h)
  <2>1. stored' = stored
    BY <1>5 DEF Detail, history
  <2> QED BY <1>5, <2>1, DetailMoves
<1>6. CASE DropNotice(h) \/ GiveNotice(h) \/ ConfirmNotice(h)
  <2>1. stored' = stored /\ At(h) \in Topics
    BY <1>6, NoticeMoves DEF history
  <2>2. h.kind # "persist"
    BY <1>0, <2>1, Positions DEF Topics
  <2> QED BY <1>6, <2>1, <2>2, NoticeMoves DEF Onward, Waits
<1>7. CASE Fail(h)
  <2>1. ASSUME NEW g \in Handler, Onward(h, g), h.kind = "persist", h.step = 1
        PROVE  g.kind = "persist" /\ g.step = 2
    BY <2>1 DEF Onward, Same
  <2> QED BY <1>7, <2>1, FailMoves DEF Onward
<1> QED BY <1>1, <1>2, <1>3, <1>4, <1>5, <1>6, <1>7 DEF Step, Write

\* The parts of Once.
Distinct(q) == \A i, k \in DOMAIN q : q[i] = q[k] => i = k

Unseen(q, hs, done) ==
  /\ \A i \in DOMAIN q : q[i] \notin done
  /\ \A h \in hs, i \in DOMAIN q : q[i] # JobOf(h)

NotYet(q) == Unseen(q, handlers, stored)

Taken ==
  /\ \A g, h \in handlers : JobOf(g) = JobOf(h) => g = h
  /\ \A h \in handlers : JobOf(h) \in stored => h.kind = "persist" /\ h.step = 2

LEMMA OnceParts ==
  Once <=> /\ Distinct(persistQueue) /\ Distinct(messageQueue)
           /\ NotYet(persistQueue) /\ NotYet(messageQueue) /\ Taken
BY DEF Once, Distinct, NotYet, Unseen, Taken

LEMMA DistinctAppend ==
  ASSUME NEW q \in Seq(Job), NEW job \in Job, Distinct(q), \A i \in DOMAIN q : q[i] # job
  PROVE  Distinct(Append(q, job))
<1>1. /\ DOMAIN q = 1 .. Len(q) /\ Len(q) \in Nat
      /\ DOMAIN Append(q, job) = 1 .. Len(q) + 1
      /\ \A i \in 1 .. Len(q) : Append(q, job)[i] = q[i]
      /\ Append(q, job)[Len(q) + 1] = job
  BY AppendProperties, LenProperties
<1>2. \A i \in DOMAIN Append(q, job) : i \in DOMAIN q \/ i = Len(q) + 1
  BY <1>1
<1> QED BY <1>1, <1>2 DEF Distinct

LEMMA NewJob ==
  ASSUME TypeOK, Origins, NEW job \in Job,
         NEW q, q = IF job.kind = "persist" THEN persistQueue ELSE messageQueue,
         ~ Issued(job)
  PROVE  /\ \A i \in DOMAIN q : q[i] # job
         /\ job \notin stored /\ \A h \in handlers : JobOf(h) # job
BY DEF Origins

LEMMA OnceClients ==
  ASSUME TypeOK, Origins, Once,
         \/ \E c \in Copies : ShowCopy(c) \/ QueuePersist(c)
         \/ \E kind \in Commands, c \in Copies : Ask(kind, c)
  PROVE  Once'
<1>0. /\ UNCHANGED <<handlers, stored>>
      /\ persistQueue \in Seq(Job) /\ messageQueue \in Seq(Job)
  BY ClientMoves DEF history, TypeOK
<1>1. ASSUME NEW c \in Copies, ShowCopy(c) PROVE Once'
  BY <1>0, <1>1 DEF ShowCopy, queues, Once, JobOf
<1>2. ASSUME NEW job \in Job, NEW q \in Seq(Job), NEW t, t = Append(q, job),
             NotYet(q), job \notin stored, \A h \in handlers : JobOf(h) # job
      PROVE  NotYet(t)
  <2>1. /\ DOMAIN q = 1 .. Len(q) /\ Len(q) \in Nat
        /\ DOMAIN t = 1 .. Len(q) + 1
        /\ \A i \in 1 .. Len(q) : t[i] = q[i]
        /\ t[Len(q) + 1] = job
    BY <1>2, AppendProperties, LenProperties
  <2>2. \A i \in DOMAIN t : (i \in DOMAIN q /\ t[i] = q[i]) \/ t[i] = job
    BY <2>1
  <2> QED BY <1>2, <2>2 DEF NotYet, Unseen
<1>3. ASSUME NEW c \in Copies, QueuePersist(c) PROVE Once'
  <2> DEFINE job == [kind |-> "persist", copy |-> c]
  <2>1. persistQueue' = Append(persistQueue, job) /\ messageQueue' = messageQueue
        /\ job \in Job /\ ~ Issued(job) /\ job.kind = "persist"
    BY <1>3 DEF QueuePersist, Issued, Job
  <2> HIDE DEF job
  <2>2. /\ \A i \in DOMAIN persistQueue : persistQueue[i] # job
        /\ job \notin stored /\ \A h \in handlers : JobOf(h) # job
    BY <2>1, NewJob
  <2>3. Distinct(persistQueue') /\ NotYet(persistQueue')
    BY <1>0, <1>2, <2>1, <2>2, DistinctAppend, OnceParts
  <2> QED BY <1>0, <2>1, <2>3, OnceParts DEF Once, Distinct, NotYet, Unseen, Taken, JobOf
<1>4. ASSUME NEW kind \in Commands, NEW c \in Copies, Ask(kind, c) PROVE Once'
  <2> DEFINE job == [kind |-> kind, copy |-> c]
  <2>1. messageQueue' = Append(messageQueue, job) /\ persistQueue' = persistQueue
        /\ job \in Job /\ ~ Issued(job) /\ job.kind # "persist"
    BY <1>4, ChatStoreAssumption DEF Ask, Issued, Job
  <2> HIDE DEF job
  <2>2. /\ \A i \in DOMAIN messageQueue : messageQueue[i] # job
        /\ job \notin stored /\ \A h \in handlers : JobOf(h) # job
    BY <2>1, NewJob
  <2>3. Distinct(messageQueue') /\ NotYet(messageQueue')
    BY <1>0, <1>2, <2>1, <2>2, DistinctAppend, OnceParts
  <2> QED BY <1>0, <2>1, <2>3, OnceParts DEF Once, Distinct, NotYet, Unseen, Taken, JobOf
<1> QED BY <1>1, <1>3, <1>4

\* What is left of a queue, shifted.
Later(q, t, n) ==
  \A i \in DOMAIN t : i + n \in DOMAIN q /\ t[i] = q[i + n]

LEMMA LaterQueue ==
  ASSUME NEW q \in Seq(Job), NEW t \in Seq(Job), NEW n \in Nat, Later(q, t, n)
  PROVE  /\ Distinct(q) => Distinct(t)
         /\ NotYet(q) => NotYet(t)
<1>1. DOMAIN t \subseteq Int
  BY LenProperties
<1>2. \A i, k \in DOMAIN t : i + n = k + n => i = k
  BY <1>1
<1>3. Distinct(q) => Distinct(t)
  BY <1>2 DEF Distinct, Later
<1>4. NotYet(q) => NotYet(t)
  BY DEF NotYet, Unseen, Later
<1> QED BY <1>3, <1>4

LEMMA OnceTake ==
  ASSUME TypeOK, Origins, Once, NEW q \in Seq(Job), NEW other \in Seq(Job),
         \/ q = persistQueue /\ other = messageQueue
         \/ q = messageQueue /\ other = persistQueue,
         q # <<>>, Take(Head(q))
  PROVE  /\ Unseen(Tail(q), handlers', stored') /\ Unseen(other, handlers', stored')
         /\ Taken' /\ Distinct(Tail(q)) /\ Distinct(other)
<1>1. /\ Head(q) = q[1] /\ 1 \in DOMAIN q /\ Len(q) \in Nat
      /\ DOMAIN q = 1 .. Len(q) /\ DOMAIN Tail(q) = 1 .. Len(q) - 1
      /\ \A i \in DOMAIN Tail(q) : i + 1 \in DOMAIN q /\ Tail(q)[i] = q[i + 1]
      /\ Head(q) \in Job /\ Tail(q) \in Seq(Job)
  BY TailOf, HeadTailProperties
<1>2. Distinct(q) /\ Distinct(other) /\ NotYet(q) /\ NotYet(other) /\ Taken
  BY OnceParts
<1>3. Distinct(Tail(q)) /\ NotYet(Tail(q))
  BY <1>1, <1>2, LaterQueue DEF Later
<1>4. stored' = stored
  BY DEF Take
<1>5. \A i \in DOMAIN Tail(q) : Tail(q)[i] # q[1]
  <2>1. \A i \in DOMAIN Tail(q) : i + 1 # 1
    BY <1>1
  <2> QED BY <1>1, <1>2, <2>1 DEF Distinct
<1>6. \A i \in DOMAIN other : other[i] # q[1]
  BY <1>1 DEF Origins
<1>7. CASE handlers' = handlers
  BY <1>2, <1>3, <1>4, <1>7 DEF NotYet, Unseen, Taken, JobOf
<1>8. CASE Started(q[1])
  <2>1. PICK g \in Handler : JobOf(g) = q[1] /\ handlers' = handlers \cup {g}
    BY <1>8 DEF Started
  <2>2. \A x \in handlers : JobOf(x) # JobOf(g)
    BY <1>1, <1>2, <2>1 DEF NotYet, Unseen
  <2>3. JobOf(g) \notin stored
    BY <1>1, <1>2, <2>1 DEF NotYet, Unseen
  <2>4. Unseen(Tail(q), handlers', stored')
    BY <1>3, <1>4, <1>5, <2>1 DEF NotYet, Unseen, JobOf
  <2>5. Unseen(other, handlers', stored')
    BY <1>2, <1>4, <1>6, <2>1 DEF NotYet, Unseen, JobOf
  <2>6. Taken'
    BY <1>2, <1>4, <2>1, <2>2, <2>3 DEF Taken, JobOf
  <2> QED BY <1>2, <1>3, <2>4, <2>5, <2>6
<1> QED BY <1>1, <1>7, <1>8, TakeStarts

LEMMA OnceNext == TypeOK /\ Origins /\ Once /\ [Next]_vars => Once'
<1> SUFFICES ASSUME TypeOK, Origins, Once, [Next]_vars PROVE Once'
  OBVIOUS
<1>0. /\ persistQueue \in Seq(Job) /\ messageQueue \in Seq(Job)
      /\ persistQueue' \in Seq(Job) /\ messageQueue' \in Seq(Job)
      /\ Distinct(persistQueue) /\ Distinct(messageQueue)
      /\ NotYet(persistQueue) /\ NotYet(messageQueue) /\ Taken
  BY TypeNext, OnceParts DEF TypeOK
<1>1. CASE UNCHANGED vars
  BY <1>1 DEF vars, queues, history, Once, JobOf
<1>2. CASE \/ \E c \in Copies : ShowCopy(c) \/ QueuePersist(c)
           \/ \E kind \in Commands, c \in Copies : Ask(kind, c)
  BY <1>2, OnceClients
<1>3. CASE TakePersist
  <2>1. /\ persistQueue # <<>> /\ Take(Head(persistQueue))
        /\ persistQueue' = Tail(persistQueue) /\ messageQueue' = messageQueue
    BY <1>3 DEF TakePersist
  <2>2. /\ Unseen(Tail(persistQueue), handlers', stored')
        /\ Unseen(messageQueue, handlers', stored')
        /\ Taken' /\ Distinct(Tail(persistQueue)) /\ Distinct(messageQueue)
    BY <1>0, <2>1, OnceTake
  <2> QED BY <2>1, <2>2 DEF Once, Distinct, NotYet, Unseen, Taken, JobOf
<1>4. CASE TakeCommand
  <2>1. /\ messageQueue # <<>> /\ Take(Head(messageQueue))
        /\ messageQueue' = Tail(messageQueue) /\ persistQueue' = persistQueue
    BY <1>4 DEF TakeCommand
  <2>2. /\ Unseen(Tail(messageQueue), handlers', stored')
        /\ Unseen(persistQueue, handlers', stored')
        /\ Taken' /\ Distinct(Tail(messageQueue)) /\ Distinct(persistQueue)
    BY <1>0, <2>1, OnceTake
  <2> QED BY <2>1, <2>2 DEF Once, Distinct, NotYet, Unseen, Taken, JobOf
<1>5. ASSUME NEW h \in handlers, Step(h) \/ Fail(h) PROVE Once'
  <2>1. UNCHANGED <<persistQueue, messageQueue>> /\ stored' \subseteq stored \cup {JobOf(h)}
        /\ \A x \in handlers' : \E y \in handlers : JobOf(x) = JobOf(y)
    BY <1>5, StepJobs DEF queues
  <2>2. ASSUME NEW q, NotYet(q)
        PROVE  /\ \A i \in DOMAIN q : q[i] \notin stored'
               /\ \A x \in handlers', i \in DOMAIN q : q[i] # JobOf(x)
    BY <2>1, <2>2 DEF NotYet, Unseen
  <2>3. Taken'
    <3>1. \/ End(h)
          \/ \E g \in Handler :
               /\ Same(h, g) /\ Replaced(h, g)
               /\ JobOf(h) \in stored' => g.kind = "persist" /\ g.step = 2
      BY <1>0, <1>5, StoredMoves DEF Taken
    <3>2. \A x \in handlers \ {h} :
            JobOf(x) # JobOf(h) /\ (JobOf(x) \in stored' => x.kind = "persist" /\ x.step = 2)
      BY <1>0, <2>1 DEF Taken
    <3>3. CASE End(h)
      BY <1>0, <3>2, <3>3 DEF End, Taken, JobOf
    <3>4. ASSUME NEW g \in Handler, Same(h, g), Replaced(h, g),
                 JobOf(h) \in stored' => g.kind = "persist" /\ g.step = 2
          PROVE  Taken'
      <4>1. JobOf(g) = JobOf(h)
        BY <3>4, SameJob
      <4>2. \A x, y \in handlers' : JobOf(x) = JobOf(y) => x = y
        BY <1>0, <3>2, <3>4, <4>1 DEF Replaced, Taken
      <4>3. \A x \in handlers' : JobOf(x) \in stored' => x.kind = "persist" /\ x.step = 2
        BY <3>2, <3>4, <4>1 DEF Replaced
      <4> QED BY <4>2, <4>3 DEF Taken, JobOf
    <3> QED BY <3>1, <3>3, <3>4
  <2>4. /\ \A i \in DOMAIN persistQueue : persistQueue[i] \notin stored'
        /\ \A x \in handlers', i \in DOMAIN persistQueue : persistQueue[i] # JobOf(x)
        /\ \A i \in DOMAIN messageQueue : messageQueue[i] \notin stored'
        /\ \A x \in handlers', i \in DOMAIN messageQueue : messageQueue[i] # JobOf(x)
    BY <1>0, <2>2
  <2> QED BY <1>0, <2>1, <2>3, <2>4 DEF Once, Taken, Distinct, JobOf
<1>6. ASSUME NEW kinds \in Processes, Crash(kinds) PROVE Once'
  <2>1. /\ handlers' \subseteq handlers /\ stored' = stored
        /\ \E n \in 0 .. Len(persistQueue) : Drops(persistQueue, persistQueue', n)
        /\ \E n \in 0 .. Len(messageQueue) : Drops(messageQueue, messageQueue', n)
    BY <1>6, CrashDrops DEF Crash, history
  <2>2. /\ Distinct(persistQueue') /\ NotYet(persistQueue')
        /\ Distinct(messageQueue') /\ NotYet(messageQueue')
    <3>1. ASSUME NEW q \in Seq(Job), NEW t \in Seq(Job), NEW n \in 0 .. Len(q), Drops(q, t, n)
          PROVE  Later(q, t, n) /\ n \in Nat
      BY <3>1, LenProperties DEF Drops, Later
    <3> QED BY <1>0, <2>1, <3>1, LaterQueue
  <2> QED BY <1>0, <2>1, <2>2 DEF Once, Distinct, NotYet, Unseen, Taken, JobOf
<1> QED BY <1>1, <1>2, <1>3, <1>4, <1>5, <1>6 DEF Next

LEMMA OrderedQueue ==
  ASSUME TypeOK, Origins, Ordered, NEW c \in Copies, QueuePersist(c)
  PROVE  Ordered'
<1> DEFINE n == Len(persistQueue) + 1
<1>1. /\ n \in DOMAIN persistQueue' /\ persistQueue'[n] = Persisting(c)
      /\ \A i \in DOMAIN persistQueue' :
           \/ i = n
           \/ i \in DOMAIN persistQueue /\ persistQueue'[i] = persistQueue[i] /\ i < n
      /\ \A i \in DOMAIN persistQueue :
           i \in DOMAIN persistQueue' /\ persistQueue'[i] = persistQueue[i]
  <2>1. persistQueue \in Seq(Job) /\ Persisting(c) \in Job
        /\ persistQueue' = Append(persistQueue, Persisting(c))
    BY DEF QueuePersist, Persisting, Job, TypeOK
  <2>2. /\ DOMAIN persistQueue = 1 .. Len(persistQueue) /\ Len(persistQueue) \in Nat
        /\ DOMAIN persistQueue' = 1 .. n
        /\ \A i \in 1 .. Len(persistQueue) : persistQueue'[i] = persistQueue[i]
        /\ persistQueue'[n] = Persisting(c)
    BY <2>1, AppendProperties, LenProperties
  <2> QED BY <2>2
<1>2. queued' = queued \cup {c} /\ c \in shown /\ c \notin queued /\ Persisting(c).copy = c
  BY DEF QueuePersist, Persisting
<1> HIDE DEF n
<1> SUFFICES ASSUME NEW i \in DOMAIN persistQueue', NEW d \in queued',
                    SenderOf(persistQueue'[i].copy, d)
             PROVE  \E k \in DOMAIN persistQueue' : i < k /\ persistQueue'[k] = Persisting(d)
  BY DEF Ordered, Persisting
<1>3. CASE i = n
  <2>1. SenderOf(c, d) /\ c.status = SENT /\ d.status = DELIVERED
    BY <1>1, <1>2, <1>3 DEF SenderOf
  <2>2. d # c
    BY <2>1 DEF SENT, DELIVERED
  <2>3. d \in shown
    BY <1>2, <2>2 DEF Origins
  <2> QED BY <1>2, <2>1, <2>3 DEF Origins
<1>4. CASE i # n /\ d = c
  BY <1>1, <1>4
<1>5. CASE i # n /\ d # c
  <2>1. i \in DOMAIN persistQueue /\ persistQueue'[i] = persistQueue[i] /\ d \in queued
    BY <1>1, <1>2, <1>5
  <2>2. PICK k \in DOMAIN persistQueue : i < k /\ persistQueue[k] = Persisting(d)
    BY <2>1 DEF Ordered
  <2> QED BY <1>1, <2>2
<1> QED BY <1>3, <1>4, <1>5

LEMMA OrderedLater ==
  ASSUME TypeOK, TypeOK', Ordered, queued' = queued, NEW n \in Nat,
         Later(persistQueue, persistQueue', n),
         Len(persistQueue') = Len(persistQueue) - n
  PROVE  Ordered'
<1>1. /\ Len(persistQueue) \in Nat /\ Len(persistQueue') \in Nat
      /\ DOMAIN persistQueue = 1 .. Len(persistQueue)
      /\ DOMAIN persistQueue' = 1 .. Len(persistQueue')
  BY LenProperties DEF TypeOK
<1> SUFFICES ASSUME NEW i \in DOMAIN persistQueue', NEW d \in queued,
                    SenderOf(persistQueue'[i].copy, d)
             PROVE  \E k \in DOMAIN persistQueue' : i < k /\ persistQueue'[k] = Persisting(d)
  BY DEF Ordered, Persisting
<1>2. i + n \in DOMAIN persistQueue /\ persistQueue'[i] = persistQueue[i + n]
  BY DEF Later
<1>3. PICK k \in DOMAIN persistQueue : i + n < k /\ persistQueue[k] = Persisting(d)
  BY <1>2 DEF Ordered
<1>4. k - n \in DOMAIN persistQueue' /\ i < k - n /\ (k - n) + n = k
  BY <1>1, <1>3
<1>5. persistQueue'[k - n] = persistQueue[(k - n) + n]
  BY <1>4 DEF Later
<1> QED BY <1>3, <1>4, <1>5

LEMMA OrderedNext == TypeOK /\ Origins /\ Ordered /\ [Next]_vars => Ordered'
<1> SUFFICES ASSUME TypeOK, Origins, Ordered, [Next]_vars PROVE Ordered'
  OBVIOUS
<1>0. TypeOK' /\ persistQueue \in Seq(Job)
  BY TypeNext DEF TypeOK
<1>1. ASSUME UNCHANGED <<queued, persistQueue>> PROVE Ordered'
  BY <1>1 DEF Ordered, Persisting
<1>2. CASE UNCHANGED vars
  BY <1>1, <1>2 DEF vars, clients, queues
<1>3. ASSUME NEW c \in Copies, ShowCopy(c) PROVE Ordered'
  BY <1>1, <1>3 DEF ShowCopy, queues
<1>4. ASSUME NEW c \in Copies, QueuePersist(c) PROVE Ordered'
  BY <1>4, OrderedQueue
<1>5. ASSUME NEW kind \in Commands, NEW c \in Copies, Ask(kind, c) PROVE Ordered'
  BY <1>1, <1>5 DEF Ask
<1>6. CASE TakePersist
  <2>1. /\ Later(persistQueue, persistQueue', 1)
        /\ Len(persistQueue') = Len(persistQueue) - 1 /\ queued' = queued
    BY <1>0, <1>6, TailOf, HeadTailProperties DEF TakePersist, Take, clients, Later
  <2> QED BY <1>0, <2>1, OrderedLater
<1>7. CASE TakeCommand
  BY <1>1, <1>7 DEF TakeCommand, Take, clients
<1>8. ASSUME NEW h \in handlers, Step(h) \/ Fail(h) PROVE Ordered'
  BY <1>1, <1>8, StepJobs DEF clients, queues
<1>9. ASSUME NEW kinds \in Processes, Crash(kinds) PROVE Ordered'
  <2>1. PICK n \in 0 .. Len(persistQueue) : Drops(persistQueue, persistQueue', n)
    BY <1>9, CrashDrops
  <2>2. n \in Nat /\ queued' = queued
    BY <1>0, <1>9, LenProperties DEF Crash, clients
  <2> QED BY <1>0, <2>1, <2>2, OrderedLater DEF Drops, Later
<1> QED BY <1>2, <1>3, <1>4, <1>5, <1>6, <1>7, <1>8, <1>9 DEF Next

-----------------------------------------------------------------------------
(* A return receipt stays.                                                 *)

LEMMA StoredStays == TypeOK /\ [Next]_vars => stored \subseteq stored'
<1> SUFFICES ASSUME TypeOK, [Next]_vars PROVE stored \subseteq stored'
  OBVIOUS
<1>1. CASE UNCHANGED vars
  BY <1>1 DEF vars, history
<1>2. CASE \/ \E c \in Copies : ShowCopy(c) \/ QueuePersist(c)
           \/ \E kind \in Commands, c \in Copies : Ask(kind, c)
  BY <1>2, ClientMoves DEF history
<1>3. CASE TakePersist \/ TakeCommand
  BY <1>3, TakeMoves
<1>4. ASSUME NEW h \in handlers, Step(h) \/ Fail(h) PROVE stored \subseteq stored'
  <2>1. CASE Write(h)
    BY <2>1 DEF Write, UpdateMessage, InsertMessage, MessageWritten, MissMessage,
                MissConversation, UpdateConversation, InsertConversation,
                WriteConversation, DuplicateKey, history
  <2>2. CASE ~ Write(h)
    BY <1>4, <2>2, NoticeMoves, FailMoves DEF Step, Detail, history
  <2> QED BY <2>1, <2>2
<1>5. ASSUME NEW kinds \in Processes, Crash(kinds) PROVE stored \subseteq stored'
  BY <1>5 DEF Crash, history
<1> QED BY <1>1, <1>2, <1>3, <1>4, <1>5 DEF Next

\* A step ends its handler or takes it on; one that comes to wait at a write of a
\* message found no document.
LEMMA StepOn ==
  ASSUME TypeOK, NEW h \in handlers, Step(h) \/ Fail(h)
  PROVE  \/ End(h)
         \/ \E g \in Handler :
              /\ Same(h, g) /\ Replaced(h, g)
              /\ \/ g.step = h.step + 1 /\ (g.phase = "go" \/ h.kind = "archive")
                 \/ /\ g.step = h.step /\ g.phase = "wait"
                    /\ At(h) \in {"message", "mine", "theirs"} => messages[PlaceOf(h)] = <<>>
<1>1. CASE UpdateMessage(h) \/ InsertMessage(h)
  BY <1>1, HandlerMoves DEF UpdateMessage, InsertMessage, MessageWritten, Onward
<1>2. CASE MissMessage(h)
  BY <1>2, HandlerMoves DEF MissMessage, Waits
<1>3. CASE MissConversation(h)
  BY <1>3, HandlerMoves DEF MissConversation, Waits
<1>4. CASE UpdateConversation(h) \/ InsertConversation(h)
  BY <1>4, HandlerMoves DEF UpdateConversation, InsertConversation, WriteConversation, Onward
<1>5. CASE DuplicateKey(h)
  BY <1>5 DEF DuplicateKey
<1>6. CASE Detail(h)
  <2>1. ASSUME NEW g, h.step = 2, g.step = 3 PROVE g.step = h.step + 1
    BY <2>1
  <2> QED BY <1>6, <2>1, DetailMoves
<1>7. CASE DropNotice(h) \/ GiveNotice(h) \/ ConfirmNotice(h)
  BY <1>7, NoticeMoves DEF Onward, Waits, Topics
<1>8. CASE Fail(h)
  BY <1>8, FailMoves DEF Onward
<1> QED BY <1>1, <1>2, <1>3, <1>4, <1>5, <1>6, <1>7, <1>8 DEF Step, Write

\* A persist that writes at k was one before, or is taken from the queue.
LEMMA WriterComes ==
  ASSUME TypeOK, Origins, [Next]_vars, NEW k \in Place, k \notin raced',
         NEW g \in handlers', Writes(g, k)
  PROVE  \/ \E h \in handlers : Writes(h, k)
         \/ \E i \in DOMAIN persistQueue :
              Home(persistQueue[i].copy) = k /\ ~ persistQueue[i].copy.again
<1>0. persistQueue \in Seq(Job) /\ messageQueue \in Seq(Job)
  BY DEF TypeOK
<1>1. CASE handlers' \subseteq handlers
  BY <1>1
<1>2. CASE TakePersist
  <2>1. persistQueue # <<>> /\ Head(persistQueue) \in Job /\ Take(Head(persistQueue))
    BY <1>0, <1>2, HeadTailProperties DEF TakePersist
  <2>2. handlers' = handlers \/ Started(persistQueue[1])
    BY <1>0, <2>1, TailOf, TakeStarts
  <2>3. 1 \in DOMAIN persistQueue /\ Head(persistQueue) = persistQueue[1]
        /\ persistQueue[1].kind = "persist"
    BY <1>0, <2>1, TailOf, HeadTailProperties DEF Origins
  <2>4. Home(persistQueue[1].copy) = k => ~ persistQueue[1].copy.again
    BY <2>1, <2>3 DEF Take, Races, Places, Home
  <2> QED BY <2>2, <2>3, <2>4 DEF Started, Writes
<1>3. CASE TakeCommand
  <2>1. messageQueue # <<>> /\ Head(messageQueue) \in Job /\ Take(Head(messageQueue))
    BY <1>0, <1>3, HeadTailProperties DEF TakeCommand
  <2>2. handlers' = handlers \/ Started(messageQueue[1])
    BY <1>0, <2>1, TailOf, TakeStarts
  <2>3. 1 \in DOMAIN messageQueue /\ messageQueue[1].kind # "persist"
    BY <1>0, <2>1, TailOf DEF Origins
  <2> QED BY <2>2, <2>3 DEF Started, Writes
<1>4. ASSUME NEW h \in handlers, Step(h) \/ Fail(h)
      PROVE  \E x \in handlers : Writes(x, k)
  <2>1. CASE g \in handlers
    BY <2>1
  <2>2. CASE g \notin handlers
    <3>1. Same(h, g) /\ (g.step = h.step + 1 \/ g.step = h.step)
      BY <1>4, <2>2, StepOn DEF End, Replaced
    <3>2. h.step \in 1 .. 4
      BY DEF TypeOK, Handler
    <3>3. g.step = h.step
      <4>1. g.step = 1
        BY DEF Writes
      <4> QED BY <3>1, <3>2, <4>1
    <3> QED BY <3>1, <3>3 DEF Writes, Same
  <2> QED BY <2>1, <2>2
<1>5. CASE \/ UNCHANGED vars
           \/ \E c \in Copies : ShowCopy(c) \/ QueuePersist(c)
           \/ \E kind \in Commands, c \in Copies : Ask(kind, c)
           \/ \E kinds \in Processes : Crash(kinds)
  BY <1>1, <1>5, ClientMoves, CrashDrops DEF vars
<1> QED BY <1>2, <1>3, <1>4, <1>5 DEF Next

\* A job in the persist queue was there, or is a copy that was shown.
LEMMA QueueComes ==
  ASSUME TypeOK, [Next]_vars, NEW i \in DOMAIN persistQueue'
  PROVE  \/ \E n \in DOMAIN persistQueue : persistQueue'[i] = persistQueue[n]
         \/ \E c \in shown \ queued : persistQueue'[i] = Persisting(c)
<1>0. persistQueue \in Seq(Job)
  BY DEF TypeOK
<1>1. CASE persistQueue' = persistQueue
  BY <1>1
<1>2. ASSUME NEW c \in Copies, QueuePersist(c)
      PROVE  \/ \E n \in DOMAIN persistQueue : persistQueue'[i] = persistQueue[n]
             \/ \E d \in shown \ queued : persistQueue'[i] = Persisting(d)
  <2>1. Persisting(c) \in Job /\ c \in shown \ queued
        /\ persistQueue' = Append(persistQueue, Persisting(c))
    BY <1>2 DEF QueuePersist, Persisting, Job
  <2>2. /\ DOMAIN persistQueue = 1 .. Len(persistQueue) /\ Len(persistQueue) \in Nat
        /\ DOMAIN persistQueue' = 1 .. Len(persistQueue) + 1
        /\ \A n \in 1 .. Len(persistQueue) : persistQueue'[n] = persistQueue[n]
        /\ persistQueue'[Len(persistQueue) + 1] = Persisting(c)
    BY <1>0, <2>1, AppendProperties, LenProperties
  <2>3. i \in DOMAIN persistQueue \/ i = Len(persistQueue) + 1
    BY <2>2
  <2> QED BY <2>1, <2>2, <2>3
<1>3. CASE TakePersist
  BY <1>0, <1>3, TailOf DEF TakePersist
<1>4. ASSUME NEW kinds \in Processes, Crash(kinds)
      PROVE  \E n \in DOMAIN persistQueue : persistQueue'[i] = persistQueue[n]
  BY <1>4, CrashDrops DEF Drops
<1>5. CASE \/ UNCHANGED vars \/ TakeCommand
           \/ \E c \in Copies : ShowCopy(c)
           \/ \E kind \in Commands, c \in Copies : Ask(kind, c)
           \/ \E h \in handlers : Step(h) \/ Fail(h)
  BY <1>1, <1>5, StepJobs DEF vars, queues, ShowCopy, Ask, TakeCommand
<1> QED BY <1>2, <1>3, <1>4, <1>5 DEF Next

LEMMA ClosedStays ==
  ASSUME TypeOK, Origins, [Next]_vars, NEW k \in Place, k \notin raced', Closed(k)
  PROVE  Closed(k)'
<1>1. Saved(k)'
  <2>1. stored \subseteq stored'
    BY StoredStays
  <2> QED BY <2>1 DEF Closed, Saved, Places
<1>2. \A h \in handlers' : ~ Writes(h, k)
  BY WriterComes DEF Closed
<1>3. shown \subseteq shown' /\ queued \subseteq queued'
  BY TakeMoves, StepJobs DEF Next, vars, clients, ShowCopy, QueuePersist, Ask, Crash
<1>4. ASSUME NEW i \in DOMAIN persistQueue', Home(persistQueue'[i].copy) = k
      PROVE  persistQueue'[i].copy.again
  <2>1. CASE \E n \in DOMAIN persistQueue : persistQueue'[i] = persistQueue[n]
    BY <1>4, <2>1 DEF Closed
  <2>2. ASSUME NEW c \in shown \ queued, persistQueue'[i] = Persisting(c)
        PROVE  persistQueue'[i].copy.again
    <3>1. Home(c) = k /\ persistQueue'[i].copy = c
      BY <1>4, <2>2 DEF Persisting
    <3>2. PICK w \in Workloads : shown \subseteq w
      BY DEF Origins
    <3> QED BY <3>1, <3>2 DEF Closed
  <2> QED BY <2>1, <2>2, QueueComes
<1>5. ASSUME NEW w \in Workloads, shown' \subseteq w, NEW c \in w, Home(c) = k
      PROVE  c.again \/ c \in queued'
  BY <1>3, <1>5 DEF Closed
<1> QED BY <1>1, <1>2, <1>4, <1>5 DEF Closed, Writes, Home

\* A copy for the place of one that is saved is queued already, and no longer waits.
LEMMA CopyOfSaved ==
  ASSUME TypeOK, Origins, Once, Ordered, NEW d \in Copies, Persisting(d) \in stored,
         NEW w \in Workloads, shown \subseteq w, NEW e \in w, Home(e) = Home(d),
         ~ d.again, ~ e.again, SenderOf(d, e) => Persisting(e) \in stored
  PROVE  e \in queued /\ ~ OnQueue(e)
<1>1. d \in queued /\ d \in w
  BY DEF Origins, Issued, Persisting
<1>2. e \in Copies
  BY DEF Copies
<1>3. e.msg = d.msg /\ e.box = d.box
  BY DEF Home
<1>4. CASE Persisting(e) \in stored
  <2>1. e \in queued
    BY <1>4 DEF Origins, Issued, Persisting
  <2> QED BY <1>4, <2>1 DEF OnQueue, Once
<1>5. CASE SenderOf(e, d)
  <2>1. e \in queued
    BY <1>1, <1>2, <1>5 DEF Origins
  <2>2. ASSUME NEW i \in DOMAIN persistQueue, persistQueue[i] = Persisting(e) PROVE FALSE
    <3>1. persistQueue[i].copy = e
      BY <2>2 DEF Persisting
    <3>2. PICK n \in DOMAIN persistQueue : persistQueue[n] = Persisting(d)
      BY <1>1, <1>5, <3>1 DEF Ordered
    <3> QED BY <3>2 DEF Once
  <2> QED BY <2>1, <2>2 DEF OnQueue
<1>6. e = d \/ SenderOf(e, d) \/ SenderOf(d, e)
  BY <1>1, <1>3, WorkloadAssumption
<1> QED BY <1>4, <1>5, <1>6

\* No recipient of a copy is the sender of another.
LEMMA OneRecipient ==
  ASSUME TypeOK, Origins, NEW c \in shown, NEW d \in shown,
         c.status = DELIVERED, d.status = DELIVERED, c.msg = d.msg, c.peer = d.box
  PROVE  c = d
<1>1. PICK w \in Workloads : shown \subseteq w
  BY DEF Origins
<1> QED BY <1>1, WorkloadAssumption

LEMMA ReceiptCopy ==
  ASSUME TypeOK, Origins, NEW j \in Job, Issued(j), j.kind = "receipt"
  PROVE  j.copy \in shown /\ j.copy.status = DELIVERED /\ j.copy \in Copies
BY DEF Issued, Origins, TypeOK, Job

\* A receipt for a place that is saved, with its own copy, finds the place closed.
LEMMA ReceiptCloses ==
  ASSUME TypeOK, Origins, Once, Ordered, Replays, NEW j \in Job, Issued(j),
         NEW k \in Place, k \notin raced, IsReceipt(j, k), Persisting(j.copy) \in stored, Saved(k),
         \A h \in handlers : ~ Writes(h, k)
  PROVE  Closed(k)
<1> DEFINE c == j.copy
<1>1. c \in shown /\ c.status = DELIVERED /\ c \in Copies
  BY ReceiptCopy DEF IsReceipt
<1>2. PICK d \in Copies : Persisting(d) \in stored /\ Home(d) = k /\ ~ d.again
  <2>1. PICK x \in stored : x.kind = "persist" /\ k \in Places(x)
    BY DEF Saved
  <2>2. x \in Job
    BY DEF TypeOK
  <2>3. x = Persisting(x.copy) /\ x.copy \in Copies
    BY <2>1, <2>2 DEF Job, Persisting
  <2>4. Home(x.copy) = k
    BY <2>1 DEF Places, Home
  <2>5. ~ x.copy.again
    BY <2>1, <2>4 DEF Replays
  <2> QED BY <2>1, <2>3, <2>4, <2>5
<1>3. ASSUME NEW w \in Workloads, shown \subseteq w, NEW e \in w, Home(e) = k, ~ e.again
      PROVE  e \in queued /\ ~ OnQueue(e)
  <2>1. ASSUME SenderOf(d, e) PROVE Persisting(e) \in stored
    <3>1. e.status = DELIVERED /\ e.msg = d.msg /\ d.status = SENT
      BY <2>1 DEF SenderOf
    <3>2. CASE k = Far(c)
      <4>1. c.msg = e.msg /\ c.peer = e.box
        BY <1>3, <3>2 DEF Home, Far
      <4>2. c \in w /\ e \in w
        BY <1>1, <1>3
      <4>3. c = e
        BY <1>1, <3>1, <4>1, <4>2, WorkloadAssumption
      <4> QED BY <4>3
    <3>3. CASE k = Home(c)
      <4>1. c.msg = e.msg /\ c.box = e.box
        BY <1>3, <3>3 DEF Home
      <4>2. c \in w /\ e \in w
        BY <1>1, <1>3
      <4>3. ~ c.again
        BY <3>3 DEF Replays, Persisting
      <4>5. c = e \/ SenderOf(c, e) \/ SenderOf(e, c)
        BY <1>3, <4>1, <4>2, <4>3, WorkloadAssumption
      <4>4. ~ SenderOf(c, e) /\ ~ SenderOf(e, c)
        BY <1>1, <3>1 DEF SenderOf, SENT, DELIVERED
      <4> QED BY <4>4, <4>5
    <3> QED BY <3>2, <3>3 DEF IsReceipt
  <2> QED BY <1>2, <1>3, <2>1, CopyOfSaved
<1>4. ASSUME NEW i \in DOMAIN persistQueue, Home(persistQueue[i].copy) = k,
             ~ persistQueue[i].copy.again
      PROVE  FALSE
  <2>1. persistQueue[i].kind = "persist" /\ Issued(persistQueue[i])
    BY DEF Origins
  <2>2. persistQueue[i] \in Job
    BY ElementOfSeq, LenProperties DEF TypeOK
  <2>3. persistQueue[i] = Persisting(persistQueue[i].copy) /\ persistQueue[i].copy \in shown
    BY <2>1, <2>2 DEF Job, Persisting, Issued, Origins
  <2>4. PICK w \in Workloads : shown \subseteq w
    BY <1>1 DEF Origins
  <2>5. ~ OnQueue(persistQueue[i].copy)
    BY <1>3, <1>4, <2>3, <2>4
  <2> QED BY <2>3, <2>5 DEF OnQueue
<1> QED BY <1>3, <1>4 DEF Closed

\* A write where there is one document at most leaves one.
LEMMA OneDocument ==
  ASSUME TypeOK, NEW h \in handlers, One(PlaceOf(h)),
         \/ UpdateMessage(h)
         \/ InsertMessage(h) /\ messages[PlaceOf(h)] = <<>>
  PROVE  \E doc \in Document \cup {NoDocument} :
           /\ Len(messages'[PlaceOf(h)]) = 1 /\ messages'[PlaceOf(h)] # <<>>
           /\ DOMAIN messages'[PlaceOf(h)] = {1}
           /\ messages'[PlaceOf(h)][1] = SetMessage(h, doc)
           /\ messages[PlaceOf(h)] # <<>> => doc.whole
<1> DEFINE k == PlaceOf(h)
           s == messages[k]
           t == messages'[k]
<1>1. /\ messages' \in [Place -> Seq(Document)] /\ k \in Place
  BY WrittenTypes
<1>2. s \in Seq(Document) /\ t \in Seq(Document)
  BY <1>1 DEF TypeOK
<1>3. /\ Len(s) \in {0, 1} /\ DOMAIN s = 1 .. Len(s)
      /\ Len(t) \in Nat /\ DOMAIN t = 1 .. Len(t)
  <2>1. /\ Len(s) \in Nat /\ DOMAIN s = 1 .. Len(s)
        /\ Len(t) \in Nat /\ DOMAIN t = 1 .. Len(t)
    BY <1>2, LenProperties
  <2>2. Len(s) <= 1
    BY DEF One
  <2> HIDE DEF s, t
  <2> QED BY <2>1, <2>2
<1>4. PICK i \in Nat, doc \in Document \cup {NoDocument} : Sets(h, s, t, i, doc)
  BY WriteEffect
<1>5. s = <<>> <=> Len(s) = 0
  BY <1>2, EmptySeq
<1>6. UpdateMessage(h) => s # <<>>
  BY DEF UpdateMessage
<1>7. InsertMessage(h) => t # <<>>
  BY WriteGrows
<1>8. i = 1 /\ DOMAIN t = {1} /\ (s # <<>> => doc = s[1])
  <2>1. CASE s = <<>>
    <3>1. Len(s) = 0 /\ DOMAIN s = {}
      BY <1>3, <1>5, <2>1
    <3>2. i = 1 /\ DOMAIN t = {1}
      <4> HIDE DEF s, t
      <4> QED BY <1>4, <3>1 DEF Sets
    <3> QED BY <2>1, <3>2
  <2>2. CASE s # <<>>
    <3>1. Len(s) = 1 /\ DOMAIN s = {1}
      <4>1. Len(s) = 1
        BY <1>3, <1>5, <2>2
      <4> HIDE DEF s, t
      <4> QED BY <1>3, <4>1
    <3>2. UpdateMessage(h)
      BY <2>2
    <3>3. Len(t) = Len(s)
      BY <1>1, <3>2 DEF UpdateMessage, TypeOK
    <3>4. i \in {1, 2} /\ DOMAIN t = {1} \cup {i} /\ (i = 1 => doc = s[1] \/ i = Len(s) + 1)
      <4> HIDE DEF s, t
      <4> QED BY <1>4, <3>1 DEF Sets
    <3>5. DOMAIN t = {1}
      BY <1>3, <3>1, <3>3
    <3> QED BY <3>1, <3>4, <3>5
  <2> QED BY <2>1, <2>2
<1>9. Len(t) = 1 /\ t # <<>>
  <2>1. Len(t) \in Nat /\ 1 .. Len(t) = {1}
    BY <1>3, <1>8
  <2>2. Len(t) = 1
    <3> HIDE DEF t
    <3>1. 1 \in 1 .. Len(t) /\ Len(t) \in 1 .. Len(t)
      BY <2>1
    <3> QED BY <2>1, <3>1
  <2> QED BY <1>2, <2>2, EmptySeq
<1>10. t[1] = SetMessage(h, doc)
  BY <1>4, <1>8 DEF Sets
<1>11. s # <<>> => doc.whole
  BY <1>3, <1>5, <1>8 DEF One
<1> QED BY <1>8, <1>9, <1>10, <1>11

\* Nothing was written, and no handler came.
LEMMA CalmStays ==
  ASSUME NEW k \in Place, Calm(k), Closed(k) => Closed(k)', handlers' \subseteq handlers,
         UNCHANGED <<messages, stored>>
  PROVE  Calm(k)'
<1>1. One(k)'
  BY DEF Calm, One, Saved, Places
<1>2. OneWriter(k)'
  BY DEF Calm, OneWriter, Writes, Home
<1>3. AfterCopies(k)'
  <2>1. \A h \in handlers' : IsReceipt(JobOf(h), k) => Closed(k)'
    BY DEF Calm, AfterCopies
  <2>2. \A j \in stored' : IsReceipt(j, k) => Closed(k)'
    BY DEF Calm, AfterCopies
  <2>3. \A h \in handlers' :
          h.kind = "receipt" /\ h.step \in {2, 3} /\ h.phase = "wait" => PlaceOf(h) # k
    BY DEF Calm, AfterCopies
  <2> QED BY <2>1, <2>2, <2>3 DEF AfterCopies, IsReceipt, JobOf, Home, Far, PlaceOf, At
<1>4. Stays(k)'
  BY DEF Calm, Stays, Status, Home, Far
<1> QED BY <1>1, <1>2, <1>3, <1>4 DEF Calm

\* A job is taken that does not race for the place.
LEMMA CalmTake ==
  ASSUME TypeOK, Origins, Once, Ordered, Replays, [Next]_vars,
         NEW k \in Place, k \notin raced, k \notin raced', Calm(k),
         NEW job \in Job, Issued(job), Take(job), k \notin Races(job)
  PROVE  Calm(k)'
<1>1. Closed(k) => Closed(k)'
  BY ClosedStays
<1>2. UNCHANGED <<messages, stored>>
  BY DEF Take, database
<1>3. CASE handlers' = handlers
  BY <1>1, <1>2, <1>3, CalmStays
<1>4. CASE Started(job)
  <2>1. PICK g \in Handler :
          /\ JobOf(g) = job /\ g.kind = job.kind /\ g.copy = job.copy
          /\ g.step = 1 /\ g.phase = "go" /\ handlers' = handlers \cup {g}
    BY <1>4 DEF Started
  <2>2. \A h \in handlers : Writes(h, k) => k \in Places(JobOf(h)) /\ At(h) = "message"
    <3>1. ASSUME NEW h \in handlers, Writes(h, k)
          PROVE  k \in Places(JobOf(h)) /\ At(h) = "message"
      <4>1. h \in Handler /\ h.step \in DOMAIN Steps(h.kind, h.copy.conv)
            /\ h.kind = "persist" /\ h.step = 1
        BY <3>1 DEF TypeOK, Writes
      <4>2. At(h) = "message"
        BY <4>1, Positions
      <4> QED BY <3>1, <4>2 DEF Writes, Places, JobOf, Home
    <3> QED BY <3>1
  <2>3. k \in Places(job) => \A h \in handlers : ~ Writes(h, k)
    BY <2>2 DEF Races, Writes
  <2>4. OneWriter(k)'
    <3>1. Writes(g, k) => k \in Places(job)
      BY <2>1 DEF Writes, Places, Home
    <3>2. \A x, y \in handlers' : Writes(x, k) /\ Writes(y, k) => x = y
      BY <2>1, <2>3, <3>1 DEF Calm, OneWriter
    <3>3. \A x \in handlers' : Writes(x, k) /\ x.phase = "wait" => messages[k] = <<>>
      BY <2>1 DEF Calm, OneWriter
    <3> QED BY <1>2, <3>2, <3>3 DEF OneWriter, Writes, Home
  <2>5. ASSUME IsReceipt(job, k) PROVE Closed(k)
    <3>1. k \in Places(job)
      BY <2>5 DEF IsReceipt, Places, Home, Far
    <3>2. Saved(k) /\ Persisting(job.copy) \in stored
      BY <2>5, <3>1 DEF Races, IsReceipt, Persisting
    <3> QED BY <2>3, <2>5, <3>1, <3>2, ReceiptCloses
  <2>6. AfterCopies(k)'
    <3>1. \A h \in handlers' : IsReceipt(JobOf(h), k) => Closed(k)'
      BY <1>1, <2>1, <2>5 DEF Calm, AfterCopies
    <3>2. \A j \in stored' : IsReceipt(j, k) => Closed(k)'
      BY <1>1, <1>2 DEF Calm, AfterCopies
    <3>3. \A h \in handlers' :
            h.kind = "receipt" /\ h.step \in {2, 3} /\ h.phase = "wait" => PlaceOf(h) # k
      BY <2>1 DEF Calm, AfterCopies
    <3> QED BY <3>1, <3>2, <3>3 DEF AfterCopies, IsReceipt, JobOf, Home, Far, PlaceOf, At
  <2>7. Stays(k)'
    <3>1. \A h \in handlers' :
            h.kind = "receipt" /\ h.step = 3 /\ Home(h.copy) = k => Status(k) >= RECEIVED
      BY <2>1 DEF Calm, Stays
    <3> QED BY <1>2, <3>1 DEF Calm, Stays, Status, Home, Far
  <2>8. One(k)'
    BY <1>2 DEF Calm, One, Saved, Places
  <2> QED BY <2>4, <2>6, <2>7, <2>8 DEF Calm
<1> QED BY <1>3, <1>4, TakeStarts

\* A handler goes on without writing there.
LEMMA CalmElsewhere ==
  ASSUME TypeOK, Origins, Once, Ordered, [Next]_vars, NEW k \in Place, k \notin raced', Calm(k),
         NEW h \in handlers, Step(h) \/ Fail(h),
         ~ ((UpdateMessage(h) \/ InsertMessage(h)) /\ PlaceOf(h) = k)
  PROVE  Calm(k)'
<1>0. /\ h \in Handler /\ h.step \in DOMAIN Steps(h.kind, h.copy.conv) /\ h.step \in 1 .. 4
      /\ JobOf(h).kind = h.kind /\ JobOf(h).copy = h.copy
  BY JobTypes DEF TypeOK, Handler
<1>1. Closed(k) => Closed(k)'
  BY ClosedStays
<1>2. messages'[k] = messages[k]
  <2>1. CASE UpdateMessage(h) \/ InsertMessage(h)
    BY <2>1, WrittenTypes
  <2>2. CASE ~ (UpdateMessage(h) \/ InsertMessage(h))
    <3>1. messages' = messages
      BY <2>2, NoticeMoves, FailMoves
         DEF Step, Write, MissMessage, MissConversation, UpdateConversation,
             InsertConversation, WriteConversation, DuplicateKey, Detail, database
    <3> QED BY <3>1
  <2> QED BY <2>1, <2>2
<1>3. \/ stored' = stored
      \/ /\ stored' = stored \cup {JobOf(h)}
         /\ UpdateMessage(h) \/ InsertMessage(h)
         /\ \/ At(h) = "message" /\ h.kind = "persist" /\ Home(h.copy) # k
            \/ At(h) = "theirs" /\ h.kind = "receipt" /\ h.step = 3 /\ Far(h.copy) # k
  <2>1. CASE UpdateMessage(h) \/ InsertMessage(h)
    <3>1. PlaceOf(h) # k /\ MessageWritten(h)
      BY <2>1 DEF UpdateMessage, InsertMessage
    <3>2. stored' = stored \/ (stored' = stored \cup {JobOf(h)} /\ At(h) \in {"message", "theirs"})
      BY <3>1 DEF MessageWritten
    <3>3. At(h) = "message" => h.kind = "persist" /\ PlaceOf(h) = Home(h.copy)
      BY <1>0, Positions DEF PlaceOf, Home
    <3>4. At(h) = "theirs" => h.kind = "receipt" /\ h.step = 3 /\ PlaceOf(h) = Far(h.copy)
      BY <1>0, Positions DEF PlaceOf, Far
    <3> QED BY <2>1, <3>1, <3>2, <3>3, <3>4
  <2>2. CASE ~ (UpdateMessage(h) \/ InsertMessage(h))
    BY <2>2, NoticeMoves, FailMoves
       DEF Step, Write, MissMessage, MissConversation, UpdateConversation,
           InsertConversation, WriteConversation, DuplicateKey, Detail, history
  <2> QED BY <2>1, <2>2
<1>4. One(k)'
  <2>1. Saved(k)' => Saved(k)
    BY <1>0, <1>3 DEF Saved, Places, Home
  <2> QED BY <1>2, <2>1 DEF Calm, One
<1>5. PICK g : /\ handlers' \subseteq (handlers \ {h}) \cup {g}
               /\ g \in handlers' /\ g \notin handlers \ {h} =>
                    /\ g \in Handler /\ Same(h, g)
                    /\ \/ g.step = h.step + 1 /\ (g.phase = "go" \/ h.kind = "archive")
                       \/ /\ g.step = h.step /\ g.phase = "wait"
                          /\ At(h) \in {"message", "mine", "theirs"} =>
                               messages[PlaceOf(h)] = <<>>
  <2>1. CASE End(h)
    BY <2>1 DEF End
  <2>2. CASE ~ End(h)
    BY <2>2, StepOn DEF Replaced
  <2> QED BY <2>1, <2>2
<1>6. ASSUME NEW x \in handlers', x \notin handlers \ {h}
      PROVE  /\ x \in Handler /\ Same(h, x) /\ x.kind = h.kind /\ x.copy = h.copy
             /\ \/ x.step = h.step + 1 /\ (x.phase = "go" \/ h.kind = "archive")
                \/ /\ x.step = h.step /\ x.phase = "wait"
                   /\ At(h) \in {"message", "mine", "theirs"} => messages[PlaceOf(h)] = <<>>
  BY <1>5, <1>6 DEF Same
<1>7. OneWriter(k)'
  <2>1. ASSUME NEW x \in handlers', x \notin handlers \ {h}, Writes(x, k)
        PROVE  Writes(h, k) /\ messages[k] = <<>>
    <3>1. x.step = h.step /\ h.step = 1
      <4>1. x.step = 1
        BY <2>1 DEF Writes
      <4> QED BY <1>0, <1>6, <2>1, <4>1
    <3>2. At(h) = "message" /\ h.kind = "persist" /\ Home(h.copy) = k
      BY <1>0, <1>6, <2>1, <3>1, Positions DEF Writes
    <3>3. x.step # h.step + 1
      BY <3>1
    <3>4. PlaceOf(h) = k
      BY <3>2 DEF PlaceOf, Home
    <3> QED BY <1>6, <2>1, <3>1, <3>2, <3>3, <3>4 DEF Writes
  <2>2. \A x, y \in handlers' : Writes(x, k) /\ Writes(y, k) => x = y
    BY <1>5, <2>1 DEF Calm, OneWriter
  <2>3. \A x \in handlers' : Writes(x, k) /\ x.phase = "wait" => messages[k] = <<>>
    BY <2>1 DEF Calm, OneWriter
  <2> QED BY <1>2, <2>2, <2>3 DEF OneWriter, Writes, Home
<1>8. AfterCopies(k)'
  <2>1. \A x \in handlers' : IsReceipt(JobOf(x), k) => Closed(k)'
    BY <1>1, StepJobs DEF Calm, AfterCopies
  <2>2. \A j \in stored' : IsReceipt(j, k) => Closed(k)'
    BY <1>1, StepJobs DEF Calm, AfterCopies
  <2>3. ASSUME NEW x \in handlers', x.kind = "receipt", x.step \in {2, 3}, x.phase = "wait",
               PlaceOf(x) = k
        PROVE  FALSE
    <3>1. x \notin handlers \ {h}
      BY <2>3 DEF Calm, AfterCopies
    <3>2. h.kind = "receipt" /\ x.copy = h.copy /\ x.step = h.step
          /\ (At(h) \in {"message", "mine", "theirs"} => messages[PlaceOf(h)] = <<>>)
      BY <1>6, <2>3, <3>1
    <3>3. At(x) = At(h) /\ PlaceOf(x) = PlaceOf(h)
      BY <1>6, <3>1, <3>2 DEF At, PlaceOf
    <3>4. At(h) \in {"mine", "theirs"}
      BY <1>0, <2>3, <3>2, Positions
    <3>5. messages[k] = <<>> /\ IsReceipt(JobOf(h), k)
      BY <1>0, <2>3, <3>2, <3>3, <3>4 DEF IsReceipt, PlaceOf, Home, Far
    <3> QED BY <3>5 DEF Calm, AfterCopies, Closed, One
  <2> QED BY <2>1, <2>2, <2>3 DEF AfterCopies, IsReceipt, JobOf, Home, Far, PlaceOf, At
<1>9. Stays(k)'
  <2>1. ASSUME NEW x \in handlers', x.kind = "receipt", x.step = 3, Home(x.copy) = k
        PROVE  Status(k) >= RECEIVED
    <3>1. CASE x \in handlers \ {h}
      BY <2>1, <3>1 DEF Calm, Stays
    <3>2. CASE x \notin handlers \ {h}
      <4>1. h.kind = "receipt" /\ Home(h.copy) = k
        BY <1>6, <2>1, <3>2
      <4>2. CASE h.step = 3
        BY <4>1, <4>2 DEF Calm, Stays
      <4>3. CASE h.step # 3
        <5>1. h.step = 2 /\ x \notin handlers
          BY <1>0, <1>6, <2>1, <3>2, <4>3
        <5>2. At(h) = "mine"
          BY <1>0, <4>1, <5>1, Positions
        <5>3. ~ End(h)
          BY <5>1 DEF End
        <5>4. x.step # h.step
          BY <2>1, <5>1
        <5>5. ~ Wait(h)
          <6>1. CASE Wait(h)
            <7>1. PICK y \in Handler : Waits(h, y) /\ Replaced(h, y)
              BY <6>1, HandlerMoves
            <7> QED BY <3>2, <5>4, <7>1 DEF Waits, Replaced
          <6> QED BY <6>1
        <5>6. UpdateMessage(h) \/ InsertMessage(h)
          BY <5>2, <5>3, <5>5, NoticeMoves
             DEF Step, Write, MissMessage, UpdateConversation, MissConversation,
                 InsertConversation, DuplicateKey, Detail, Fail, OnError, Topics
        <5>7. PlaceOf(h) = k
          BY <4>1, <5>2 DEF PlaceOf, Home
        <5> QED BY <5>6, <5>7
      <4> QED BY <4>2, <4>3
    <3> QED BY <3>1, <3>2
  <2>2. ASSUME NEW j \in stored', j.kind = "receipt"
        PROVE  /\ Home(j.copy) = k => Status(k) >= RECEIVED
               /\ Far(j.copy) = k => Status(k) = RETURN_RECEIPT
    <3>1. CASE j \in stored
      BY <2>2, <3>1 DEF Calm, Stays
    <3>2. CASE j \notin stored
      BY <1>0, <1>3, <2>2, <3>2 DEF Calm, Stays
    <3> QED BY <3>1, <3>2
  <2>3. Status(k)' = Status(k)
    BY <1>2 DEF Status
  <2> QED BY <2>1, <2>2, <2>3 DEF Stays, Home, Far
<1> QED BY <1>4, <1>7, <1>8, <1>9 DEF Calm

\* A handler writes there.
LEMMA CalmWrite ==
  ASSUME TypeOK, Origins, Once, Ordered, [Next]_vars, NEW h \in handlers,
         UpdateMessage(h) \/ InsertMessage(h), Calm(PlaceOf(h)), PlaceOf(h) \notin raced'
  PROVE  Calm(PlaceOf(h))'
<1> DEFINE k == PlaceOf(h)
<1>0. /\ h \in Handler /\ h.step \in DOMAIN Steps(h.kind, h.copy.conv) /\ h.step \in 1 .. 4
      /\ JobOf(h).kind = h.kind /\ JobOf(h).copy = h.copy /\ JobOf(h) \in Job
      /\ At(h) \in {"message", "mine", "theirs"} /\ MessageWritten(h) /\ Advance(h)
      /\ k \in Place
  BY JobTypes, WrittenTypes DEF TypeOK, Handler, UpdateMessage, InsertMessage, MessageWritten
<1> HIDE DEF k
<1>1. Calm(k) /\ PlaceOf(h) = k
  BY DEF k
<1>2. /\ h.kind = "persist" => At(h) = "message" /\ h.step = 1 /\ Writes(h, k)
      /\ h.kind = "receipt" =>
           /\ IsReceipt(JobOf(h), k)
           /\ \/ At(h) = "mine" /\ h.step = 2 /\ Home(h.copy) = k
              \/ At(h) = "theirs" /\ h.step = 3 /\ Far(h.copy) = k
      /\ h.kind \in {"persist", "receipt"}
  BY <1>0, <1>1, Positions DEF PlaceOf, Writes, IsReceipt, Home, Far
<1>3. h.kind = "receipt" => Closed(k) /\ messages[k] # <<>>
  BY <1>1, <1>2 DEF Calm, AfterCopies, One, Closed
<1>4. InsertMessage(h) => messages[k] = <<>>
  <2>1. InsertMessage(h) => h.phase = "wait"
    BY DEF InsertMessage
  <2>2. h.kind = "receipt" /\ h.phase = "wait" => FALSE
    BY <1>1, <1>2 DEF Calm, AfterCopies
  <2> QED BY <1>1, <1>2, <2>1, <2>2 DEF Calm, OneWriter
<1>5. PICK doc \in Document \cup {NoDocument} :
        /\ Len(messages'[k]) = 1 /\ messages'[k] # <<>> /\ DOMAIN messages'[k] = {1}
        /\ messages'[k][1] = SetMessage(h, doc)
        /\ messages[k] # <<>> => doc.whole
  BY <1>1, <1>4, OneDocument DEF Calm
<1>6. /\ h.kind = "persist" => messages'[k][1].whole
      /\ h.kind = "receipt" =>
           /\ messages'[k][1].whole
           /\ messages'[k][1].status = IF h.step = 2 THEN RECEIVED ELSE RETURN_RECEIPT
  <2>1. CASE h.kind = "persist"
    <3>1. SetMessage(h, doc).whole /\ h.kind # "receipt"
      BY <1>2, <2>1, SetFields
    <3> QED BY <1>5, <3>1
  <2>2. CASE h.kind = "receipt" /\ At(h) = "mine" /\ h.step = 2
    <3>1. doc.whole
      BY <1>3, <1>5, <2>2
    <3>2. SetMessage(h, doc).whole = doc.whole /\ SetMessage(h, doc).status = RECEIVED
      BY <2>2, SetFields
    <3> QED BY <1>5, <2>2, <3>1, <3>2
  <2>3. CASE h.kind = "receipt" /\ At(h) = "theirs" /\ h.step = 3
    <3>1. doc.whole /\ h.step # 2
      BY <1>3, <1>5, <2>3
    <3>2. SetMessage(h, doc).whole = doc.whole /\ SetMessage(h, doc).status = RETURN_RECEIPT
      BY <2>3, SetFields
    <3> QED BY <1>5, <2>3, <3>1, <3>2
  <2> QED BY <1>2, <2>1, <2>2, <2>3
<1>7. One(k)'
  BY <1>2, <1>5, <1>6 DEF One
<1>8. ASSUME NEW x \in handlers', x \notin handlers \ {h}
      PROVE  x.kind = h.kind /\ x.copy = h.copy /\ x.step = h.step + 1 /\ x.phase = "go"
  <2>1. \/ End(h)
        \/ \E g \in Handler : Onward(h, g) /\ Replaced(h, g)
    BY <1>0, HandlerMoves
  <2> QED BY <1>8, <2>1 DEF End, Onward, Same, Replaced
<1>9. stored' = stored \/ (stored' = stored \cup {JobOf(h)} /\ At(h) # "mine")
  BY <1>0 DEF MessageWritten
<1>10. Closed(k) => Closed(k)'
  BY <1>0, <1>1, ClosedStays
<1>11. OneWriter(k)'
  <2>1. \A x \in handlers' : ~ Writes(x, k)
    <3>1. ASSUME NEW x \in handlers', Writes(x, k) PROVE FALSE
      <4>1. CASE x \in handlers \ {h}
        BY <1>1, <1>2, <1>3, <3>1, <4>1 DEF Calm, OneWriter, Closed
      <4>2. CASE x \notin handlers \ {h}
        <5>1. x.step = h.step + 1 /\ x.step = 1
          BY <1>8, <3>1, <4>2 DEF Writes
        <5> QED BY <1>0, <5>1
      <4> QED BY <4>1, <4>2
    <3> QED BY <3>1
  <2> QED BY <2>1 DEF OneWriter, Writes, Home
<1>12. CASE h.kind = "persist"
  <2>1. ~ Closed(k)
    BY <1>2, <1>12 DEF Closed
  <2>2. /\ \A x \in handlers : ~ IsReceipt(JobOf(x), k)
        /\ \A j \in stored : ~ IsReceipt(j, k)
    BY <1>1, <2>1 DEF Calm, AfterCopies
  <2>3. \A x \in handlers' : ~ IsReceipt(JobOf(x), k)
    BY <2>2, StepJobs DEF Step, Write
  <2>4. \A j \in stored' : ~ IsReceipt(j, k)
    BY <1>0, <1>9, <1>12, <2>2 DEF IsReceipt
  <2>5. ASSUME NEW x \in handlers', x.kind = "receipt"
        PROVE  k \notin {Home(x.copy), Far(x.copy)} /\ PlaceOf(x) # k
    <3>1. JobOf(x).kind = "receipt" /\ JobOf(x).copy = x.copy
      BY <2>5 DEF JobOf
    <3> QED BY <2>3, <3>1 DEF IsReceipt, PlaceOf, Home, Far
  <2>6. AfterCopies(k)'
    BY <2>3, <2>4, <2>5 DEF AfterCopies, IsReceipt, JobOf, Home, Far, PlaceOf, At
  <2>7. Stays(k)'
    BY <2>4, <2>5 DEF Stays, IsReceipt, Home, Far
  <2> QED BY <1>7, <1>11, <2>6, <2>7 DEF Calm, k, PlaceOf, At
<1>13. CASE h.kind = "receipt"
  <2>1. Closed(k)'
    BY <1>3, <1>10, <1>13
  <2>2. ASSUME NEW x \in handlers', x.kind = "receipt", x.step \in {2, 3}, x.phase = "wait"
        PROVE  PlaceOf(x) # k
    BY <1>1, <1>8, <2>2 DEF Calm, AfterCopies
  <2>3. AfterCopies(k)'
    BY <2>1, <2>2 DEF AfterCopies, IsReceipt, JobOf, Home, Far, PlaceOf, At
  <2>4. Status(k)' = IF h.step = 2 THEN RECEIVED ELSE RETURN_RECEIPT
    BY <1>6, <1>13 DEF Status
  <2>5. Status(k)' >= RECEIVED
    BY <2>4 DEF RECEIVED, RETURN_RECEIPT
  <2>6. ASSUME NEW j \in stored', j.kind = "receipt", Far(j.copy) = k
        PROVE  Status(k)' = RETURN_RECEIPT
    <3>1. CASE h.step = 3
      BY <2>4, <3>1
    <3>2. CASE h.step # 3
      <4>1. h.step = 2 /\ Home(h.copy) = k /\ j \in stored
        BY <1>2, <1>9, <1>13, <2>6, <3>2
      <4>2. Issued(JobOf(h)) /\ Issued(j) /\ j \in Job
        BY <4>1 DEF Origins, TypeOK
      <4>3. /\ h.copy \in shown /\ h.copy.status = DELIVERED
            /\ j.copy \in shown /\ j.copy.status = DELIVERED
        BY <1>0, <1>13, <2>6, <4>2, ReceiptCopy
      <4>4. j.copy.msg = h.copy.msg /\ j.copy.peer = h.copy.box
        BY <2>6, <4>1 DEF Home, Far
      <4>5. j.copy = h.copy
        BY <4>3, <4>4, OneRecipient
      <4>6. j = JobOf(h)
        BY <1>0, <1>13, <2>6, <4>2, <4>5 DEF Job
      <4> QED BY <1>13, <4>1, <4>6 DEF Once
    <3> QED BY <3>1, <3>2
  <2>7. Stays(k)'
    BY <2>5, <2>6 DEF Stays, Status, Home, Far
  <2> QED BY <1>7, <1>11, <2>3, <2>7 DEF Calm, k, PlaceOf, At
<1> QED BY <1>2, <1>12, <1>13

LEMMA UndisputedNext == ReceiptInv /\ [Next]_vars => Undisputed'
<1> SUFFICES ASSUME ReceiptInv, [Next]_vars, NEW k \in Place, k \notin raced'
             PROVE  Calm(k)'
  BY DEF Undisputed
<1>0. /\ TypeOK /\ Origins /\ Once /\ Ordered /\ Replays /\ Undisputed
      /\ persistQueue \in Seq(Job) /\ messageQueue \in Seq(Job)
  BY DEF ReceiptInv, TypeOK
<1>1. raced \subseteq raced'
  <2>1. CASE TakePersist \/ TakeCommand
    BY <2>1 DEF TakePersist, TakeCommand, Take
  <2>2. ASSUME NEW h \in handlers, Step(h) \/ Fail(h) PROVE raced' = raced
    BY <1>0, <2>2, WriteMoves, NoticeMoves, FailMoves DEF Step, Detail, history
  <2> QED BY <2>1, <2>2 DEF Next, vars, history, ShowCopy, QueuePersist, Ask, Crash
<1>2. Calm(k)
  BY <1>0, <1>1 DEF Undisputed
<1>3. Closed(k) => Closed(k)'
  BY <1>0, ClosedStays
<1>4. CASE \/ UNCHANGED vars
           \/ \E c \in Copies : ShowCopy(c) \/ QueuePersist(c)
           \/ \E kind \in Commands, c \in Copies : Ask(kind, c)
           \/ \E kinds \in Processes : Crash(kinds)
  <2>1. handlers' \subseteq handlers /\ UNCHANGED <<messages, stored>>
    BY <1>4, ClientMoves DEF vars, database, history, Crash
  <2> QED BY <1>2, <1>3, <2>1, CalmStays
<1>5. ASSUME NEW q \in Seq(Job), q = persistQueue \/ q = messageQueue, q # <<>>, Take(Head(q))
      PROVE  Calm(k)'
  <2>1. Head(q) \in Job /\ Head(q) = q[1] /\ 1 \in DOMAIN q
    BY <1>5, TailOf, HeadTailProperties
  <2>2. Issued(Head(q))
    BY <1>0, <1>5, <2>1 DEF Origins
  <2>3. k \notin Races(Head(q))
    BY <1>5 DEF Take
  <2>4. k \notin raced
    BY <1>1
  <2> QED BY <1>0, <1>2, <1>5, <2>1, <2>2, <2>3, <2>4, CalmTake
<1>6. CASE TakePersist \/ TakeCommand
  BY <1>0, <1>5, <1>6 DEF TakePersist, TakeCommand
<1>7. ASSUME NEW h \in handlers, Step(h) \/ Fail(h) PROVE Calm(k)'
  <2>1. CASE (UpdateMessage(h) \/ InsertMessage(h)) /\ PlaceOf(h) = k
    <3>1. Calm(PlaceOf(h))
      BY <1>2, <2>1
    <3>2. Calm(PlaceOf(h))'
      BY <1>0, <2>1, <3>1, CalmWrite
    <3>3. PlaceOf(h)' = PlaceOf(h)
      BY DEF PlaceOf, At
    <3> QED BY <2>1, <3>2, <3>3
  <2>2. CASE ~ ((UpdateMessage(h) \/ InsertMessage(h)) /\ PlaceOf(h) = k)
    BY <1>0, <1>2, <1>7, <2>2, CalmElsewhere
  <2> QED BY <2>1, <2>2
<1> QED BY <1>4, <1>6, <1>7 DEF Next

LEMMA ReceiptStays == ReceiptInv => ReceiptKept
<1> SUFFICES ASSUME ReceiptInv, NEW j \in stored, j.kind = "receipt"
             PROVE  LET mine == Home(j.copy)
                        theirs == Far(j.copy) IN
                    /\ mine \notin raced =>
                         \E i \in DOMAIN messages[mine] :
                           messages[mine][i].whole /\ messages[mine][i].status >= RECEIVED
                    /\ theirs \notin raced =>
                         messages[theirs] = <<[whole |-> TRUE, status |-> RETURN_RECEIPT]>>
  BY DEF ReceiptKept, Home, Far
<1>1. /\ Home(j.copy) \in Place /\ Far(j.copy) \in Place
      /\ messages \in [Place -> Seq(Document)]
  <2>1. j \in Job /\ messages \in [Place -> Seq(Document)]
    BY DEF ReceiptInv, TypeOK
  <2>2. j.copy \in Copies
    BY <2>1 DEF Job
  <2> QED BY <2>1, <2>2, CopyFields
<1>2. ASSUME NEW k \in {Home(j.copy), Far(j.copy)}, k \notin raced
      PROVE  /\ messages[k] \in Seq(Document) /\ Len(messages[k]) = 1
             /\ DOMAIN messages[k] = {1} /\ messages[k][1].whole
             /\ messages[k][1] \in Document /\ Calm(k)
  <2>1. Calm(k) /\ messages[k] \in Seq(Document)
    BY <1>1, <1>2 DEF ReceiptInv, Undisputed
  <2>2. messages[k] # <<>> /\ Len(messages[k]) <= 1
    BY <2>1 DEF Calm, One, AfterCopies, IsReceipt, Closed
  <2>3. /\ Len(messages[k]) \in Nat /\ DOMAIN messages[k] = 1 .. Len(messages[k])
        /\ Len(messages[k]) # 0
    BY <2>1, <2>2, LenProperties, EmptySeq
  <2>4. Len(messages[k]) = 1
    <3> DEFINE n == Len(messages[k])
    <3>1. n \in Nat /\ n <= 1 /\ n # 0
      BY <2>2, <2>3
    <3> HIDE DEF n
    <3>2. n = 1
      BY <3>1
    <3> QED BY <3>2 DEF n
  <2>5. DOMAIN messages[k] = {1}
    BY <2>3, <2>4
  <2>6. messages[k][1].whole /\ messages[k][1] \in Document
    BY <2>1, <2>4, <2>5, ElementOfSeq DEF Calm, One
  <2> QED BY <2>1, <2>4, <2>5, <2>6
<1>3. /\ Home(j.copy) \notin raced => messages[Home(j.copy)][1].status >= RECEIVED
      /\ Far(j.copy) \notin raced => messages[Far(j.copy)][1].status = RETURN_RECEIPT
  BY <1>2 DEF Calm, Stays, Status
<1>4. ASSUME Far(j.copy) \notin raced
      PROVE  messages[Far(j.copy)] = <<[whole |-> TRUE, status |-> RETURN_RECEIPT]>>
  <2>1. messages[Far(j.copy)][1] = [whole |-> TRUE, status |-> RETURN_RECEIPT]
    BY <1>2, <1>3, <1>4 DEF Document
  <2>2. <<[whole |-> TRUE, status |-> RETURN_RECEIPT]>> \in Seq(Document)
    BY DEF Document
  <2>3. ASSUME NEW s \in Seq(Document), NEW d \in Document, Len(s) = 1, s[1] = d
        PROVE  s = <<d>>
    <3>1. Len(<<d>>) = 1 /\ <<d>>[1] = d /\ <<d>> \in Seq(Document)
      OBVIOUS
    <3> QED BY <2>3, <3>1, SeqEqual
  <2> QED BY <1>2, <1>4, <2>1, <2>3
<1>5. ASSUME Home(j.copy) \notin raced
      PROVE  \E i \in DOMAIN messages[Home(j.copy)] :
               /\ messages[Home(j.copy)][i].whole
               /\ messages[Home(j.copy)][i].status >= RECEIVED
  BY <1>2, <1>3, <1>5
<1> QED BY <1>4, <1>5

LEMMA ReplaysNext == TypeOK /\ Origins /\ Replays /\ [Next]_vars => Replays'
<1> SUFFICES ASSUME TypeOK, Origins, Replays, [Next]_vars PROVE Replays'
  OBVIOUS
<1>0. persistQueue \in Seq(Job) /\ messageQueue \in Seq(Job)
  BY DEF TypeOK
<1>1. ASSUME handlers' \subseteq handlers, UNCHANGED <<stored, raced>> PROVE Replays'
  BY <1>1 DEF Replays, Home
<1>2. CASE \/ UNCHANGED vars
           \/ \E c \in Copies : ShowCopy(c) \/ QueuePersist(c)
           \/ \E kind \in Commands, c \in Copies : Ask(kind, c)
           \/ \E kinds \in Processes : Crash(kinds)
  BY <1>1, <1>2, ClientMoves DEF vars, history, Crash
<1>3. ASSUME NEW q \in Seq(Job), q # <<>>, Take(Head(q)) PROVE Replays'
  <2>1. /\ Head(q) \in Job /\ stored' = stored
        /\ raced' = raced \cup Races(Head(q))
        /\ handlers' = handlers \/ Started(Head(q))
    BY <1>3, HeadTailProperties, TakeStarts DEF Take
  <2>2. Head(q).kind = "persist" /\ Head(q).copy.again => Home(Head(q).copy) \in raced'
    BY <2>1 DEF Races, Places, Home
  <2> QED BY <2>1, <2>2 DEF Replays, Started, Home
<1>4. CASE TakePersist \/ TakeCommand
  BY <1>0, <1>3, <1>4 DEF TakePersist, TakeCommand
<1>5. ASSUME NEW h \in handlers, Step(h) \/ Fail(h) PROVE Replays'
  <2>1. raced' = raced
    BY <1>5, WriteMoves, NoticeMoves, FailMoves DEF Step, Detail, history
  <2>2. /\ \A x \in handlers' : \E y \in handlers : JobOf(x) = JobOf(y)
        /\ stored' \subseteq stored \cup {JobOf(h)}
    BY <1>5, StepJobs
  <2>3. \A x \in handlers' : \E y \in handlers : x.kind = y.kind /\ x.copy = y.copy
    BY <2>2 DEF JobOf
  <2>4. JobOf(h).kind = h.kind /\ JobOf(h).copy = h.copy
    BY DEF JobOf
  <2> QED BY <2>1, <2>2, <2>3, <2>4 DEF Replays, Home
<1> QED BY <1>2, <1>4, <1>5 DEF Next

\* A return receipt that was stored stays where nothing raced for the document: on
\* the sender's timeline even when the message is replayed to the recipient, and on
\* the recipient's until it is.  process_update writes the two patches after the
\* copies, and nothing else comes later to write an older status over them.
THEOREM ReceiptKeptHolds == Spec => []ReceiptKept
<1>1. Init => ReceiptInv
  <2>1. Init => Once /\ Ordered /\ Replays
    BY DEF Init, Once, Ordered, Replays
  <2>2. Init => Undisputed
    <3> SUFFICES ASSUME Init, NEW k \in Place PROVE Calm(k)
      BY DEF Undisputed
    <3>1. messages[k] = <<>> /\ handlers = {} /\ stored = {}
      BY DEF Init
    <3> QED BY <3>1 DEF Calm, One, OneWriter, AfterCopies, Stays, Saved
  <2> QED BY <2>1, <2>2, TypeInit, OriginsInit DEF ReceiptInv
<1>2. ReceiptInv /\ [Next]_vars => ReceiptInv'
  BY TypeNext, OriginsNext, OnceNext, OrderedNext, ReplaysNext, UndisputedNext
     DEF ReceiptInv
<1> QED BY <1>1, <1>2, ReceiptStays, PTL DEF Spec

=============================================================================
