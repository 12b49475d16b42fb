------------------------------ MODULE Timeline ------------------------------
(***************************************************************************)
(* What the message path promises each timeline, whatever happens to       *)
(* connections and processes: a copy is shown at most once and only to     *)
(* somebody entitled to it, and is stored only after it was shown.         *)
(* Nothing is promised to be shown: copies may be lost.                    *)
(***************************************************************************)
EXTENDS Naturals, Sequences, Functions

CONSTANTS User, Group, NONE, Envelope, MaxMsg

Box == User \cup Group

SENT == 100
DELIVERED == 150

Copy == [msg : 1 .. MaxMsg, box : Box, status : {SENT, DELIVERED}, history : BOOLEAN]

VARIABLES
  sent,    \* the messages clients have sent
  shown,   \* the copies shown on each timeline, in order
  stored   \* the copies handed to storage

vars == <<sent, shown, stored>>

Init ==
  /\ sent = <<>>
  /\ shown = [b \in Box |-> <<>>]
  /\ stored = {}

WasShown(c) == c \in Range(shown[c.box])

SenderCopy(m) ==
  [msg |-> m, box |-> sent[m].sender, status |-> SENT, history |-> FALSE]

\* The sender's copy, and after it the recipient's.
DirectCopy(c) ==
  \/ c = SenderCopy(c.msg)
  \/ /\ c = [msg |-> c.msg, box |-> sent[c.msg].recipient, status |-> DELIVERED,
             history |-> FALSE]
     /\ SenderCopy(c.msg) \in stored

\* The copy on the group's own timeline is marked SENT, its members' DELIVERED;
\* a replay needs the former.
MemberCopy(c) ==
  LET g == sent[c.msg].recipient IN
  IF c.history
  THEN /\ c.status = DELIVERED /\ c.box \in User
       /\ [msg |-> c.msg, box |-> g, status |-> SENT, history |-> FALSE] \in stored
  ELSE /\ c.box # sent[c.msg].hiddenFor
       /\ c.status = IF c.box = g THEN SENT ELSE DELIVERED

MayShow(c) ==
  /\ c.msg \in DOMAIN sent
  /\ ~ WasShown(c)
  /\ IF sent[c.msg].recipient \in Group THEN MemberCopy(c) ELSE DirectCopy(c)

Send ==
  /\ Len(sent) < MaxMsg
  /\ \E e \in Envelope : sent' = Append(sent, e)
  /\ UNCHANGED <<shown, stored>>

\* Copies published together, at most one on each timeline.
Show ==
  \E batch \in SUBSET {c \in Copy : MayShow(c)} :
    /\ batch # {}
    /\ \A c, d \in batch : c.box = d.box => c = d
    /\ shown' = [b \in Box |->
                   IF \E c \in batch : c.box = b
                   THEN Append(shown[b], CHOOSE c \in batch : c.box = b)
                   ELSE shown[b]]
    /\ UNCHANGED <<sent, stored>>

Store ==
  \E batch \in SUBSET ({c \in Copy : WasShown(c)} \ stored) :
    /\ batch # {}
    /\ stored' = stored \cup batch
    /\ UNCHANGED <<sent, shown>>

Next == Send \/ Show \/ Store

Spec == Init /\ [][Next]_vars
=============================================================================
