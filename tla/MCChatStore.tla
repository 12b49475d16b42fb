----------------------------- MODULE MCChatStore -----------------------------
\* Small worlds for ChatStore.
EXTENDS ChatStore

CONSTANTS u1, u2, uLong, grp, m1, m2

\* A message id takes 10 characters.  A receipt of uLong about its own message fits
\* in a routing key, and so do its archive command and the notice that the
\* conversation left the list; the clientupdated notice and the one for the archive
\* do not.
MCIdLen == [x \in User \cup Group |-> IF x = uLong THEN 102 ELSE 10]

SentCopy(m, s, r, conv) ==
  [msg |-> m, box |-> s, peer |-> r, status |-> SENT, conv |-> conv,
   again |-> FALSE]
DeliveredCopy(m, b, p, conv) ==
  [msg |-> m, box |-> b, peer |-> p, status |-> DELIVERED, conv |-> conv,
   again |-> FALSE]

OneMessage == {SentCopy(m1, u1, u2, TRUE), DeliveredCopy(m1, u2, u1, TRUE)}

\* uLong writes to uLong: both copies go to one document.
ToOneself == {SentCopy(m1, uLong, uLong, TRUE), DeliveredCopy(m1, uLong, uLong, TRUE)}

\* u1 writes to the group of u1 and u2.
ToTheGroup ==
  {SentCopy(m1, grp, grp, FALSE),
   DeliveredCopy(m1, u1, grp, FALSE), DeliveredCopy(m1, u2, grp, FALSE)}

\* u2 leaves the group and joins it again: the message is replayed.
Rejoined ==
  LET first == DeliveredCopy(m1, u2, grp, FALSE) IN
  {SentCopy(m1, grp, grp, FALSE), first, [first EXCEPT !.again = TRUE]}

\* Two messages of one conversation: what u1 gets of a group's messages.
OneByOne == {DeliveredCopy(m1, u1, grp, TRUE), DeliveredCopy(m2, u1, grp, TRUE)}

SafetyWorkloads == {OneMessage, ToOneself, ToTheGroup, Rejoined, OneByOne}
=============================================================================
