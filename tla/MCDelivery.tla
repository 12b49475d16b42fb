----------------------------- MODULE MCDelivery -----------------------------
\* Small worlds for Delivery.
EXTENDS Delivery

CONSTANTS u1, u2, uLong, uLonger, grp, p

\* grp takes 10 characters: the persist key of `uLong` is too long and its
\* clientadded key is not; both keys of `uLonger` are too long.
MCIdLen == [x \in User \cup Group |->
             CASE x = uLong -> 200 [] x = uLonger -> 205 [] OTHER -> 10]

Direct(s, r, q) ==
  [sender |-> s, recipient |-> r, group |-> NONE, hiddenFor |-> NONE,
   projectId |-> q]

ToGroup(s, inline, hidden, q) ==
  [sender |-> s, recipient |-> grp, group |-> inline, hiddenFor |-> hidden,
   projectId |-> q]

DirectEnvelopes == {Direct(u1, u2, p), Direct(u1, u2, NONE), Direct(u2, u2, p)}

GroupEnvelopes ==
  {ToGroup(u1, NONE, NONE, p), ToGroup(u1, NONE, u2, p),
   ToGroup(u1, <<u2, uLong>>, NONE, p), ToGroup(u2, <<uLonger, u2>>, u1, NONE)}

Envelopes == DirectEnvelopes \cup GroupEnvelopes

\* Two direct messages, or one to a group.
TwoDirectOrOneGroup ==
  {<<e>> : e \in Envelopes} \cup {<<d, e>> : d, e \in DirectEnvelopes}

GroupRosters == {<<u1, u2>>, <<u2, uLonger, u1>>, <<uLong, u1>>}
=============================================================================
