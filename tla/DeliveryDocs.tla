---------------------------- MODULE DeliveryDocs ----------------------------
\* What comments of the message path say and its code does not do.
EXTENDS MCDelivery

\* One message to a group, or one of the integration test that reads the caches
\* of a group message (src/src/test/integration/analytics.integration.test.ts).
OneToGroup == {<<e>> : e \in GroupEnvelopes}

TestEnvelope == ToGroup(u1, <<u1, u2>>, NONE, p)
TestEnvelopes == {TestEnvelope}
TestSendings == {<<TestEnvelope>>}

\* The fan-out will "skip message for" the member hiddenFor names
\* (src/observer/message.ts:137): it skips that member, and nobody else.
OnlyHiddenIsSkipped ==
  Quiet /\ faults = 0 =>
    \A m \in Msg : \A i \in DOMAIN members[m] :
      LET c == GroupCopy(m, members[m][i]) IN
      \/ members[m][i] = sent[m].hiddenFor
      \/ ~ Fits(Added(c))
      \/ Shown(c)

\* "Populate in-memory caches for ALL delivered messages (group or direct)"
\* (src/observer/message.ts:45): the project of a stored copy marked DELIVERED is
\* in memory.
AllDeliveredAreCached ==
  \A c \in persist :
    c.status = DELIVERED /\ faults = 0 =>
      messageProjectCache[c.msg] = sent[c.msg].projectId
=============================================================================
