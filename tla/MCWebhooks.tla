----------------------------- MODULE MCWebhooks -----------------------------
\* Small worlds for Webhooks.
EXTENDS Webhooks

CONSTANTS sent, delivered, receipt, archived, presence, a, b

MCKind ==
  [e \in Event |->
     CASE e = sent -> "message-sent"
       [] e = delivered -> "message-delivered"
       [] e = receipt -> "message-return-receipt"
       [] e = archived -> "conversation-archived"
       [] e = presence -> "presence-change"]

\* The endpoints change, an event is taken out, webhooks are switched off as the
\* tests do: setWebHookEnabled(false), setWebHookEndpoints(null).
MCConfigs ==
  {[enabled |-> TRUE, endpoints |-> {a, b}, events |-> Kinds],
   [enabled |-> TRUE, endpoints |-> {b},
    events |-> {"message-sent", "conversation-archived"}],
   [enabled |-> FALSE, endpoints |-> {}, events |-> Kinds]}

\* example.env
ExampleConfigs ==
  {[enabled |-> TRUE, endpoints |-> {a, b},
    events |-> {"message-sent", "conversation-archived"}]}

=============================================================================
