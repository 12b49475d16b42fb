----------------------------- MODULE MCAmqpLink -----------------------------
(* An instance of AmqpLink for TLC.                                         *)
EXTENDS AmqpLink

MCConfig ==
  {[queues |-> q, env |-> e, redis |-> a, analytics |-> a] :
     q \in {{"messages", "persist"}, {"persist"}}, e \in {"unset", "true"},
     a \in BOOLEAN}

=============================================================================
