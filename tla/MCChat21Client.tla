---------------------------- MODULE MCChat21Client ----------------------------
(* An instance of Chat21Client for TLC: two clients of one user.            *)
EXTENDS Chat21Client

CONSTANTS c1, c2, u, v

MCClient == {c1, c2}
MCUser == {u}
MCOwner == [c \in MCClient |-> u]
MCConv == {v}
MCKind == {"MessageAdded", "ConversationAdded", "MessageAddedInConversation"}
MCEvent == [list : {"MessageAdded"}, conv : {v}, quiet : BOOLEAN]
             \cup [list : {"Presence"}, conv : {v}, quiet : {FALSE}]

Bound(n1, n2, handler, request, here, event, fault) ==
  [conn |-> (c1 :> n1 @@ c2 :> n2), handler |-> handler, request |-> request,
   here |-> here, event |-> event, fault |-> fault]

\* One client connected twice, with a message and a fault, with a callback and
\* a message, and with ImHere() and faults; two clients of the same user;
\* several callbacks; a request.
MCLimits == {Bound(2, 0, 0, 0, 0, 1, 1), Bound(2, 0, 1, 0, 0, 1, 0),
             Bound(2, 0, 0, 0, 1, 0, 2), Bound(1, 1, 0, 0, 0, 0, 2),
             Bound(1, 0, 2, 0, 0, 1, 0), Bound(1, 0, 0, 1, 0, 0, 0)}

=============================================================================
