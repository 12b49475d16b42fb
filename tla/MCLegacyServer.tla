--------------------------- MODULE MCLegacyServer ---------------------------
(* An instance of LegacyServer for TLC: deployments of up to four processes *)
(* and what happens to each.                                                *)
EXTENDS LegacyServer, TLC

CONSTANTS p1, p2, p3, p4, a, b, g

MCProcs == {p1, p2, p3, p4}

Env(active, webhook, presence) ==
  [active |-> active, webhook |-> webhook, presence |-> presence, events |-> MessageEvents]

\* CHANGELOG.md v0.2.40: everything in a single process.
Single == p1 :> Env({"messages", "persist"}, "true", TRUE)

\* Nothing configured; only sent messages reported.
Default == p1 :> [Env({}, "unset", FALSE) EXCEPT !.events = {"message-sent"}]

\* The work on two processes, with an ACTIVE_QUEUES a comment of
\* chatservermq.js takes for valid on a third.
Pair == p1 :> Env({"messages"}, "true", TRUE) @@ p2 :> Env({"persist"}, "false", FALSE)
          @@ p3 :> Env({"outgoing", "persist"}, "true", FALSE)

\* Two processes alike, sharing every queue.
Twins == p1 :> Env({}, "false", FALSE) @@ p2 :> Env({}, "false", FALSE)

\* CHANGELOG.md v0.2.40: an instance for each kind of work.
Split == p1 :> Env({"none"}, "true", FALSE) @@ p2 :> Env({"messages"}, "false", FALSE)
           @@ p3 :> Env({"persist"}, "false", FALSE) @@ p4 :> Env({"none"}, "false", TRUE)

None == [k \in Bounds |-> 0]

Scene(env, to, status, members, hidden, conv, bound) ==
  [env |-> env, to |-> to, status |-> status, members |-> members, hidden |-> hidden,
   updateconversation |-> conv, bound |-> bound @@ None, len |-> [u \in Timelines |-> 9]]

\* With ids this long of the sender, the receiver and the group.
Long(s, i, j, k) == [s EXCEPT !.len = a :> i @@ b :> j @@ g :> k]

Two == "msgs" :> 2
One == "msgs" :> 1

MCScenarios ==
  { \* two messages, with a connection lost or an operation failed
    Scene(Single, "direct", 200, {a, b}, {}, TRUE, Two),
    Scene(Twins, "direct", 200, {a, b}, {}, TRUE, Two),
    Scene(Single, "direct", 200, {a, b}, {}, TRUE, One @@ "drops" :> 2),
    Scene(Pair, "direct", 200, {a, b}, {}, TRUE, One @@ "drops" :> 1 @@ "fails" :> 1),
    \* a receipt, a conversation read, an archive
    Scene(Single, "direct", 200, {a, b}, {}, TRUE, One @@ "reads" :> 1 @@ "news" :> 1),
    Scene(Single, "direct", 150, {a, b}, {}, FALSE, One @@ "reads" :> 1 @@ "injected" :> 1),
    Scene(Single, "direct", 200, {a, b}, {}, TRUE, One @@ "archives" :> 1 @@ "news" :> 1),
    Scene(Twins, "direct", 200, {a, b}, {}, TRUE, Two @@ "archives" :> 1),
    \* groups: looked up, missing, changed, inline, with a member left out
    Scene(Single, "group", 200, {a, b}, {}, TRUE, One @@ "groups" :> 1 @@ "fails" :> 1),
    Scene(Default, "group", 150, {}, {}, TRUE, One @@ "groups" :> 1 @@ "injected" :> 1),
    Scene(Default, "inline", 200, {b}, {}, TRUE, One @@ "reads" :> 1),
    Scene(Single, "inline", 200, {a, b}, {b}, TRUE, One),
    \* topics too long: of a copy, of its persist, of the receipt for it (and
    \* of the copy of the group), of a change of the conversation or the group
    Long(Scene(Single, "inline", 200, {a, b}, {}, TRUE, One @@ "drops" :> 1), 9, 180, 40),
    Long(Scene(Single, "inline", 200, {a, b}, {}, TRUE, One), 9, 170, 40),
    Long(Scene(Single, "inline", 200, {a, b}, {}, TRUE, One @@ "reads" :> 1), 9, 66, 110),
    Long(Scene(Single, "direct", 200, {a, b}, {}, TRUE, One @@ "news" :> 1 @@ "archives" :> 1),
         100, 107, 9),
    Long(Scene(Single, "group", 200, {a, b}, {}, TRUE, One @@ "groups" :> 1), 9, 180, 40),
    \* presence
    Scene(Single, "direct", 200, {a, b}, {}, TRUE, One @@ "presences" :> 2) }

\* The documented instances, with a message and one that announces itself.
MCSplit ==
  { Scene(Split, "direct", 200, {a, b}, {}, TRUE, One),
    Scene(Split, "direct", 200, {a, b}, {}, TRUE, "presences" :> 1) }

=============================================================================
