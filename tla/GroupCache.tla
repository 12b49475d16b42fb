----------------------------- MODULE GroupCache -----------------------------
(***************************************************************************)
(* The member list a group message is fanned out to: groupFromCache,       *)
(* getGroup and saveGroupInCache, and process_update_group, for one group. *)
(*                                                                         *)
(* A list is a version number.  The HTTP server stores a new version in    *)
(* MongoDB and then announces it to the observer; the observer reads Redis *)
(* first and MongoDB on a miss, and fills Redis from what it read.         *)
(***************************************************************************)
EXTENDS Naturals, Sequences

CONSTANTS
  Lookup,         \* the group messages handled
  NONE,           \* no list
  MaxVersion,     \* bound: versions stored
  MaxFaults       \* bound: Redis and MongoDB errors and crashes

Version == 1 .. MaxVersion
PENDING == 0     \* no answer yet

ASSUME GroupCacheAssumption ==
  /\ NONE \notin Nat
  /\ MaxVersion \in Nat \ {0} /\ MaxFaults \in Nat

VARIABLES
  db,        \* MongoDB: the version stored
  updates,   \* versions stored whose announcement is not handled, in order
  cache,     \* Redis: the version cached, or NONE
  pipe,      \* commands on the connection to Redis
  at,        \* where each handler is
  got,       \* the list its pending promise or callback holds
  used,      \* the list it fanned out to; NONE for the transient group
  notified,  \* the last version sent to the members' clientupdated topics
  told,      \* the value of notified when the handler started
  raced,     \* an update was handled while an older list was about to be cached
  faults,
  crashed    \* the process has restarted

vars == <<db, updates, cache, pipe, at, got, used, notified, told, raced, faults,
          crashed>>

Get(l) == [op |-> "get", lookup |-> l]
Set(v) == [op |-> "set", version |-> v]

Stage == {"new", "limiting", "waiting", "finding", "found", "done", "dropped"}

TypeOK ==
  /\ db \in Version
  /\ updates \in Seq(Version)
  /\ cache \in {NONE} \cup Version
  /\ pipe \in Seq({Get(l) : l \in Lookup} \cup {Set(v) : v \in Version})
  /\ at \in [Lookup -> Stage]
  /\ got \in [Lookup -> {PENDING, NONE} \cup Version]
  /\ used \in [Lookup -> {NONE} \cup Version]
  /\ notified \in {0} \cup Version
  /\ told \in [Lookup -> {0} \cup Version]
  /\ raced \in BOOLEAN /\ crashed \in BOOLEAN
  /\ faults \in 0 .. MaxFaults

Init ==
  /\ db = 1 /\ updates = <<>>
  /\ cache = NONE /\ pipe = <<>>
  /\ at = [l \in Lookup |-> "new"]
  /\ got = [l \in Lookup |-> PENDING]
  /\ used = [l \in Lookup |-> NONE]
  /\ notified = 0
  /\ told = [l \in Lookup |-> 0]
  /\ raced = FALSE /\ crashed = FALSE
  /\ faults = 0

-----------------------------------------------------------------------------
(* The HTTP server.                                                        *)

StoreGroup ==
  /\ db < MaxVersion
  /\ db' = db + 1
  /\ updates' = Append(updates, db + 1)
  /\ UNCHANGED <<cache, pipe, at, got, used, notified, told, raced, faults, crashed>>

-----------------------------------------------------------------------------
(* process_outgoing of a group message.                                    *)

Move(l, from, to) == at[l] = from /\ at' = [at EXCEPT ![l] = to]

\* groupFromCache() is started beside canExecute().
Prefetch(l) ==
  /\ Move(l, "new", "limiting")
  /\ pipe' = Append(pipe, Get(l))
  /\ told' = [told EXCEPT ![l] = notified]
  /\ UNCHANGED <<db, updates, cache, got, used, notified, raced, faults, crashed>>

\* canExecute() answers.
Admit(l) ==
  /\ Move(l, "limiting", "waiting")
  /\ UNCHANGED <<db, updates, cache, pipe, got, used, notified, told, raced, faults,
                 crashed>>

Refuse(l) ==
  /\ Move(l, "limiting", "dropped")
  /\ UNCHANGED <<db, updates, cache, pipe, got, used, notified, told, raced, faults,
                 crashed>>

\* getGroup() with the list from the cache.
Hit(l) ==
  /\ got[l] \in Version
  /\ Move(l, "waiting", "done")
  /\ used' = [used EXCEPT ![l] = got[l]]
  /\ UNCHANGED <<db, updates, cache, pipe, got, notified, told, raced, faults,
                 crashed>>

\* getGroup() without: chatdb.getGroup() is sent to MongoDB.
Miss(l) ==
  /\ got[l] = NONE
  /\ Move(l, "waiting", "finding")
  /\ UNCHANGED <<db, updates, cache, pipe, got, used, notified, told, raced, faults,
                 crashed>>

\* MongoDB reads the group; the answer is under way.
Find(l) ==
  /\ Move(l, "finding", "found")
  /\ got' = [got EXCEPT ![l] = db]
  /\ UNCHANGED <<db, updates, cache, pipe, used, notified, told, raced, faults,
                 crashed>>

\* The findOne callback fills the cache and fans out.
Fill(l) ==
  /\ Move(l, "found", "done")
  /\ used' = [used EXCEPT ![l] = got[l]]
  /\ pipe' = Append(pipe, Set(got[l]))
  /\ UNCHANGED <<db, updates, cache, got, notified, told, raced, faults, crashed>>

\* Mutant: what findOne did not return is cached.
FailFindFills(l) ==
  /\ faults < MaxFaults
  /\ Move(l, "finding", "done")
  /\ faults' = faults + 1
  /\ pipe' = Append(pipe, Set(NONE))
  /\ UNCHANGED <<db, updates, cache, got, used, notified, told, raced, crashed>>

\* findOne fails: the transient group is used and nothing is cached.
FailFind(l) ==
  /\ faults < MaxFaults
  /\ Move(l, "finding", "done")
  /\ faults' = faults + 1
  /\ UNCHANGED <<db, updates, cache, pipe, got, used, notified, told, raced, crashed>>

-----------------------------------------------------------------------------
(* process_update_group: saveGroupInCache(), not awaited, and              *)
(* deliverGroupUpdated().                                                  *)

\* Mutant: the members are notified and the cache is not written.
UpdateWithoutCache ==
  /\ updates # <<>>
  /\ updates' = Tail(updates)
  /\ notified' = Head(updates)
  /\ UNCHANGED <<db, cache, pipe, at, got, used, told, raced, faults, crashed>>

UpdateGroup ==
  /\ updates # <<>>
  /\ LET v == Head(updates) IN
     /\ updates' = Tail(updates)
     /\ pipe' = Append(pipe, Set(v))
     /\ notified' = v
     /\ raced' = (raced \/ \E l \in Lookup : at[l] = "found" /\ got[l] < v)
  /\ UNCHANGED <<db, cache, at, got, used, told, faults, crashed>>

-----------------------------------------------------------------------------
(* Redis.                                                                  *)

Answer(l, v) ==
  /\ pipe # <<>> /\ Head(pipe) = Get(l)
  /\ pipe' = Tail(pipe)
  /\ got' = [got EXCEPT ![l] = v]
  /\ UNCHANGED <<db, updates, cache, at, used, notified, told, raced, crashed>>

ServeGet(l) == Answer(l, cache) /\ UNCHANGED faults

\* groupFromCache() answers an error with null.
FailGet(l) ==
  /\ faults < MaxFaults
  /\ Answer(l, NONE)
  /\ faults' = faults + 1

ServeSet ==
  /\ pipe # <<>> /\ Head(pipe).op = "set"
  /\ pipe' = Tail(pipe)
  /\ cache' = Head(pipe).version
  /\ UNCHANGED <<db, updates, at, got, used, notified, told, raced, faults, crashed>>

\* Mutant: the cached list has no time to live.
NeverExpires == FALSE

\* EX 86400 runs out.
Expire ==
  /\ cache # NONE
  /\ cache' = NONE
  /\ UNCHANGED <<db, updates, pipe, at, got, used, notified, told, raced, faults,
                 crashed>>

\* The process ends.  An error answer to a SET ends it as well: nothing catches
\* saveGroupInCache()'s rejection.  The queue is consumed without acknowledgement
\* and without a prefetch limit: the announcements already pushed to it are lost.
Crash ==
  /\ faults < MaxFaults
  /\ pipe' = <<>>
  /\ \E pushed \in 0 .. Len(updates) : updates' = SubSeq(updates, pushed + 1, Len(updates))
  /\ at' = [l \in Lookup |-> IF at[l] \in {"new", "done"} THEN at[l] ELSE "dropped"]
  /\ faults' = faults + 1
  /\ crashed' = TRUE
  /\ UNCHANGED <<db, cache, got, used, notified, told, raced>>

-----------------------------------------------------------------------------

Handle(l) ==
  Admit(l) \/ Refuse(l) \/ Hit(l) \/ Miss(l) \/ Find(l) \/ Fill(l)

Next ==
  \/ StoreGroup \/ UpdateGroup
  \/ \E l \in Lookup :
       Prefetch(l) \/ Handle(l) \/ FailFind(l) \/ ServeGet(l) \/ FailGet(l)
  \/ ServeSet \/ Expire \/ Crash

Spec == Init /\ [][Next]_vars

\* Handlers run when they can, Redis and MongoDB answer, announcements arrive,
\* and time passes, so that what is not written again expires.
FairSpec ==
  /\ Spec
  /\ \A l \in Lookup : WF_vars(Handle(l)) /\ WF_vars(ServeGet(l))
  /\ WF_vars(ServeSet) /\ WF_vars(UpdateGroup) /\ WF_vars(Expire)

-----------------------------------------------------------------------------

\* A message handled after an update was handled is fanned out to that update's
\* members or newer ones, unless a database answer older than the update was
\* under way just then, or the process restarted with the update unwritten.
UpdatedUnlessRaced ==
  ~ raced /\ ~ crashed =>
    \A l \in Lookup : at[l] = "done" /\ used[l] # NONE => used[l] >= told[l]

\* Every handler ends, on a hit, on a miss and when Redis or MongoDB fails it, and
\* the cached list is at last the stored one: a stale fill stays no longer than its
\* time to live, for a hit does not renew it.
CacheConverges ==
  <>[](/\ cache \in {NONE, db}
       /\ \A l \in Lookup : at[l] \in {"new", "done", "dropped"})

=============================================================================
