---------------------------- MODULE RateManager ----------------------------
(***************************************************************************)
(* RateManager.canExecute: the token bucket of one sender, kept in Redis.  *)
(*                                                                         *)
(* A call reads the bucket, decides, and writes the bucket back without    *)
(* waiting for the write.  The observer takes messages without an          *)
(* acknowledgement or a prefetch limit, so calls of one sender overlap; all *)
(* its commands travel down one Redis connection, in order.                *)
(***************************************************************************)
EXTENDS Integers, Sequences, FiniteSets

CONSTANTS
  Capacity,       \* tokens of a full bucket
  Scale,          \* units per token
  RefillRate,     \* units per tick of the clock
  TTL,            \* ticks until an unwritten bucket expires (EX 600)
  MaxInFlight,    \* calls that may be waiting for their bucket at once
  MaxNow,         \* bound: the clock
  MaxFaults,      \* bound: Redis errors and crashes
  NONE            \* no bucket

Full == Capacity * Scale

ASSUME RateAssumption ==
  /\ Capacity \in Nat \ {0} /\ Scale \in Nat \ {0} /\ RefillRate \in Nat \ {0}
  /\ TTL \in Nat \ {0} /\ MaxInFlight \in Nat \ {0}
  /\ MaxNow \in Nat /\ MaxFaults \in Nat
  /\ NONE \notin Int

\* Units left in a bucket: the code stores tokens in (-1, Capacity - 1].
Units == (1 - Scale) .. (Full - Scale)

VARIABLES
  now,          \* Date.now()
  tokens,       \* Redis: the stored bucket.tokens, or NONE
  timestamp,    \* Redis: the stored bucket.timestamp
  expires,      \* Redis: when the stored bucket expires
  pipe,         \* commands on the connection to Redis
  replies,      \* replies to GETs on the connection back
  admitted,     \* calls that resolved to true
  lostWrites,   \* history: buckets that were sent to Redis and never stored
  overlaps,     \* history: calls that an admission found under way, counted each time
  forgotten,    \* history: units that expired buckets lacked for being full
  faults

redis == <<tokens, timestamp, expires>>
connection == <<pipe, replies>>
history == <<lostWrites, overlaps, forgotten>>
vars == <<now, redis, connection, admitted, history, faults>>

Get == [op |-> "get"]
Set(t, at) == [op |-> "set", tokens |-> t, timestamp |-> at]

SetCommand == [op : {"set"}, tokens : Units, timestamp : 0 .. now]
Reply == [tokens : {NONE} \cup Units, timestamp : 0 .. now]

BucketsInRange ==
  /\ now \in 0 .. MaxNow
  /\ tokens \in {NONE} \cup Units
  /\ timestamp \in 0 .. now
  /\ expires \in Nat
  /\ pipe \in Seq({Get} \cup SetCommand)
  /\ replies \in Seq(Reply)
  /\ admitted \in Nat
  /\ lostWrites \in Nat /\ overlaps \in Nat /\ forgotten \in Nat
  /\ faults \in 0 .. MaxFaults

Init ==
  /\ now = 0
  /\ tokens = NONE /\ timestamp = 0 /\ expires = 0
  /\ pipe = <<>> /\ replies = <<>>
  /\ admitted = 0 /\ lostWrites = 0 /\ overlaps = 0 /\ forgotten = 0 /\ faults = 0

-----------------------------------------------------------------------------

Count(s, op) == Cardinality({i \in DOMAIN s : s[i].op = op})

Waiting == Count(pipe, "get") + Len(replies)

Stored == [tokens |-> tokens, timestamp |-> timestamp]
Nothing == [tokens |-> NONE, timestamp |-> 0]
Expired == tokens # NONE /\ now >= expires

\* Mutant: the refill is not capped.
RefilledUncapped(r) ==
  IF r.tokens = NONE THEN Full ELSE r.tokens + (now - r.timestamp) * RefillRate

\* Mutant: a new bucket holds one token.
RefilledFromOne(r) ==
  LET t == r.tokens + (now - r.timestamp) * RefillRate IN
  IF r.tokens = NONE THEN Scale ELSE IF t > Full THEN Full ELSE t

\* createBucket() makes a full bucket as of now; a stored one is refilled for
\* the time since its timestamp.
Refilled(r) ==
  LET t == r.tokens + (now - r.timestamp) * RefillRate IN
  IF r.tokens = NONE \/ t > Full THEN Full ELSE t

\* canExecute() up to its await: getBucket() sends a GET.
Call ==
  /\ Waiting < MaxInFlight
  /\ pipe' = Append(pipe, Get)
  /\ UNCHANGED <<now, redis, replies, admitted, history, faults>>

\* Redis answers a GET; a key whose time has come is gone, and with it whatever
\* the bucket lacked.
ServeGet ==
  /\ pipe # <<>> /\ Head(pipe).op = "get"
  /\ pipe' = Tail(pipe)
  /\ tokens' = IF Expired THEN NONE ELSE tokens
  /\ replies' = Append(replies, IF tokens' = NONE THEN Nothing ELSE Stored)
  /\ forgotten' = forgotten + IF Expired THEN Full - Refilled(Stored) ELSE 0
  /\ UNCHANGED <<now, timestamp, expires, admitted, lostWrites, overlaps, faults>>

\* Redis carries out setBucket(), which renews the key's time to live.
ServeSet ==
  /\ pipe # <<>> /\ Head(pipe).op = "set"
  /\ pipe' = Tail(pipe)
  /\ tokens' = Head(pipe).tokens
  /\ timestamp' = Head(pipe).timestamp
  /\ expires' = now + TTL
  /\ UNCHANGED <<now, replies, admitted, history, faults>>

\* Mutant: the token is not taken from what is written back.
GrantForFree ==
  /\ replies # <<>> /\ Refilled(Head(replies)) > 0
  /\ replies' = Tail(replies)
  /\ pipe' = Append(pipe, Set(Refilled(Head(replies)), now))
  /\ admitted' = admitted + 1
  /\ overlaps' = overlaps + Waiting - 1
  /\ UNCHANGED <<now, redis, lostWrites, forgotten, faults>>

\* canExecute() from its await on, admitting the call: the bucket is written
\* back and the call returns without waiting for the write.
Grant ==
  /\ replies # <<>> /\ Refilled(Head(replies)) > 0
  /\ replies' = Tail(replies)
  /\ pipe' = Append(pipe, Set(Refilled(Head(replies)) - Scale, now))
  /\ admitted' = admitted + 1
  /\ overlaps' = overlaps + Waiting - 1
  /\ UNCHANGED <<now, redis, lostWrites, forgotten, faults>>

\* The same, refusing it: nothing is written.
Deny ==
  /\ replies # <<>> /\ Refilled(Head(replies)) <= 0
  /\ replies' = Tail(replies)
  /\ UNCHANGED <<now, redis, pipe, admitted, history, faults>>

\* A SET fails: setBucket()'s rejection is caught and logged.
FailSet ==
  /\ faults < MaxFaults
  /\ pipe # <<>> /\ Head(pipe).op = "set"
  /\ pipe' = Tail(pipe)
  /\ lostWrites' = lostWrites + 1
  /\ faults' = faults + 1
  /\ UNCHANGED <<now, redis, replies, admitted, overlaps, forgotten>>

\* The process ends, which an error answer to a GET brings about too (nothing
\* catches getBucket()'s rejection).  Commands not yet at Redis are lost.
Crash ==
  /\ faults < MaxFaults
  /\ pipe' = <<>> /\ replies' = <<>>
  /\ lostWrites' = lostWrites + Count(pipe, "set")
  /\ faults' = faults + 1
  /\ UNCHANGED <<now, redis, admitted, overlaps, forgotten>>

Tick ==
  /\ now < MaxNow
  /\ now' = now + 1
  /\ UNCHANGED <<redis, connection, admitted, history, faults>>

Next ==
  \/ Call \/ ServeGet \/ ServeSet \/ Grant \/ Deny
  \/ FailSet \/ Crash \/ Tick

Spec == Init /\ [][Next]_vars

-----------------------------------------------------------------------------

\* The token bucket's law: what was admitted since the start is covered by a
\* full bucket and what was refilled since, overdrawn by less than a token, but for
\* the calls that read the bucket before another's admission was written back, the
\* writes that were lost, and what buckets still lacked when they expired.  A sender
\* whose calls never overlap gets no more.
AdmissionsAreCovered ==
  (admitted - lostWrites - overlaps) * Scale
    <= Full + now * RefillRate + forgotten + Scale - 1

\* A call is refused only after a whole bucket was handed out: no interleaving of
\* writes, expiry, faults or restarts takes tokens nobody got.
DenialsAreEarned == [][Deny => admitted >= Capacity]_vars
=============================================================================
