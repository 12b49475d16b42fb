------------------------- MODULE GroupCache_proofs -------------------------
(***************************************************************************)
(* Type correctness of GroupCache, and that a list used is no older than   *)
(* what its handler was told, unless an update raced a fill or the process *)
(* restarted: for any number of messages, versions and faults.             *)
(***************************************************************************)
EXTENDS GroupCache, TLAPS, SequenceTheorems

Command == {Get(l) : l \in Lookup} \cup {Set(v) : v \in Version}

\* Announcements come in the order of the versions, after the last one handled.
Ordered ==
  /\ notified <= db
  /\ \A l \in Lookup : told[l] <= notified
  /\ \A i \in DOMAIN updates :
       /\ notified < updates[i] /\ updates[i] <= db
       /\ \A j \in DOMAIN updates : i < j => updates[i] < updates[j]

\* A handler has one GET at most, sent when it starts.
OneGet ==
  /\ \A l \in Lookup : at[l] = "new" => got[l] = PENDING
  /\ \A i \in DOMAIN pipe, l \in Lookup :
       pipe[i] = Get(l) =>
         /\ got[l] = PENDING /\ at[l] \in {"limiting", "waiting", "dropped"}
         /\ \A j \in DOMAIN pipe : pipe[j] = Get(l) => i = j

Handlers ==
  \A l \in Lookup :
    /\ at[l] = "found" => got[l] \in Version
    /\ at[l] # "done" => used[l] = NONE

\* No list, or one of version n at least.
AtLeast(v, n) == v = NONE \/ (v \in Nat /\ v >= n)

\* What is cached when command p, or a later one, is carried out, is what the
\* last SET before it leaves.
Value(q) == IF q = 0 THEN cache ELSE pipe[q].version
LastSet(q, p) ==
  /\ q = 0 \/ pipe[q].op = "set"
  /\ \A i \in q + 1 .. p - 1 : pipe[i].op = "get"

\* A later GET is of a handler that was told what is notified by then.
PipeFresh ==
  \A p \in 1 .. Len(pipe) + 1 : \A q \in 0 .. p - 1 :
    LastSet(q, p) =>
      /\ p = Len(pipe) + 1 => AtLeast(Value(q), notified)
      /\ p <= Len(pipe) => \A l \in Lookup : pipe[p] = Get(l) => AtLeast(Value(q), told[l])

GotFresh ==
  \A l \in Lookup :
    /\ at[l] \in {"limiting", "waiting"} /\ got[l] # PENDING => AtLeast(got[l], told[l])
    /\ at[l] = "found" => got[l] >= notified

CacheInv ==
  /\ TypeOK /\ Ordered /\ OneGet /\ Handlers
  /\ ~ raced /\ ~ crashed => PipeFresh /\ GotFresh /\ UpdatedUnlessRaced

-----------------------------------------------------------------------------

LEMMA Numbers ==
  /\ Version \subseteq Nat \ {0} /\ NONE \notin Nat /\ 1 \in Version
  /\ MaxVersion \in Nat /\ MaxFaults \in Nat
BY GroupCacheAssumption DEF GroupCacheAssumption, Version

LEMMA PipeTypes ==
  ASSUME TypeOK
  PROVE  /\ pipe \in Seq(Command) /\ Len(pipe) \in Nat /\ DOMAIN pipe = 1 .. Len(pipe)
         /\ \A i \in 1 .. Len(pipe) :
              /\ pipe[i] \in Command
              /\ \/ pipe[i].op = "get" /\ \E l \in Lookup : pipe[i] = Get(l)
                 \/ /\ pipe[i].op = "set" /\ pipe[i].version \in Version
                    /\ \A l \in Lookup : pipe[i] # Get(l)
<1>1. pipe \in Seq(Command)
  BY DEF TypeOK, Command
<1>2. Len(pipe) \in Nat /\ DOMAIN pipe = 1 .. Len(pipe)
  BY <1>1, LenProperties
<1>3. \A i \in 1 .. Len(pipe) : pipe[i] \in Command
  BY <1>1, <1>2
<1>4. \A c \in Command :
        \/ c.op = "get" /\ \E l \in Lookup : c = Get(l)
        \/ /\ c.op = "set" /\ c.version \in Version
           /\ \A l \in Lookup : c # Get(l)
  BY DEF Command, Get, Set
<1> QED BY <1>1, <1>2, <1>3, <1>4

LEMMA Appended ==
  ASSUME TypeOK, NEW e \in Command, pipe' = Append(pipe, e)
  PROVE  /\ pipe' \in Seq(Command) /\ Len(pipe') = Len(pipe) + 1
         /\ DOMAIN pipe' = 1 .. Len(pipe) + 1
         /\ \A i \in 1 .. Len(pipe) : pipe'[i] = pipe[i]
         /\ pipe'[Len(pipe) + 1] = e
<1>1. pipe \in Seq(Command) /\ Len(pipe) \in Nat
  BY PipeTypes
<1>2. /\ pipe' \in Seq(Command) /\ Len(pipe') = Len(pipe) + 1
      /\ \A i \in 1 .. Len(pipe) : pipe'[i] = pipe[i]
      /\ pipe'[Len(pipe) + 1] = e
  BY <1>1, AppendProperties
<1> QED BY <1>2, LenProperties

LEMMA Shifted ==
  ASSUME TypeOK, pipe # <<>>, pipe' = Tail(pipe)
  PROVE  /\ pipe' \in Seq(Command) /\ Len(pipe) > 0 /\ Len(pipe') = Len(pipe) - 1
         /\ DOMAIN pipe' = 1 .. Len(pipe) - 1
         /\ \A i \in 1 .. Len(pipe) - 1 : pipe'[i] = pipe[i + 1]
         /\ Head(pipe) = pipe[1]
<1>1. pipe \in Seq(Command) /\ Len(pipe) \in Nat
  BY PipeTypes
<1>2. /\ pipe' \in Seq(Command) /\ Len(pipe') = Len(pipe) - 1
      /\ \A i \in 1 .. Len(pipe') : pipe'[i] = pipe[i + 1]
  BY <1>1, HeadTailProperties
<1>3. Len(pipe) > 0 /\ Head(pipe) = pipe[1]
  BY <1>1
<1> QED BY <1>2, <1>3, LenProperties

LEMMA InitInv == Init => CacheInv
<1> SUFFICES ASSUME Init PROVE CacheInv
  OBVIOUS
<1>1. TypeOK
  <2>1. /\ updates \in Seq(Version)
        /\ pipe \in Seq({Get(l) : l \in Lookup} \cup {Set(v) : v \in Version})
    BY DEF Init
  <2>2. faults \in 0 .. MaxFaults /\ db \in Version
    BY Numbers DEF Init
  <2> QED BY <2>1, <2>2 DEF Init, TypeOK, Stage
<1>2. Ordered /\ OneGet /\ Handlers
  BY Numbers DEF Init, Ordered, OneGet, Handlers
<1>3. PipeFresh
  BY DEF Init, PipeFresh, AtLeast, Value, LastSet
<1>4. GotFresh /\ UpdatedUnlessRaced
  BY DEF Init, GotFresh, UpdatedUnlessRaced
<1> QED BY <1>1, <1>2, <1>3, <1>4 DEF CacheInv

\* The pipe does not change, and what is cached does not, or expires.
LEMMA PipeStays ==
  ASSUME TypeOK, PipeFresh, pipe' = pipe, notified' = notified, told' = told,
         cache' \in {cache, NONE}
  PROVE  PipeFresh'
<1> SUFFICES ASSUME NEW p \in 1 .. Len(pipe) + 1, NEW q \in 0 .. p - 1, LastSet(q, p)
             PROVE  /\ p = Len(pipe) + 1 => AtLeast(Value(q)', notified)
                    /\ p <= Len(pipe) =>
                         \A l \in Lookup : pipe[p] = Get(l) => AtLeast(Value(q)', told[l])
  BY DEF PipeFresh, LastSet, AtLeast
<1>1. Value(q)' = Value(q) \/ Value(q)' = NONE
  BY DEF Value
<1> QED BY <1>1 DEF PipeFresh, AtLeast

-----------------------------------------------------------------------------
(* Every step keeps the invariant.                                         *)

\* The HTTP server stores a version and announces it.
LEMMA StoreGroupInv == CacheInv /\ StoreGroup => CacheInv'
<1> SUFFICES ASSUME CacheInv, StoreGroup PROVE CacheInv'
  OBVIOUS
<1>1. /\ TypeOK /\ db < MaxVersion /\ db' = db + 1 /\ updates' = Append(updates, db + 1)
      /\ UNCHANGED <<cache, pipe, at, got, used, notified, told, raced, faults, crashed>>
  BY DEF CacheInv, StoreGroup
<1>2. db + 1 \in Version /\ db \in Nat /\ updates \in Seq(Version)
  BY <1>1, Numbers DEF TypeOK, Version
<1>3. /\ updates' \in Seq(Version) /\ DOMAIN updates = 1 .. Len(updates)
      /\ DOMAIN updates' = 1 .. Len(updates) + 1 /\ Len(updates) \in Nat
      /\ \A i \in 1 .. Len(updates) : updates'[i] = updates[i] /\ updates[i] \in Nat
      /\ updates'[Len(updates) + 1] = db + 1
  <2>1. DOMAIN updates = 1 .. Len(updates) /\ Len(updates) \in Nat
    BY <1>2, LenProperties
  <2>2. /\ updates' \in Seq(Version) /\ Len(updates') = Len(updates) + 1
        /\ \A i \in 1 .. Len(updates) : updates'[i] = updates[i]
        /\ updates'[Len(updates) + 1] = db + 1
    BY <1>1, <1>2, AppendProperties
  <2>3. DOMAIN updates' = 1 .. Len(updates) + 1
    BY <2>2, LenProperties
  <2>4. \A i \in 1 .. Len(updates) : updates[i] \in Nat
    <3>1. \A i \in 1 .. Len(updates) : updates[i] \in Version
      BY <1>2, <2>1
    <3> QED BY <3>1, Numbers
  <2> QED BY <2>1, <2>2, <2>3, <2>4
<1>4. TypeOK'
  BY <1>1, <1>2, <1>3 DEF TypeOK
<1>5. Ordered'
  <2>1. notified \in Nat /\ notified <= db
    BY <1>1, Numbers DEF TypeOK, CacheInv, Ordered
  <2>2. \A l \in Lookup : told[l] <= notified
    BY DEF CacheInv, Ordered
  <2>3. \A i \in 1 .. Len(updates) :
          /\ notified < updates[i] /\ updates[i] <= db
          /\ \A j \in 1 .. Len(updates) : i < j => updates[i] < updates[j]
    BY <1>3 DEF CacheInv, Ordered
  <2>4. \A i \in 1 .. Len(updates) + 1 :
          /\ notified < updates'[i] /\ updates'[i] <= db + 1
          /\ \A j \in 1 .. Len(updates) + 1 : i < j => updates'[i] < updates'[j]
    BY <1>2, <1>3, <2>1, <2>3
  <2>5. notified <= db + 1
    BY <1>2, <2>1
  <2> QED BY <1>1, <1>3, <2>2, <2>4, <2>5 DEF Ordered
<1>6. OneGet' /\ Handlers'
  BY <1>1 DEF CacheInv, OneGet, Handlers
<1>7. ~ raced' /\ ~ crashed' => PipeFresh' /\ GotFresh' /\ UpdatedUnlessRaced'
  BY <1>1, PipeStays DEF CacheInv, GotFresh, UpdatedUnlessRaced, AtLeast
<1> QED BY <1>4, <1>5, <1>6, <1>7 DEF CacheInv

\* Nothing in the pipe, and no list, changes as a handler moves on.
LEMMA MoveInv ==
  ASSUME CacheInv, NEW l \in Lookup,
         Admit(l) \/ Refuse(l) \/ Hit(l) \/ Miss(l) \/ Find(l) \/ FailFind(l)
  PROVE  CacheInv'
<1>1. /\ TypeOK /\ UNCHANGED <<db, updates, cache, pipe, notified, told, raced, crashed>>
      /\ \A k \in Lookup : k # l => at'[k] = at[k] /\ got'[k] = got[k] /\ used'[k] = used[k]
  BY DEF CacheInv, Admit, Refuse, Hit, Miss, Find, FailFind, Move, TypeOK
<1>2. \/ /\ at[l] = "limiting" /\ at'[l] \in {"waiting", "dropped"}
         /\ got'[l] = got[l] /\ used'[l] = used[l]
      \/ /\ at[l] = "waiting" /\ at'[l] = "done" /\ got[l] \in Version
         /\ got'[l] = got[l] /\ used'[l] = got[l]
      \/ /\ at[l] = "waiting" /\ at'[l] = "finding" /\ got[l] = NONE
         /\ got'[l] = got[l] /\ used'[l] = used[l]
      \/ /\ at[l] = "finding" /\ at'[l] = "found"
         /\ got'[l] = db /\ used'[l] = used[l]
      \/ /\ at[l] = "finding" /\ at'[l] = "done"
         /\ got'[l] = got[l] /\ used'[l] = used[l]
  BY <1>1 DEF Admit, Refuse, Hit, Miss, Find, FailFind, Move, TypeOK
<1>3. TypeOK'
  <2>1. faults' \in 0 .. MaxFaults
    BY <1>1, Numbers DEF TypeOK, Admit, Refuse, Hit, Miss, Find, FailFind
  <2>2. /\ at' \in [Lookup -> Stage]
        /\ got' \in [Lookup -> {PENDING, NONE} \cup Version]
        /\ used' \in [Lookup -> {NONE} \cup Version]
    BY <1>1 DEF TypeOK, Admit, Refuse, Hit, Miss, Find, FailFind, Move, Stage
  <2> QED BY <1>1, <2>1, <2>2 DEF TypeOK
<1>4. Ordered'
  BY <1>1 DEF CacheInv, Ordered
<1>5. PENDING \notin Version /\ PENDING # NONE /\ db \in Version
  BY <1>1, Numbers DEF PENDING, TypeOK
<1>6. OneGet'
  <2>1. \A k \in Lookup : at'[k] = "new" => got'[k] = PENDING
    BY <1>1, <1>2 DEF CacheInv, OneGet
  <2>2. ASSUME NEW i \in DOMAIN pipe, NEW k \in Lookup, pipe[i] = Get(k)
        PROVE  got'[k] = PENDING /\ at'[k] \in {"limiting", "waiting", "dropped"}
    <3>1. got[k] = PENDING /\ at[k] \in {"limiting", "waiting", "dropped"}
      BY <2>2 DEF CacheInv, OneGet
    <3> QED BY <1>1, <1>2, <1>5, <3>1
  <2> QED BY <1>1, <2>1, <2>2 DEF CacheInv, OneGet
<1>7. Handlers'
  BY <1>1, <1>2, <1>5 DEF CacheInv, Handlers
<1>8. ASSUME ~ raced, ~ crashed PROVE (PipeFresh /\ GotFresh /\ UpdatedUnlessRaced)'
  <2>1. PipeFresh /\ GotFresh /\ UpdatedUnlessRaced
    BY <1>8 DEF CacheInv
  <2>2. PipeFresh'
    BY <1>1, <2>1, PipeStays
  <2>3. GotFresh'
    <3>1. notified <= db /\ db \in Nat
      BY <1>5, Numbers DEF CacheInv, Ordered
    <3> QED BY <1>1, <1>2, <2>1, <3>1 DEF GotFresh
  <2>4. UpdatedUnlessRaced'
    <3>1. at[l] = "waiting" /\ got[l] \in Version => got[l] >= told[l]
      BY <1>5, <2>1, Numbers DEF GotFresh, AtLeast
    <3>2. at[l] # "done" => used[l] = NONE
      BY DEF CacheInv, Handlers
    <3> QED BY <1>1, <1>2, <2>1, <3>1, <3>2 DEF UpdatedUnlessRaced
  <2> QED BY <2>2, <2>3, <2>4
<1> QED BY <1>1, <1>3, <1>4, <1>6, <1>7, <1>8 DEF CacheInv

\* The clock takes the cached list away.
LEMMA ExpireInv == CacheInv /\ Expire => CacheInv'
<1> SUFFICES ASSUME CacheInv, Expire PROVE CacheInv'
  OBVIOUS
<1>1. /\ cache' = NONE
      /\ UNCHANGED <<db, updates, pipe, at, got, used, notified, told, raced, faults, crashed>>
  BY DEF Expire
<1>2. TypeOK /\ TypeOK'
  BY <1>1 DEF CacheInv, TypeOK
<1>3. Ordered' /\ OneGet' /\ Handlers'
  BY <1>1 DEF CacheInv, Ordered, OneGet, Handlers
<1>4. ~ raced' /\ ~ crashed' => PipeFresh' /\ GotFresh' /\ UpdatedUnlessRaced'
  BY <1>1, <1>2, PipeStays DEF CacheInv, GotFresh, UpdatedUnlessRaced, AtLeast
<1> QED BY <1>2, <1>3, <1>4 DEF CacheInv

\* The process ends: nothing is claimed of the lists any more.
LEMMA CrashInv == CacheInv /\ Crash => CacheInv'
<1> SUFFICES ASSUME CacheInv, Crash PROVE CacheInv'
  OBVIOUS
<1>1. /\ TypeOK /\ pipe' = <<>> /\ crashed' = TRUE
      /\ at' = [l \in Lookup |-> IF at[l] \in {"new", "done"} THEN at[l] ELSE "dropped"]
      /\ faults < MaxFaults /\ faults' = faults + 1
      /\ UNCHANGED <<db, cache, got, used, notified, told, raced>>
  BY DEF CacheInv, Crash
<1>u. PICK k \in Nat : /\ updates' \in Seq(Version) /\ k <= Len(updates)
                       /\ DOMAIN updates' = 1 .. Len(updates) - k
                       /\ \A i \in 1 .. Len(updates) - k : updates'[i] = updates[i + k]
  <2>1. updates \in Seq(Version) /\ Len(updates) \in Nat
    BY <1>1 DEF TypeOK
  <2>2. PICK k \in 0 .. Len(updates) : updates' = SubSeq(updates, k + 1, Len(updates))
    BY DEF Crash
  <2>3. k \in Nat /\ k + 1 \in Int /\ \A i \in k + 1 .. Len(updates) : updates[i] \in Version
    BY <2>1, <2>2
  <2>4. /\ updates' \in Seq(Version)
        /\ Len(updates') = IF k + 1 <= Len(updates) THEN Len(updates) - (k + 1) + 1 ELSE 0
        /\ \A i \in 1 .. Len(updates) - (k + 1) + 1 : updates'[i] = updates[(k + 1) + i - 1]
    BY <2>1, <2>2, <2>3, SubSeqProperties
  <2>5. Len(updates') = Len(updates) - k
    BY <2>1, <2>2, <2>4
  <2>6. DOMAIN updates' = 1 .. Len(updates) - k
    BY <2>4, <2>5, LenProperties
  <2>7. ASSUME NEW i \in 1 .. Len(updates) - k
        PROVE  updates'[i] = updates[i + k]
    <3>1. i \in 1 .. Len(updates) - (k + 1) + 1 /\ (k + 1) + i - 1 = i + k
      BY <2>1, <2>2
    <3> QED BY <2>4, <3>1
  <2> QED BY <2>2, <2>3, <2>4, <2>6, <2>7
<1>2. TypeOK'
  <2>1. faults' \in 0 .. MaxFaults
    BY <1>1, Numbers DEF TypeOK
  <2>2. pipe' \in Seq({Get(l) : l \in Lookup} \cup {Set(v) : v \in Version})
    BY <1>1
  <2>3. at' \in [Lookup -> Stage]
    BY <1>1 DEF TypeOK, Stage
  <2> QED BY <1>1, <1>u, <2>1, <2>2, <2>3 DEF TypeOK
<1>3. Ordered'
  <2>1. Len(updates) \in Nat /\ DOMAIN updates = 1 .. Len(updates)
    BY <1>1 DEF TypeOK
  <2>2. \A i \in 1 .. Len(updates) - k : i + k \in DOMAIN updates
    BY <1>u, <2>1
  <2>3. \A i, j \in 1 .. Len(updates) - k : i < j => i + k < j + k
    BY <1>u, <2>1
  <2>4. \A i \in DOMAIN updates' :
          /\ notified < updates'[i] /\ updates'[i] <= db
          /\ \A j \in DOMAIN updates' : i < j => updates'[i] < updates'[j]
    BY <1>u, <2>2, <2>3 DEF CacheInv, Ordered
  <2> QED BY <1>1, <2>4 DEF CacheInv, Ordered
<1>4. OneGet' /\ Handlers'
  BY <1>1 DEF CacheInv, OneGet, Handlers
<1> QED BY <1>1, <1>2, <1>3, <1>4 DEF CacheInv

\* A command is sent that leaves a list no older than is notified by then, or
\* that a handler sends which was told just that.
LEMMA SentFresh ==
  ASSUME TypeOK, PipeFresh, NEW e \in Command, pipe' = Append(pipe, e), cache' = cache,
         NEW n \in Nat, n = notified',
         \A i \in 1 .. Len(pipe), l \in Lookup : pipe[i] = Get(l) => told'[l] = told[l],
         \/ /\ \E l \in Lookup : e = Get(l)
            /\ notified' = notified
            /\ \A l \in Lookup : e = Get(l) => told'[l] = notified
         \/ e.op = "set" /\ e.version >= n
  PROVE  PipeFresh'
<1>1. /\ Len(pipe) \in Nat /\ Len(pipe') = Len(pipe) + 1
      /\ \A i \in 1 .. Len(pipe) : pipe'[i] = pipe[i]
      /\ pipe'[Len(pipe) + 1] = e
  BY Appended, PipeTypes
<1> SUFFICES ASSUME NEW p \in 1 .. Len(pipe) + 2, NEW q \in 0 .. p - 1, LastSet(q, p)'
             PROVE  /\ p = Len(pipe) + 2 => AtLeast(Value(q), notified)'
                    /\ p <= Len(pipe) + 1 =>
                         \A l \in Lookup : pipe'[p] = Get(l) => AtLeast(Value(q), told[l])'
  BY <1>1 DEF PipeFresh
<1>2. q <= Len(pipe) => Value(q)' = Value(q)
  BY <1>1 DEF Value
<1>3. CASE p <= Len(pipe)
  <2>1. LastSet(q, p)
    BY <1>1, <1>3 DEF LastSet
  <2>2. \A l \in Lookup : pipe[p] = Get(l) => AtLeast(Value(q), told[l])
    BY <1>1, <1>3, <2>1 DEF PipeFresh
  <2> QED BY <1>1, <1>2, <1>3, <2>2 DEF AtLeast
<1>4. ASSUME p >= Len(pipe) + 1, q <= Len(pipe)
      PROVE  AtLeast(Value(q), notified)
  <2>1. LastSet(q, Len(pipe) + 1)
    <3>1. q = 0 \/ pipe[q].op = "set"
      BY <1>1, <1>4 DEF LastSet
    <3>2. \A i \in q + 1 .. Len(pipe) : pipe[i].op = "get"
      <4> SUFFICES ASSUME NEW i \in q + 1 .. Len(pipe) PROVE pipe[i].op = "get"
        OBVIOUS
      <4>1. i \in q + 1 .. p - 1 /\ i \in 1 .. Len(pipe)
        BY <1>1, <1>4
      <4> QED BY <1>1, <4>1 DEF LastSet
    <3>3. (Len(pipe) + 1) - 1 = Len(pipe)
      BY <1>1
    <3> QED BY <3>1, <3>2, <3>3 DEF LastSet
  <2>2. Len(pipe) + 1 \in 1 .. Len(pipe) + 1 /\ q \in 0 .. (Len(pipe) + 1) - 1
    BY <1>1, <1>4
  <2> QED BY <2>1, <2>2 DEF PipeFresh
<1>5. CASE p = Len(pipe) + 1
  <2>1. q <= Len(pipe)
    BY <1>1, <1>5
  <2>2. AtLeast(Value(q), notified)
    BY <1>1, <1>4, <1>5, <2>1
  <2> QED BY <1>1, <1>2, <1>5, <2>1, <2>2 DEF AtLeast, Get
<1>6. CASE p = Len(pipe) + 2 /\ q <= Len(pipe)
  <2>1. e.op = "get"
    <3>1. Len(pipe) + 1 \in q + 1 .. p - 1
      BY <1>1, <1>6
    <3> QED BY <1>1, <3>1 DEF LastSet
  <2>2. notified' = notified
    BY <2>1
  <2> QED BY <1>1, <1>2, <1>4, <1>6, <2>2 DEF AtLeast
<1>7. CASE p = Len(pipe) + 2 /\ q = Len(pipe) + 1
  <2>1. q # 0 /\ pipe'[q] = e
    BY <1>1, <1>7
  <2>2. e.op = "set" /\ e.version >= n
    BY <2>1 DEF LastSet, Get
  <2>3. e.version \in Nat
    BY <2>2, Numbers DEF Command, Get, Set
  <2>4. Value(q)' = e.version
    BY <2>1 DEF Value
  <2> QED BY <1>1, <1>7, <2>2, <2>3, <2>4 DEF AtLeast
<1> QED BY <1>1, <1>3, <1>5, <1>6, <1>7

\* The first command is carried out, and the others are one place further on.
LEMMA ServedFresh ==
  ASSUME TypeOK, PipeFresh, pipe # <<>>, pipe' = Tail(pipe),
         UNCHANGED <<notified, told>>,
         \/ Head(pipe).op = "get" /\ cache' = cache
         \/ Head(pipe).op = "set" /\ cache' = Head(pipe).version
  PROVE  PipeFresh'
<1>1. PICK n \in Nat :
        /\ n = Len(pipe') /\ Len(pipe) = n + 1
        /\ \A i \in 1 .. n : pipe'[i] = pipe[i + 1]
        /\ Head(pipe) = pipe[1]
  <2>1. /\ Len(pipe) \in Nat /\ Len(pipe) > 0 /\ Len(pipe') = Len(pipe) - 1
        /\ \A i \in 1 .. Len(pipe) - 1 : pipe'[i] = pipe[i + 1]
        /\ Head(pipe) = pipe[1]
    BY Shifted, PipeTypes
  <2>2. Len(pipe') \in Nat /\ Len(pipe) = Len(pipe') + 1
    BY <2>1
  <2> QED BY <2>1, <2>2
<1> SUFFICES ASSUME NEW p \in 1 .. n + 1, NEW q \in 0 .. p - 1, LastSet(q, p)'
             PROVE  /\ p = n + 1 => AtLeast(Value(q)', notified)
                    /\ p <= n =>
                         \A l \in Lookup : pipe'[p] = Get(l) => AtLeast(Value(q)', told[l])
  BY <1>1 DEF PipeFresh, AtLeast
<1>2. /\ p \in Nat /\ p > 0 /\ p <= n + 1 /\ q \in Nat /\ q < p
      /\ \A i \in 1 .. p - 1 : pipe'[i] = pipe[i + 1]
      /\ q # 0 => pipe'[q] = pipe[q + 1]
      /\ p <= n => pipe'[p] = pipe[p + 1]
      /\ Head(pipe) = pipe[1] /\ Head(pipe).op \in {"get", "set"}
  BY <1>1
<1> DEFINE r == IF q # 0 THEN q + 1 ELSE IF Head(pipe).op = "set" THEN 1 ELSE 0
<1>3. r \in 0 .. (p + 1) - 1 /\ p + 1 \in 1 .. (n + 1) + 1
  BY <1>1, <1>2
<1>4. Value(q)' = Value(r)
  <2>1. CASE q # 0
    <3>1. r = q + 1 /\ r # 0
      BY <1>2, <2>1
    <3>2. Value(q)' = pipe'[q].version /\ Value(r) = pipe[r].version
      BY <2>1, <3>1 DEF Value
    <3> QED BY <1>2, <2>1, <3>1, <3>2
  <2>2. CASE q = 0 /\ Head(pipe).op = "set"
    BY <1>2, <2>2 DEF Value
  <2>3. CASE q = 0 /\ Head(pipe).op # "set"
    BY <1>2, <2>3 DEF Value
  <2> QED BY <2>1, <2>2, <2>3
<1>5. LastSet(r, p + 1)
  <2>1. r = 0 \/ pipe[r].op = "set"
    <3>1. q # 0 => pipe'[q].op = "set"
      BY DEF LastSet
    <3> QED BY <1>2, <3>1
  <2>2. ASSUME NEW i \in r + 1 .. (p + 1) - 1 PROVE pipe[i].op = "get"
    <3>1. CASE i = 1
      <4>1. r = 0
        BY <1>2, <2>2, <3>1
      <4> QED BY <1>2, <3>1, <4>1
    <3>2. CASE i # 1
      <4>1. i - 1 \in q + 1 .. p - 1 /\ i - 1 \in 1 .. p - 1 /\ (i - 1) + 1 = i
        BY <1>2, <2>2, <3>2
      <4>2. pipe'[i - 1].op = "get"
        BY <4>1 DEF LastSet
      <4>3. pipe'[i - 1] = pipe[i]
        BY <1>2, <4>1
      <4> QED BY <4>2, <4>3
    <3> QED BY <3>1, <3>2
  <2> QED BY <2>1, <2>2 DEF LastSet
<1> HIDE DEF r
<1>6. /\ p + 1 = (n + 1) + 1 => AtLeast(Value(r), notified)
      /\ p + 1 <= n + 1 =>
           \A l \in Lookup : pipe[p + 1] = Get(l) => AtLeast(Value(r), told[l])
  BY <1>1, <1>3, <1>5 DEF PipeFresh
<1>7. p = n + 1 => AtLeast(Value(q)', notified)
  BY <1>2, <1>4, <1>6
<1>8. p <= n => \A l \in Lookup : pipe'[p] = Get(l) => AtLeast(Value(q)', told[l])
  <2>1. p <= n => p + 1 <= n + 1
    BY <1>2
  <2> QED BY <1>2, <1>4, <1>6, <2>1
<1> QED BY <1>7, <1>8

LEMMA Records ==
  /\ \A k, l \in Lookup : Get(k) = Get(l) => k = l
  /\ \A l \in Lookup : Get(l) \in Command /\ Get(l).op = "get"
  /\ \A v \in Version : /\ Set(v) \in Command /\ Set(v).op = "set" /\ Set(v).version = v
                        /\ \A l \in Lookup : Set(v) # Get(l)
<1>1. \A k, l \in Lookup : Get(k) = Get(l) => k = l
  BY DEF Get
<1> QED BY <1>1 DEF Get, Set, Command

LEMMA Told ==
  ASSUME TypeOK, Ordered
  PROVE  /\ notified \in Nat /\ db \in Nat
         /\ \A l \in Lookup : told[l] \in Nat /\ told[l] <= notified
<1>1. \A v \in {0} \cup Version : v \in Nat
  BY Numbers
<1>2. notified \in {0} \cup Version /\ db \in {0} \cup Version
      /\ \A l \in Lookup : told[l] \in {0} \cup Version
  BY DEF TypeOK
<1> QED BY <1>1, <1>2 DEF Ordered

LEMMA CommandStays == TypeOK' <=>
  /\ db' \in Version /\ updates' \in Seq(Version) /\ cache' \in {NONE} \cup Version
  /\ pipe' \in Seq(Command) /\ at' \in [Lookup -> Stage]
  /\ got' \in [Lookup -> {PENDING, NONE} \cup Version]
  /\ used' \in [Lookup -> {NONE} \cup Version]
  /\ notified' \in {0} \cup Version /\ told' \in [Lookup -> {0} \cup Version]
  /\ raced' \in BOOLEAN /\ crashed' \in BOOLEAN /\ faults' \in 0 .. MaxFaults
BY DEF TypeOK, Command

\* A handler starts: it is told what is notified, and asks the cache.
LEMMA PrefetchInv ==
  ASSUME CacheInv, NEW l \in Lookup, Prefetch(l)
  PROVE  CacheInv'
<1>1. /\ TypeOK /\ at[l] = "new" /\ pipe' = Append(pipe, Get(l))
      /\ at' = [at EXCEPT ![l] = "limiting"] /\ told' = [told EXCEPT ![l] = notified]
      /\ UNCHANGED <<db, updates, cache, got, used, notified, raced, faults, crashed>>
  BY DEF CacheInv, Prefetch, Move
<1>2. /\ at'[l] = "limiting" /\ told'[l] = notified
      /\ \A k \in Lookup : k # l => at'[k] = at[k] /\ told'[k] = told[k]
  BY <1>1 DEF TypeOK
<1>3. /\ pipe' \in Seq(Command) /\ DOMAIN pipe' = 1 .. Len(pipe) + 1
      /\ DOMAIN pipe = 1 .. Len(pipe) /\ Len(pipe) \in Nat
      /\ \A i \in 1 .. Len(pipe) : pipe'[i] = pipe[i]
      /\ pipe'[Len(pipe) + 1] = Get(l)
  BY <1>1, Appended, PipeTypes, Records
<1>4. TypeOK'
  <2>1. at' \in [Lookup -> Stage] /\ told' \in [Lookup -> {0} \cup Version]
    BY <1>1 DEF TypeOK, Stage
  <2> QED BY <1>1, <1>3, <2>1, CommandStays DEF TypeOK
<1>5. notified \in Nat /\ got[l] = PENDING /\ used[l] = NONE
      /\ \A i \in 1 .. Len(pipe) : pipe[i] # Get(l)
  <2>1. notified \in Nat
    BY <1>1, Told DEF CacheInv
  <2>2. got[l] = PENDING /\ used[l] = NONE
    BY <1>1 DEF CacheInv, OneGet, Handlers
  <2>3. \A i \in 1 .. Len(pipe) : pipe[i] # Get(l)
    BY <1>1, <1>3 DEF CacheInv, OneGet
  <2> QED BY <2>1, <2>2, <2>3
<1>6. Ordered'
  BY <1>1, <1>2, <1>5 DEF CacheInv, Ordered
<1>7. OneGet'
  <2>1. \A k \in Lookup : at'[k] = "new" => got'[k] = PENDING
    BY <1>1, <1>2 DEF CacheInv, OneGet
  <2>2. ASSUME NEW i \in DOMAIN pipe', NEW k \in Lookup, pipe'[i] = Get(k)
        PROVE  /\ got'[k] = PENDING /\ at'[k] \in {"limiting", "waiting", "dropped"}
               /\ \A j \in DOMAIN pipe' : pipe'[j] = Get(k) => i = j
    <3>1. CASE k = l
      BY <1>1, <1>2, <1>3, <1>5, <2>2, <3>1
    <3>2. CASE k # l
      <4>1. i \in 1 .. Len(pipe)
        BY <1>3, <2>2, <3>2, Records
      <4>2. \A j \in DOMAIN pipe' : pipe'[j] = Get(k) => j \in 1 .. Len(pipe)
        BY <1>3, <3>2, Records
      <4> QED BY <1>1, <1>2, <1>3, <2>2, <3>2, <4>1, <4>2 DEF CacheInv, OneGet
    <3> QED BY <3>1, <3>2
  <2> QED BY <2>1, <2>2 DEF OneGet
<1>8. Handlers'
  BY <1>1, <1>2, <1>5 DEF CacheInv, Handlers
<1>9. ASSUME ~ raced, ~ crashed PROVE (PipeFresh /\ GotFresh /\ UpdatedUnlessRaced)'
  <2>1. PipeFresh /\ GotFresh /\ UpdatedUnlessRaced
    BY <1>9 DEF CacheInv
  <2>2. \A i \in 1 .. Len(pipe), k \in Lookup : pipe[i] = Get(k) => told'[k] = told[k]
    BY <1>2, <1>5
  <2>3. \A k \in Lookup : Get(l) = Get(k) => told'[k] = notified
    BY <1>2, Records
  <2>4. PipeFresh'
    BY <1>1, <1>5, <2>1, <2>2, <2>3, SentFresh, Records
  <2>5. GotFresh' /\ UpdatedUnlessRaced'
    BY <1>1, <1>2, <1>5, <2>1 DEF GotFresh, UpdatedUnlessRaced, AtLeast
  <2> QED BY <2>4, <2>5
<1> QED BY <1>1, <1>4, <1>6, <1>7, <1>8, <1>9 DEF CacheInv

\* What a list appended to the pipe leaves of OneGet.
LEMMA OneGetStays ==
  ASSUME TypeOK, OneGet, NEW v \in Version, pipe' = Append(pipe, Set(v)), got' = got,
         \A l \in Lookup : at'[l] = at[l] \/ (at[l] = "found" /\ at'[l] = "done")
  PROVE  OneGet'
<1>1. /\ DOMAIN pipe' = 1 .. Len(pipe) + 1
      /\ DOMAIN pipe = 1 .. Len(pipe) /\ Len(pipe) \in Nat
      /\ \A i \in 1 .. Len(pipe) : pipe'[i] = pipe[i]
      /\ pipe'[Len(pipe) + 1] = Set(v)
  BY Appended, PipeTypes, Records
<1>2. \A i \in DOMAIN pipe', l \in Lookup :
        pipe'[i] = Get(l) => i \in DOMAIN pipe /\ pipe[i] = Get(l)
  BY <1>1, Records
<1>3. \A l \in Lookup : at'[l] = "new" => got'[l] = PENDING
  BY DEF OneGet
<1>4. ASSUME NEW i \in DOMAIN pipe', NEW l \in Lookup, pipe'[i] = Get(l)
      PROVE  /\ got'[l] = PENDING /\ at'[l] \in {"limiting", "waiting", "dropped"}
             /\ \A j \in DOMAIN pipe' : pipe'[j] = Get(l) => i = j
  <2>1. i \in DOMAIN pipe /\ pipe[i] = Get(l)
    BY <1>2, <1>4
  <2>2. got[l] = PENDING /\ at[l] \in {"limiting", "waiting", "dropped"}
    BY <2>1 DEF OneGet
  <2> QED BY <1>2, <2>1, <2>2 DEF OneGet
<1> QED BY <1>3, <1>4 DEF OneGet

\* The findOne callback fills the cache.
LEMMA FillInv ==
  ASSUME CacheInv, NEW l \in Lookup, Fill(l)
  PROVE  CacheInv'
<1>1. /\ TypeOK /\ at[l] = "found" /\ pipe' = Append(pipe, Set(got[l]))
      /\ at' = [at EXCEPT ![l] = "done"] /\ used' = [used EXCEPT ![l] = got[l]]
      /\ UNCHANGED <<db, updates, cache, got, notified, told, raced, faults, crashed>>
  BY DEF CacheInv, Fill, Move
<1>2. /\ at'[l] = "done" /\ used'[l] = got[l] /\ got[l] \in Version
      /\ \A k \in Lookup : k # l => at'[k] = at[k] /\ used'[k] = used[k]
  BY <1>1 DEF TypeOK, CacheInv, Handlers
<1>3. TypeOK'
  <2>1. at' \in [Lookup -> Stage] /\ used' \in [Lookup -> {NONE} \cup Version]
    BY <1>1, <1>2 DEF TypeOK, Stage
  <2>2. pipe' \in Seq(Command)
    BY <1>1, <1>2, Appended, Records
  <2> QED BY <1>1, <2>1, <2>2, CommandStays DEF TypeOK
<1>4. Ordered'
  BY <1>1 DEF CacheInv, Ordered
<1>5. OneGet'
  BY <1>1, <1>2, OneGetStays DEF CacheInv
<1>6. Handlers'
  BY <1>1, <1>2 DEF CacheInv, Handlers
<1>7. ASSUME ~ raced, ~ crashed PROVE (PipeFresh /\ GotFresh /\ UpdatedUnlessRaced)'
  <2>1. PipeFresh /\ GotFresh /\ UpdatedUnlessRaced
    BY <1>7 DEF CacheInv
  <2>2. notified \in Nat /\ got[l] \in Nat /\ got[l] >= notified /\ told[l] \in Nat
        /\ told[l] <= notified
    BY <1>1, <1>2, <2>1, Numbers DEF TypeOK, GotFresh, CacheInv, Ordered
  <2>3. PipeFresh'
    BY <1>1, <1>2, <2>1, <2>2, SentFresh, Records
  <2>4. GotFresh'
    BY <1>1, <1>2, <2>1 DEF GotFresh
  <2>5. UpdatedUnlessRaced'
    BY <1>1, <1>2, <2>1, <2>2 DEF UpdatedUnlessRaced
  <2> QED BY <2>3, <2>4, <2>5
<1> QED BY <1>1, <1>3, <1>4, <1>5, <1>6, <1>7 DEF CacheInv

\* The announcement of a version: its list is cached and it is notified.
LEMMA UpdateGroupInv == CacheInv /\ UpdateGroup => CacheInv'
<1> SUFFICES ASSUME CacheInv, UpdateGroup PROVE CacheInv'
  OBVIOUS
<1>1. PICK v : /\ v = Head(updates) /\ updates' = Tail(updates)
               /\ pipe' = Append(pipe, Set(v)) /\ notified' = v
               /\ raced' = (raced \/ \E l \in Lookup : at[l] = "found" /\ got[l] < v)
               /\ TypeOK /\ updates # <<>>
               /\ UNCHANGED <<db, cache, at, got, used, told, faults, crashed>>
  BY DEF CacheInv, UpdateGroup
<1>2. updates \in Seq(Version) /\ DOMAIN updates = 1 .. Len(updates) /\ Len(updates) \in Nat
  <2>1. updates \in Seq(Version)
    BY <1>1 DEF TypeOK
  <2> QED BY <2>1, LenProperties
<1>3. /\ v \in Version /\ v = updates[1] /\ Len(updates) > 0
      /\ updates' \in Seq(Version) /\ DOMAIN updates' = 1 .. Len(updates) - 1
      /\ \A i \in 1 .. Len(updates) - 1 : updates'[i] = updates[i + 1]
  <2>1. /\ v \in Version /\ updates' \in Seq(Version) /\ Len(updates') = Len(updates) - 1
        /\ \A i \in 1 .. Len(updates') : updates'[i] = updates[i + 1]
    BY <1>1, <1>2, HeadTailProperties
  <2>2. v = updates[1] /\ Len(updates) > 0
    BY <1>1, <1>2
  <2>3. DOMAIN updates' = 1 .. Len(updates')
    BY <2>1, LenProperties
  <2> QED BY <2>1, <2>2, <2>3
<1>4. v \in Nat /\ notified \in Nat /\ notified < v /\ v <= db
  BY <1>1, <1>2, <1>3, Numbers DEF TypeOK, CacheInv, Ordered
<1>5. TypeOK'
  <2>1. pipe' \in Seq(Command)
    BY <1>1, <1>3, Appended, Records
  <2> QED BY <1>1, <1>3, <2>1, CommandStays DEF TypeOK
<1>6. Ordered'
  <2>1. ASSUME NEW l \in Lookup PROVE told[l] <= v
    <3>1. told[l] \in Nat /\ told[l] <= notified
      BY <1>1, Told DEF CacheInv
    <3> QED BY <1>4, <3>1
  <2>2. \A i \in 1 .. Len(updates) :
          /\ updates[i] <= db
          /\ \A j \in 1 .. Len(updates) : i < j => updates[i] < updates[j]
    BY <1>2 DEF CacheInv, Ordered
  <2>3. ASSUME NEW i \in 1 .. Len(updates) - 1
        PROVE  /\ v < updates'[i] /\ updates'[i] <= db
               /\ \A j \in 1 .. Len(updates) - 1 : i < j => updates'[i] < updates'[j]
    <3>1. i + 1 \in 1 .. Len(updates) /\ 1 \in 1 .. Len(updates) /\ 1 < i + 1
      BY <1>2, <1>3
    <3>2. v < updates'[i] /\ updates'[i] <= db
      BY <1>3, <2>2, <3>1
    <3>3. ASSUME NEW j \in 1 .. Len(updates) - 1, i < j
          PROVE  updates'[i] < updates'[j]
      <4>1. j + 1 \in 1 .. Len(updates) /\ i + 1 < j + 1
        BY <1>2, <3>3
      <4>2. updates[i + 1] < updates[j + 1]
        BY <2>2, <3>1, <4>1
      <4> QED BY <1>3, <4>2
    <3> QED BY <3>2, <3>3
  <2> QED BY <1>1, <1>3, <1>4, <2>1, <2>3 DEF Ordered
<1>7. OneGet' /\ Handlers'
  BY <1>1, <1>3, OneGetStays DEF CacheInv, Handlers
<1>8. ASSUME ~ raced', ~ crashed PROVE (PipeFresh /\ GotFresh /\ UpdatedUnlessRaced)'
  <2>1. PipeFresh /\ GotFresh /\ UpdatedUnlessRaced
        /\ \A l \in Lookup : ~ (at[l] = "found" /\ got[l] < v)
    BY <1>1, <1>8 DEF CacheInv
  <2>2. PipeFresh'
    <3>1. \A i \in 1 .. Len(pipe), l \in Lookup : pipe[i] = Get(l) => told'[l] = told[l]
      BY <1>1
    <3>2. /\ Set(v) \in Command /\ Set(v).op = "set" /\ Set(v).version >= v
          /\ v = notified' /\ cache' = cache /\ pipe' = Append(pipe, Set(v))
      BY <1>1, <1>3, <1>4, Records
    <3>3. TypeOK /\ PipeFresh /\ v \in Nat
      BY <1>1, <1>4, <2>1
    <3> QED BY ONLY <3>1, <3>2, <3>3, SentFresh
  <2>3. GotFresh'
    <3>1. \A l \in Lookup : at[l] = "found" => got[l] \in Nat
      BY Numbers DEF CacheInv, Handlers
    <3>2. \A l \in Lookup : at[l] = "found" => got[l] >= v
      BY <1>4, <2>1, <3>1
    <3> QED BY <1>1, <2>1, <3>2 DEF GotFresh, AtLeast
  <2>4. UpdatedUnlessRaced'
    BY <1>1, <2>1, <1>8 DEF UpdatedUnlessRaced
  <2> QED BY <2>2, <2>3, <2>4
<1> QED BY <1>1, <1>5, <1>6, <1>7, <1>8 DEF CacheInv

\* Redis answers a GET.
LEMMA AnswerInv ==
  ASSUME CacheInv, NEW l \in Lookup, ServeGet(l) \/ FailGet(l)
  PROVE  CacheInv'
<1>1. PICK v \in {cache, NONE} :
        /\ TypeOK /\ pipe # <<>> /\ Head(pipe) = Get(l) /\ pipe' = Tail(pipe)
        /\ got' = [got EXCEPT ![l] = v]
        /\ UNCHANGED <<db, updates, cache, at, used, notified, told, raced, crashed>>
  BY DEF CacheInv, ServeGet, FailGet, Answer
<1>2. /\ got'[l] = v /\ \A k \in Lookup : k # l => got'[k] = got[k]
      /\ v \in {NONE} \cup Version
  BY <1>1 DEF TypeOK
<1>3. /\ pipe' \in Seq(Command) /\ DOMAIN pipe' = 1 .. Len(pipe) - 1
      /\ DOMAIN pipe = 1 .. Len(pipe) /\ Len(pipe) \in Nat /\ Len(pipe) > 0
      /\ \A i \in 1 .. Len(pipe) - 1 : pipe'[i] = pipe[i + 1]
      /\ pipe[1] = Get(l)
  BY <1>1, Shifted, PipeTypes
<1>4. TypeOK'
  <2>1. faults' \in 0 .. MaxFaults
    BY <1>1, Numbers DEF TypeOK, ServeGet, FailGet
  <2>2. got' \in [Lookup -> {PENDING, NONE} \cup Version]
    BY <1>1, <1>2 DEF TypeOK
  <2> QED BY <1>1, <1>3, <2>1, <2>2, CommandStays DEF TypeOK
<1>5. at[l] \in {"limiting", "waiting", "dropped"}
      /\ \A j \in DOMAIN pipe : pipe[j] = Get(l) => j = 1
  <2>1. 1 \in DOMAIN pipe
    BY <1>3
  <2> QED BY <1>3, <2>1 DEF CacheInv, OneGet
<1>6. OneGet'
  <2>1. \A k \in Lookup : at'[k] = "new" => got'[k] = PENDING
    BY <1>1, <1>2, <1>5 DEF CacheInv, OneGet
  <2>2. ASSUME NEW i \in DOMAIN pipe', NEW k \in Lookup, pipe'[i] = Get(k)
        PROVE  /\ got'[k] = PENDING /\ at'[k] \in {"limiting", "waiting", "dropped"}
               /\ \A j \in DOMAIN pipe' : pipe'[j] = Get(k) => i = j
    <3>1. i + 1 \in DOMAIN pipe /\ pipe[i + 1] = Get(k) /\ i \in Nat /\ i + 1 # 1
      BY <1>3, <2>2
    <3>2. k # l
      BY <1>5, <3>1
    <3>3. got'[k] = PENDING /\ at'[k] \in {"limiting", "waiting", "dropped"}
      BY <1>1, <1>2, <3>1, <3>2 DEF CacheInv, OneGet
    <3>4. ASSUME NEW j \in DOMAIN pipe', pipe'[j] = Get(k) PROVE i = j
      <4>1. j + 1 \in DOMAIN pipe /\ pipe[j + 1] = Get(k) /\ j \in Nat
        BY <1>3, <3>4
      <4>2. i + 1 = j + 1
        BY <3>1, <4>1 DEF CacheInv, OneGet
      <4> QED BY <3>1, <4>1, <4>2
    <3> QED BY <3>3, <3>4
  <2> QED BY <2>1, <2>2 DEF OneGet
<1>7. Ordered' /\ Handlers'
  BY <1>1, <1>2, <1>5 DEF CacheInv, Ordered, Handlers
<1>8. ASSUME ~ raced, ~ crashed PROVE (PipeFresh /\ GotFresh /\ UpdatedUnlessRaced)'
  <2>1. PipeFresh /\ GotFresh /\ UpdatedUnlessRaced
    BY <1>8 DEF CacheInv
  <2>2. PipeFresh'
    <3>1. Head(pipe).op = "get"
      BY <1>1, Records
    <3> QED BY <1>1, <2>1, <3>1, ServedFresh
  <2>3. AtLeast(cache, told[l])
    <3>1. 1 \in 1 .. Len(pipe) + 1 /\ 0 \in 0 .. 1 - 1 /\ 1 <= Len(pipe)
      BY <1>3
    <3>2. LastSet(0, 1) /\ Value(0) = cache
      BY DEF LastSet, Value
    <3> QED BY <1>3, <2>1, <3>1, <3>2 DEF PipeFresh
  <2>4. GotFresh'
    BY <1>1, <1>2, <1>5, <2>1, <2>3 DEF GotFresh, AtLeast
  <2>5. UpdatedUnlessRaced'
    BY <1>1, <2>1 DEF UpdatedUnlessRaced
  <2> QED BY <2>2, <2>4, <2>5
<1> QED BY <1>1, <1>4, <1>6, <1>7, <1>8 DEF CacheInv

\* Redis stores a list.
LEMMA ServeSetInv == CacheInv /\ ServeSet => CacheInv'
<1> SUFFICES ASSUME CacheInv, ServeSet PROVE CacheInv'
  OBVIOUS
<1>1. /\ TypeOK /\ pipe # <<>> /\ Head(pipe).op = "set" /\ pipe' = Tail(pipe)
      /\ cache' = Head(pipe).version
      /\ UNCHANGED <<db, updates, at, got, used, notified, told, raced, faults, crashed>>
  BY DEF CacheInv, ServeSet
<1>2. /\ pipe' \in Seq(Command) /\ DOMAIN pipe' = 1 .. Len(pipe) - 1
      /\ DOMAIN pipe = 1 .. Len(pipe) /\ Len(pipe) \in Nat /\ Len(pipe) > 0
      /\ \A i \in 1 .. Len(pipe) - 1 : pipe'[i] = pipe[i + 1]
      /\ Head(pipe) = pipe[1]
  BY <1>1, Shifted, PipeTypes
<1>3. cache' \in Version
  <2>1. 1 \in 1 .. Len(pipe)
    BY <1>2
  <2> QED BY <1>1, <1>2, <2>1, PipeTypes
<1>4. TypeOK'
  BY <1>1, <1>2, <1>3, CommandStays DEF TypeOK
<1>5. OneGet'
  <2>1. \A k \in Lookup : at'[k] = "new" => got'[k] = PENDING
    BY <1>1 DEF CacheInv, OneGet
  <2>2. ASSUME NEW i \in DOMAIN pipe', NEW k \in Lookup, pipe'[i] = Get(k)
        PROVE  /\ got'[k] = PENDING /\ at'[k] \in {"limiting", "waiting", "dropped"}
               /\ \A j \in DOMAIN pipe' : pipe'[j] = Get(k) => i = j
    <3>1. i + 1 \in DOMAIN pipe /\ pipe[i + 1] = Get(k) /\ i \in Nat
      BY <1>2, <2>2
    <3>2. got'[k] = PENDING /\ at'[k] \in {"limiting", "waiting", "dropped"}
      BY <1>1, <3>1 DEF CacheInv, OneGet
    <3>3. ASSUME NEW j \in DOMAIN pipe', pipe'[j] = Get(k) PROVE i = j
      <4>1. j + 1 \in DOMAIN pipe /\ pipe[j + 1] = Get(k) /\ j \in Nat
        BY <1>2, <3>3
      <4>2. i + 1 = j + 1
        BY <3>1, <4>1 DEF CacheInv, OneGet
      <4> QED BY <3>1, <4>1, <4>2
    <3> QED BY <3>2, <3>3
  <2> QED BY <2>1, <2>2 DEF OneGet
<1>6. Ordered' /\ Handlers'
  BY <1>1 DEF CacheInv, Ordered, Handlers
<1>7. ~ raced' /\ ~ crashed' => PipeFresh' /\ GotFresh' /\ UpdatedUnlessRaced'
  BY <1>1, ServedFresh DEF CacheInv, GotFresh, UpdatedUnlessRaced, AtLeast
<1> QED BY <1>4, <1>5, <1>6, <1>7 DEF CacheInv

LEMMA StepInv == CacheInv /\ [Next]_vars => CacheInv'
<1> SUFFICES ASSUME CacheInv, [Next]_vars PROVE CacheInv'
  OBVIOUS
<1>1. CASE StoreGroup BY <1>1, StoreGroupInv
<1>2. CASE UpdateGroup BY <1>2, UpdateGroupInv
<1>3. ASSUME NEW l \in Lookup,
             Prefetch(l) \/ Handle(l) \/ FailFind(l) \/ ServeGet(l) \/ FailGet(l)
      PROVE  CacheInv'
  BY <1>3, PrefetchInv, FillInv, MoveInv, AnswerInv DEF Handle
<1>4. CASE ServeSet BY <1>4, ServeSetInv
<1>5. CASE Expire BY <1>5, ExpireInv
<1>6. CASE Crash BY <1>6, CrashInv
<1>7. CASE UNCHANGED vars
  <2>1. TypeOK /\ TypeOK'
    BY <1>7 DEF CacheInv, TypeOK, vars
  <2>2. Ordered' /\ OneGet' /\ Handlers'
    BY <1>7 DEF CacheInv, Ordered, OneGet, Handlers, vars
  <2>3. ~ raced' /\ ~ crashed' => PipeFresh' /\ GotFresh' /\ UpdatedUnlessRaced'
    BY <1>7, <2>1, PipeStays DEF CacheInv, GotFresh, UpdatedUnlessRaced, AtLeast, vars
  <2> QED BY <2>1, <2>2, <2>3 DEF CacheInv
<1> QED BY <1>1, <1>2, <1>3, <1>4, <1>5, <1>6, <1>7 DEF Next

-----------------------------------------------------------------------------

\* The lists on their way to the cache and to the handlers are what they should
\* be, always.
THEOREM CacheInvHolds == Spec => []CacheInv
BY InitInv, StepInv, PTL DEF Spec

\* Every variable keeps its type: no handler is answered with something else
\* than a stored version or none.
THEOREM TypeOKHolds == Spec => []TypeOK
<1>1. CacheInv => TypeOK
  BY DEF CacheInv
<1> QED BY <1>1, CacheInvHolds, PTL

\* A message handled after an update is fanned out to that update's members,
\* unless a fill raced it or the process restarted.
THEOREM UpdatedUnlessRacedHolds == Spec => []UpdatedUnlessRaced
<1>1. CacheInv => UpdatedUnlessRaced
  BY DEF CacheInv, UpdatedUnlessRaced
<1> QED BY <1>1, CacheInvHolds, PTL

=============================================================================
