------------------------- MODULE RateManager_proofs -------------------------
(***************************************************************************)
(* The law of the token bucket, for every capacity, rate, time to live and *)
(* number of overlapping calls.                                            *)
(***************************************************************************)
EXTENDS RateManager, TLAPS, SequenceTheorems, FiniteSetTheorems, FunctionTheorems

-----------------------------------------------------------------------------
(* How many of the first p commands of a sequence are op.                  *)

Ops(s, op, p) == {i \in 1 .. p : s[i].op = op}
First(s, op, p) == Cardinality(Ops(s, op, p))

LEMMA FirstType ==
  ASSUME NEW s, NEW op, NEW p \in Nat
  PROVE  IsFiniteSet(Ops(s, op, p)) /\ First(s, op, p) \in Nat
<1>1. IsFiniteSet(1 .. p)
  BY FS_Interval
<1>2. Ops(s, op, p) \in SUBSET (1 .. p)
  BY DEF Ops
<1>3. IsFiniteSet(Ops(s, op, p))
  BY <1>1, <1>2, FS_Subset
<1> QED BY <1>3, FS_CardinalityType DEF First

LEMMA FirstNone ==
  ASSUME NEW s, NEW op
  PROVE  First(s, op, 0) = 0
<1>1. Ops(s, op, 0) = {}
  BY DEF Ops
<1> QED BY <1>1, FS_EmptySet DEF First

LEMMA FirstNext ==
  ASSUME NEW s, NEW op, NEW p \in Nat
  PROVE  First(s, op, p + 1) = First(s, op, p) + IF s[p + 1].op = op THEN 1 ELSE 0
<1>1. IsFiniteSet(Ops(s, op, p)) /\ p + 1 \notin Ops(s, op, p)
  <2>1. p + 1 \notin Ops(s, op, p)
    BY DEF Ops
  <2> QED BY <2>1, FirstType
<1>2. CASE s[p + 1].op = op
  <2>1. Ops(s, op, p + 1) = Ops(s, op, p) \cup {p + 1}
    BY <1>2 DEF Ops
  <2> QED BY <1>1, <1>2, <2>1, FS_AddElement DEF First
<1>3. CASE s[p + 1].op # op
  <2>1. Ops(s, op, p + 1) = Ops(s, op, p)
    BY <1>3 DEF Ops
  <2>2. First(s, op, p) \in Nat
    BY FirstType
  <2> QED BY <1>3, <2>1, <2>2 DEF First
<1> QED BY <1>2, <1>3

LEMMA CountAll ==
  ASSUME NEW S, NEW s \in Seq(S), NEW op
  PROVE  Count(s, op) = First(s, op, Len(s)) /\ Count(s, op) \in Nat
<1>1. DOMAIN s = 1 .. Len(s) /\ Len(s) \in Nat
  BY LenProperties
<1>2. Count(s, op) = First(s, op, Len(s))
  BY <1>1 DEF Count, First, Ops
<1> QED BY <1>1, <1>2, FirstType

LEMMA FirstOfAppend ==
  ASSUME NEW S, NEW s \in Seq(S), NEW e \in S, NEW op, NEW p \in 0 .. Len(s)
  PROVE  First(Append(s, e), op, p) = First(s, op, p)
<1>1. \A i \in 1 .. Len(s) : Append(s, e)[i] = s[i]
  BY AppendProperties
<1>2. Ops(Append(s, e), op, p) = Ops(s, op, p)
  BY <1>1, LenProperties DEF Ops
<1> QED BY <1>2 DEF First

LEMMA FirstOfTail ==
  ASSUME NEW S, NEW s \in Seq(S), s # <<>>, NEW op, NEW p \in 0 .. Len(s) - 1
  PROVE  First(Tail(s), op, p) = First(s, op, p + 1) - First(s, op, 1)
<1> DEFINE T == Ops(Tail(s), op, p)
           U == Ops(s, op, p + 1) \ {1}
           f == [i \in T |-> i + 1]
<1>1. Len(s) \in Nat /\ p \in Nat
  BY LenProperties
<1>2. \A i \in 1 .. p : Tail(s)[i] = s[i + 1]
  BY <1>1, HeadTailProperties
<1>3. \A i \in T : i + 1 \in U
  BY <1>1, <1>2 DEF Ops
<1>4. \A j \in U : j - 1 \in T /\ j = (j - 1) + 1
  BY <1>1, <1>2 DEF Ops
<1>5. T \subseteq Int /\ U \subseteq Int
  BY DEF Ops
<1>6. f \in Bijection(T, U)
  <2> HIDE DEF T, U
  <2>1. f \in [T -> U]
    BY <1>3
  <2>2. \A a, b \in T : f[a] = f[b] => a = b
    BY <1>5
  <2>3. \A j \in U : \E i \in T : f[i] = j
    BY <1>4
  <2> QED BY <2>1, <2>2, <2>3 DEF Bijection, Injection, Surjection, IsInjective
<1>7. IsFiniteSet(T) /\ Cardinality(U) = Cardinality(T)
  <2>1. IsFiniteSet(T)
    BY <1>1, FirstType
  <2>2. ExistsBijection(T, U)
    BY <1>6 DEF ExistsBijection
  <2> HIDE DEF T, U
  <2> QED BY <2>1, <2>2, FS_Bijection
<1>8. IsFiniteSet(Ops(s, op, p + 1)) /\ First(s, op, p + 1) \in Nat
  BY <1>1, FirstType
<1>9. Cardinality(U) = First(s, op, p + 1) - IF 1 \in Ops(s, op, p + 1) THEN 1 ELSE 0
  <2>1. Cardinality(U) = IF 1 \in Ops(s, op, p + 1) THEN First(s, op, p + 1) - 1
                         ELSE First(s, op, p + 1)
    BY <1>8, FS_RemoveElement DEF First
  <2> HIDE DEF U
  <2> QED BY <1>8, <2>1
<1>10. First(s, op, 1) = IF s[1].op = op THEN 1 ELSE 0
  <2>1. First(s, op, 0 + 1) = First(s, op, 0) + IF s[0 + 1].op = op THEN 1 ELSE 0
    BY FirstNext
  <2>2. 0 + 1 = 1
    OBVIOUS
  <2> QED BY <2>1, <2>2, FirstNone
<1>11. 1 \in Ops(s, op, p + 1) <=> s[1].op = op
  BY <1>1 DEF Ops
<1> QED BY <1>7, <1>9, <1>10, <1>11 DEF First

-----------------------------------------------------------------------------
(* The inductive invariant.  A bucket is worth the tokens it holds, less   *)
(* what was refilled up to its timestamp and what expiry gave away: this   *)
(* is what does not change as the clock runs.                              *)

Command == {Get} \cup SetCommand

Worth(b) ==
  (IF b.tokens = NONE THEN Full - now * RefillRate
   ELSE b.tokens - b.timestamp * RefillRate) - forgotten

\* x tokens that count as taken, and a bucket worth w, are at most a full one.
Held(x, w) == x * Scale + w <= Full

\* Admissions whose token must be missing from the buckets that are left.
Net == admitted - lostWrites - overlaps

\* A bucket that n of the admissions are not written in.
Covered(b, n) == Held(Net - n, Worth(b))

\* What command p, or a later one, may read: the bucket stored, or one that an
\* earlier command sets.  The commands between may not be carried out.
Reads(p) == p = Len(pipe) + 1 \/ pipe[p].op = "get"
Writes(q) == q = 0 \/ pipe[q].op = "set"
Source(q) == IF q = 0 THEN Stored ELSE pipe[q]
Sets(p) == First(pipe, "set", p)

PipeCovered ==
  \A p \in 1 .. Len(pipe) + 1 : \A q \in 0 .. p - 1 :
    Reads(p) /\ Writes(q) => Covered(Source(q), Sets(p - 1) - Sets(q))

RepliesCovered == \A i \in DOMAIN replies : Covered(replies[i], 0)

\* What a bucket lacks was handed out.
Earned(b) == b.tokens # NONE => b.tokens >= Full - admitted * Scale

BucketsEarned ==
  /\ Earned(Stored)
  /\ \A i \in DOMAIN pipe : pipe[i].op = "set" => Earned(pipe[i])
  /\ \A i \in DOMAIN replies : Earned(replies[i])

RateInv ==
  /\ BucketsInRange
  /\ PipeCovered /\ RepliesCovered /\ AdmissionsAreCovered
  /\ BucketsEarned

-----------------------------------------------------------------------------
(* Arithmetic.                                                             *)

LEMMA Numbers ==
  /\ Capacity \in Nat /\ Scale \in Nat /\ Scale > 0 /\ RefillRate \in Nat
  /\ RefillRate > 0 /\ TTL \in Nat /\ Full \in Nat /\ NONE \notin Int
<1>1. Capacity * Scale \in Nat
  BY RateAssumption DEF RateAssumption
<1> QED BY <1>1, RateAssumption DEF RateAssumption, Full

LEMMA Products ==
  /\ \A a, b, c \in Int : (a - b) * c = a * c - b * c /\ (a + b) * c = a * c + b * c
  /\ \A a, b \in Int, c \in Nat : a <= b => a * c <= b * c
  /\ \A a \in Int : 0 * a = 0 /\ 1 * a = a
<1>1. \A a, b, c \in Int : (a - b) * c = a * c - b * c /\ (a + b) * c = a * c + b * c
  OBVIOUS
<1>2. ASSUME NEW a \in Int, NEW b \in Int, NEW c \in Nat, a <= b
      PROVE  a * c <= b * c
  <2>1. (b - a) * c = b * c - a * c
    BY <1>1
  <2>2. b - a \in Nat /\ (b - a) * c \in Nat
    BY <1>2
  <2>3. a * c \in Int /\ b * c \in Int
    OBVIOUS
  <2> QED BY <2>1, <2>2, <2>3
<1> QED BY <1>1, <1>2

LEMMA ScaleLess ==
  ASSUME NEW x \in Int, NEW y \in Int, x <= y
  PROVE  x * Scale <= y * Scale /\ x * Scale \in Int /\ y * Scale \in Int
BY Products, Numbers

LEMMA RefillLess ==
  ASSUME NEW x \in Int, NEW y \in Int, x <= y
  PROVE  x * RefillRate <= y * RefillRate /\ x * RefillRate \in Int /\ y * RefillRate \in Int
BY Products, Numbers

LEMMA HeldLess ==
  ASSUME NEW x \in Int, NEW y \in Int, x <= y, NEW v \in Int, NEW w \in Int, v <= w,
         Held(y, w)
  PROVE  Held(x, v)
BY ScaleLess, Numbers DEF Held

LEMMA HeldTaken ==
  ASSUME NEW x \in Int, NEW w \in Int, Held(x, w)
  PROVE  Held(x + 1, w - Scale)
<1>1. (x + 1) * Scale = x * Scale + Scale /\ x * Scale \in Int
  BY Products, Numbers
<1> QED BY <1>1, Numbers DEF Held

LEMMA HeldIs ==
  ASSUME NEW x \in Int, NEW w \in Int, Held(x, w)
  PROVE  x * Scale \in Int /\ x * Scale + w <= Full
BY Numbers DEF Held

\* What a bucket holds once it is refilled.
LEMMA RefillWorth ==
  ASSUME BucketsInRange, NEW b \in Reply
  PROVE  /\ Refilled(b) \in Int /\ Refilled(b) <= Full
         /\ Worth(b) \in Int
         /\ now * RefillRate \in Nat
         /\ Refilled(b) - now * RefillRate - forgotten <= Worth(b)
         /\ Refilled(b) > 0 => Worth(b) >= 1 - now * RefillRate - forgotten
         /\ b.tokens # NONE /\ Refilled(b) # Full => Refilled(b) >= b.tokens
<1>1. now \in Nat /\ now * RefillRate \in Nat /\ forgotten \in Nat
  BY Numbers, RateAssumption DEF BucketsInRange, RateAssumption
<1>2. CASE b.tokens = NONE
  BY <1>1, <1>2, Numbers DEF Refilled, Worth
<1>3. CASE b.tokens # NONE
  <2>1. b.tokens \in Int /\ b.timestamp \in Nat /\ b.timestamp <= now
    BY <1>1, <1>3, Numbers DEF Reply, Units
  <2>2. (now - b.timestamp) * RefillRate = now * RefillRate - b.timestamp * RefillRate
    BY <1>1, <2>1, Products, Numbers
  <2>3. b.timestamp * RefillRate \in Nat /\ b.timestamp * RefillRate <= now * RefillRate
    BY <1>1, <2>1, Products, Numbers
  <2> QED BY <1>1, <1>3, <2>1, <2>2, <2>3, Numbers DEF Refilled, Worth
<1> QED BY <1>2, <1>3

LEMMA Larger ==
  ASSUME NEW S, NEW T, S \subseteq T, NEW s \in Seq(S)
  PROVE  s \in Seq(T)
OBVIOUS

\* A bucket that expires is worth no more than it was when it was there.
LEMMA ExpiryWorth ==
  ASSUME BucketsInRange, ServeGet
  PROVE  /\ forgotten' \in Nat /\ forgotten <= forgotten'
         /\ tokens' \in {NONE} \cup Units
         /\ Worth(Stored)' \in Int /\ Worth(Stored)' <= Worth(Stored) /\ Worth(Stored) \in Int
<1>1. /\ now \in Nat /\ forgotten \in Nat /\ Stored \in Reply
      /\ tokens \in {NONE} \cup Units /\ NONE \notin Int
  BY Numbers, RateAssumption DEF BucketsInRange, RateAssumption, Stored, Reply
<1>2. /\ Refilled(Stored) \in Int /\ Refilled(Stored) <= Full /\ Worth(Stored) \in Int
      /\ now * RefillRate \in Nat /\ Full \in Int
      /\ Refilled(Stored) - now * RefillRate - forgotten <= Worth(Stored)
  BY <1>1, RefillWorth, Numbers
<1>3. CASE Expired
  <2>1. forgotten' = forgotten + (Full - Refilled(Stored)) /\ tokens' = NONE /\ now' = now
    BY <1>3 DEF ServeGet
  <2>2. forgotten' \in Nat /\ forgotten <= forgotten'
    BY <1>1, <1>2, <2>1
  <2>3. Worth(Stored)' = Full - now * RefillRate - forgotten'
    BY <2>1 DEF Worth, Stored
  <2>4. Full - now * RefillRate - forgotten' = Refilled(Stored) - now * RefillRate - forgotten
    BY <1>1, <1>2, <2>1
  <2> QED BY <1>2, <2>1, <2>2, <2>3, <2>4
<1>4. CASE ~Expired
  <2>1. forgotten' = forgotten /\ tokens' = tokens /\ timestamp' = timestamp /\ now' = now
    BY <1>1, <1>4 DEF ServeGet
  <2>2. Worth(Stored)' = Worth(Stored)
    BY <2>1 DEF Worth, Stored
  <2> QED BY <1>1, <1>2, <2>1, <2>2
<1> QED BY <1>3, <1>4

-----------------------------------------------------------------------------
(* The connection.                                                         *)

LEMMA PipeTypes ==
  ASSUME BucketsInRange
  PROVE  /\ pipe \in Seq(Command) /\ Len(pipe) \in Nat /\ DOMAIN pipe = 1 .. Len(pipe)
         /\ \A i \in 1 .. Len(pipe) :
              /\ pipe[i] \in Command
              /\ pipe[i].op \in {"get", "set"}
              /\ pipe[i].op = "set" => pipe[i].tokens \in Units /\ pipe[i].timestamp \in 0 .. now
              /\ pipe[i].op = "get" => pipe[i] = Get
         /\ \A p \in 0 .. Len(pipe) + 1 : Sets(p) \in Nat
         /\ Sets(0) = 0
<1>1. pipe \in Seq(Command)
  BY DEF BucketsInRange, Command
<1>2. Len(pipe) \in Nat /\ DOMAIN pipe = 1 .. Len(pipe)
  BY <1>1, LenProperties
<1>3. \A i \in 1 .. Len(pipe) : pipe[i] \in Command
  BY <1>1, <1>2
<1>4. \A c \in Command : /\ c.op \in {"get", "set"}
                         /\ c.op = "set" => c.tokens \in Units /\ c.timestamp \in 0 .. now
                         /\ c.op = "get" => c = Get
  BY DEF Command, SetCommand, Get
<1>5. \A p \in 0 .. Len(pipe) + 1 : Sets(p) \in Nat
  BY <1>2, FirstType DEF Sets
<1>6. Sets(0) = 0
  BY FirstNone DEF Sets
<1> QED BY <1>1, <1>2, <1>3, <1>4, <1>5, <1>6

LEMMA Appended ==
  ASSUME BucketsInRange, NEW e \in Command, pipe' = Append(pipe, e)
  PROVE  /\ pipe' \in Seq(Command) /\ Len(pipe') = Len(pipe) + 1
         /\ \A i \in 1 .. Len(pipe) : pipe'[i] = pipe[i]
         /\ pipe'[Len(pipe) + 1] = e
         /\ \A p \in 0 .. Len(pipe) : Sets(p)' = Sets(p)
         /\ \A p \in Nat : p = Len(pipe) + 1 =>
              Sets(p)' = Sets(Len(pipe)) + IF e.op = "set" THEN 1 ELSE 0
<1>1. pipe \in Seq(Command) /\ Len(pipe) \in Nat
  BY PipeTypes
<1>2. /\ pipe' \in Seq(Command) /\ Len(pipe') = Len(pipe) + 1
      /\ \A i \in 1 .. Len(pipe) : pipe'[i] = pipe[i]
      /\ pipe'[Len(pipe) + 1] = e
  BY <1>1, AppendProperties
<1>3. \A p \in 0 .. Len(pipe) : First(pipe', "set", p) = First(pipe, "set", p)
  BY <1>1, FirstOfAppend
<1>4. First(pipe', "set", Len(pipe) + 1)
        = First(pipe', "set", Len(pipe)) + IF pipe'[Len(pipe) + 1].op = "set" THEN 1 ELSE 0
  BY <1>1, FirstNext
<1> QED BY <1>1, <1>2, <1>3, <1>4 DEF Sets

LEMMA Shifted ==
  ASSUME BucketsInRange, pipe # <<>>, pipe' = Tail(pipe)
  PROVE  /\ pipe' \in Seq(Command) /\ Len(pipe) > 0 /\ Len(pipe') = Len(pipe) - 1
         /\ \A i \in 1 .. Len(pipe) - 1 : pipe'[i] = pipe[i + 1]
         /\ Head(pipe) = pipe[1]
         /\ Sets(1) = IF pipe[1].op = "set" THEN 1 ELSE 0
         /\ \A p \in 0 .. Len(pipe) - 1 : Sets(p)' = Sets(p + 1) - Sets(1)
<1>1. pipe \in Seq(Command) /\ Len(pipe) \in Nat
  BY PipeTypes
<1>2. /\ pipe' \in Seq(Command) /\ Len(pipe') = Len(pipe) - 1
      /\ \A i \in 1 .. Len(pipe') : pipe'[i] = pipe[i + 1]
  BY <1>1, HeadTailProperties
<1>3. Len(pipe) > 0 /\ Head(pipe) = pipe[1]
  BY <1>1
<1>4. \A p \in 0 .. Len(pipe) - 1 :
        First(pipe', "set", p) = First(pipe, "set", p + 1) - First(pipe, "set", 1)
  BY <1>1, FirstOfTail
<1>5. First(pipe, "set", 1) = IF pipe[1].op = "set" THEN 1 ELSE 0
  <2>1. First(pipe, "set", 0 + 1)
          = First(pipe, "set", 0) + IF pipe[0 + 1].op = "set" THEN 1 ELSE 0
    BY FirstNext
  <2>2. 0 + 1 = 1
    OBVIOUS
  <2> QED BY <2>1, <2>2, FirstNone
<1> QED BY <1>2, <1>3, <1>4, <1>5 DEF Sets

LEMMA SourceWorth ==
  ASSUME BucketsInRange, NEW q \in 0 .. Len(pipe), Writes(q)
  PROVE  Worth(Source(q)) \in Int
<1>1. /\ Source(q).tokens \in {NONE} \cup Units /\ Source(q).timestamp \in Int
      /\ now \in Int /\ forgotten \in Int
  BY PipeTypes, RateAssumption DEF Writes, Source, Stored, BucketsInRange, RateAssumption
<1> QED BY <1>1, Numbers DEF Worth, Units

LEMMA NetType == BucketsInRange => Net \in Int
BY DEF BucketsInRange, Net

-----------------------------------------------------------------------------
(* Every step keeps the invariant.                                         *)

LEMMA InitInv == Init => RateInv
<1> SUFFICES ASSUME Init PROVE RateInv
  OBVIOUS
<1>1. BucketsInRange
  BY RateAssumption DEF Init, BucketsInRange, RateAssumption
<1>2. Net = 0 /\ now * RefillRate = 0 /\ now = 0 /\ 0 * Scale = 0 /\ forgotten = 0
  BY Numbers DEF Init, Net
<1>3. RepliesCovered /\ BucketsEarned
  BY DEF Init, RepliesCovered, BucketsEarned, Earned, Stored
<1>4. AdmissionsAreCovered
  BY <1>2, Numbers DEF AdmissionsAreCovered, Net
<1>5. PipeCovered
  <2> SUFFICES ASSUME NEW p \in 1 .. 1, NEW q \in 0 .. p - 1
               PROVE  Covered(Source(q), Sets(p - 1) - Sets(q))
    BY DEF Init, PipeCovered
  <2>1. p = 1 /\ q = 0 /\ Sets(p - 1) - Sets(q) = 0 /\ Source(q) = Stored
    BY <1>1, PipeTypes DEF Source
  <2>2. Worth(Stored) = Full
    BY <1>2, Numbers DEF Worth, Stored, Init
  <2> QED BY <1>2, <2>1, <2>2, Numbers DEF Covered, Held
<1> QED BY <1>1, <1>3, <1>4, <1>5 DEF RateInv

LEMMA CallInv == RateInv /\ Call => RateInv'
<1> SUFFICES ASSUME RateInv, Call PROVE RateInv'
  OBVIOUS
<1>1. BucketsInRange /\ pipe' = Append(pipe, Get) /\ Get \in Command /\ Get.op = "get"
      /\ UNCHANGED <<now, tokens, timestamp, expires, replies, admitted, lostWrites,
                     overlaps, forgotten, faults>>
  BY DEF RateInv, Call, Command, Get, redis, history
<1>2. Command' = Command
  BY <1>1 DEF Command, SetCommand, Get
<1>3. BucketsInRange'
  BY <1>1, <1>2, Appended DEF BucketsInRange, Command, Reply, SetCommand
<1>4. BucketsEarned'
  <2>1. DOMAIN pipe' = 1 .. Len(pipe) + 1
    BY <1>1, Appended, LenProperties, PipeTypes
  <2> QED BY <1>1, <2>1, Appended, PipeTypes
      DEF RateInv, BucketsEarned, Earned, Stored
<1>5. PipeCovered'
  <2> SUFFICES ASSUME NEW p \in 1 .. Len(pipe) + 2, NEW q \in 0 .. p - 1,
                      Reads(p)', Writes(q)'
               PROVE  Covered(Source(q), Sets(p - 1) - Sets(q))'
    BY <1>1, Appended, PipeTypes DEF PipeCovered
  <2>1. q <= Len(pipe) /\ Writes(q) /\ Source(q)' = Source(q) /\ Sets(q)' = Sets(q)
    BY <1>1, Appended, PipeTypes DEF Writes, Source, Stored
  <2>2. Worth(Source(q))' = Worth(Source(q)) /\ Net' = Net
    BY <1>1, <2>1 DEF Worth, Net
  <2>3. CASE p <= Len(pipe) + 1
    <3>1. Reads(p) /\ Sets(p - 1)' = Sets(p - 1)
      BY <1>1, <2>3, Appended, PipeTypes DEF Reads
    <3> QED BY <2>1, <2>2, <2>3, <3>1, PipeTypes DEF RateInv, PipeCovered, Covered
  <2>4. CASE p = Len(pipe) + 2
    <3>1. Sets(p - 1)' = Sets(Len(pipe))
      BY <1>1, <2>4, Appended, PipeTypes
    <3>2. Len(pipe) + 1 \in 1 .. Len(pipe) + 1 /\ Reads(Len(pipe) + 1)
          /\ q \in 0 .. (Len(pipe) + 1) - 1 /\ (Len(pipe) + 1) - 1 = Len(pipe)
      BY <1>1, <2>1, PipeTypes DEF Reads
    <3>3. Covered(Source(q), Sets(Len(pipe)) - Sets(q))
      BY <2>1, <3>2 DEF RateInv, PipeCovered
    <3> QED BY <2>1, <2>2, <3>1, <3>3 DEF Covered
  <2> QED BY <2>3, <2>4, PipeTypes DEF RateInv
<1>6. (RepliesCovered /\ AdmissionsAreCovered)'
  BY <1>1 DEF RateInv, RepliesCovered, AdmissionsAreCovered, Covered, Net, Worth
<1> QED BY <1>3, <1>4, <1>5, <1>6 DEF RateInv

\* What the buckets in the pipe and in Redis held, they hold when the first
\* command has gone; a SET that fails is one admission less that counts.
LEMMA ShiftedCovered ==
  ASSUME RateInv, pipe # <<>>, pipe' = Tail(pipe), now' = now, admitted' = admitted,
         overlaps' = overlaps, forgotten' \in Nat, forgotten <= forgotten',
         \/ /\ Worth(Stored)' \in Int /\ Worth(Stored)' <= Worth(Stored)
            /\ lostWrites' = lostWrites + IF Head(pipe).op = "set" THEN 1 ELSE 0
         \/ /\ Head(pipe).op = "set" /\ UNCHANGED <<lostWrites, forgotten>>
            /\ tokens' = Head(pipe).tokens /\ timestamp' = Head(pipe).timestamp
  PROVE  PipeCovered'
<1>1. BucketsInRange /\ PipeCovered
  BY DEF RateInv
<1> DEFINE n == Len(pipe)
<1>2. /\ n \in Nat /\ n > 0 /\ Len(pipe') = n - 1
      /\ \A i \in 1 .. n - 1 : pipe'[i] = pipe[i + 1]
      /\ Head(pipe) = pipe[1]
      /\ Sets(1) = IF pipe[1].op = "set" THEN 1 ELSE 0
      /\ \A i \in 0 .. n - 1 : Sets(i)' = Sets(i + 1) - Sets(1)
      /\ \A i \in 0 .. n : Sets(i) \in Nat
      /\ Sets(0) = 0
  BY <1>1, Shifted, PipeTypes
<1> SUFFICES ASSUME NEW p \in 1 .. n, NEW q \in 0 .. p - 1, Reads(p)', Writes(q)'
             PROVE  Covered(Source(q), Sets(p - 1) - Sets(q))'
  BY <1>2 DEF PipeCovered
<1>3. Reads(p + 1) /\ p + 1 \in 1 .. n + 1 /\ (p + 1) - 1 = p
  <2>1. p + 1 \in 1 .. n + 1 /\ (p + 1) - 1 = p
    BY <1>2
  <2>2. p = n \/ pipe'[p].op = "get"
    <3>1. p = Len(pipe') + 1 \/ pipe'[p].op = "get"
      BY ONLY Reads(p)' DEF Reads
    <3>2. Len(pipe') + 1 = n
      <4>1. n \in Nat /\ Len(pipe') = n - 1
        BY <1>2
      <4> HIDE DEF n
      <4> QED BY ONLY <4>1
    <3> QED BY ONLY <3>1, <3>2
  <2>3. p # n => p \in 1 .. n - 1
    <3>1. n \in Nat
      BY <1>2
    <3> HIDE DEF n
    <3> QED BY <3>1
  <2>4. p = n \/ pipe[p + 1].op = "get"
    BY <1>2, <2>2, <2>3
  <2> QED BY <1>2, <2>1, <2>4 DEF Reads
<1>4. Sets(p - 1)' = Sets(p) - Sets(1) /\ Sets(p) \in Nat
  BY <1>2
<1>5. Net \in Int
  BY <1>1, NetType
<1>6. ASSUME NEW j \in 0 .. p, Writes(j)
      PROVE  Held(Net - (Sets(p) - Sets(j)), Worth(Source(j)))
             /\ Sets(j) \in Nat /\ Worth(Source(j)) \in Int
  <2>1. Covered(Source(j), Sets(p) - Sets(j))
    BY <1>1, <1>3, <1>6 DEF PipeCovered
  <2>2. j \in 0 .. n
    BY <1>2
  <2> QED BY <1>1, <1>2, <1>6, <2>1, <2>2, SourceWorth DEF Covered
<1>7. CASE q # 0
  <2>1. q + 1 \in 0 .. p /\ Writes(q + 1) /\ Source(q)' = Source(q + 1)
    BY <1>2, <1>7 DEF Writes, Source
  <2>2. Worth(Source(q))' \in Int /\ Worth(Source(q))' <= Worth(Source(q + 1))
    <3>1. Worth(Source(q))' = Worth(Source(q + 1)) + forgotten - forgotten'
      <4> DEFINE v == IF Source(q + 1).tokens = NONE THEN Full - now * RefillRate
                      ELSE Source(q + 1).tokens - Source(q + 1).timestamp * RefillRate
      <4>1. Worth(Source(q))' = v - forgotten' /\ Worth(Source(q + 1)) = v - forgotten
        BY <2>1 DEF Worth
      <4>2. v \in Int
        <5>1. q + 1 \in 1 .. n
          BY <1>2, <1>7
        <5>2. Source(q + 1) = pipe[q + 1] /\ pipe[q + 1].op = "set"
          BY <2>1, <5>1 DEF Source, Writes
        <5>3. pipe[q + 1].tokens \in Int /\ pipe[q + 1].timestamp \in Int /\ now \in Int
          BY <1>1, <5>1, <5>2, PipeTypes, Numbers, RateAssumption
          DEF Units, BucketsInRange, RateAssumption
        <5> QED BY <5>2, <5>3, Numbers
      <4> HIDE DEF v
      <4> QED BY <1>1, <4>1, <4>2 DEF BucketsInRange
    <3>2. Worth(Source(q + 1)) \in Int /\ forgotten \in Nat
      BY <1>1, <1>6, <2>1 DEF BucketsInRange
    <3> QED BY <3>1, <3>2
  <2>3. Sets(q)' = Sets(q + 1) - Sets(1)
    BY <1>2
  <2>4. Net' \in Int /\ Net' <= Net
    BY <1>1, <1>5 DEF Net, BucketsInRange
  <2>5. (Sets(p - 1) - Sets(q))' = Sets(p) - Sets(q + 1)
    BY <1>2, <1>4, <1>6, <2>1, <2>3
  <2>6. Net' - (Sets(p) - Sets(q + 1)) <= Net - (Sets(p) - Sets(q + 1))
    BY <1>4, <1>5, <1>6, <2>1, <2>4
  <2>7. Held(Net' - (Sets(p) - Sets(q + 1)), Worth(Source(q + 1)))
    BY <1>4, <1>5, <1>6, <2>1, <2>4, <2>6, HeldLess
  <2>8. Net' - (Sets(p) - Sets(q + 1)) \in Int /\ Worth(Source(q + 1)) \in Int
    BY <1>4, <1>6, <2>1, <2>4
  <2>9. Held(Net' - (Sets(p) - Sets(q + 1)), Worth(Source(q))')
    BY <2>2, <2>7, <2>8, HeldLess
  <2> QED BY <2>5, <2>9 DEF Covered
<1>8. CASE q = 0
  <2>1. Sets(q)' = 0
    BY <1>2, <1>8
  <2>2. CASE /\ Worth(Stored)' \in Int /\ Worth(Stored)' <= Worth(Stored)
             /\ lostWrites' = lostWrites + IF Head(pipe).op = "set" THEN 1 ELSE 0
    <3>1. /\ Held(Net - (Sets(p) - Sets(0)), Worth(Source(0))) /\ 0 \in 0 .. p
          /\ Worth(Source(0)) \in Int
      BY <1>6 DEF Writes
    <3>2. Source(0) = Stored /\ Worth(Source(q))' = Worth(Stored)'
      BY <1>8 DEF Source
    <3>3. Net' = Net - Sets(1)
      <4>1. lostWrites' = lostWrites + Sets(1) /\ Sets(1) \in Nat
        BY <1>2, <2>2
      <4>2. lostWrites \in Nat /\ admitted \in Nat /\ overlaps \in Nat
        BY <1>1 DEF BucketsInRange
      <4> QED BY <4>1, <4>2 DEF Net
    <3>4. Net' - (Sets(p - 1) - Sets(q))' = Net - (Sets(p) - Sets(0))
          /\ Net - (Sets(p) - Sets(0)) \in Int
      BY <1>2, <1>4, <1>5, <2>1, <3>3
    <3>5. Held(Net - (Sets(p) - Sets(0)), Worth(Stored)')
      BY <2>2, <3>1, <3>2, <3>4, HeldLess
    <3> QED BY <3>2, <3>4, <3>5 DEF Covered
  <2>3. CASE Head(pipe).op = "set" /\ UNCHANGED <<lostWrites, forgotten>>
             /\ tokens' = Head(pipe).tokens /\ timestamp' = Head(pipe).timestamp
    <3>1. Writes(1) /\ 1 \in 0 .. p
      BY <1>2, <2>3 DEF Writes
    <3>2. Held(Net - (Sets(p) - Sets(1)), Worth(Source(1)))
      BY <1>6, <3>1
    <3>3. Worth(Source(q))' = Worth(Source(1))
      BY <1>2, <1>8, <2>3 DEF Worth, Source, Stored
    <3>4. Net' = Net
      BY <2>3 DEF Net
    <3>5. (Sets(p - 1) - Sets(q))' = Sets(p) - Sets(1)
      BY <1>2, <1>4, <2>1
    <3> QED BY <3>2, <3>3, <3>4, <3>5 DEF Covered
  <2> QED BY <2>2, <2>3
<1> QED BY <1>7, <1>8

LEMMA ServeGetInv == RateInv /\ ServeGet => RateInv'
<1> SUFFICES ASSUME RateInv, ServeGet PROVE RateInv'
  OBVIOUS
<1>b. PICK b : b = IF tokens' = NONE THEN Nothing ELSE Stored
  OBVIOUS
<1>1. BucketsInRange /\ pipe # <<>> /\ pipe' = Tail(pipe) /\ Head(pipe).op = "get"
      /\ replies' = Append(replies, b)
      /\ UNCHANGED <<now, timestamp, expires, admitted, lostWrites, overlaps, faults>>
      /\ tokens' \in {NONE, tokens}
  BY <1>b DEF RateInv, ServeGet
<1>e. /\ forgotten \in Nat /\ forgotten' \in Nat /\ forgotten <= forgotten'
      /\ tokens' \in {NONE} \cup Units
      /\ Worth(Stored)' \in Int /\ Worth(Stored)' <= Worth(Stored) /\ Worth(Stored) \in Int
  BY <1>1, ExpiryWorth DEF BucketsInRange
<1>2. PipeCovered'
  <2>1. lostWrites' = lostWrites + IF Head(pipe).op = "set" THEN 1 ELSE 0
    BY <1>1 DEF BucketsInRange
  <2> QED BY <1>1, <1>e, <2>1, ShiftedCovered
<1>3. Covered(Stored, 0)
  <2>1. 1 \in 1 .. Len(pipe) + 1 /\ 0 \in 0 .. 1 - 1 /\ Reads(1) /\ Writes(0)
        /\ Source(0) = Stored /\ Sets(1 - 1) - Sets(0) = 0
    BY <1>1, Shifted, PipeTypes DEF Reads, Writes, Source
  <2> QED BY <2>1 DEF RateInv, PipeCovered
<1>4. b \in Reply /\ Covered(b, 0)'
  <2>1. Net \in Int /\ Net' = Net
    BY <1>1, NetType DEF Net
  <2>2. Worth(b)' = Worth(Stored)'
    BY <1>1, <1>b DEF Worth, Stored, Nothing
  <2>3. Held(Net - 0, Worth(Stored)) /\ Net - 0 \in Int
    BY <1>3, <2>1 DEF Covered
  <2>4. Held(Net - 0, Worth(Stored)')
    BY <1>e, <2>3, HeldLess
  <2>5. b \in Reply
    BY <1>1, <1>b, RateAssumption DEF Stored, Nothing, Reply, BucketsInRange, RateAssumption
  <2> QED BY <2>1, <2>2, <2>4, <2>5 DEF Covered
<1>5. Earned(b) /\ Earned(Stored)'
  BY <1>1, <1>b DEF RateInv, BucketsEarned, Earned, Stored, Nothing
<1>6. /\ replies' \in Seq(Reply) /\ DOMAIN replies' = 1 .. Len(replies) + 1
      /\ DOMAIN replies = 1 .. Len(replies) /\ Len(replies) \in Nat
      /\ \A i \in 1 .. Len(replies) : replies'[i] = replies[i]
      /\ replies'[Len(replies) + 1] = b
  BY <1>1, <1>4, AppendProperties, LenProperties DEF BucketsInRange
<1>7. BucketsInRange'
  <2>1. Command' = Command /\ Reply' = Reply
    BY <1>1 DEF Command, SetCommand, Get, Reply
  <2>2. pipe' \in Seq(Command)
    BY <1>1, Shifted
  <2> QED BY <1>1, <1>e, <1>6, <2>1, <2>2 DEF BucketsInRange, Command
<1>8. RepliesCovered'
  <2> SUFFICES ASSUME NEW i \in 1 .. Len(replies) + 1
               PROVE  Covered(replies[i], 0)'
    BY <1>6 DEF RepliesCovered
  <2>2. CASE i \in 1 .. Len(replies)
    <3>1. Covered(replies[i], 0) /\ replies[i] \in Reply /\ replies'[i] = replies[i]
      BY <1>1, <1>6, <2>2 DEF RateInv, RepliesCovered, BucketsInRange
    <3>2. Worth(replies[i]) \in Int
      BY <1>1, <3>1, RefillWorth
    <3>3. Worth(replies[i])' = Worth(replies[i]) + forgotten - forgotten'
      <4> DEFINE v == IF replies[i].tokens = NONE THEN Full - now * RefillRate
                      ELSE replies[i].tokens - replies[i].timestamp * RefillRate
      <4>1. Worth(replies[i])' = v - forgotten' /\ Worth(replies[i]) = v - forgotten
        BY <1>1, <3>1 DEF Worth
      <4>2. v \in Int
        BY <1>1, <3>1, Numbers, RateAssumption
        DEF Reply, Units, BucketsInRange, RateAssumption
      <4> HIDE DEF v
      <4> QED BY <1>e, <4>1, <4>2
    <3>4. Worth(replies[i])' \in Int /\ Worth(replies[i])' <= Worth(replies[i])
      BY <1>e, <3>2, <3>3
    <3>5. Net \in Int /\ Net' = Net /\ Net - 0 \in Int
      BY <1>1, NetType DEF Net
    <3>6. Held(Net - 0, Worth(replies[i])')
      BY <3>1, <3>2, <3>4, <3>5, HeldLess DEF Covered
    <3> QED BY <3>5, <3>6 DEF Covered
  <2>3. CASE i = Len(replies) + 1
    <3>1. Worth(replies[i])' = Worth(b)'
      BY <1>6, <2>3 DEF Worth
    <3> QED BY <1>4, <3>1 DEF Covered
  <2> QED BY <1>6, <2>2, <2>3
<1>9. BucketsEarned'
  <2>1. \A c : Earned(c)' = Earned(c)
    BY <1>1 DEF Earned
  <2>2. \A i \in DOMAIN pipe' : pipe'[i].op = "set" => Earned(pipe'[i])
    <3>1. DOMAIN pipe' = 1 .. Len(pipe) - 1
      BY <1>1, Shifted, LenProperties, PipeTypes
    <3> QED BY <1>1, <3>1, Shifted, PipeTypes DEF RateInv, BucketsEarned
  <2>3. \A i \in DOMAIN replies' : Earned(replies'[i])
    BY <1>5, <1>6 DEF RateInv, BucketsEarned
  <2> QED BY <1>1, <1>5, <2>2, <2>3 DEF BucketsEarned, Earned, Stored
<1>10. AdmissionsAreCovered'
  <2>1. /\ Net \in Int /\ Net' = Net /\ now \in Nat /\ Net * Scale \in Int
        /\ now * RefillRate \in Int
    BY <1>1, NetType, Numbers, RateAssumption DEF Net, BucketsInRange, RateAssumption
  <2>2. Net * Scale <= Full + now * RefillRate + forgotten + Scale - 1
    BY DEF RateInv, AdmissionsAreCovered, Net
  <2>3. Net * Scale <= Full + now * RefillRate + forgotten' + Scale - 1
    <3>1. PICK f \in Int : f = forgotten' /\ forgotten <= f
      BY <1>e
    <3>2. Full \in Int /\ Scale \in Int /\ forgotten \in Int
      BY <1>e, Numbers
    <3>3. \A a, c, r, x, g \in Int :
            g <= f /\ a <= c + r + g + x - 1 => a <= c + r + f + x - 1
      BY ONLY f \in Int
    <3>4. now * RefillRate \in Int /\ Net * Scale \in Int
      BY <2>1
    <3> QED BY ONLY <2>2, <3>1, <3>2, <3>3, <3>4
  <2> QED BY <1>1, <2>1, <2>3 DEF AdmissionsAreCovered, Net
<1> QED BY <1>2, <1>7, <1>8, <1>9, <1>10 DEF RateInv

\* The first command is a SET, carried out or lost.
LEMMA SetInv ==
  ASSUME RateInv, ServeSet \/ FailSet
  PROVE  RateInv'
<1> DEFINE c == pipe[1]
<1>1. BucketsInRange /\ pipe # <<>> /\ pipe' = Tail(pipe) /\ Head(pipe) = c /\ c.op = "set"
      /\ UNCHANGED <<now, replies, admitted, overlaps, forgotten>>
  <2>1. BucketsInRange /\ pipe # <<>> /\ pipe' = Tail(pipe) /\ Head(pipe).op = "set"
        /\ UNCHANGED <<now, replies, admitted, overlaps, forgotten>>
    BY DEF RateInv, ServeSet, FailSet, history
  <2> QED BY <2>1, Shifted
<1>2. /\ c.tokens \in Units /\ c.timestamp \in 0 .. now
      /\ Earned(c) /\ DOMAIN pipe' = 1 .. Len(pipe) - 1
      /\ \A i \in 1 .. Len(pipe) - 1 : pipe'[i] = pipe[i + 1] /\ i + 1 \in DOMAIN pipe
  <2>1. 1 \in DOMAIN pipe
    BY <1>1, Shifted, PipeTypes
  <2>2. c.tokens \in Units /\ c.timestamp \in 0 .. now /\ Earned(c)
    BY <1>1, <2>1, PipeTypes DEF RateInv, BucketsEarned
  <2>3. DOMAIN pipe' = 1 .. Len(pipe) - 1
    BY <1>1, Shifted, LenProperties
  <2> QED BY <1>1, <2>2, <2>3, Shifted, PipeTypes
<1>3. PipeCovered'
  <2>1. forgotten \in Nat /\ forgotten' = forgotten /\ forgotten <= forgotten
    BY <1>1 DEF ServeSet, FailSet, history, BucketsInRange
  <2>2. CASE ServeSet
    BY <1>1, <2>1, <2>2, ShiftedCovered DEF ServeSet, history
  <2>3. CASE FailSet
    <3>1. Worth(Stored)' = Worth(Stored) /\ Worth(Stored) \in Int
      <4>1. Writes(0) /\ Source(0) = Stored /\ 0 \in 0 .. Len(pipe)
        BY <1>1, PipeTypes DEF Writes, Source
      <4> QED BY <1>1, <2>1, <2>3, <4>1, SourceWorth DEF FailSet, redis, Worth, Stored
    <3>2. lostWrites' = lostWrites + IF Head(pipe).op = "set" THEN 1 ELSE 0
      BY <1>1, <2>3 DEF FailSet
    <3> QED BY <1>1, <2>1, <3>1, <3>2, ShiftedCovered
  <2> QED BY <2>2, <2>3
<1>4. BucketsInRange'
  <2>1. Command' = Command /\ Reply' = Reply
    BY <1>1 DEF Command, SetCommand, Get, Reply
  <2>2. pipe' \in Seq(Command)
    BY <1>1, Shifted
  <2>3. now \in Nat
    BY <1>1, RateAssumption DEF BucketsInRange, RateAssumption
  <2>4. CASE ServeSet
    <3>1. expires' \in Nat /\ tokens' = c.tokens /\ timestamp' = c.timestamp
          /\ UNCHANGED <<lostWrites, faults>>
      BY <1>1, <2>3, <2>4, Numbers DEF ServeSet, history
    <3> HIDE DEF c
    <3> QED BY <1>1, <1>2, <2>1, <2>2, <2>3, <3>1 DEF BucketsInRange, Command
  <2>5. CASE FailSet
    <3>1. lostWrites' \in Nat /\ faults' \in 0 .. MaxFaults
      BY <1>1, <2>5, RateAssumption DEF FailSet, BucketsInRange, RateAssumption
    <3> QED BY <1>1, <2>1, <2>2, <2>3, <2>5, <3>1 DEF FailSet, redis, BucketsInRange, Command
  <2> QED BY <2>4, <2>5
<1>6. PICK x \in Int : x = Net' /\ x <= Net /\ Net \in Int
  <2>1. Net' \in Int /\ Net' <= Net /\ Net \in Int
    BY <1>1 DEF ServeSet, FailSet, history, Net, BucketsInRange
  <2> QED BY <2>1
<1>7. RepliesCovered'
  <2> SUFFICES ASSUME NEW i \in DOMAIN replies
               PROVE  Held(x, Worth(replies[i]))
    BY <1>1, <1>6 DEF RepliesCovered, Covered, Worth
  <2>1. replies[i] \in Reply
    BY <1>1 DEF BucketsInRange
  <2>2. Worth(replies[i]) \in Int
    BY <1>1, <2>1, RefillWorth
  <2>3. Held(Net, Worth(replies[i]))
    BY <1>6 DEF RateInv, RepliesCovered, Covered
  <2> QED BY <1>6, <2>2, <2>3, HeldLess
<1>8. AdmissionsAreCovered'
  <2>1. x * Scale <= Net * Scale /\ x * Scale \in Int /\ Net * Scale \in Int
    BY <1>6, ScaleLess
  <2>2. now * RefillRate \in Int /\ forgotten \in Nat
    BY <1>1, Numbers, RateAssumption DEF BucketsInRange, RateAssumption
  <2>3. Net * Scale <= Full + now * RefillRate + forgotten + Scale - 1
    BY DEF RateInv, AdmissionsAreCovered, Net
  <2>4. x * Scale <= Full + now * RefillRate + forgotten + Scale - 1
    BY <2>1, <2>2, <2>3, Numbers
  <2> QED BY <1>1, <1>6, <2>4 DEF AdmissionsAreCovered, Net
<1>9. BucketsEarned'
  <2>1. \A i \in DOMAIN pipe' : pipe'[i].op = "set" => Earned(pipe'[i])
    BY <1>2 DEF RateInv, BucketsEarned
  <2>2. Earned(Stored) /\ \A i \in DOMAIN replies : Earned(replies[i])
    BY DEF RateInv, BucketsEarned
  <2>3. Earned([tokens |-> tokens', timestamp |-> timestamp'])
    <3>1. tokens' = tokens \/ tokens' = c.tokens
      BY <1>1 DEF ServeSet, FailSet, redis
    <3> QED BY <1>2, <2>2, <3>1 DEF Earned, Stored
  <2> QED BY <1>1, <2>1, <2>2, <2>3 DEF BucketsEarned, Earned, Stored
<1> QED BY <1>3, <1>4, <1>7, <1>8, <1>9 DEF RateInv

\* The first reply is taken.
LEMMA ReplyTaken ==
  ASSUME RateInv, replies # <<>>, replies' = Tail(replies)
  PROVE  /\ Head(replies) \in Reply /\ replies' \in Seq(Reply)
         /\ Covered(Head(replies), 0) /\ Earned(Head(replies))
         /\ DOMAIN replies' = 1 .. Len(replies) - 1
         /\ Len(replies) \in Nat /\ Len(replies) > 0 /\ DOMAIN replies = 1 .. Len(replies)
         /\ \A i \in DOMAIN replies' : /\ replies'[i] = replies[i + 1]
                                       /\ replies[i + 1] \in Reply
                                       /\ Covered(replies[i + 1], 0)
                                       /\ Earned(replies[i + 1])
<1>1. replies \in Seq(Reply)
  BY DEF RateInv, BucketsInRange
<1>2. DOMAIN replies = 1 .. Len(replies) /\ Len(replies) \in Nat
  BY <1>1, LenProperties
<1>3. /\ replies' \in Seq(Reply) /\ Len(replies') = Len(replies) - 1
      /\ \A i \in 1 .. Len(replies') : replies'[i] = replies[i + 1]
  BY <1>1, HeadTailProperties
<1>4. Head(replies) = replies[1] /\ Len(replies) > 0
  BY <1>1, <1>2
<1>5. DOMAIN replies' = 1 .. Len(replies) - 1
  BY <1>3, LenProperties
<1>6. \A i \in 1 .. Len(replies) : /\ replies[i] \in Reply
                                  /\ Covered(replies[i], 0) /\ Earned(replies[i])
  BY <1>1, <1>2 DEF RateInv, RepliesCovered, BucketsEarned
<1> QED BY <1>2, <1>3, <1>4, <1>5, <1>6

LEMMA DenyInv == RateInv /\ Deny => RateInv'
<1> SUFFICES ASSUME RateInv, Deny PROVE RateInv'
  OBVIOUS
<1>1. replies # <<>> /\ replies' = Tail(replies)
      /\ UNCHANGED <<now, tokens, timestamp, expires, pipe, admitted, lostWrites,
                     overlaps, forgotten, faults>>
  BY DEF Deny, redis, history
<1>2. BucketsInRange'
  <2>1. Command' = Command /\ Reply' = Reply
    BY <1>1 DEF Command, SetCommand, Get, Reply
  <2> QED BY <1>1, <2>1, ReplyTaken DEF RateInv, BucketsInRange, Command
<1>3. RepliesCovered' /\ BucketsEarned'
  BY <1>1, ReplyTaken
  DEF RateInv, RepliesCovered, BucketsEarned, Covered, Net, Worth, Earned, Stored
<1>4. PipeCovered'
  BY <1>1 DEF RateInv, PipeCovered, Reads, Writes, Source, Stored, Sets, Covered, Net, Worth
<1>5. AdmissionsAreCovered'
  BY <1>1 DEF RateInv, AdmissionsAreCovered
<1> QED BY <1>2, <1>3, <1>4, <1>5 DEF RateInv

\* A call that finds no other under way is the only one that waits.
LEMMA Alone ==
  ASSUME BucketsInRange, replies # <<>>
  PROVE  /\ Waiting \in Nat /\ Waiting >= 1
         /\ Waiting = 1 => /\ \A i \in 1 .. Len(pipe) : pipe[i].op # "get"
                           /\ Len(replies) = 1
<1>1. Count(pipe, "get") = First(pipe, "get", Len(pipe)) /\ Count(pipe, "get") \in Nat
  BY PipeTypes, CountAll
<1>2. Len(replies) \in Nat /\ Len(replies) >= 1
  <2>1. replies \in Seq(Reply)
    BY DEF BucketsInRange
  <2> QED BY <2>1
<1>3. ASSUME Count(pipe, "get") = 0
      PROVE  \A i \in 1 .. Len(pipe) : pipe[i].op # "get"
  <2>1. IsFiniteSet(Ops(pipe, "get", Len(pipe)))
    BY PipeTypes, FirstType
  <2>2. Ops(pipe, "get", Len(pipe)) = {}
    BY <1>1, <1>3, <2>1, FS_EmptySet DEF First
  <2> QED BY <2>2 DEF Ops
<1>4. /\ Waiting \in Nat /\ Waiting >= 1
      /\ Waiting = 1 => Count(pipe, "get") = 0 /\ Len(replies) = 1
  <2>1. PICK k \in Nat : k = Count(pipe, "get")
    BY <1>1
  <2>2. PICK l \in Nat : l = Len(replies) /\ l >= 1
    BY <1>2
  <2>3. Waiting = k + l
    BY <2>1, <2>2 DEF Waiting
  <2> QED BY <2>1, <2>2, <2>3
<1> QED BY <1>3, <1>4

\* The bucket an admission writes back.
LEMMA Written ==
  ASSUME BucketsInRange, NEW b \in Reply, Earned(b), Refilled(b) > 0,
         NEW e, e = Set(Refilled(b) - Scale, now)
  PROVE  /\ e \in Command /\ e.op = "set"
         /\ Worth(e) \in Int /\ Worth(e) <= Worth(b) - Scale
         /\ e.tokens >= Full - (admitted + 1) * Scale
<1> DEFINE t == Refilled(b)
<1>1. /\ t \in Int /\ t <= Full /\ Worth(b) \in Int /\ t > 0
      /\ now * RefillRate \in Nat /\ t - now * RefillRate - forgotten <= Worth(b)
      /\ b.tokens # NONE /\ t # Full => t >= b.tokens
  BY RefillWorth
<1>2. now \in Nat /\ forgotten \in Nat
  BY RateAssumption DEF BucketsInRange, RateAssumption
<1>3. admitted \in Nat /\ (admitted + 1) * Scale = admitted * Scale + Scale
      /\ admitted * Scale \in Nat
  BY Products, Numbers DEF BucketsInRange
<1>4. b.tokens # NONE => b.tokens >= Full - admitted * Scale /\ b.tokens \in Int
  BY Numbers DEF Earned, Reply, Units
<1>5. b.tokens = NONE => t = Full
  BY DEF Refilled
<1> HIDE DEF t
<1>6. e = [op |-> "set", tokens |-> t - Scale, timestamp |-> now]
  BY DEF Set, t
<1>7. t - Scale \in Units
  BY <1>1, Numbers DEF Units
<1>8. e \in Command /\ e.op = "set"
  BY <1>2, <1>6, <1>7 DEF Command, SetCommand
<1>9. Worth(e) = (t - Scale) - now * RefillRate - forgotten
  BY <1>1, <1>6, Numbers DEF Worth
<1>10. e.tokens >= Full - (admitted + 1) * Scale
  <2>1. t >= Full - admitted * Scale
    BY <1>1, <1>3, <1>4, <1>5, Numbers
  <2> QED BY <1>1, <1>3, <1>6, <2>1, Numbers
<1> QED BY <1>1, <1>2, <1>8, <1>9, <1>10, Numbers

LEMMA GrantInv == RateInv /\ Grant => RateInv'
<1> SUFFICES ASSUME RateInv, Grant PROVE RateInv'
  OBVIOUS
<1> DEFINE b == Head(replies)
           e == Set(Refilled(b) - Scale, now)
           n == Len(pipe)
<1>1. /\ BucketsInRange /\ replies # <<>> /\ replies' = Tail(replies) /\ Refilled(b) > 0
      /\ pipe' = Append(pipe, e) /\ admitted' = admitted + 1
      /\ overlaps' = overlaps + Waiting - 1
      /\ UNCHANGED <<now, tokens, timestamp, expires, lostWrites, forgotten, faults>>
  BY DEF RateInv, Grant, redis
<1>2. b \in Reply /\ Covered(b, 0) /\ Earned(b)
  BY <1>1, ReplyTaken
<1>3. /\ e \in Command /\ e.op = "set"
      /\ Worth(e) \in Int /\ Worth(b) \in Int /\ Worth(e) <= Worth(b) - Scale
      /\ e.tokens >= Full - (admitted + 1) * Scale
      /\ Worth(b) >= 1 - now * RefillRate - forgotten
  BY <1>1, <1>2, Written, RefillWorth
<1> HIDE DEF e, b
<1>4. PICK x \in Int : /\ x = Net' /\ x <= Net + 1 /\ Net \in Int
                       /\ x = Net + 1 \/ x <= Net
                       /\ x > Net => Waiting = 1
  <2>1. /\ Net' \in Int /\ Net' <= Net + 1 /\ Net \in Int
        /\ Net' = Net + 1 \/ Net' <= Net
        /\ Net' > Net => Waiting = 1
    <3>1. PICK w \in Nat : w = Waiting /\ w >= 1
      BY <1>1, Alone
    <3>2. overlaps' = overlaps + w - 1
      BY <1>1, <3>1
    <3>3. admitted \in Nat /\ lostWrites \in Nat /\ overlaps \in Nat
      BY <1>1 DEF BucketsInRange
    <3> QED BY <1>1, <3>1, <3>2, <3>3 DEF Net
  <2> QED BY <2>1
<1>5. /\ n \in Nat /\ Len(pipe') = n + 1 /\ pipe' \in Seq(Command)
      /\ \A i \in 1 .. n : pipe'[i] = pipe[i]
      /\ pipe'[n + 1] = e
      /\ \A i \in 0 .. n : Sets(i)' = Sets(i) /\ Sets(i) \in Nat
      /\ \A i \in Nat : i = n + 1 => Sets(i)' = Sets(n) + 1
      /\ DOMAIN pipe' = 1 .. n + 1 /\ DOMAIN pipe = 1 .. n
  BY <1>1, <1>3, Appended, PipeTypes, LenProperties
<1>6. BucketsInRange'
  <2>1. Command' = Command /\ Reply' = Reply
    BY <1>1 DEF Command, SetCommand, Get, Reply
  <2>2. replies' \in Seq(Reply)
    BY <1>1, ReplyTaken
  <2>3. admitted' \in Nat /\ overlaps' \in Nat
    BY <1>1, Alone DEF BucketsInRange
  <2> QED BY <1>1, <1>5, <2>1, <2>2, <2>3 DEF BucketsInRange, Command
<1>7. RepliesCovered'
  <2> SUFFICES ASSUME NEW i \in DOMAIN replies'
               PROVE  Held(x, Worth(replies'[i]))
    BY <1>1, <1>4 DEF RepliesCovered, Covered, Worth
  <2>1. replies'[i] \in Reply /\ Covered(replies'[i], 0) /\ Waiting # 1
    BY <1>1, ReplyTaken, Alone
  <2>2. Held(Net, Worth(replies'[i])) /\ Worth(replies'[i]) \in Int
    BY <1>1, <1>4, <2>1, RefillWorth DEF Covered
  <2> QED BY <1>4, <2>1, <2>2, HeldLess
<1>8. BucketsEarned'
  <2>1. Full - (admitted + 1) * Scale <= Full - admitted * Scale
        /\ (admitted + 1) * Scale \in Int /\ admitted * Scale \in Int
    BY <1>1, ScaleLess, Numbers DEF BucketsInRange
  <2>2. \A c : c.tokens \in Int \cup {NONE} /\ Earned(c)
               => (c.tokens # NONE => c.tokens >= Full - admitted' * Scale)
    BY <1>1, <2>1, Numbers DEF Earned
  <2>3. Stored.tokens \in Int \cup {NONE} /\ Earned(Stored) /\ Stored' = Stored
    BY <1>1 DEF BucketsInRange, Units, Stored, RateInv, BucketsEarned
  <2>4. Earned(Stored)'
    BY <2>2, <2>3 DEF Earned
  <2>5. ASSUME NEW i \in 1 .. n, pipe[i].op = "set"
        PROVE  pipe[i].tokens >= Full - admitted' * Scale
    <3>1. pipe[i].tokens \in Units
      BY <1>1, <2>5, PipeTypes
    <3>2. pipe[i].tokens \in Int /\ pipe[i].tokens # NONE /\ Earned(pipe[i])
      BY <1>5, <2>5, <3>1, Numbers DEF Units, RateInv, BucketsEarned
    <3> QED BY <2>2, <3>2
  <2>6. ASSUME NEW i \in DOMAIN replies'
        PROVE  replies'[i].tokens # NONE => replies'[i].tokens >= Full - admitted' * Scale
    <3>1. replies'[i] \in Reply /\ Earned(replies'[i])
      BY <1>1, ReplyTaken
    <3>2. replies'[i].tokens \in Int \cup {NONE}
      BY <3>1 DEF Reply, Units
    <3> QED BY <2>2, <3>1, <3>2
  <2>7. ASSUME NEW i \in DOMAIN pipe', pipe'[i].op = "set"
        PROVE  pipe'[i].tokens >= Full - admitted' * Scale
    BY <1>1, <1>3, <1>5, <2>5, <2>7
  <2> QED BY <2>4, <2>6, <2>7 DEF BucketsEarned, Earned
<1>9. PipeCovered'
  <2> SUFFICES ASSUME NEW p \in 1 .. n + 2, NEW q \in 0 .. p - 1, Reads(p)', Writes(q)'
               PROVE  Held(x - (Sets(p - 1) - Sets(q))', Worth(Source(q))')
    BY <1>4, <1>5 DEF PipeCovered, Covered
  <2>1. ASSUME q <= n
        PROVE  /\ Writes(q) /\ Worth(Source(q))' = Worth(Source(q))
               /\ Sets(q)' = Sets(q) /\ Sets(q) \in Nat /\ Worth(Source(q)) \in Int
    <3>1. Writes(q) /\ Source(q)' = Source(q)
      BY <1>1, <1>5, <2>1 DEF Writes, Source, Stored
    <3>2. q \in 0 .. n
      BY <1>5, <2>1
    <3> QED BY <1>1, <1>5, <3>1, <3>2, SourceWorth DEF Worth
  <2>2. CASE p <= n + 1
    <3>1. p <= n /\ pipe[p].op = "get" /\ q <= n
      BY <1>3, <1>5, <2>2 DEF Reads
    <3>2. x <= Net
      BY <1>1, <1>4, <1>5, <3>1, Alone
    <3>3. Sets(p - 1)' = Sets(p - 1) /\ Sets(p - 1) \in Nat
      BY <1>5, <3>1
    <3>4. Held(Net - (Sets(p - 1) - Sets(q)), Worth(Source(q)))
      BY <1>5, <2>1, <3>1 DEF RateInv, PipeCovered, Reads, Covered
    <3>5. /\ x - (Sets(p - 1) - Sets(q)) \in Int /\ Net - (Sets(p - 1) - Sets(q)) \in Int
          /\ x - (Sets(p - 1) - Sets(q)) <= Net - (Sets(p - 1) - Sets(q))
      BY <1>4, <2>1, <3>1, <3>2, <3>3
    <3>6. Held(x - (Sets(p - 1) - Sets(q)), Worth(Source(q)))
      BY <2>1, <3>1, <3>4, <3>5, HeldLess
    <3> QED BY <2>1, <3>1, <3>3, <3>6
  <2>3. CASE p = n + 2 /\ q <= n
    <3>1. n + 1 \in 1 .. n + 1 /\ q \in 0 .. (n + 1) - 1 /\ (n + 1) - 1 = n
      BY <1>5, <2>3
    <3>2. Held(Net - (Sets(n) - Sets(q)), Worth(Source(q)))
      BY <2>1, <2>3, <3>1 DEF RateInv, PipeCovered, Reads, Covered
    <3>3. Sets(p - 1)' = Sets(n) + 1 /\ Sets(n) \in Nat
      BY <1>5, <2>3
    <3>4. /\ x - ((Sets(n) + 1) - Sets(q)) \in Int /\ Net - (Sets(n) - Sets(q)) \in Int
          /\ x - ((Sets(n) + 1) - Sets(q)) <= Net - (Sets(n) - Sets(q))
      BY <1>4, <2>1, <2>3, <3>3
    <3>5. Held(x - ((Sets(n) + 1) - Sets(q)), Worth(Source(q)))
      BY <2>1, <2>3, <3>2, <3>4, HeldLess
    <3> QED BY <2>1, <2>3, <3>3, <3>5
  <2>4. CASE p = n + 2 /\ q = n + 1
    <3>1. Sets(p - 1)' = Sets(q)' /\ Sets(q)' = Sets(n) + 1 /\ Sets(n) \in Nat
      BY <1>5, <2>4
    <3>2. x - (Sets(p - 1) - Sets(q))' = x
      BY <1>4, <3>1
    <3>3. Worth(Source(q))' = Worth(e)
      BY <1>1, <1>5, <2>4 DEF Worth, Source
    <3>4. Held(Net + 1, Worth(b) - Scale)
      BY <1>2, <1>3, <1>4, HeldTaken DEF Covered
    <3>5. Net + 1 \in Int /\ Worth(b) - Scale \in Int
      BY <1>3, <1>4, Numbers
    <3>6. Held(x, Worth(e))
      BY <1>3, <1>4, <3>4, <3>5, HeldLess
    <3> QED BY <3>2, <3>3, <3>6
  <2> QED BY <1>5, <2>2, <2>3, <2>4
<1>10. AdmissionsAreCovered'
  <2>1. Net * Scale \in Int /\ Net * Scale + Worth(b) <= Full
    BY <1>2, <1>3, <1>4, HeldIs DEF Covered
  <2>2. (Net + 1) * Scale = Net * Scale + Scale
    BY <1>4, Products, Numbers
  <2>3. x * Scale <= (Net + 1) * Scale /\ x * Scale \in Int
    BY <1>4, ScaleLess
  <2>4. now * RefillRate \in Int /\ forgotten \in Nat
    BY <1>1, Numbers, RateAssumption DEF BucketsInRange, RateAssumption
  <2>5. x * Scale <= Full + now * RefillRate + forgotten + Scale - 1
    BY <1>3, <2>1, <2>2, <2>3, <2>4, Numbers
  <2> QED BY <1>1, <1>4, <2>5 DEF AdmissionsAreCovered, Net
<1> QED BY <1>6, <1>7, <1>8, <1>9, <1>10 DEF RateInv

LEMMA CrashInv == RateInv /\ Crash => RateInv'
<1> SUFFICES ASSUME RateInv, Crash PROVE RateInv'
  OBVIOUS
<1> DEFINE n == Len(pipe)
<1>1. /\ BucketsInRange /\ pipe' = <<>> /\ replies' = <<>>
      /\ lostWrites' = lostWrites + Count(pipe, "set")
      /\ faults < MaxFaults /\ faults' = faults + 1
      /\ UNCHANGED <<now, tokens, timestamp, expires, admitted, overlaps,
                     forgotten>>
  BY DEF RateInv, Crash, redis
<1>2. /\ n \in Nat /\ Sets(n) \in Nat /\ Count(pipe, "set") = Sets(n) /\ Sets(0) = 0
      /\ Writes(0) /\ Reads(n + 1) /\ Source(0) = Stored /\ Worth(Stored) \in Int
  <2>1. n \in Nat /\ Sets(n) \in Nat /\ Sets(0) = 0 /\ pipe \in Seq(Command)
    BY <1>1, PipeTypes
  <2>2. Count(pipe, "set") = Sets(n)
    BY <2>1, CountAll DEF Sets
  <2>3. Writes(0) /\ Source(0) = Stored /\ 0 \in 0 .. n
    BY <2>1 DEF Writes, Source
  <2>4. Reads(n + 1)
    BY DEF Reads
  <2> QED BY <1>1, <2>1, <2>2, <2>3, <2>4, SourceWorth
<1>3. PICK x \in Int : x = Net' /\ x = Net - Sets(n) /\ x <= Net /\ Net \in Int
  <2>1. Net' \in Int /\ Net' = Net - Sets(n) /\ Net' <= Net /\ Net \in Int
    BY <1>1, <1>2 DEF Net, BucketsInRange
  <2> QED BY <2>1
<1>4. BucketsInRange'
  <2>1. Command' = Command /\ Reply' = Reply
    BY <1>1 DEF Command, SetCommand, Get, Reply
  <2>2. lostWrites' \in Nat /\ faults' \in 0 .. MaxFaults
    BY <1>1, <1>2, RateAssumption DEF BucketsInRange, RateAssumption
  <2>3. pipe' \in Seq(Command) /\ replies' \in Seq(Reply)
    BY <1>1
  <2> QED BY <1>1, <2>1, <2>2, <2>3 DEF BucketsInRange, Command
<1>5. RepliesCovered' /\ BucketsEarned'
  BY <1>1 DEF RateInv, RepliesCovered, BucketsEarned, Earned, Stored
<1>6. PipeCovered'
  <2>1. Len(pipe') = 0
    BY <1>1
  <2> SUFFICES ASSUME NEW p \in 1 .. 1, NEW q \in 0 .. p - 1
               PROVE  Covered(Source(q), Sets(p - 1) - Sets(q))'
    BY <2>1 DEF PipeCovered
  <2>2. p = 1 /\ q = 0
    OBVIOUS
  <2>3. Worth(Source(q))' = Worth(Stored)
    BY <1>1, <2>2 DEF Worth, Source, Stored
  <2>4. (Sets(p - 1) - Sets(q))' = 0
    <3>1. Sets(0)' = 0
      BY FirstNone DEF Sets
    <3> QED BY <2>2, <3>1
  <2>5. Covered(Source(0), Sets((n + 1) - 1) - Sets(0))
    BY <1>2 DEF RateInv, PipeCovered
  <2>6. Net - (Sets((n + 1) - 1) - Sets(0)) = x
    BY <1>2, <1>3
  <2>7. Held(x, Worth(Stored))
    BY <1>2, <2>5, <2>6 DEF Covered
  <2> QED BY <1>3, <2>3, <2>4, <2>7 DEF Covered
<1>7. AdmissionsAreCovered'
  <2>1. x * Scale <= Net * Scale /\ x * Scale \in Int /\ Net * Scale \in Int
    BY <1>3, ScaleLess
  <2>2. now * RefillRate \in Int /\ forgotten \in Nat
    BY <1>1, Numbers, RateAssumption DEF BucketsInRange, RateAssumption
  <2>3. Net * Scale <= Full + now * RefillRate + forgotten + Scale - 1
    BY DEF RateInv, AdmissionsAreCovered, Net
  <2>4. x * Scale <= Full + now * RefillRate + forgotten + Scale - 1
    BY <2>1, <2>2, <2>3, Numbers
  <2> QED BY <1>1, <1>3, <2>4 DEF AdmissionsAreCovered, Net
<1> QED BY <1>4, <1>5, <1>6, <1>7 DEF RateInv

\* The clock runs: only a bucket that is not there is worth less.
LEMMA TickInv == RateInv /\ Tick => RateInv'
<1> SUFFICES ASSUME RateInv, Tick PROVE RateInv'
  OBVIOUS
<1>1. /\ BucketsInRange /\ now < MaxNow /\ now' = now + 1
      /\ UNCHANGED <<tokens, timestamp, expires, pipe, replies, admitted, lostWrites,
                     overlaps, forgotten, faults>>
  BY DEF RateInv, Tick, redis, connection, history
<1>2. /\ now \in Nat /\ now' \in 0 .. MaxNow /\ 0 .. now \subseteq 0 .. now'
      /\ now' \in Nat /\ now <= now'
  BY <1>1, RateAssumption DEF BucketsInRange, RateAssumption
<1>f. forgotten \in Nat
  BY <1>1 DEF BucketsInRange
<1>r. PICK r \in Int : r = now * RefillRate
  BY <1>2, RefillLess
<1>s. PICK s \in Int : s = now' * RefillRate /\ r <= s
  BY <1>r, <1>2, RefillLess
<1>3. BucketsInRange'
  <2>1. Command \subseteq Command' /\ Reply \subseteq Reply'
    BY <1>2 DEF Command, SetCommand, Get, Reply
  <2>2. pipe \in Seq(Command) /\ replies \in Seq(Reply)
    BY <1>1 DEF BucketsInRange, Command
  <2>3. pipe' \in Seq(Command') /\ replies' \in Seq(Reply')
    BY <1>1, <2>1, <2>2, Larger
  <2> QED BY <1>1, <1>2, <2>3 DEF BucketsInRange, Command
<1>4. Net' = Net /\ Net \in Int
  BY <1>1, NetType DEF Net
<1>5. ASSUME NEW b, Worth(b) \in Int, NEW v,
             v = (IF b.tokens = NONE THEN Full - now' * RefillRate
                  ELSE b.tokens - b.timestamp * RefillRate) - forgotten
      PROVE  v \in Int /\ v <= Worth(b)
  <2>1. CASE b.tokens = NONE
    BY <1>f, <1>r, <1>s, <1>5, <2>1, Numbers DEF Worth
  <2>2. CASE b.tokens # NONE
    <3>1. v = Worth(b)
      BY <1>5, <2>2 DEF Worth
    <3> QED BY <1>5, <3>1
  <2> QED BY <2>1, <2>2
<1>6. PipeCovered'
  <2> SUFFICES ASSUME NEW p \in 1 .. Len(pipe) + 1, NEW q \in 0 .. p - 1,
                      Reads(p), Writes(q)
               PROVE  Held(Net - (Sets(p - 1) - Sets(q)), Worth(Source(q))')
    BY <1>1, <1>4 DEF PipeCovered, Covered, Reads, Writes, Sets
  <2>1. q \in 0 .. Len(pipe) /\ p - 1 \in 0 .. Len(pipe)
    BY <1>1, PipeTypes
  <2>2. Held(Net - (Sets(p - 1) - Sets(q)), Worth(Source(q)))
        /\ Worth(Source(q)) \in Int /\ Net - (Sets(p - 1) - Sets(q)) \in Int
    <3>1. Sets(p - 1) \in Nat /\ Sets(q) \in Nat
      BY <1>1, <2>1, PipeTypes
    <3> QED BY <1>1, <1>4, <2>1, <3>1, SourceWorth DEF RateInv, PipeCovered, Covered
  <2>3. Source(q).tokens \in {NONE} \cup Units /\ Source(q).timestamp \in Int
    BY <1>1, <2>1, PipeTypes, RateAssumption DEF Writes, Source, Stored, BucketsInRange, RateAssumption
  <2>4. Worth(Source(q))' \in Int /\ Worth(Source(q))' <= Worth(Source(q))
    <3>1. Worth(Source(q))' =
            (IF Source(q).tokens = NONE THEN Full - now' * RefillRate
             ELSE Source(q).tokens - Source(q).timestamp * RefillRate) - forgotten
      BY <1>1 DEF Worth, Source, Stored
    <3> QED BY <1>5, <2>2, <2>3, <3>1
  <2>5. PICK v \in Int : v = Worth(Source(q))' /\ v <= Worth(Source(q))
    BY <2>4
  <2> QED BY <2>2, <2>5, HeldLess
<1>7. RepliesCovered'
  <2> SUFFICES ASSUME NEW i \in DOMAIN replies
               PROVE  Held(Net, Worth(replies[i])')
    BY <1>1, <1>4 DEF RepliesCovered, Covered
  <2>1. replies[i] \in Reply
    BY <1>1 DEF BucketsInRange
  <2>2. Held(Net, Worth(replies[i])) /\ Worth(replies[i]) \in Int
    BY <1>1, <1>4, <2>1, RefillWorth DEF RateInv, RepliesCovered, Covered
  <2>3. replies[i].tokens \in {NONE} \cup Units /\ replies[i].timestamp \in Int
    BY <2>1, <1>2 DEF Reply
  <2>4. Worth(replies[i])' \in Int /\ Worth(replies[i])' <= Worth(replies[i])
    <3>1. Worth(replies[i])' =
            (IF replies[i].tokens = NONE THEN Full - now' * RefillRate
             ELSE replies[i].tokens - replies[i].timestamp * RefillRate) - forgotten
      BY <1>1 DEF Worth
    <3> QED BY <1>5, <2>2, <2>3, <3>1
  <2>5. PICK v \in Int : v = Worth(replies[i])' /\ v <= Worth(replies[i])
    BY <2>4
  <2> QED BY <1>4, <2>2, <2>5, HeldLess
<1>8. BucketsEarned'
  BY <1>1 DEF RateInv, BucketsEarned, Earned, Stored
<1>9. AdmissionsAreCovered'
  <2>1. Net * Scale \in Int /\ Net * Scale <= Full + now * RefillRate + forgotten + Scale - 1
    BY <1>4, Numbers DEF RateInv, AdmissionsAreCovered, Net
  <2>2. Net * Scale <= Full + s + forgotten + Scale - 1
    BY <1>f, <1>r, <1>s, <2>1, Numbers
  <2> QED BY <1>1, <1>s, <2>2 DEF AdmissionsAreCovered, Net
<1> QED BY <1>3, <1>6, <1>7, <1>8, <1>9 DEF RateInv

LEMMA StepInv == RateInv /\ [Next]_vars => RateInv'
<1> SUFFICES ASSUME RateInv, [Next]_vars PROVE RateInv'
  OBVIOUS
<1>1. CASE Call BY <1>1, CallInv
<1>2. CASE ServeGet BY <1>2, ServeGetInv
<1>3. CASE ServeSet \/ FailSet BY <1>3, SetInv
<1>4. CASE Grant BY <1>4, GrantInv
<1>5. CASE Deny BY <1>5, DenyInv
<1>6. CASE Crash BY <1>6, CrashInv
<1>7. CASE Tick BY <1>7, TickInv
<1>8. CASE UNCHANGED vars
  <2>1. UNCHANGED <<now, tokens, timestamp, expires, pipe, replies, admitted, lostWrites,
                    overlaps, forgotten, faults>>
    BY <1>8 DEF vars, redis, connection, history
  <2>2. BucketsInRange'
    <3>1. Command' = Command /\ Reply' = Reply
      BY <2>1 DEF Command, SetCommand, Get, Reply
    <3> QED BY <2>1, <3>1 DEF RateInv, BucketsInRange, Command
  <2>3. PipeCovered'
    BY <2>1 DEF RateInv, PipeCovered, Reads, Writes, Source, Stored, Sets, Covered, Net, Worth
  <2> QED BY <2>1, <2>2, <2>3
      DEF RateInv, RepliesCovered, AdmissionsAreCovered, BucketsEarned, Earned,
          Stored, Covered, Net, Worth
<1> QED BY <1>1, <1>2, <1>3, <1>4, <1>5, <1>6, <1>7, <1>8 DEF Next

-----------------------------------------------------------------------------

\* The buckets on their way are covered by what was admitted, always.
THEOREM RateInvHolds == Spec => []RateInv
BY InitInv, StepInv, PTL DEF Spec

\* Every stored bucket, command and reply holds between a debt of less than a
\* token and one token less than a full bucket.
THEOREM BucketsInRangeHolds == Spec => []BucketsInRange
<1>1. RateInv => BucketsInRange
  BY DEF RateInv
<1> QED BY <1>1, RateInvHolds, PTL

\* The token bucket's law: a sender gets a full bucket and what was refilled
\* since, but for overlapping calls and lost writes.
THEOREM AdmissionsAreCoveredHolds == Spec => []AdmissionsAreCovered
<1>1. RateInv => AdmissionsAreCovered
  BY DEF RateInv
<1> QED BY <1>1, RateInvHolds, PTL

\* No call is refused before a whole bucket was handed out.
THEOREM DenialsAreEarnedHolds == Spec => DenialsAreEarned
<1>1. RateInv /\ Deny => admitted >= Capacity
  <2> SUFFICES ASSUME RateInv, Deny PROVE admitted >= Capacity
    OBVIOUS
  <2> DEFINE b == Head(replies)
  <2>1. BucketsInRange /\ b \in Reply /\ Earned(b) /\ Refilled(b) <= 0
    BY ReplyTaken DEF RateInv, Deny
  <2>2. /\ Refilled(b) \in Int /\ Refilled(b) # Full
        /\ b.tokens # NONE /\ Refilled(b) >= b.tokens /\ b.tokens \in Int
    <3>1. Full > 0
      <4>1. Capacity >= 1 /\ Capacity \in Int /\ 1 * Scale = Scale
        BY RateAssumption, Numbers DEF RateAssumption
      <4>2. 1 * Scale <= Capacity * Scale
        BY <4>1, ScaleLess
      <4> QED BY <4>1, <4>2, Numbers DEF Full
    <3>2. Refilled(b) \in Int /\ Refilled(b) # Full
      BY <2>1, <3>1, RefillWorth, Numbers
    <3>3. b.tokens # NONE
      BY <3>2 DEF Refilled
    <3> QED BY <2>1, <3>2, <3>3, RefillWorth DEF Reply, Units
  <2>3. admitted \in Nat /\ admitted * Scale \in Int
    BY <2>1, Numbers DEF BucketsInRange
  <2>4. Full <= admitted * Scale
    BY <2>1, <2>2, <2>3, Numbers DEF Earned
  <2> SUFFICES ASSUME ~ (admitted >= Capacity) PROVE FALSE
    OBVIOUS
  <2>5. admitted + 1 <= Capacity /\ admitted + 1 \in Int /\ Capacity \in Int
    BY <2>3, Numbers
  <2>6. (admitted + 1) * Scale <= Capacity * Scale
    BY <2>5, ScaleLess
  <2>7. (admitted + 1) * Scale = admitted * Scale + Scale
    BY <2>3, Products, Numbers
  <2> QED BY <2>3, <2>4, <2>6, <2>7, Numbers DEF Full
<1> QED BY <1>1, RateInvHolds, PTL DEF DenialsAreEarned, Spec

-----------------------------------------------------------------------------
(* Buckets that live long enough: with the rates the code defaults to (30  *)
(* tokens, one every two seconds, 600 seconds) a bucket is full again long *)
(* before it expires.                                                      *)

LongLived == TTL * RefillRate >= Full + Scale

\* A stored bucket lives as long as it takes from its timestamp on.
Fresh == tokens # NONE => expires >= timestamp + TTL

NothingForgotten == Fresh /\ forgotten = 0

LEMMA ExpiredWasFull ==
  ASSUME LongLived, BucketsInRange, Fresh, Expired
  PROVE  Refilled(Stored) = Full
<1>1. /\ tokens \in Int /\ tokens >= 1 - Scale /\ tokens # NONE
      /\ timestamp \in Nat /\ now \in Nat /\ now >= timestamp + TTL
  BY Numbers, RateAssumption
  DEF BucketsInRange, Units, Fresh, Expired, RateAssumption
<1>2. PICK e \in Int : e = now - timestamp /\ TTL <= e
  BY <1>1, Numbers
<1>3. TTL * RefillRate <= e * RefillRate /\ e * RefillRate \in Int /\ TTL * RefillRate \in Int
  BY <1>2, Products, Numbers
<1>4. tokens + e * RefillRate > Full
  BY <1>1, <1>3, Numbers DEF LongLived
<1> QED BY <1>1, <1>2, <1>4 DEF Refilled, Stored

LEMMA NothingForgottenStep ==
  ASSUME LongLived, RateInv, NothingForgotten, [Next]_vars
  PROVE  NothingForgotten'
<1>1. BucketsInRange
  BY DEF RateInv
<1>2. CASE ServeGet
  <2>1. Full \in Int
    BY Numbers
  <2>2. forgotten' = 0
    BY <1>1, <1>2, <2>1, ExpiredWasFull DEF ServeGet, NothingForgotten
  <2> QED BY <1>2, <2>2 DEF ServeGet, NothingForgotten, Fresh
<1>3. CASE ServeSet
  <2>1. Head(pipe).timestamp \in 0 .. now /\ now \in Nat
    BY <1>1, <1>3, Shifted, PipeTypes, RateAssumption
    DEF ServeSet, BucketsInRange, RateAssumption
  <2>2. expires' >= timestamp' + TTL
    BY <1>3, <2>1, Numbers DEF ServeSet
  <2> QED BY <1>3, <2>2 DEF ServeSet, history, NothingForgotten, Fresh
<1>4. CASE Call \/ Grant \/ Deny \/ FailSet \/ Crash \/ Tick \/ UNCHANGED vars
  BY <1>4 DEF Call, Grant, Deny, FailSet, Crash, Tick, vars, redis, history,
              NothingForgotten, Fresh
<1> QED BY <1>2, <1>3, <1>4 DEF Next

\* A sender whose bucket lives until it is full again gains nothing from expiry: but
\* for overlapping calls and lost writes it gets a full bucket and the refill alone.
THEOREM ExpiryGivesNothing ==
  ASSUME LongLived
  PROVE  Spec => []((admitted - lostWrites - overlaps) * Scale
                      <= Full + now * RefillRate + Scale - 1)
<1> DEFINE Law == (admitted - lostWrites - overlaps) * Scale
                    <= Full + now * RefillRate + Scale - 1
<1>1. Init => NothingForgotten
  BY DEF Init, NothingForgotten, Fresh
<1>2. RateInv /\ NothingForgotten /\ [Next]_vars => NothingForgotten'
  BY NothingForgottenStep
<1>3. RateInv /\ NothingForgotten => Law
  <2> SUFFICES ASSUME RateInv, forgotten = 0 PROVE Law
    BY DEF NothingForgotten
  <2>1. now * RefillRate \in Int /\ Full \in Int
    BY Numbers, RateAssumption DEF RateInv, BucketsInRange, RateAssumption
  <2>2. Full + now * RefillRate + 0 = Full + now * RefillRate
    BY <2>1
  <2> QED BY <2>2 DEF RateInv, AdmissionsAreCovered
<1> QED BY <1>1, <1>2, <1>3, RateInvHolds, PTL DEF Spec

=============================================================================
