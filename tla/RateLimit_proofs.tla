-------------------------- MODULE RateLimit_proofs --------------------------
(***************************************************************************)
(* Proofs about RateLimit, for any keys, limits, windows and store sizes.  *)
(*                                                                         *)
(* A bucket of the current window is never pruned, so there are three      *)
(* things that can happen to a count: it goes up, it is evicted, or its    *)
(* window ends.  CountInv bounds the admissions of a window by what its    *)
(* evicted buckets and its present one let through.  With one length of    *)
(* windows on the store nobody else adds to a bucket, and ExactInv bounds  *)
(* them from below as well.                                                *)
(***************************************************************************)
EXTENDS RateLimit, FiniteSetTheorems, WellFoundedInduction, TLAPS

(* The end of the window of length w that time n lies in.                  *)
EndOf(n, w) == (n \div w) * w + w

Of(S, k, end) == {b \in S : b.key = k /\ b.resetAt = end}
UpToLimit(count) == IF count > Limit THEN Limit ELSE count

StoreInv == TypeOK /\ IsFiniteSet(buckets)

CountInv ==
  \A w \in Windows, k \in Keys :
    /\ \A b \in Of(buckets, k, WindowEnd(w)) :
         seen[w][k].admitted <= Limit * seen[w][k].evictions + UpToLimit(b.count)
    /\ Of(buckets, k, WindowEnd(w)) = {} =>
         seen[w][k].admitted <= Limit * seen[w][k].evictions

IInv == StoreInv /\ CountInv

-----------------------------------------------------------------------------
(* Time is in a window, which ends after it.                               *)
LEMMA InWindow ==
  ASSUME NEW n \in Nat, NEW w \in Nat \ {0}
  PROVE  EndOf(n, w) \in Nat /\ n < EndOf(n, w) /\ EndOf(n, w) <= n + w
  <1>1. n = w * (n \div w) + (n % w) /\ (n % w) \in 0 .. w - 1 /\ (n \div w) \in Nat
    OBVIOUS
  <1>2. w * (n \div w) = (n \div w) * w
    BY <1>1
  <1>. QED
    BY <1>1, <1>2 DEF EndOf

(* A tick that does not begin a window stays in it.                        *)
LEMMA NextWindow ==
  ASSUME NEW n \in Nat, NEW w \in Nat \ {0}
  PROVE  /\ (n + 1) % w # 0 => EndOf(n + 1, w) = EndOf(n, w)
         /\ (n + 1) % w = 0 => EndOf(n + 1, w) = n + 1 + w
  <1>1. PICK q \in Nat, r \in 0 .. w - 1 : q = n \div w /\ r = n % w /\ n = w * q + r
    OBVIOUS
  <1>2. PICK p \in Nat, s \in 0 .. w - 1 :
               p = (n + 1) \div w /\ s = (n + 1) % w /\ n + 1 = w * p + s
    OBVIOUS
  <1>3. w * p + s = w * q + r + 1
    BY <1>1, <1>2
  <1>4. CASE s = 0
    BY <1>2, <1>4 DEF EndOf
  <1>5. CASE s # 0
    <2>1. CASE p = q
      BY <1>1, <1>2, <1>5, <2>1 DEF EndOf
    <2>2. CASE p > q
      <3>1. PICK d \in Nat : p = q + 1 + d
        BY <2>2, p - q - 1 \in Nat
      <3>2. w * p = w * q + w + w * d /\ w * d \in Nat
        BY <3>1
      <3>. QED
        BY <1>3, <1>5, <3>2
    <2>3. CASE p < q
      <3>1. PICK d \in Nat : q = p + 1 + d
        BY <2>3, q - p - 1 \in Nat
      <3>2. w * q = w * p + w + w * d /\ w * d \in Nat
        BY <3>1
      <3>. QED
        BY <1>3, <1>5, <3>2
    <2>. QED
      BY <2>1, <2>2, <2>3
  <1>. QED
    BY <1>4, <1>5

(* evictOldest finds a bucket to evict.                                    *)
LEMMA OldestExists ==
  ASSUME NEW S, S # {}, \A b \in S : b.seq \in Nat
  PROVE  Oldest(S) \in S
  <1>1. PICK less : less = OpToRel(<, Nat)
    BY Zenon
  <1>2. IsWellFoundedOn(less, Nat)
    BY <1>1, NatLessThanWellFounded, Zenon
  <1>3. \A m, n \in Nat : m < n => <<m, n>> \in less
    <2>1. less = {p \in Nat \X Nat : p[1] < p[2]}
      BY <1>1, Zenon DEF OpToRel
    <2>. QED
      BY <2>1
  <1>. DEFINE seqs == {b.seq : b \in S}
  <1>4. seqs \subseteq Nat /\ seqs # {}
    OBVIOUS
  <1>. HIDE DEF seqs
  <1>5. PICK n \in seqs : \A m \in seqs : <<m, n>> \notin less
    BY <1>2, <1>4, WFMin
  <1>6. PICK b \in S : b.seq = n
    BY <1>5 DEF seqs
  <1>7. ASSUME NEW c \in S
        PROVE  b.seq <= c.seq
    <2>1. c.seq \in seqs
      BY DEF seqs
    <2>2. <<c.seq, b.seq>> \notin less
      BY <1>5, <1>6, <2>1
    <2>. QED
      BY <1>3, <2>2
  <1>. QED
    BY <1>7 DEF Oldest

-----------------------------------------------------------------------------
(* The buckets of the current windows outlive pruning.                     *)
LEMMA LiveBuckets ==
  ASSUME StoreInv
  PROVE  /\ now \in Nat
         /\ Live \subseteq buckets /\ IsFiniteSet(Live) /\ Cardinality(Live) <= Cardinality(buckets)
         /\ \A b \in Live : b \in Bucket /\ b.seq <= seq
         /\ \A w \in Windows : WindowEnd(w) \in Nat /\ now < WindowEnd(w)
         /\ \A w \in Windows, k \in Keys :
              Of(Live, k, WindowEnd(w)) = Of(buckets, k, WindowEnd(w))
  <1>1. now \in Nat /\ Windows \subseteq Nat \ {0}
    BY LimitAssumption DEF StoreInv, TypeOK
  <1>2. Live \subseteq buckets
    BY DEF Live
  <1>3. \A w \in Windows : WindowEnd(w) \in Nat /\ now < WindowEnd(w)
    BY <1>1, InWindow DEF WindowEnd, EndOf
  <1>4. IsFiniteSet(Live) /\ Cardinality(Live) <= Cardinality(buckets)
    BY <1>2, FS_Subset DEF StoreInv
  <1>5. \A w \in Windows, k \in Keys : Of(Live, k, WindowEnd(w)) = Of(buckets, k, WindowEnd(w))
    <2>. SUFFICES ASSUME NEW w \in Windows, NEW k \in Keys,
                         NEW b \in buckets, b.resetAt = WindowEnd(w)
                  PROVE  b \in Live
      BY <1>2 DEF Of
    <2>. QED
      BY <1>1, <1>3 DEF Live, Expired
  <1>. QED
    BY <1>1, <1>2, <1>3, <1>4, <1>5 DEF StoreInv, TypeOK

(* What is evicted is a live bucket, and only one that makes room.         *)
LEMMA EvictedBuckets ==
  ASSUME StoreInv
  PROVE  /\ Evicted \subseteq Live
         /\ IsFiniteSet(Live \ Evicted)
         /\ Cardinality(Live \ Evicted) + 1 <= AtLeast(1, MaxKeys)
  <1>1. IsFiniteSet(Live) /\ Cardinality(Live) \in Nat /\ Cardinality(Live) <= AtLeast(1, MaxKeys)
    <2>1. Cardinality(buckets) <= AtLeast(1, MaxKeys) /\ Cardinality(buckets) \in Nat
      BY FS_CardinalityType DEF StoreInv, TypeOK
    <2>. QED
      BY <2>1, LiveBuckets, FS_CardinalityType, LimitAssumption DEF AtLeast
  <1>2. CASE Full(Live) /\ Live # {}
    <2>1. \A b \in Live : b.seq \in Nat
      BY LiveBuckets DEF Bucket
    <2>2. Oldest(Live) \in Live
      BY <1>2, <2>1, OldestExists
    <2>3. IsFiniteSet(Live \ {Oldest(Live)})
          /\ Cardinality(Live \ {Oldest(Live)}) = Cardinality(Live) - 1
      BY <1>1, <2>2, FS_RemoveElement
    <2>. QED
      BY <1>1, <1>2, <2>2, <2>3, LimitAssumption DEF Evicted, AtLeast
  <1>3. CASE Live = {}
    BY <1>1, <1>3, FS_EmptySet, LimitAssumption DEF Evicted, AtLeast
  <1>4. CASE ~Full(Live)
    BY <1>1, <1>4, LimitAssumption DEF Evicted, AtLeast, Full
  <1>. QED
    BY <1>2, <1>3, <1>4

-----------------------------------------------------------------------------
(* What a hit does to the store, found or new: b is the bucket that it     *)
(* leaves, and gone what it evicts.                                        *)
Counts(k, w, b, gone) ==
  /\ b \in Bucket /\ b.key = k /\ b.resetAt = WindowEnd(w)
  /\ \/ gone = {} /\ \E old \in Of(buckets, k, WindowEnd(w)) : b.count = old.count + 1
     \/ Of(buckets, k, WindowEnd(w)) = {} /\ b.count = 1
  /\ gone \subseteq Live
  /\ \A j \in Keys, v \in Windows :
       Of(buckets', j, WindowEnd(v)) =
         IF j = k /\ WindowEnd(v) = WindowEnd(w) THEN {b}
         ELSE Of(buckets, j, WindowEnd(v)) \ gone
  /\ buckets' \subseteq buckets \cup {b}
  /\ Answered(k, w, b.count)
  /\ Noted(k, w, b.count, gone)
  /\ now' = now

(* What is answered and noted is of its type.                              *)
LEMMA AnswerTyped ==
  ASSUME StoreInv, NEW k \in Keys, NEW w \in Windows, NEW count \in Nat \ {0}, NEW gone,
         Answered(k, w, count), Noted(k, w, count, gone)
  PROVE  /\ \A a \in answer' : a \in Answer
         /\ seen' \in [Windows -> [Keys -> Seen]]
  <1>1. now \in Nat /\ WindowEnd(w) \in Nat /\ now < WindowEnd(w)
    BY LiveBuckets
  <1>2. Limit \in Nat /\ Second \in Nat \ {0}
    BY LimitAssumption
  <1>3. AtLeast(0, Limit - count) \in Nat
    BY <1>2 DEF AtLeast
  <1>4. AtLeast(1, Seconds(WindowEnd(w) - now)) \in Nat
    <2>1. Seconds(WindowEnd(w) - now) \in Int
      BY <1>1, <1>2 DEF Seconds
    <2>. QED
      BY <2>1 DEF AtLeast
  <1>5. Over(count) \in BOOLEAN
    BY DEF Over
  <1>6. \A a \in answer' : a \in Answer
    BY <1>1, <1>3, <1>4, <1>5 DEF Answered, Answer
  <1>7. \A v \in Windows, j \in Keys : seen[v][j] \in Seen
    BY DEF StoreInv, TypeOK
  <1>8. seen' \in [Windows -> [Keys -> Seen]]
    BY <1>7 DEF Noted, Seen
  <1>. QED
    BY <1>6, <1>8

(* The bucket of the window goes up by one.                                *)
LEMMA AgainCounts ==
  ASSUME StoreInv, NEW k \in Keys, NEW w \in Windows, HitAgain(k, w)
  PROVE  StoreInv' /\ \E b, gone : Counts(k, w, b, gone)
  <1>1. PICK old \in BucketOf(k, w) :
               /\ buckets' = (Live \ {old}) \cup {[old EXCEPT !.count = @ + 1]}
               /\ Answered(k, w, old.count + 1)
               /\ Noted(k, w, old.count + 1, {})
               /\ UNCHANGED <<now, seq>>
    BY DEF HitAgain
  <1>2. old \in Live /\ old \in buckets /\ old \in Bucket /\ old.seq <= seq
        /\ old.key = k /\ old.resetAt = WindowEnd(w) /\ old.resetAt > 0
    BY <1>1, LiveBuckets DEF BucketOf, StoreInv, TypeOK
  <1>3. PICK b : b = [old EXCEPT !.count = @ + 1]
    OBVIOUS
  <1>4. b \in Bucket /\ b.key = k /\ b.resetAt = WindowEnd(w) /\ b.count = old.count + 1
        /\ b.seq = old.seq
    BY <1>2, <1>3 DEF Bucket
  <1>5. \A c \in buckets : c.key = k /\ c.resetAt = WindowEnd(w) => c = old
    BY <1>2 DEF StoreInv, TypeOK
  <1>6. buckets' = (Live \ {old}) \cup {b}
    BY <1>1, <1>3
  <1>7. IsFiniteSet(buckets') /\ Cardinality(buckets') <= AtLeast(1, MaxKeys)
    <2>1. IsFiniteSet(Live) /\ Cardinality(Live) \in Nat /\ Cardinality(buckets) \in Nat
          /\ Cardinality(Live) <= Cardinality(buckets)
      BY LiveBuckets, FS_CardinalityType DEF StoreInv
    <2>2. IsFiniteSet(Live \ {old}) /\ Cardinality(Live \ {old}) = Cardinality(Live) - 1
      BY <1>2, <2>1, FS_RemoveElement
    <2>3. IsFiniteSet(buckets') /\ Cardinality(buckets') <= Cardinality(Live)
      <3>1. PICK rest : rest = Live \ {old}
        OBVIOUS
      <3>2. IsFiniteSet(rest) /\ Cardinality(rest) = Cardinality(Live) - 1
        BY <2>2, <3>1
      <3>3. buckets' = rest \cup {b}
        BY <1>6, <3>1
      <3>4. IsFiniteSet(rest \cup {b})
            /\ Cardinality(rest \cup {b}) = IF b \in rest THEN Cardinality(rest) ELSE Cardinality(rest) + 1
        BY <3>2, FS_AddElement
      <3>. QED
        BY <2>1, <3>2, <3>3, <3>4
    <2>4. Cardinality(buckets') \in Nat
      BY <2>3, FS_CardinalityType
    <2>. QED
      BY <2>1, <2>3, <2>4, LimitAssumption DEF StoreInv, TypeOK, AtLeast
  <1>8. /\ \A c \in buckets' : c \in Bucket /\ c.resetAt > 0 /\ c.seq <= seq
        /\ \A c, d \in buckets' : c.key = d.key /\ c.resetAt = d.resetAt => c = d
    BY <1>2, <1>4, <1>5, <1>6, LiveBuckets DEF StoreInv, TypeOK
  <1>9. \A j \in Keys, v \in Windows :
          Of(buckets', j, WindowEnd(v)) =
            IF j = k /\ WindowEnd(v) = WindowEnd(w) THEN {b} ELSE Of(buckets, j, WindowEnd(v))
    <2>. SUFFICES ASSUME NEW j \in Keys, NEW v \in Windows
                  PROVE  Of(buckets', j, WindowEnd(v)) =
                           IF j = k /\ WindowEnd(v) = WindowEnd(w) THEN {b}
                           ELSE Of(buckets, j, WindowEnd(v))
      OBVIOUS
    <2>1. Of(Live, j, WindowEnd(v)) = Of(buckets, j, WindowEnd(v))
      BY LiveBuckets
    <2>2. CASE j = k /\ WindowEnd(v) = WindowEnd(w)
      BY <1>4, <1>5, <1>6, <2>2, LiveBuckets DEF Of
    <2>3. CASE ~(j = k /\ WindowEnd(v) = WindowEnd(w))
      BY <1>2, <1>4, <1>6, <2>1, <2>3 DEF Of
    <2>. QED
      BY <2>2, <2>3
  <1>10. Counts(k, w, b, {})
    <2>1. old \in Of(buckets, k, WindowEnd(w))
      BY <1>2 DEF Of
    <2>. QED
      BY <1>1, <1>4, <1>6, <1>9, <2>1, LiveBuckets DEF Counts
  <1>11. /\ \A a \in answer' : a \in Answer
         /\ seen' \in [Windows -> [Keys -> Seen]]
    <2>1. old.count + 1 \in Nat \ {0}
      BY <1>2 DEF Bucket
    <2>. QED
      BY <1>1, <2>1, AnswerTyped
  <1>12. StoreInv'
    BY <1>1, <1>7, <1>8, <1>11 DEF StoreInv, TypeOK
  <1>. QED
    BY <1>10, <1>12

(* A new bucket comes, and one may go.                                     *)
LEMMA FirstCounts ==
  ASSUME StoreInv, NEW k \in Keys, NEW w \in Windows, HitFirst(k, w)
  PROVE  StoreInv' /\ \E b, gone : Counts(k, w, b, gone)
  <1>1. PICK b : b = [key |-> k, resetAt |-> WindowEnd(w), count |-> 1, seq |-> seq']
    OBVIOUS
  <1>2. seq \in Nat /\ seq' = seq + 1 /\ now' = now
    BY DEF HitFirst, StoreInv, TypeOK
  <1>3. b \in Bucket /\ b.key = k /\ b.resetAt = WindowEnd(w) /\ b.count = 1 /\ b.seq = seq'
        /\ b.resetAt > 0
    BY <1>1, <1>2, LiveBuckets DEF Bucket
  <1>4. buckets' = (Live \ Evicted) \cup {b} /\ Answered(k, w, 1) /\ Noted(k, w, 1, Evicted)
    BY <1>1 DEF HitFirst
  <1>5. Of(buckets, k, WindowEnd(w)) = {}
    BY LiveBuckets DEF HitFirst, BucketOf, Of
  <1>6. IsFiniteSet(buckets') /\ Cardinality(buckets') <= AtLeast(1, MaxKeys)
    <2>1. IsFiniteSet(Live \ Evicted) /\ Cardinality(Live \ Evicted) \in Nat
          /\ Cardinality(Live \ Evicted) + 1 <= AtLeast(1, MaxKeys)
      BY EvictedBuckets, FS_CardinalityType
    <2>2. IsFiniteSet(buckets') /\ Cardinality(buckets') <= Cardinality(Live \ Evicted) + 1
      <3>1. PICK rest : rest = Live \ Evicted
        OBVIOUS
      <3>2. IsFiniteSet(rest) /\ Cardinality(rest) \in Nat
        BY <2>1, <3>1
      <3>3. buckets' = rest \cup {b}
        BY <1>4, <3>1
      <3>4. IsFiniteSet(rest \cup {b})
            /\ Cardinality(rest \cup {b}) = IF b \in rest THEN Cardinality(rest) ELSE Cardinality(rest) + 1
        BY <3>2, FS_AddElement
      <3>. QED
        BY <3>1, <3>2, <3>3, <3>4
    <2>3. Cardinality(buckets') \in Nat /\ AtLeast(1, MaxKeys) \in Nat
      BY <2>2, FS_CardinalityType, LimitAssumption DEF AtLeast
    <2>. QED
      BY <2>1, <2>2, <2>3
  <1>7. \A c \in buckets' : c = b \/ c \in buckets
    BY <1>4, LiveBuckets
  <1>8. \A c \in buckets : ~(c.key = k /\ c.resetAt = WindowEnd(w))
    BY <1>5 DEF Of
  <1>9. \A c \in buckets' : c \in Bucket /\ c.resetAt > 0 /\ c.seq <= seq'
    <2>1. \A c \in buckets : c \in Bucket /\ c.resetAt > 0 /\ c.seq <= seq /\ c.seq \in Nat
      BY DEF StoreInv, TypeOK, Bucket
    <2>. QED
      BY <1>2, <1>3, <1>7, <2>1
  <1>10. \A c, d \in buckets' : c.key = d.key /\ c.resetAt = d.resetAt => c = d
    BY <1>3, <1>7, <1>8 DEF StoreInv, TypeOK
  <1>11. \A j \in Keys, v \in Windows :
           Of(buckets', j, WindowEnd(v)) =
             IF j = k /\ WindowEnd(v) = WindowEnd(w) THEN {b}
             ELSE Of(buckets, j, WindowEnd(v)) \ Evicted
    <2>. SUFFICES ASSUME NEW j \in Keys, NEW v \in Windows
                  PROVE  Of(buckets', j, WindowEnd(v)) =
                           IF j = k /\ WindowEnd(v) = WindowEnd(w) THEN {b}
                           ELSE Of(buckets, j, WindowEnd(v)) \ Evicted
      OBVIOUS
    <2>1. Of(Live, j, WindowEnd(v)) = Of(buckets, j, WindowEnd(v))
      BY LiveBuckets
    <2>2. CASE j = k /\ WindowEnd(v) = WindowEnd(w)
      BY <1>3, <1>4, <1>8, <2>2, LiveBuckets DEF Of
    <2>3. CASE ~(j = k /\ WindowEnd(v) = WindowEnd(w))
      BY <1>3, <1>4, <2>1, <2>3 DEF Of
    <2>. QED
      BY <2>2, <2>3
  <1>12. Counts(k, w, b, Evicted)
    BY <1>2, <1>3, <1>4, <1>5, <1>7, <1>11, EvictedBuckets DEF Counts
  <1>13. /\ \A a \in answer' : a \in Answer
         /\ seen' \in [Windows -> [Keys -> Seen]]
    BY <1>4, AnswerTyped
  <1>14. StoreInv'
    BY <1>2, <1>6, <1>9, <1>10, <1>13 DEF StoreInv, TypeOK
  <1>. QED
    BY <1>12, <1>14

-----------------------------------------------------------------------------
(* What a hit notes of window v and key j.                                 *)
LEMMA Noticed ==
  ASSUME StoreInv, NEW k \in Keys, NEW w \in Windows, NEW b, NEW gone, Counts(k, w, b, gone),
         NEW v \in Windows, NEW j \in Keys
  PROVE  /\ seen[v][j] \in Seen /\ WindowEnd(v)' = WindowEnd(v)
         /\ seen'[v][j].hits = seen[v][j].hits + (IF j = k /\ v = w THEN 1 ELSE 0)
         /\ seen'[v][j].admitted =
              seen[v][j].admitted + (IF j = k /\ v = w /\ ~Over(b.count) THEN 1 ELSE 0)
         /\ seen'[v][j].evictions =
              seen[v][j].evictions + (IF gone \cap Of(buckets, j, WindowEnd(v)) # {} THEN 1 ELSE 0)
         /\ j = k /\ WindowEnd(v) = WindowEnd(w) => gone \cap Of(buckets, j, WindowEnd(v)) = {}
  <1>1. seen[v][j] \in Seen
    BY DEF StoreInv, TypeOK
  <1>2. WindowEnd(v)' = WindowEnd(v)
    BY DEF Counts, WindowEnd
  <1>3. (\E c \in gone : c.key = j /\ c.resetAt = WindowEnd(v))
          <=> gone \cap Of(buckets, j, WindowEnd(v)) # {}
    BY LiveBuckets DEF Counts, Of
  <1>4. seen'[v][j] =
          [hits      |-> IF j = k /\ v = w THEN seen[v][j].hits + 1 ELSE seen[v][j].hits,
           admitted  |-> IF j = k /\ v = w /\ ~Over(b.count)
                           THEN seen[v][j].admitted + 1 ELSE seen[v][j].admitted,
           evictions |-> IF \E c \in gone : c.key = j /\ c.resetAt = WindowEnd(v)
                           THEN seen[v][j].evictions + 1 ELSE seen[v][j].evictions]
    BY DEF Counts, Noted
  <1>5. j = k /\ WindowEnd(v) = WindowEnd(w) => gone \cap Of(buckets, j, WindowEnd(v)) = {}
    BY DEF Counts
  <1>. QED
    BY <1>1, <1>2, <1>3, <1>4, <1>5 DEF Seen

(* A hit admits no more than its bucket has room for.                      *)
LEMMA HitCountInv ==
  ASSUME IInv, NEW k \in Keys, NEW w \in Windows, NEW b, NEW gone, Counts(k, w, b, gone)
  PROVE  CountInv'
  <1>. SUFFICES ASSUME NEW v \in Windows, NEW j \in Keys
                PROVE  /\ \A c \in Of(buckets', j, WindowEnd(v)) :
                            seen'[v][j].admitted
                              <= Limit * seen'[v][j].evictions + UpToLimit(c.count)
                       /\ Of(buckets', j, WindowEnd(v)) = {} =>
                            seen'[v][j].admitted <= Limit * seen'[v][j].evictions
    BY DEF CountInv, Counts, WindowEnd
  <1>1. PICK s : s = seen[v][j]
    OBVIOUS
  <1>2. PICK t : t = seen'[v][j]
    OBVIOUS
  <1>3. s.admitted \in Nat /\ s.evictions \in Nat /\ Limit \in Nat \ {0}
    BY <1>1, Noticed, LimitAssumption DEF Seen, IInv
  <1>4. PICK past \in Nat : past = Limit * s.evictions /\ past + Limit = Limit * (s.evictions + 1)
    BY <1>3
  <1>5. \A c \in buckets : c.count \in Nat \ {0}
    BY DEF IInv, StoreInv, TypeOK, Bucket
  <1>6. CASE j = k /\ WindowEnd(v) = WindowEnd(w)
    <2>1. Of(buckets', j, WindowEnd(v)) = {b} /\ b.count \in Nat \ {0}
      BY <1>6 DEF Counts, Bucket
    <2>2. t.evictions = s.evictions
      BY <1>1, <1>2, <1>3, <1>6, Noticed DEF IInv
    <2>3. t.admitted <= s.admitted + (IF ~Over(b.count) THEN 1 ELSE 0)
      BY <1>1, <1>2, <1>3, Noticed DEF IInv
    <2>4. t.admitted <= past + UpToLimit(b.count)
      <3>0. t.admitted \in Int
        BY <1>1, <1>2, <1>3, Noticed DEF IInv
      <3>1. ASSUME NEW old \in Of(buckets, k, WindowEnd(w)), b.count = old.count + 1
            PROVE  t.admitted <= past + UpToLimit(b.count)
        <4>1. s.admitted <= past + UpToLimit(old.count)
          BY <1>1, <1>4, <1>6 DEF IInv, CountInv
        <4>2. old.count \in Nat \ {0}
          BY <1>5 DEF Of
        <4>. QED
          BY <1>3, <2>3, <3>0, <3>1, <4>1, <4>2 DEF UpToLimit, Over
      <3>2. CASE Of(buckets, k, WindowEnd(w)) = {} /\ b.count = 1
        <4>1. s.admitted <= past
          BY <1>1, <1>4, <1>6, <3>2 DEF IInv, CountInv
        <4>. QED
          BY <1>3, <2>3, <3>0, <3>2, <4>1 DEF UpToLimit, Over
      <3>. QED
        BY <3>1, <3>2 DEF Counts
    <2>. QED
      BY <1>2, <1>4, <2>1, <2>2, <2>4
  <1>7. CASE ~(j = k /\ WindowEnd(v) = WindowEnd(w))
    <2>1. Of(buckets', j, WindowEnd(v)) = Of(buckets, j, WindowEnd(v)) \ gone
      BY <1>7 DEF Counts
    <2>2. t.admitted = s.admitted
      BY <1>1, <1>2, <1>3, <1>7, Noticed DEF IInv
    <2>3. CASE gone \cap Of(buckets, j, WindowEnd(v)) = {}
      <3>1. t.evictions = s.evictions
        BY <1>1, <1>2, <1>3, <2>3, Noticed DEF IInv
      <3>2. Of(buckets', j, WindowEnd(v)) = Of(buckets, j, WindowEnd(v))
        BY <2>1, <2>3
      <3>. QED
        BY <1>1, <1>2, <2>2, <3>1, <3>2 DEF IInv, CountInv
    <2>4. ASSUME NEW c \in gone \cap Of(buckets, j, WindowEnd(v))
          PROVE  /\ \A d \in Of(buckets', j, WindowEnd(v)) :
                      t.admitted <= Limit * t.evictions + UpToLimit(d.count)
                 /\ t.admitted <= Limit * t.evictions
      <3>1. t.evictions = s.evictions + 1
        BY <1>1, <1>2, <1>3, <2>4, Noticed DEF IInv
      <3>2. s.admitted <= past + UpToLimit(c.count)
        BY <1>1, <1>4 DEF IInv, CountInv
      <3>3. t.admitted <= past + Limit
        BY <1>3, <1>5, <2>2, <3>2 DEF UpToLimit, Of
      <3>4. \A d \in Of(buckets', j, WindowEnd(v)) : UpToLimit(d.count) \in Nat
        BY <1>3, <1>5, <2>1 DEF UpToLimit, Of
      <3>. QED
        BY <1>3, <1>4, <2>2, <3>1, <3>3, <3>4
    <2>. QED
      BY <1>2, <2>3, <2>4
  <1>. QED
    BY <1>6, <1>7

(* A tick stays in a window or begins one that has admitted nothing.       *)
LEMMA TickIInv ==
  ASSUME IInv, Tick
  PROVE  IInv'
  <1>1. now \in Nat /\ now' = now + 1 /\ now' \in 0 .. MaxTime /\ buckets' = buckets
    BY LimitAssumption DEF Tick, IInv, StoreInv, TypeOK
  <1>2. StoreInv'
    <2>1. seen' \in [Windows -> [Keys -> Seen]]
      BY DEF Tick, IInv, StoreInv, TypeOK, Unseen, Seen
    <2>. QED
      BY <1>1, <2>1 DEF Tick, IInv, StoreInv, TypeOK
  <1>3. ASSUME NEW v \in Windows, NEW j \in Keys
        PROVE  /\ \A c \in Of(buckets', j, EndOf(now', v)) :
                    seen'[v][j].admitted
                      <= Limit * seen'[v][j].evictions + UpToLimit(c.count)
               /\ Of(buckets', j, EndOf(now', v)) = {} =>
                    seen'[v][j].admitted <= Limit * seen'[v][j].evictions
    <2>1. v \in Nat \ {0} /\ Limit \in Nat \ {0}
      BY LimitAssumption
    <2>2. CASE now' % v = 0
      <3>1. seen'[v][j] = Unseen
        BY <2>2 DEF Tick
      <3>2. \A c \in Of(buckets', j, EndOf(now', v)) : UpToLimit(c.count) \in Nat
        BY <1>1, <2>1 DEF Of, UpToLimit, IInv, StoreInv, TypeOK, Bucket
      <3>. QED
        BY <2>1, <3>1, <3>2 DEF Unseen
    <2>3. CASE now' % v # 0
      <3>1. seen'[v][j] = seen[v][j]
        BY <2>3 DEF Tick
      <3>2. EndOf(now', v) = WindowEnd(v)
        BY <1>1, <2>1, <2>3, NextWindow DEF EndOf, WindowEnd
      <3>. QED
        BY <1>1, <3>1, <3>2 DEF IInv, CountInv
    <2>. QED
      BY <2>2, <2>3
  <1>4. CountInv'
    BY <1>3 DEF CountInv, EndOf, WindowEnd
  <1>. QED
    BY <1>2, <1>4 DEF IInv

(* Nothing has been counted yet.                                           *)
LEMMA InitIInv == Init => IInv
  <1>. SUFFICES ASSUME Init PROVE IInv
    OBVIOUS
  <1>1. IsFiniteSet(buckets) /\ Cardinality(buckets) = 0 /\ buckets = {}
    BY FS_EmptySet DEF Init
  <1>2. seen \in [Windows -> [Keys -> Seen]]
    BY DEF Init, Unseen, Seen
  <1>3. CountInv
    BY <1>1, LimitAssumption DEF CountInv, Of, Init, Unseen
  <1>. QED
    BY <1>1, <1>2, <1>3, LimitAssumption DEF IInv, StoreInv, TypeOK, Init, AtLeast

(* The inductive invariant holds in every reachable state.                 *)
THEOREM Invariance == Spec => []IInv
  <1>1. ASSUME IInv, [Next]_vars
        PROVE  IInv'
    <2>1. ASSUME NEW k \in Keys, NEW w \in Windows, Hit(k, w)
          PROVE  IInv'
      <3>1. StoreInv' /\ \E b, gone : Counts(k, w, b, gone)
        BY <1>1, <2>1, AgainCounts, FirstCounts DEF Hit, IInv
      <3>2. CountInv'
        BY <1>1, <3>1, HitCountInv
      <3>. QED
        BY <3>1, <3>2 DEF IInv
    <2>2. CASE UNCHANGED vars
      BY <1>1, <2>2 DEF vars, IInv, StoreInv, CountInv, TypeOK, WindowEnd
    <2>. QED
      BY <1>1, <2>1, <2>2, TickIInv DEF Next
  <1>. QED
    BY <1>1, InitIInv, PTL DEF Spec

(* The store holds buckets of its kind, at most one for a key and a window *)
(* end and never more than it has room for.                                *)
THEOREM TypeCorrect == Spec => []TypeOK
  <1>1. IInv => TypeOK
    BY DEF IInv, StoreInv
  <1>. QED
    BY <1>1, Invariance, PTL

(* A window admits `limit` requests of a key, and as many again for each   *)
(* bucket of the key that is evicted in it.                                *)
THEOREM AdmissionsBounded == Spec => []WithinLimit
  <1>1. ASSUME IInv
        PROVE  WithinLimit
    <2>. SUFFICES ASSUME NEW w \in Windows, NEW k \in Keys
                  PROVE  seen[w][k].admitted <= Limit * (1 + seen[w][k].evictions)
      BY DEF WithinLimit
    <2>1. seen[w][k].admitted \in Nat /\ seen[w][k].evictions \in Nat /\ Limit \in Nat
      BY <1>1, LimitAssumption DEF IInv, StoreInv, TypeOK, Seen
    <2>2. Limit * (1 + seen[w][k].evictions) = Limit * seen[w][k].evictions + Limit
      BY <2>1
    <2>3. Limit * seen[w][k].evictions \in Nat
      BY <2>1
    <2>4. \A b \in Of(buckets, k, WindowEnd(w)) : UpToLimit(b.count) <= Limit
      BY <1>1, <2>1 DEF Of, UpToLimit, IInv, StoreInv, TypeOK, Bucket
    <2>5. \A b \in Of(buckets, k, WindowEnd(w)) : UpToLimit(b.count) \in Int
      BY <1>1, <2>1 DEF Of, UpToLimit, IInv, StoreInv, TypeOK, Bucket
    <2>. QED
      BY <1>1, <2>1, <2>2, <2>3, <2>4, <2>5 DEF IInv, CountInv
  <1>. QED
    BY <1>1, Invariance, PTL

-----------------------------------------------------------------------------
(* With windows of one length, a bucket only counts requests of the window *)
(* it is read for, and what was refused was refused for the limit.         *)
OneLength == \A v, w \in Windows : v = w

ExactInv ==
  /\ \A w \in Windows, k \in Keys :
       /\ seen[w][k].hits > seen[w][k].admitted => seen[w][k].admitted >= Limit
       /\ \A b \in Of(buckets, k, WindowEnd(w)) : seen[w][k].admitted >= UpToLimit(b.count)
  /\ \A w \in Windows : \A b \in buckets : b.resetAt <= WindowEnd(w)

AnswerInv ==
  \A a \in answer :
    /\ a.at + a.retryAfter * Second >= a.resetAt
    /\ now < a.resetAt =>
         /\ a.resetAt = WindowEnd(a.window)
         /\ a.remaining = AtLeast(0, Limit - a.count)
         /\ \E b \in Of(buckets, a.key, a.resetAt) : b.count = a.count

ExactIInv == IInv /\ ExactInv /\ AnswerInv

(* Math.ceil does not round a wait down.                                   *)
LEMMA SecondsCover ==
  ASSUME NEW t \in Nat
  PROVE  Seconds(t) \in Nat /\ Seconds(t) * Second >= t
  <1>1. Second \in Nat \ {0}
    BY LimitAssumption
  <1>2. t + Second - 1 \in Nat
    BY <1>1
  <1>3. PICK q \in Nat, r \in 0 .. Second - 1 :
               q = (t + Second - 1) \div Second /\ t + Second - 1 = Second * q + r
    BY <1>1, <1>2
  <1>4. Seconds(t) = q
    BY <1>3 DEF Seconds
  <1>5. Second * q = q * Second /\ Second * q \in Nat
    BY <1>1
  <1>. QED
    BY <1>1, <1>3, <1>4, <1>5

(* A hit is refused for the limit, and answers what its window still has.  *)
LEMMA HitExactInv ==
  ASSUME ExactIInv, StoreInv', OneLength,
         NEW k \in Keys, NEW w \in Windows, NEW b, NEW gone, Counts(k, w, b, gone)
  PROVE  ExactInv' /\ AnswerInv'
  <1>1. StoreInv /\ CountInv /\ b.count \in Nat \ {0} /\ Limit \in Nat \ {0}
    BY LimitAssumption DEF ExactIInv, IInv, Counts, Bucket
  <1>2. ASSUME NEW v \in Windows, NEW j \in Keys
        PROVE  /\ seen'[v][j].hits > seen'[v][j].admitted => seen'[v][j].admitted >= Limit
               /\ \A c \in Of(buckets', j, WindowEnd(v)) : seen'[v][j].admitted >= UpToLimit(c.count)
    <2>1. PICK s, t : s = seen[v][j] /\ t = seen'[v][j]
      OBVIOUS
    <2>2. s.hits \in Nat /\ s.admitted \in Nat /\ t.hits \in Nat /\ t.admitted \in Nat
      BY <1>1, <2>1 DEF StoreInv, TypeOK, Seen
    <2>3. /\ s.hits > s.admitted => s.admitted >= Limit
          /\ \A c \in Of(buckets, j, WindowEnd(v)) : s.admitted >= UpToLimit(c.count)
      BY <2>1 DEF ExactIInv, ExactInv
    <2>4. v = w
      BY DEF OneLength
    <2>5. CASE j = k
      <3>1. Of(buckets', j, WindowEnd(v)) = {b}
        BY <2>4, <2>5 DEF Counts
      <3>2. t.hits = s.hits + 1 /\ t.admitted = s.admitted + (IF ~Over(b.count) THEN 1 ELSE 0)
        BY <1>1, <2>1, <2>4, <2>5, Noticed
      <3>3. s.admitted >= UpToLimit(b.count - 1)
        <4>1. ASSUME NEW old \in Of(buckets, k, WindowEnd(w)), b.count = old.count + 1
              PROVE  s.admitted >= UpToLimit(b.count - 1)
          <5>1. s.admitted >= UpToLimit(old.count)
            BY <2>3, <2>4, <2>5
          <5>2. old.count = b.count - 1
            BY <1>1, <4>1 DEF Of, StoreInv, TypeOK, Bucket
          <5>. QED
            BY <5>1, <5>2
        <4>2. CASE b.count = 1
          BY <1>1, <2>2, <4>2 DEF UpToLimit
        <4>. QED
          BY <4>1, <4>2 DEF Counts
      <3>4. t.admitted >= UpToLimit(b.count)
        BY <1>1, <2>2, <3>2, <3>3 DEF UpToLimit, Over
      <3>5. t.hits > t.admitted => t.admitted >= Limit
        BY <1>1, <2>2, <2>3, <3>2, <3>3 DEF UpToLimit, Over
      <3>. QED
        BY <2>1, <3>1, <3>4, <3>5
    <2>6. CASE j # k
      <3>1. t.hits = s.hits /\ t.admitted = s.admitted
        BY <1>1, <2>1, <2>2, <2>6, Noticed
      <3>2. Of(buckets', j, WindowEnd(v)) \subseteq Of(buckets, j, WindowEnd(v))
        BY <2>6 DEF Counts
      <3>. QED
        BY <2>1, <2>3, <3>1, <3>2
    <2>. QED
      BY <2>5, <2>6
  <1>3. ASSUME NEW v \in Windows, NEW c \in buckets'
        PROVE  c.resetAt <= WindowEnd(v)
    <2>1. WindowEnd(v) \in Nat /\ WindowEnd(v) = WindowEnd(w)
      BY <1>1, LiveBuckets DEF OneLength
    <2>. QED
      BY <2>1 DEF Counts, ExactIInv, ExactInv
  <1>4. ExactInv'
    BY <1>2, <1>3 DEF ExactInv, Counts, WindowEnd
  <1>5. AnswerInv'
    <2>1. PICK a : answer' = {a} /\ a.key = k /\ a.window = w /\ a.count = b.count
                   /\ a.remaining = AtLeast(0, Limit - a.count) /\ a.resetAt = WindowEnd(w)
                   /\ a.at = now /\ a.retryAfter = AtLeast(1, Seconds(WindowEnd(w) - now))
      <3>1. PICK a : a = [key        |-> k,
                          window     |-> w,
                          count      |-> b.count,
                          limited    |-> Over(b.count),
                          remaining  |-> AtLeast(0, Limit - b.count),
                          resetAt    |-> WindowEnd(w),
                          at         |-> now,
                          retryAfter |-> AtLeast(1, Seconds(WindowEnd(w) - now))]
        OBVIOUS
      <3>2. answer' = {a}
        BY <3>1, Zenon DEF Counts, Answered
      <3>. QED
        BY <3>1, <3>2
    <2>2. now \in Nat /\ WindowEnd(w) \in Nat /\ now < WindowEnd(w)
      BY <1>1, LiveBuckets
    <2>3. now + a.retryAfter * Second >= WindowEnd(w)
      <3>1. PICK t \in Nat : t = WindowEnd(w) - now
        BY <2>2
      <3>2. PICK q \in Nat : q = Seconds(t) /\ q * Second >= t
        BY SecondsCover
      <3>3. Second \in Nat \ {0} /\ q * Second \in Nat
        BY <3>2, LimitAssumption
      <3>4. a.retryAfter = AtLeast(1, q)
        BY <2>1, <3>1, <3>2
      <3>5. CASE q > 1
        BY <2>2, <3>1, <3>2, <3>3, <3>4, <3>5 DEF AtLeast
      <3>6. CASE ~(q > 1)
        <4>1. q = 0 \/ q = 1
          BY <3>2, <3>6
        <4>2. t <= Second
          BY <3>1, <3>2, <3>3, <4>1
        <4>. QED
          BY <2>2, <3>1, <3>3, <3>4, <3>6, <4>2 DEF AtLeast
      <3>. QED
        BY <3>5, <3>6
    <2>4. b \in Of(buckets', k, WindowEnd(w))
      BY DEF Counts
    <2>5. WindowEnd(w)' = WindowEnd(w)
      BY DEF Counts, WindowEnd
    <2>. QED
      BY <2>1, <2>3, <2>4, <2>5 DEF AnswerInv
  <1>. QED
    BY <1>4, <1>5

(* A new window has no buckets and no answers of its own yet.              *)
LEMMA TickExactInv ==
  ASSUME ExactIInv, OneLength, Tick
  PROVE  ExactInv' /\ AnswerInv'
  <1>1. /\ now \in Nat /\ now' = now + 1 /\ buckets' = buckets /\ answer' = answer
        /\ \A b \in buckets : b.resetAt \in Nat /\ b.count \in Nat
        /\ \A a \in answer : a.resetAt \in Nat /\ a.window \in Windows
    BY LimitAssumption DEF Tick, ExactIInv, IInv, StoreInv, TypeOK, Bucket, Answer
  <1>2. ASSUME NEW v \in Windows
        PROVE  /\ v \in Nat \ {0}
               /\ EndOf(now, v) \in Nat /\ EndOf(now', v) \in Nat
               /\ now' % v # 0 => EndOf(now', v) = EndOf(now, v)
               /\ now' % v = 0 => EndOf(now', v) > EndOf(now, v) /\ EndOf(now, v) <= now'
    <2>1. v \in Nat \ {0} /\ now' \in Nat
      BY <1>1, LimitAssumption
    <2>2. /\ EndOf(now, v) \in Nat /\ EndOf(now', v) \in Nat
          /\ EndOf(now, v) <= now + v /\ now < EndOf(now, v)
      BY <1>1, <2>1, InWindow
    <2>3. /\ now' % v # 0 => EndOf(now', v) = EndOf(now, v)
          /\ now' % v = 0 => EndOf(now', v) = now + 1 + v
      BY <1>1, <2>1, NextWindow
    <2>4. now' % v = 0 => EndOf(now, v) <= now'
      <3>. SUFFICES ASSUME now' % v = 0 PROVE EndOf(now, v) <= now + 1
        BY <1>1
      <3>1. PICK p \in Nat : p = now' \div v /\ now + 1 = v * p
        BY <1>1, <2>1
      <3>2. PICK q \in Nat, r \in 0 .. v - 1 : q = now \div v /\ r = now % v /\ now = v * q + r
        BY <1>1, <2>1
      <3>3. v * p = v * q + r + 1
        BY <3>1, <3>2
      <3>4. p >= q + 1
        <4>1. ASSUME p <= q PROVE FALSE
          <5>1. PICK d \in Nat : q = p + d
            BY <4>1, q - p \in Nat
          <5>2. v * q = v * p + v * d /\ v * d \in Nat /\ v * p \in Nat
            BY <2>1, <5>1
          <5>. QED
            BY <2>1, <3>2, <3>3, <5>2
        <4>. QED
          BY <4>1
      <3>5. v * p >= v * q + v
        <4>1. PICK d \in Nat : p = q + 1 + d
          BY <3>4, p - q - 1 \in Nat
        <4>2. v * p = v * q + v + v * d /\ v * d \in Nat /\ v * q \in Nat
          BY <2>1, <4>1
        <4>. QED
          BY <2>1, <4>2
      <3>. QED
        BY <2>1, <3>1, <3>2, <3>5 DEF EndOf
    <2>. QED
      BY <1>1, <2>1, <2>2, <2>3, <2>4
  <1>3. \A v \in Windows : \A b \in buckets : b.resetAt <= EndOf(now, v)
    BY DEF ExactIInv, ExactInv, WindowEnd, EndOf
  <1>4. ASSUME NEW v \in Windows, NEW j \in Keys
        PROVE  /\ seen'[v][j].hits > seen'[v][j].admitted => seen'[v][j].admitted >= Limit
               /\ \A b \in Of(buckets, j, EndOf(now', v)) : seen'[v][j].admitted >= UpToLimit(b.count)
    <2>1. CASE now' % v = 0
      <3>1. seen'[v][j] = Unseen
        BY <2>1 DEF Tick
      <3>2. Of(buckets, j, EndOf(now', v)) = {}
        BY <1>1, <1>2, <1>3, <2>1 DEF Of
      <3>. QED
        BY <3>1, <3>2 DEF Unseen
    <2>2. CASE now' % v # 0
      <3>1. seen'[v][j] = seen[v][j] /\ EndOf(now', v) = WindowEnd(v)
        BY <1>2, <2>2 DEF Tick, EndOf, WindowEnd
      <3>. QED
        BY <3>1 DEF ExactIInv, ExactInv
    <2>. QED
      BY <2>1, <2>2
  <1>5. ASSUME NEW v \in Windows, NEW b \in buckets
        PROVE  b.resetAt <= EndOf(now', v)
    BY <1>1, <1>2, <1>3
  <1>6. ExactInv'
    BY <1>1, <1>4, <1>5 DEF ExactInv, EndOf, WindowEnd
  <1>7. AnswerInv'
    <2>. SUFFICES ASSUME NEW a \in answer, now' < a.resetAt
                  PROVE  /\ a.resetAt = EndOf(now', a.window)
                         /\ a.remaining = AtLeast(0, Limit - a.count)
                         /\ \E b \in Of(buckets, a.key, a.resetAt) : b.count = a.count
      BY <1>1 DEF AnswerInv, ExactIInv, WindowEnd, EndOf
    <2>1. now < a.resetAt
      BY <1>1
    <2>2. /\ a.resetAt = EndOf(now, a.window)
          /\ a.remaining = AtLeast(0, Limit - a.count)
          /\ \E b \in Of(buckets, a.key, a.resetAt) : b.count = a.count
      BY <2>1 DEF ExactIInv, AnswerInv, WindowEnd, EndOf
    <2>3. now' % a.window # 0
      BY <1>1, <1>2, <2>2
    <2>. QED
      BY <1>1, <1>2, <2>2, <2>3
  <1>. QED
    BY <1>6, <1>7

(* With windows of one length, the stronger invariant holds.               *)
LEMMA ExactInvariance == OneLength => (Spec => []ExactIInv)
  <1>. SUFFICES ASSUME OneLength
                PROVE  Spec => []ExactIInv
    OBVIOUS
  <1>1. Init => ExactInv /\ AnswerInv
    BY DEF Init, ExactInv, AnswerInv, Of, Unseen
  <1>2. ASSUME ExactIInv, IInv', [Next]_vars
        PROVE  ExactIInv'
    <2>1. ASSUME NEW k \in Keys, NEW w \in Windows, Hit(k, w)
          PROVE  ExactInv' /\ AnswerInv'
      <3>1. StoreInv' /\ \E b, gone : Counts(k, w, b, gone)
        BY <1>2, <2>1, AgainCounts, FirstCounts DEF Hit, IInv, ExactIInv
      <3>. QED
        BY <1>2, <3>1, HitExactInv
    <2>2. CASE UNCHANGED vars
      BY <1>2, <2>2 DEF vars, ExactIInv, ExactInv, AnswerInv, WindowEnd
    <2>. QED
      BY <1>2, <2>1, <2>2, TickExactInv DEF Next, ExactIInv
  <1>. QED
    BY <1>1, <1>2, InitIInv, Invariance, PTL DEF Spec, ExactIInv

(* With windows of one length on a store, a request is only refused when   *)
(* its window has admitted all that it may: the limit is kept exactly.     *)
THEOREM LimitsExact == OneLength => (Spec => []LimitExact)
  <1>. SUFFICES ASSUME OneLength
                PROVE  Spec => []LimitExact
    OBVIOUS
  <1>1. ExactIInv => RefusalsJustified
    BY DEF ExactIInv, ExactInv, RefusalsJustified
  <1>. QED
    BY <1>1, ExactInvariance, AdmissionsBounded, PTL DEF LimitExact

(* With windows of one length on a store, RateLimit-Remaining and          *)
(* Retry-After tell the truth.                                             *)
THEOREM HeadersTrue == OneLength => (Spec => []HeadersTruthful)
  <1>. SUFFICES ASSUME OneLength
                PROVE  Spec => []HeadersTruthful
    OBVIOUS
  <1>1. ASSUME ExactIInv
        PROVE  HeadersTruthful
    <2>. SUFFICES ASSUME NEW a \in answer, now < a.resetAt,
                         seen[a.window][a.key].evictions = 0
                  PROVE  seen[a.window][a.key].admitted + a.remaining = Limit
      BY <1>1 DEF HeadersTruthful, ExactIInv, AnswerInv
    <2>1. PICK s : s = seen[a.window][a.key]
      OBVIOUS
    <2>2. a.window \in Windows /\ a.key \in Keys /\ s \in Seen /\ a.count \in Nat \ {0}
      BY <1>1, <2>1 DEF ExactIInv, IInv, StoreInv, TypeOK, Answer
    <2>3. PICK b \in Of(buckets, a.key, WindowEnd(a.window)) : b.count = a.count
      BY <1>1 DEF ExactIInv, AnswerInv
    <2>4. s.admitted <= Limit * s.evictions + UpToLimit(b.count) /\ s.admitted >= UpToLimit(b.count)
      BY <1>1, <2>1, <2>2, <2>3 DEF ExactIInv, ExactInv, IInv, CountInv
    <2>5. s.admitted \in Nat /\ s.evictions = 0 /\ Limit \in Nat \ {0}
      BY <2>1, <2>2, LimitAssumption DEF Seen
    <2>6. s.admitted = UpToLimit(a.count)
      BY <2>2, <2>3, <2>4, <2>5 DEF UpToLimit
    <2>7. a.remaining = AtLeast(0, Limit - a.count)
      BY <1>1 DEF ExactIInv, AnswerInv
    <2>. QED
      BY <2>1, <2>2, <2>5, <2>6, <2>7 DEF UpToLimit, AtLeast
  <1>. QED
    BY <1>1, ExactInvariance, PTL

=============================================================================
