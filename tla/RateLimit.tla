----------------------------- MODULE RateLimit -----------------------------
(***************************************************************************)
(* The fixed-window rate limit: the rateLimit middleware                   *)
(* (packages/ratelimit/lib/rate-limit.ts) over the in-memory store         *)
(* (packages/ratelimit/lib/store.ts).                                      *)
(*                                                                         *)
(* hit() is synchronous and the middleware decides on what it returns      *)
(* alone, so a request is one step.  `Windows` are the window lengths of   *)
(* the middlewares that use the store; time is in ticks, `Second` ticks    *)
(* to a second.  Requests that are skipped (OPTIONS, a null or unsafe key) *)
(* do not reach the store.                                                 *)
(***************************************************************************)
EXTENDS Integers, FiniteSets

CONSTANTS
  Keys,
  Limit,      \* options.limit
  Windows,    \* options.windowMs of each middleware on this store
  MaxKeys,    \* options.maxKeys of the store
  Second,     \* ticks in 1000 ms
  MaxTime,    \* bound on the clock
  MaxHits     \* bound on the hits of one key in one window

ASSUME LimitAssumption ==
  /\ IsFiniteSet(Keys)
  /\ IsFiniteSet(Windows) /\ Windows \subseteq Nat \ {0}
  /\ Limit \in Nat \ {0}
  /\ MaxKeys \in Nat
  /\ Second \in Nat \ {0}
  /\ MaxTime \in Nat \ {0}
  /\ MaxHits \in Nat

VARIABLES
  now,       \* the clock, which never goes back
  buckets,   \* the store's Map, keyed by key and resetAt
  seq,       \* the last bucket's sequence number
  answer,    \* what the last request was told, if any
  seen       \* ghost: what became of each key in the current window

vars == <<now, buckets, seq, answer, seen>>

Bucket == [key : Keys, resetAt : Nat, count : Nat \ {0}, seq : Nat \ {0}]

Answer == [key : Keys, window : Windows, count : Nat \ {0}, limited : BOOLEAN,
           remaining : Nat, resetAt : Nat, at : Nat, retryAfter : Nat]

(* Hits and admissions of the current window, and how often a bucket of it *)
(* was evicted.                                                            *)
Seen == [hits : Nat, admitted : Nat, evictions : Nat]
Unseen == [hits |-> 0, admitted |-> 0, evictions |-> 0]

Init ==
  /\ now \in 0 .. 1
  /\ buckets = {}
  /\ seq = 0
  /\ answer = {}
  /\ seen = [w \in Windows |-> [k \in Keys |-> Unseen]]

-----------------------------------------------------------------------------
(* The conditions and the arithmetic of the code, some after the form a    *)
(* mistake might give it.                                                  *)

Bug_PruneEarly(b) == b.resetAt <= now + 1
Expired(b) == b.resetAt <= now

Bug_WindowStart(w) == (now \div w) * w
WindowEnd(w) == (now \div w) * w + w

Full(S) == Cardinality(S) >= MaxKeys

Over(count) == count > Limit

AtLeast(low, n) == IF n > low THEN n ELSE low

(* Math.ceil((resetAt - now) / 1000)                                       *)
Bug_Floor(t) == t \div Second
Seconds(t) == (t + Second - 1) \div Second

Live == {b \in buckets : ~Expired(b)}
Oldest(S) == CHOOSE b \in S : \A c \in S : b.seq <= c.seq

(* evictOldest, until there is room: the Map is never more than full, so   *)
(* one bucket at most has to go.                                           *)
Evicted == IF Full(Live) /\ Live # {} THEN {Oldest(Live)} ELSE {}

BucketOf(k, w) == {b \in Live : b.key = k /\ b.resetAt = WindowEnd(w)}

(* The middleware on the count that hit() returned: the headers, and next  *)
(* or 429.                                                                 *)
Answered(k, w, count) ==
  answer' = {[key        |-> k,
              window     |-> w,
              count      |-> count,
              limited    |-> Over(count),
              remaining  |-> AtLeast(0, Limit - count),
              resetAt    |-> WindowEnd(w),
              at         |-> now,
              retryAfter |-> AtLeast(1, Seconds(WindowEnd(w) - now))]}

(* The ghosts follow: a bucket evicted counts for every window it ends.    *)
Noted(k, w, count, gone) ==
  seen' = [v \in Windows |-> [j \in Keys |->
             LET s == seen[v][j]
                 hit == j = k /\ v = w
             IN  [hits      |-> IF hit THEN s.hits + 1 ELSE s.hits,
                  admitted  |-> IF hit /\ ~Over(count) THEN s.admitted + 1 ELSE s.admitted,
                  evictions |-> IF \E b \in gone : b.key = j /\ b.resetAt = WindowEnd(v)
                                  THEN s.evictions + 1 ELSE s.evictions]]]

-----------------------------------------------------------------------------
(* hit() finds the bucket of the window.                                   *)
HitAgain(k, w) ==
  \E b \in BucketOf(k, w) :
    /\ buckets' = (Live \ {b}) \cup {[b EXCEPT !.count = @ + 1]}
    /\ Answered(k, w, b.count + 1)
    /\ Noted(k, w, b.count + 1, {})
    /\ UNCHANGED <<now, seq>>

(* hit() makes a new bucket, after evicting the oldest when full.          *)
HitFirst(k, w) ==
  /\ BucketOf(k, w) = {}
  /\ seq' = seq + 1
  /\ buckets' = (Live \ Evicted)
                  \cup {[key |-> k, resetAt |-> WindowEnd(w), count |-> 1, seq |-> seq']}
  /\ Answered(k, w, 1)
  /\ Noted(k, w, 1, Evicted)
  /\ UNCHANGED now

Tick ==
  /\ now < MaxTime
  /\ now' = now + 1
  /\ seen' = [w \in Windows |->
                IF now' % w = 0 THEN [k \in Keys |-> Unseen] ELSE seen[w]]
  /\ UNCHANGED <<buckets, seq, answer>>

Hit(k, w) ==
  /\ seen[w][k].hits < MaxHits
  /\ HitAgain(k, w) \/ HitFirst(k, w)

Next ==
  \/ \E k \in Keys, w \in Windows : Hit(k, w)
  \/ Tick

Spec == Init /\ [][Next]_vars

-----------------------------------------------------------------------------
(* Every variable holds a value of its kind, no two buckets share a key of *)
(* the Map, and it holds at most maxKeys of them (one, for a maxKeys of 0).*)
TypeOK ==
  /\ now \in 0 .. MaxTime
  /\ Cardinality(buckets) <= AtLeast(1, MaxKeys)
  /\ \A b \in buckets : b \in Bucket /\ b.resetAt > 0 /\ b.seq <= seq
  /\ \A b, c \in buckets : b.key = c.key /\ b.resetAt = c.resetAt => b = c
  /\ seq \in Nat
  /\ \A a \in answer : a \in Answer
  /\ seen \in [Windows -> [Keys -> Seen]]

(* In one window a key is admitted at most `limit` times, and once more    *)
(* that often each time its bucket is evicted to make room for others.     *)
WithinLimit ==
  \A w \in Windows, k \in Keys :
    seen[w][k].admitted <= Limit * (1 + seen[w][k].evictions)

(* A request is only refused when its key has been admitted `limit` times  *)
(* in the window.                                                          *)
RefusalsJustified ==
  \A w \in Windows, k \in Keys :
    seen[w][k].hits > seen[w][k].admitted => seen[w][k].admitted >= Limit

(* Both: pruning, eviction and window ends, in any order, neither lose a   *)
(* count nor carry it into a window that it does not belong to.            *)
LimitExact == WithinLimit /\ RefusalsJustified

(* As long as the window lasts and no bucket of the key is evicted,        *)
(* RateLimit-Remaining is what the window still admits, and a client that  *)
(* waits for Retry-After finds a new window.                               *)
HeadersTruthful ==
  \A a \in answer :
    LET s == seen[a.window][a.key]
    IN  /\ a.at + a.retryAfter * Second >= a.resetAt
        /\ now < a.resetAt /\ s.evictions = 0 => s.admitted + a.remaining = Limit
=============================================================================
