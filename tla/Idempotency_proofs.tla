------------------------ MODULE Idempotency_proofs ------------------------
(***************************************************************************)
(* Proofs about Idempotency, for any number of requests, keys and leases.  *)
(*                                                                         *)
(* The inductive invariant is stated of a Map `recs`, requests `rq`, the   *)
(* last lease `n` and the ghost `org`, so that it can also be stated of    *)
(* what start() leaves after pruning and before its own change.  Its heart *)
(* is LockHeld: until its lock's time to live has run out, a running       *)
(* request holds the record of its key, and the record's remaining life is *)
(* exactly what the request has left.  Expiry is then the only way to lose *)
(* a lock.                                                                 *)
(***************************************************************************)
EXTENDS Idempotency, FiniteSetTheorems, WellFoundedInduction, TLAPS

Typed(recs, rq, n, org) ==
  /\ recs \in [Keys -> Record \cup {None}]
  /\ rq \in [Requests -> Request]
  /\ n \in 0 .. MaxLeases
  /\ org \in [Leases -> (Keys \X Fingerprints) \cup {<< >>}]

(* A record bears the key and fingerprint that its lease was granted for.  *)
RecordsKnown(recs, n, org) ==
  \A k \in Present(recs) : recs[k].lease <= n /\ org[recs[k].lease] = <<k, recs[k].fp>>

(* The waiters of a record are requests that wait, for that record.        *)
WaitersListed(recs, rq) ==
  \A k \in Present(recs) : \A w \in recs[k].waiters :
    /\ recs[k].status = "in-flight"
    /\ rq[w].pc = "waiting" /\ rq[w].key = k /\ rq[w].fp = recs[k].fp

WaitersKept(recs, rq) ==
  \A r \in Requests : rq[r].pc = "waiting" =>
    /\ rq[r].key \in Present(recs)
    /\ recs[rq[r].key].status = "in-flight"
    /\ r \in recs[rq[r].key].waiters

RunnersKnown(rq, n, org) ==
  \A r \in Requests : rq[r].pc = "running" =>
    /\ rq[r].lease \in 1 .. n
    /\ rq[r].key \in Keys
    /\ org[rq[r].lease] = <<rq[r].key, rq[r].fp>>

LeasesDistinct(rq) ==
  \A r, s \in Requests :
    rq[r].pc = "running" /\ rq[s].pc = "running" /\ rq[r].lease = rq[s].lease => r = s

LockHeld(recs, rq) ==
  \A r \in Requests : rq[r].pc = "running" /\ rq[r].age < Ttl =>
    /\ rq[r].key \in Present(recs)
    /\ recs[rq[r].key].status = "in-flight"
    /\ recs[rq[r].key].lease = rq[r].lease
    /\ recs[rq[r].key].left = Ttl - rq[r].age

ReplaysKnown(rq, n, org) ==
  \A r \in Requests : rq[r].kind = "replay" =>
    rq[r].pc = "done" /\ rq[r].lease \in 1 .. n
    /\ org[rq[r].lease] = <<rq[r].key, rq[r].fp>>

Bounded(recs) == Cardinality(Present(recs)) <= MaxKeys

Good(recs, rq, n, org) ==
  /\ Typed(recs, rq, n, org)
  /\ RecordsKnown(recs, n, org)
  /\ WaitersListed(recs, rq)
  /\ WaitersKept(recs, rq)
  /\ RunnersKnown(rq, n, org)
  /\ LeasesDistinct(rq)
  /\ LockHeld(recs, rq)
  /\ ReplaysKnown(rq, n, org)
  /\ Bounded(recs)

IInv == sweeping \in BOOLEAN /\ Good(records, req, leaseSeq, origin)

-----------------------------------------------------------------------------
(* The mark of a free key is no record.                                    *)
LEMMA NoneNotRecord == None \notin Record
BY NoneAssumption DEF Record, Leases

(* What a request becomes when it is answered is a request.                *)
LEMMA DoneType ==
  ASSUME NEW kind \in Kinds
  PROVE  Done(kind) \in Request /\ Done(kind).pc = "done" /\ Done(kind).kind = kind
BY StoreAssumption DEF Done, Request

(* So is what it becomes when a response is replayed to it.                *)
LEMMA ReplayedType ==
  ASSUME NEW k \in Keys, NEW f \in Fingerprints, NEW l \in Leases
  PROVE  /\ Replayed(k, f, l) \in Request
         /\ Replayed(k, f, l).pc = "done" /\ Replayed(k, f, l).kind = "replay"
         /\ Replayed(k, f, l).lease = l
         /\ Replayed(k, f, l).key = k /\ Replayed(k, f, l).fp = f
BY StoreAssumption DEF Replayed, Request, Kinds, Leases

(* A Map with no more keys than another is within the bound if that is.    *)
LEMMA FewerKeys ==
  ASSUME NEW recs, NEW new, Bounded(recs), Present(new) \subseteq Present(recs)
  PROVE  Bounded(new)
<1>1. IsFiniteSet(Present(recs))
  BY StoreAssumption, FS_Subset DEF Present
<1>2. /\ Cardinality(Present(new)) <= Cardinality(Present(recs))
      /\ IsFiniteSet(Present(new))
  BY <1>1, FS_Subset
<1>3. Cardinality(Present(new)) \in Nat /\ Cardinality(Present(recs)) \in Nat
  BY <1>1, <1>2, FS_CardinalityType
<1> QED
  BY <1>2, <1>3, StoreAssumption DEF Bounded

(* A request that does not wait may end: with no response, or with that of *)
(* an execution of its key and fingerprint.                                *)
LEMMA EndGood ==
  ASSUME NEW recs, NEW rq, NEW n, NEW org, Good(recs, rq, n, org),
         NEW r \in Requests, rq[r].pc # "waiting",
         NEW d \in Request, d.pc = "done",
         d.kind = "replay" => d.lease \in 1 .. n /\ org[d.lease] = <<d.key, d.fp>>
  PROVE  Good(recs, [rq EXCEPT ![r] = d], n, org)
<1> DEFINE new == [rq EXCEPT ![r] = d]
<1>1. rq \in [Requests -> Request]
  BY DEF Good, Typed
<1>2. /\ new \in [Requests -> Request]
      /\ new[r] = d
      /\ \A s \in Requests : s # r => new[s] = rq[s]
  BY <1>1
<1> HIDE DEF new
<1>3. Typed(recs, new, n, org)
  BY <1>2 DEF Good, Typed
<1>4. WaitersListed(recs, new)
  <2>1. \A k \in Present(recs) : recs[k].waiters \subseteq Requests
    BY DEF Good, Typed, Record, Present
  <2> QED
    BY <1>2, <2>1 DEF Good, WaitersListed
<1>5. WaitersKept(recs, new)
  BY <1>2 DEF Good, WaitersKept
<1>6. RunnersKnown(new, n, org) /\ LeasesDistinct(new)
  BY <1>2 DEF Good, RunnersKnown, LeasesDistinct
<1>7. LockHeld(recs, new)
  BY <1>2 DEF Good, LockHeld
<1>8. ReplaysKnown(new, n, org)
  BY <1>2 DEF Good, ReplaysKnown
<1> QED
  BY <1>3, <1>4, <1>5, <1>6, <1>7, <1>8 DEF Good, new

(* The record of a key that no live lock needs may go, or become complete  *)
(* with the response of its lease, if its waiters are answered with it.    *)
LEMMA SettleGood ==
  ASSUME NEW recs, NEW rq, NEW n, NEW org, Good(recs, rq, n, org),
         NEW k \in Present(recs),
         \A r \in Requests : rq[r].pc = "running" /\ rq[r].key = k => rq[r].age = Ttl,
         NEW rec \in Record \cup {None},
         rec # None => /\ rec.fp = recs[k].fp /\ rec.lease = recs[k].lease
                       /\ rec.waiters = {},
         NEW new \in [Requests -> Request],
         \A r \in Requests \ recs[k].waiters : new[r] = rq[r],
         \A r \in recs[k].waiters :
           /\ new[r].pc = "done"
           /\ new[r].kind = "replay" =>
                new[r].lease \in 1 .. n /\ org[new[r].lease] = <<new[r].key, new[r].fp>>
  PROVE  Good([recs EXCEPT ![k] = rec], new, n, org)
<1> DEFINE map == [recs EXCEPT ![k] = rec]
<1>1. recs \in [Keys -> Record \cup {None}] /\ rq \in [Requests -> Request] /\ k \in Keys
  BY DEF Good, Typed, Present
<1>2. /\ map \in [Keys -> Record \cup {None}]
      /\ map[k] = rec
      /\ \A j \in Keys : j # k => map[j] = recs[j]
  BY <1>1
<1> HIDE DEF map
<1>3. Typed(map, new, n, org)
  BY <1>2 DEF Good, Typed
<1>4. Present(map) \subseteq Present(recs)
  BY <1>2 DEF Present
<1>5. RecordsKnown(map, n, org)
  <2> SUFFICES ASSUME NEW j \in Present(map)
               PROVE  map[j].lease <= n /\ org[map[j].lease] = <<j, map[j].fp>>
    BY DEF RecordsKnown
  <2>1. /\ j \in Keys /\ map[j] # None
        /\ recs[j].lease <= n /\ org[recs[j].lease] = <<j, recs[j].fp>>
    BY <1>4 DEF Good, RecordsKnown, Present
  <2>2. map[j].lease = recs[j].lease /\ map[j].fp = recs[j].fp
    BY <1>2, <2>1
  <2> QED
    BY <2>1, <2>2
<1>6. \A j \in Present(recs) : j # k => recs[j].waiters \cap recs[k].waiters = {}
  BY DEF Good, WaitersListed
<1>7. \A j \in Present(recs) : recs[j].waiters \subseteq Requests
  BY <1>1 DEF Present, Record
<1>8. WaitersListed(map, new)
  <2> SUFFICES ASSUME NEW j \in Present(map), NEW w \in map[j].waiters
               PROVE  /\ map[j].status = "in-flight"
                      /\ new[w].pc = "waiting" /\ new[w].key = j /\ new[w].fp = map[j].fp
    BY DEF WaitersListed
  <2>1. j # k /\ j \in Present(recs) /\ map[j] = recs[j]
    BY <1>2, <1>4 DEF Present
  <2>2. w \in Requests \ recs[k].waiters
    BY <2>1, <1>6, <1>7
  <2>3. /\ recs[j].status = "in-flight"
        /\ rq[w].pc = "waiting" /\ rq[w].key = j /\ rq[w].fp = recs[j].fp
    BY <2>1 DEF Good, WaitersListed
  <2> QED
    BY <2>1, <2>2, <2>3
<1>9. WaitersKept(map, new)
  <2> SUFFICES ASSUME NEW r \in Requests, new[r].pc = "waiting"
               PROVE  /\ new[r].key \in Present(map)
                      /\ map[new[r].key].status = "in-flight"
                      /\ r \in map[new[r].key].waiters
    BY DEF WaitersKept
  <2>1. r \notin recs[k].waiters /\ new[r] = rq[r]
    OBVIOUS
  <2>2. /\ rq[r].key \in Present(recs)
        /\ recs[rq[r].key].status = "in-flight"
        /\ r \in recs[rq[r].key].waiters
    BY <2>1 DEF Good, WaitersKept
  <2>3. rq[r].key # k /\ map[rq[r].key] = recs[rq[r].key]
    BY <1>2, <2>1, <2>2 DEF Present
  <2> QED
    BY <2>1, <2>2, <2>3 DEF Present
<1>10. \A r \in Requests : new[r].pc # "done" => new[r] = rq[r]
  OBVIOUS
<1>11. RunnersKnown(new, n, org) /\ LeasesDistinct(new)
  BY <1>10 DEF Good, RunnersKnown, LeasesDistinct
<1>12. LockHeld(map, new)
  <2> SUFFICES ASSUME NEW r \in Requests, new[r].pc = "running", new[r].age < Ttl
               PROVE  /\ new[r].key \in Present(map)
                      /\ map[new[r].key].status = "in-flight"
                      /\ map[new[r].key].lease = new[r].lease
                      /\ map[new[r].key].left = Ttl - new[r].age
    BY DEF LockHeld
  <2>1. new[r] = rq[r]
    BY <1>10
  <2>2. rq[r].age # Ttl
    BY <1>1, <2>1, StoreAssumption DEF Request
  <2>3. /\ rq[r].key \in Present(recs)
        /\ recs[rq[r].key].status = "in-flight"
        /\ recs[rq[r].key].lease = rq[r].lease
        /\ recs[rq[r].key].left = Ttl - rq[r].age
    BY <2>1 DEF Good, LockHeld
  <2>4. rq[r].key # k
    BY <2>1, <2>2
  <2>5. map[rq[r].key] = recs[rq[r].key]
    BY <1>2, <2>3, <2>4 DEF Present
  <2> QED
    BY <2>1, <2>3, <2>5 DEF Present
<1>13. ReplaysKnown(new, n, org)
  BY DEF Good, ReplaysKnown
<1>14. Bounded(map)
  BY <1>4, FewerKeys DEF Good
<1> QED
  BY <1>3, <1>5, <1>8, <1>9, <1>11, <1>12, <1>13, <1>14 DEF Good, map

-----------------------------------------------------------------------------
(* pruneExpired preserves the invariant: an expired record is no live      *)
(* lock's, and everyone who waited for it has been answered.               *)
LEMMA PruneGood ==
  ASSUME Good(records, req, leaseSeq, origin)
  PROVE  /\ Good(pruneExpired, AfterPrune, leaseSeq, origin)
         /\ \A r \in Requests : req[r].pc # "waiting" => AfterPrune[r] = req[r]
<1> DEFINE recs == pruneExpired
           new == AfterPrune
<1>1. records \in [Keys -> Record \cup {None}] /\ req \in [Requests -> Request]
  BY DEF Good, Typed
<1>2. /\ recs \in [Keys -> Record \cup {None}]
      /\ \A k \in Keys : recs[k] = IF k \in ExpiredKeys(records) THEN None ELSE records[k]
      /\ ExpiredKeys(records) \subseteq Keys
  BY <1>1 DEF pruneExpired, ExpiredKeys, Present
<1>3. /\ new \in [Requests -> Request]
      /\ \A r \in Requests : new[r] = IF r \in Abandoned THEN Done("lost") ELSE req[r]
      /\ Done("lost").pc = "done" /\ Done("lost").kind = "lost"
  BY <1>1, DoneType DEF AfterPrune, Reject, Kinds
<1> HIDE DEF recs, new
<1>4. Present(recs) = Present(records) \ ExpiredKeys(records)
      /\ \A k \in Present(recs) : recs[k] = records[k] /\ k \in Present(records)
  BY <1>2 DEF Present, ExpiredKeys
<1>5. \A r \in Requests : new[r].pc # "done" => new[r] = req[r] /\ r \notin Abandoned
  BY <1>3
<1>6. Typed(recs, new, leaseSeq, origin)
  BY <1>2, <1>3 DEF Good, Typed
<1>7. RecordsKnown(recs, leaseSeq, origin)
  BY <1>4 DEF Good, RecordsKnown
<1>8. WaitersListed(recs, new)
  <2> SUFFICES ASSUME NEW k \in Present(recs), NEW w \in recs[k].waiters
               PROVE  /\ recs[k].status = "in-flight"
                      /\ new[w].pc = "waiting" /\ new[w].key = k /\ new[w].fp = recs[k].fp
    BY DEF WaitersListed
  <2>1. /\ k \in Present(records) /\ recs[k] = records[k] /\ k \notin ExpiredKeys(records)
    BY <1>4
  <2>2. w \in Requests
    BY <1>1, <2>1 DEF Present, Record
  <2>3. /\ records[k].status = "in-flight"
        /\ req[w].pc = "waiting" /\ req[w].key = k /\ req[w].fp = records[k].fp
    BY <2>1 DEF Good, WaitersListed
  <2>4. w \notin Abandoned
    <3> SUFFICES ASSUME NEW j \in ExpiredKeys(records), w \in records[j].waiters
                 PROVE  FALSE
      BY DEF Abandoned
    <3>1. j \in Present(records)
      BY DEF ExpiredKeys
    <3>2. req[w].key = j
      BY <3>1 DEF Good, WaitersListed
    <3> QED
      BY <2>1, <2>3, <3>2
  <2> QED
    BY <1>3, <2>1, <2>2, <2>3, <2>4
<1>9. WaitersKept(recs, new)
  <2> SUFFICES ASSUME NEW r \in Requests, new[r].pc = "waiting"
               PROVE  /\ new[r].key \in Present(recs)
                      /\ recs[new[r].key].status = "in-flight"
                      /\ r \in recs[new[r].key].waiters
    BY DEF WaitersKept
  <2>1. new[r] = req[r] /\ r \notin Abandoned
    BY <1>5
  <2>2. /\ req[r].key \in Present(records)
        /\ records[req[r].key].status = "in-flight"
        /\ r \in records[req[r].key].waiters
    BY <2>1 DEF Good, WaitersKept
  <2>3. req[r].key \notin ExpiredKeys(records)
    BY <2>1, <2>2 DEF Abandoned
  <2> QED
    BY <1>4, <2>1, <2>2, <2>3
<1>10. RunnersKnown(new, leaseSeq, origin) /\ LeasesDistinct(new)
  BY <1>5 DEF Good, RunnersKnown, LeasesDistinct
<1>11. LockHeld(recs, new)
  <2> SUFFICES ASSUME NEW r \in Requests, new[r].pc = "running", new[r].age < Ttl
               PROVE  /\ new[r].key \in Present(recs)
                      /\ recs[new[r].key].status = "in-flight"
                      /\ recs[new[r].key].lease = new[r].lease
                      /\ recs[new[r].key].left = Ttl - new[r].age
    BY DEF LockHeld
  <2>1. new[r] = req[r]
    BY <1>5
  <2>2. /\ req[r].key \in Present(records)
        /\ records[req[r].key].status = "in-flight"
        /\ records[req[r].key].lease = req[r].lease
        /\ records[req[r].key].left = Ttl - req[r].age
    BY <2>1 DEF Good, LockHeld
  <2>3. req[r].age \in Int /\ Ttl \in Int
    BY <1>1, StoreAssumption DEF Request
  <2>4. records[req[r].key].left # 0
    BY <2>1, <2>2, <2>3
  <2>5. req[r].key \notin ExpiredKeys(records)
    BY <2>4 DEF ExpiredKeys, Expired
  <2> QED
    BY <1>4, <2>1, <2>2, <2>5
<1>12. ReplaysKnown(new, leaseSeq, origin)
  BY <1>3 DEF Good, ReplaysKnown
<1>13. Bounded(recs)
  BY <1>4, FewerKeys DEF Good
<1>14. ASSUME NEW r \in Requests, req[r].pc # "waiting" PROVE new[r] = req[r]
  <2>1. r \notin Abandoned
    BY <1>14 DEF Abandoned, ExpiredKeys, Good, WaitersListed
  <2> QED
    BY <1>3, <2>1
<1> QED
  BY <1>6, <1>7, <1>8, <1>9, <1>10, <1>11, <1>12, <1>13, <1>14 DEF Good, recs, new

(* A nonempty set of natural numbers has a least element.                  *)
LEMMA LeastNatural ==
  ASSUME NEW S \in SUBSET Nat, S # {}
  PROVE  \E m \in S : \A x \in S : m <= x
<1>1. PICK m \in S : \A x \in S : <<x, m>> \notin OpToRel(<, Nat)
  BY NatLessThanWellFounded, WFMin
<1>2. \A x \in S : ~(x < m)
  BY <1>1 DEF OpToRel
<1> QED
  BY <1>2

(* Evicting a complete record disturbs no lock and no waiter.              *)
LEMMA EvictGood ==
  ASSUME NEW recs, NEW rq, NEW n, NEW org, Good(recs, rq, n, org),
         Evictable(recs) # {}
  PROVE  /\ Oldest(recs) \in Evictable(recs)
         /\ Good([recs EXCEPT ![Oldest(recs)] = None], rq, n, org)
<1>0. recs \in [Keys -> Record \cup {None}] /\ rq \in [Requests -> Request]
  BY DEF Good, Typed
<1>1. Oldest(recs) \in Evictable(recs)
  <2>1. \A k \in Evictable(recs) : recs[k].lease \in Nat
    BY <1>0 DEF Evictable, Present, Record, Leases
  <2>2. \E k \in Evictable(recs) : \A j \in Evictable(recs) : recs[k].lease <= recs[j].lease
    <3> DEFINE ages == {recs[k].lease : k \in Evictable(recs)}
    <3>1. ages \in SUBSET Nat /\ ages # {}
      BY <2>1
    <3> HIDE DEF ages
    <3>2. PICK m \in ages : \A x \in ages : m <= x
      BY <3>1, LeastNatural
    <3> QED
      BY <3>2 DEF ages
  <2> QED
    BY <2>2 DEF Oldest
<1> DEFINE k == Oldest(recs)
<1>2. k \in Present(recs) /\ recs[k].status = "complete"
  BY <1>1 DEF Evictable
<1> HIDE DEF k
<1>3. recs[k].waiters = {}
  BY <1>2 DEF Good, WaitersListed
<1>4. \A r \in Requests : rq[r].pc = "running" /\ rq[r].key = k => rq[r].age = Ttl
  <2> SUFFICES ASSUME NEW r \in Requests, rq[r].pc = "running", rq[r].key = k,
                      rq[r].age # Ttl
               PROVE  FALSE
    OBVIOUS
  <2>1. rq[r].age < Ttl
    BY <1>0, StoreAssumption DEF Request
  <2> QED
    BY <1>2, <2>1 DEF Good, LockHeld
<1>5. Good([recs EXCEPT ![k] = None], rq, n, org)
  BY <1>0, <1>2, <1>3, <1>4, SettleGood
<1> QED
  BY <1>1, <1>5 DEF k

(* Where the invariant allows a start() to go: the steps after pruning.    *)
LEMMA WaitGood ==
  ASSUME NEW recs, NEW rq, NEW n, NEW org, Good(recs, rq, n, org),
         NEW r \in Requests, rq[r].pc = "done",
         NEW k \in Present(recs), recs[k].status = "in-flight"
  PROVE  Good([recs EXCEPT ![k].waiters = @ \cup {r}],
              [rq EXCEPT ![r] = [pc |-> "waiting", key |-> k, fp |-> recs[k].fp, lease |-> 0,
                                 age |-> 0, kind |-> "none"]], n, org)
<1> DEFINE map == [recs EXCEPT ![k].waiters = @ \cup {r}]
           w == [pc |-> "waiting", key |-> k, fp |-> recs[k].fp, lease |-> 0,
                 age |-> 0, kind |-> "none"]
           new == [rq EXCEPT ![r] = w]
<1>1. /\ recs \in [Keys -> Record \cup {None}] /\ rq \in [Requests -> Request]
      /\ k \in Keys /\ recs[k] \in Record
  BY DEF Good, Typed, Present
<1>2. /\ w \in Request
      /\ w.pc = "waiting" /\ w.key = k /\ w.fp = recs[k].fp /\ w.kind = "none"
  BY <1>1, StoreAssumption DEF Request, Record, Kinds
<1>3. /\ new \in [Requests -> Request]
      /\ new[r] = w
      /\ \A s \in Requests : s # r => new[s] = rq[s]
  BY <1>1, <1>2
<1>4. /\ map \in [Keys -> Record \cup {None}]
      /\ map[k] \in Record
      /\ map[k].waiters = recs[k].waiters \cup {r}
      /\ map[k].status = recs[k].status /\ map[k].fp = recs[k].fp
      /\ map[k].lease = recs[k].lease /\ map[k].left = recs[k].left
      /\ \A j \in Keys : j # k => map[j] = recs[j]
  <2>1. [recs[k] EXCEPT !.waiters = @ \cup {r}] \in Record
    BY <1>1 DEF Record
  <2>2. map = [recs EXCEPT ![k] = [recs[k] EXCEPT !.waiters = @ \cup {r}]]
    BY <1>1
  <2> QED
    BY <1>1, <2>1, <2>2 DEF Record
<1> HIDE DEF map, new, w
<1>5. Present(map) = Present(recs)
  BY <1>1, <1>4, NoneNotRecord DEF Present
<1>6. Typed(map, new, n, org)
  BY <1>3, <1>4 DEF Good, Typed
<1>7. RecordsKnown(map, n, org)
  <2> SUFFICES ASSUME NEW j \in Present(recs)
               PROVE  map[j].lease <= n /\ org[map[j].lease] = <<j, map[j].fp>>
    BY <1>5 DEF RecordsKnown
  <2>1. map[j].lease = recs[j].lease /\ map[j].fp = recs[j].fp
    BY <1>4 DEF Present
  <2> QED
    BY <2>1 DEF Good, RecordsKnown
<1>8. WaitersListed(map, new)
  <2> SUFFICES ASSUME NEW j \in Present(recs), NEW v \in map[j].waiters
               PROVE  /\ map[j].status = "in-flight"
                      /\ new[v].pc = "waiting" /\ new[v].key = j /\ new[v].fp = map[j].fp
    BY <1>5 DEF WaitersListed
  <2>1. CASE v = r /\ j = k
    BY <1>2, <1>3, <1>4, <2>1
  <2>2. CASE v \in recs[j].waiters
    <3>1. /\ recs[j].status = "in-flight"
          /\ rq[v].pc = "waiting" /\ rq[v].key = j /\ rq[v].fp = recs[j].fp
      BY <2>2 DEF Good, WaitersListed
    <3>2. v # r /\ v \in Requests
      BY <1>1, <2>2, <3>1 DEF Present, Record
    <3>3. map[j].status = recs[j].status /\ map[j].fp = recs[j].fp
      BY <1>4 DEF Present
    <3> QED
      BY <1>3, <3>1, <3>2, <3>3
  <2> QED
    BY <1>4, <2>1, <2>2 DEF Present
<1>9. WaitersKept(map, new)
  <2> SUFFICES ASSUME NEW s \in Requests, new[s].pc = "waiting"
               PROVE  /\ new[s].key \in Present(recs)
                      /\ map[new[s].key].status = "in-flight"
                      /\ s \in map[new[s].key].waiters
    BY <1>5 DEF WaitersKept
  <2>1. CASE s = r
    BY <1>2, <1>3, <1>4, <2>1
  <2>2. CASE s # r
    <3>1. /\ rq[s].key \in Present(recs)
          /\ recs[rq[s].key].status = "in-flight"
          /\ s \in recs[rq[s].key].waiters
      BY <1>3, <2>2 DEF Good, WaitersKept
    <3> QED
      BY <1>3, <1>4, <2>2, <3>1 DEF Present
  <2> QED
    BY <2>1, <2>2
<1>10. RunnersKnown(new, n, org) /\ LeasesDistinct(new) /\ ReplaysKnown(new, n, org)
  BY <1>2, <1>3 DEF Good, RunnersKnown, LeasesDistinct, ReplaysKnown
<1>11. LockHeld(map, new)
  <2> SUFFICES ASSUME NEW s \in Requests, new[s].pc = "running", new[s].age < Ttl
               PROVE  /\ new[s].key \in Present(recs)
                      /\ map[new[s].key].status = "in-flight"
                      /\ map[new[s].key].lease = new[s].lease
                      /\ map[new[s].key].left = Ttl - new[s].age
    BY <1>5 DEF LockHeld
  <2>1. new[s] = rq[s]
    BY <1>2, <1>3
  <2>2. /\ rq[s].key \in Present(recs)
        /\ recs[rq[s].key].status = "in-flight"
        /\ recs[rq[s].key].lease = rq[s].lease
        /\ recs[rq[s].key].left = Ttl - rq[s].age
    BY <2>1 DEF Good, LockHeld
  <2> QED
    BY <1>4, <2>1, <2>2 DEF Present
<1>12. Bounded(map)
  BY <1>5, FewerKeys DEF Good
<1> QED
  BY <1>6, <1>7, <1>8, <1>9, <1>10, <1>11, <1>12 DEF Good, map, new, w

(* Making room leaves a free place when there is one to be had.            *)
LEMMA RoomGood ==
  ASSUME NEW recs, NEW rq, NEW n, NEW org, Good(recs, rq, n, org),
         Full(recs) => Evictable(recs) # {}
  PROVE  /\ Good(MakeRoom(recs), rq, n, org)
         /\ Present(MakeRoom(recs)) \subseteq Present(recs)
         /\ Cardinality(Present(MakeRoom(recs))) < MaxKeys
<1>0. recs \in [Keys -> Record \cup {None}]
  BY DEF Good, Typed
<1>1. IsFiniteSet(Present(recs)) /\ Cardinality(Present(recs)) \in Nat
  BY StoreAssumption, FS_Subset, FS_CardinalityType DEF Present
<1>2. Cardinality(Present(recs)) <= MaxKeys /\ MaxKeys \in Nat
  BY StoreAssumption DEF Good, Bounded
<1>3. CASE ~Full(recs)
  <2>1. MakeRoom(recs) = recs
    BY <1>3 DEF MakeRoom
  <2> QED
    BY <1>1, <1>2, <1>3, <2>1 DEF Full
<1>4. CASE Full(recs)
  <2>1. MakeRoom(recs) = [recs EXCEPT ![Oldest(recs)] = None]
    BY <1>4 DEF MakeRoom
  <2>2. Oldest(recs) \in Present(recs) /\ Good(MakeRoom(recs), rq, n, org)
    <3>1. Evictable(recs) # {}
      BY <1>4
    <3>2. /\ Oldest(recs) \in Evictable(recs)
          /\ Good([recs EXCEPT ![Oldest(recs)] = None], rq, n, org)
      BY <3>1, EvictGood
    <3> QED
      BY <2>1, <3>2 DEF Evictable
  <2>3. Present(MakeRoom(recs)) = Present(recs) \ {Oldest(recs)}
    BY <1>0, <2>1, <2>2 DEF Present
  <2>4. Cardinality(Present(MakeRoom(recs))) = Cardinality(Present(recs)) - 1
    BY <1>1, <2>2, <2>3, FS_RemoveElement
  <2> QED
    BY <1>1, <1>2, <2>2, <2>3, <2>4
<1> QED
  BY <1>3, <1>4

(* A new lease for a key without a record.                                 *)
LEMMA ProceedGood ==
  ASSUME NEW recs, NEW rq, NEW n, NEW org, Good(recs, rq, n, org),
         Cardinality(Present(recs)) < MaxKeys,
         n < MaxLeases,
         NEW k \in Keys \ Present(recs), NEW f \in Fingerprints,
         NEW r \in Requests, rq[r].pc = "done"
  PROVE  Good([recs EXCEPT ![k] = [status |-> "in-flight", fp |-> f, lease |-> n + 1,
                                   left |-> Ttl, waiters |-> {}]],
              [rq EXCEPT ![r] = [pc |-> "running", key |-> k, fp |-> f, lease |-> n + 1,
                                 age |-> 0, kind |-> "none"]],
              n + 1,
              [org EXCEPT ![n + 1] = <<k, f>>])
<1> DEFINE rec == [status |-> "in-flight", fp |-> f, lease |-> n + 1,
                   left |-> Ttl, waiters |-> {}]
           run == [pc |-> "running", key |-> k, fp |-> f, lease |-> n + 1,
                   age |-> 0, kind |-> "none"]
           map == [recs EXCEPT ![k] = rec]
           new == [rq EXCEPT ![r] = run]
           o == [org EXCEPT ![n + 1] = <<k, f>>]
<1>1. /\ recs \in [Keys -> Record \cup {None}] /\ rq \in [Requests -> Request]
      /\ n \in Nat /\ n + 1 \in Leases
      /\ org \in [Leases -> (Keys \X Fingerprints) \cup {<< >>}]
  BY StoreAssumption DEF Good, Typed, Leases
<1>2. /\ rec \in Record
      /\ rec.status = "in-flight" /\ rec.fp = f /\ rec.lease = n + 1 /\ rec.left = Ttl
      /\ rec.waiters = {}
  BY <1>1, StoreAssumption DEF Record
<1>3. /\ run \in Request
      /\ run.pc = "running" /\ run.key = k /\ run.fp = f /\ run.lease = n + 1
      /\ run.age = 0 /\ run.kind = "none"
  BY <1>1, StoreAssumption DEF Request, Kinds, Leases
<1>4. /\ map \in [Keys -> Record \cup {None}]
      /\ map[k] = rec
      /\ \A j \in Keys : j # k => map[j] = recs[j]
  BY <1>1, <1>2
<1>5. /\ new \in [Requests -> Request]
      /\ new[r] = run
      /\ \A s \in Requests : s # r => new[s] = rq[s]
  BY <1>1, <1>3
<1>6. /\ o \in [Leases -> (Keys \X Fingerprints) \cup {<< >>}]
      /\ o[n + 1] = <<k, f>>
      /\ \A l \in Leases : l <= n => o[l] = org[l]
  BY <1>1
<1> HIDE DEF rec, run, map, new, o
<1>7. Present(map) = Present(recs) \cup {k}
  BY <1>2, <1>4, NoneNotRecord DEF Present
<1>8. Typed(map, new, n + 1, o)
  BY <1>1, <1>4, <1>5, <1>6, StoreAssumption DEF Typed, Leases
<1>9. RecordsKnown(map, n + 1, o)
  <2> SUFFICES ASSUME NEW j \in Present(map)
               PROVE  map[j].lease <= n + 1 /\ o[map[j].lease] = <<j, map[j].fp>>
    BY DEF RecordsKnown
  <2>1. CASE j = k
    BY <1>1, <1>2, <1>4, <1>6, <2>1
  <2>2. CASE j # k
    <3>1. /\ j \in Present(recs) /\ map[j] = recs[j] /\ recs[j].lease \in Leases
      BY <1>1, <1>4, <1>7, <2>2 DEF Present, Record
    <3>2. recs[j].lease <= n /\ org[recs[j].lease] = <<j, recs[j].fp>>
      BY <3>1 DEF Good, RecordsKnown
    <3> QED
      BY <1>1, <1>6, <3>1, <3>2 DEF Leases
  <2> QED
    BY <2>1, <2>2
<1>10. WaitersListed(map, new)
  <2> SUFFICES ASSUME NEW j \in Present(map), NEW v \in map[j].waiters
               PROVE  /\ map[j].status = "in-flight"
                      /\ new[v].pc = "waiting" /\ new[v].key = j /\ new[v].fp = map[j].fp
    BY DEF WaitersListed
  <2>1. j # k /\ j \in Present(recs) /\ map[j] = recs[j]
    BY <1>2, <1>4, <1>7 DEF Present
  <2>2. /\ recs[j].status = "in-flight"
        /\ rq[v].pc = "waiting" /\ rq[v].key = j /\ rq[v].fp = recs[j].fp
    BY <2>1 DEF Good, WaitersListed
  <2>3. v # r /\ v \in Requests
    BY <1>1, <2>1, <2>2 DEF Present, Record
  <2> QED
    BY <1>5, <2>1, <2>2, <2>3
<1>11. WaitersKept(map, new)
  <2> SUFFICES ASSUME NEW s \in Requests, new[s].pc = "waiting"
               PROVE  /\ new[s].key \in Present(map)
                      /\ map[new[s].key].status = "in-flight"
                      /\ s \in map[new[s].key].waiters
    BY DEF WaitersKept
  <2>1. s # r /\ new[s] = rq[s]
    BY <1>3, <1>5
  <2>2. /\ rq[s].key \in Present(recs)
        /\ recs[rq[s].key].status = "in-flight"
        /\ s \in recs[rq[s].key].waiters
    BY <2>1 DEF Good, WaitersKept
  <2> QED
    BY <1>4, <1>7, <2>1, <2>2 DEF Present
<1>12. RunnersKnown(new, n + 1, o)
  <2> SUFFICES ASSUME NEW s \in Requests, new[s].pc = "running"
               PROVE  /\ new[s].lease \in 1 .. (n + 1)
                      /\ new[s].key \in Keys
                      /\ o[new[s].lease] = <<new[s].key, new[s].fp>>
    BY DEF RunnersKnown
  <2>1. CASE s = r
    BY <1>1, <1>3, <1>5, <1>6, <2>1
  <2>2. CASE s # r
    <3>1. /\ rq[s].lease \in 1 .. n /\ rq[s].key \in Keys
          /\ org[rq[s].lease] = <<rq[s].key, rq[s].fp>>
      BY <1>5, <2>2 DEF Good, RunnersKnown
    <3>2. rq[s].lease \in Leases /\ rq[s].lease <= n /\ rq[s].lease \in 1 .. (n + 1)
      BY <1>1, <3>1, StoreAssumption DEF Leases
    <3>3. o[rq[s].lease] = <<rq[s].key, rq[s].fp>>
      BY <1>6, <3>1, <3>2
    <3> QED
      BY <1>5, <2>2, <3>1, <3>2, <3>3
  <2> QED
    BY <2>1, <2>2
<1>13. LeasesDistinct(new)
  <2>1. \A s \in Requests : s # r /\ new[s].pc = "running" => new[s].lease # n + 1
    BY <1>1, <1>5 DEF Good, RunnersKnown
  <2> QED
    BY <1>3, <1>5, <2>1 DEF Good, LeasesDistinct
<1>14. LockHeld(map, new)
  <2> SUFFICES ASSUME NEW s \in Requests, new[s].pc = "running", new[s].age < Ttl
               PROVE  /\ new[s].key \in Present(map)
                      /\ map[new[s].key].status = "in-flight"
                      /\ map[new[s].key].lease = new[s].lease
                      /\ map[new[s].key].left = Ttl - new[s].age
    BY DEF LockHeld
  <2>1. CASE s = r
    BY <1>2, <1>3, <1>4, <1>5, <1>7, <2>1, StoreAssumption
  <2>2. CASE s # r
    <3>1. /\ rq[s].key \in Present(recs)
          /\ recs[rq[s].key].status = "in-flight"
          /\ recs[rq[s].key].lease = rq[s].lease
          /\ recs[rq[s].key].left = Ttl - rq[s].age
      BY <1>5, <2>2 DEF Good, LockHeld
    <3>2. map[rq[s].key] = recs[rq[s].key]
      BY <1>4, <3>1 DEF Present
    <3> QED
      BY <1>5, <1>7, <2>2, <3>1, <3>2
  <2> QED
    BY <2>1, <2>2
<1>15. ReplaysKnown(new, n + 1, o)
  <2> SUFFICES ASSUME NEW s \in Requests, new[s].kind = "replay"
               PROVE  /\ new[s].pc = "done" /\ new[s].lease \in 1 .. (n + 1)
                      /\ o[new[s].lease] = <<new[s].key, new[s].fp>>
    BY DEF ReplaysKnown
  <2>1. new[s] = rq[s]
    BY <1>3, <1>5
  <2>2. /\ rq[s].pc = "done" /\ rq[s].lease \in 1 .. n
        /\ org[rq[s].lease] = <<rq[s].key, rq[s].fp>>
    BY <2>1 DEF Good, ReplaysKnown
  <2>3. rq[s].lease \in Leases /\ rq[s].lease <= n /\ rq[s].lease \in 1 .. (n + 1)
    BY <1>1, <2>2, StoreAssumption DEF Leases
  <2>4. o[rq[s].lease] = <<rq[s].key, rq[s].fp>>
    BY <1>6, <2>2, <2>3
  <2> QED
    BY <2>1, <2>2, <2>3, <2>4
<1>16. Bounded(map)
  <2>1. IsFiniteSet(Present(recs)) /\ Cardinality(Present(recs)) \in Nat
    BY StoreAssumption, FS_Subset, FS_CardinalityType DEF Present
  <2>2. Cardinality(Present(map)) = Cardinality(Present(recs)) + 1
    BY <1>7, <2>1, FS_AddElement
  <2> QED
    BY <2>1, <2>2, StoreAssumption DEF Bounded
<1> QED
  BY <1>8, <1>9, <1>10, <1>11, <1>12, <1>13, <1>14, <1>15, <1>16
  DEF Good, map, new, o, rec, run

(* The clock: a live lock's record and its holder age together.            *)
LEMMA TickGood ==
  ASSUME Good(records, req, leaseSeq, origin), Tick
  PROVE  Good(records', req', leaseSeq, origin)
<1>1. records \in [Keys -> Record \cup {None}] /\ req \in [Requests -> Request]
  BY DEF Good, Typed
<1>2. /\ records' \in [Keys -> Record \cup {None}]
      /\ Present(records') = Present(records)
      /\ \A k \in Present(records) :
           /\ records'[k].status = records[k].status /\ records'[k].fp = records[k].fp
           /\ records'[k].lease = records[k].lease /\ records'[k].waiters = records[k].waiters
           /\ records[k].left > 0 => records'[k].left = records[k].left - 1
  <2> DEFINE next(k) == IF records[k].left > 0
                          THEN [records[k] EXCEPT !.left = records[k].left - 1] ELSE records[k]
  <2>1. \A k \in Present(records) :
          /\ k \in Keys /\ next(k) \in Record
          /\ next(k).status = records[k].status /\ next(k).fp = records[k].fp
          /\ next(k).lease = records[k].lease /\ next(k).waiters = records[k].waiters
          /\ records[k].left > 0 => next(k).left = records[k].left - 1
    BY <1>1, StoreAssumption DEF Present, Record
  <2>2. \A k \in Keys : records'[k] = IF k \in Present(records) THEN next(k) ELSE records[k]
    BY DEF Tick
  <2>3. records' = [k \in Keys |-> records'[k]]
    BY DEF Tick
  <2> HIDE DEF next
  <2>4. \A k \in Keys : k \notin Present(records) => records[k] = None
    BY DEF Present
  <2>5. \A k \in Keys : records'[k] \in Record \cup {None}
    BY <2>1, <2>2, <2>4
  <2>6. records' \in [Keys -> Record \cup {None}]
    BY <2>3, <2>5
  <2>7. Present(records') = Present(records)
    BY <2>1, <2>2, <2>4, NoneNotRecord DEF Present
  <2> QED
    BY <2>1, <2>2, <2>6, <2>7
<1>3. /\ req' \in [Requests -> Request]
      /\ \A r \in Requests :
           /\ req'[r].pc = req[r].pc /\ req'[r].key = req[r].key /\ req'[r].fp = req[r].fp
           /\ req'[r].lease = req[r].lease /\ req'[r].kind = req[r].kind
           /\ req[r].pc = "running" /\ req'[r].age < Ttl
                => req[r].age < Ttl /\ req'[r].age = req[r].age + 1
  <2> DEFINE next(r) == IF req[r].pc = "running" /\ req[r].age < Ttl
                          THEN [req[r] EXCEPT !.age = req[r].age + 1] ELSE req[r]
  <2>1. \A r \in Requests :
          /\ next(r) \in Request
          /\ next(r).pc = req[r].pc /\ next(r).key = req[r].key /\ next(r).fp = req[r].fp
          /\ next(r).lease = req[r].lease /\ next(r).kind = req[r].kind
          /\ req[r].pc = "running" /\ next(r).age < Ttl
               => req[r].age < Ttl /\ next(r).age = req[r].age + 1
    BY <1>1, StoreAssumption DEF Request
  <2>2. req' = [r \in Requests |-> next(r)]
    BY DEF Tick
  <2> HIDE DEF next
  <2> QED
    BY <2>1, <2>2
<1>4. Typed(records', req', leaseSeq, origin)
  BY <1>2, <1>3 DEF Good, Typed
<1>5. RecordsKnown(records', leaseSeq, origin)
  BY <1>2 DEF Good, RecordsKnown
<1>6. \A k \in Present(records) : records[k].waiters \subseteq Requests
  BY <1>1 DEF Present, Record
<1>7. WaitersListed(records', req')
  BY <1>2, <1>3, <1>6 DEF Good, WaitersListed
<1>8. WaitersKept(records', req')
  BY <1>2, <1>3 DEF Good, WaitersKept
<1>9. RunnersKnown(req', leaseSeq, origin)
  BY <1>3 DEF Good, RunnersKnown
<1>11. LeasesDistinct(req')
  BY <1>3 DEF Good, LeasesDistinct
<1>12. ReplaysKnown(req', leaseSeq, origin)
  BY <1>3 DEF Good, ReplaysKnown
<1>10. LockHeld(records', req')
  <2> SUFFICES ASSUME NEW r \in Requests, req'[r].pc = "running", req'[r].age < Ttl
               PROVE  /\ req'[r].key \in Present(records')
                      /\ records'[req'[r].key].status = "in-flight"
                      /\ records'[req'[r].key].lease = req'[r].lease
                      /\ records'[req'[r].key].left = Ttl - req'[r].age
    BY DEF LockHeld
  <2>1. /\ req[r].pc = "running" /\ req[r].age < Ttl /\ req'[r].age = req[r].age + 1
        /\ req'[r].key = req[r].key /\ req'[r].lease = req[r].lease
    BY <1>3
  <2>2. /\ req[r].key \in Present(records)
        /\ records[req[r].key].status = "in-flight"
        /\ records[req[r].key].lease = req[r].lease
        /\ records[req[r].key].left = Ttl - req[r].age
    BY <2>1 DEF Good, LockHeld
  <2>3. req[r].age \in Int /\ Ttl \in Int
    BY <1>1, StoreAssumption DEF Request
  <2>4. records[req[r].key].left > 0
    BY <2>1, <2>2, <2>3
  <2>5. records'[req[r].key].left = Ttl - (req[r].age + 1)
    BY <1>2, <2>2, <2>3, <2>4
  <2> QED
    BY <1>2, <2>1, <2>2, <2>5
<1>13. Bounded(records')
  BY <1>2, FewerKeys DEF Good
<1> QED
  BY <1>4, <1>5, <1>7, <1>8, <1>9, <1>10, <1>11, <1>12, <1>13 DEF Good

-----------------------------------------------------------------------------
(* The empty store, before any request, satisfies the invariant.           *)
LEMMA InitIInv == Init => IInv
<1> SUFFICES ASSUME Init PROVE IInv
  OBVIOUS
<1>1. Present(records) = {}
  BY DEF Init, Present
<1>2. \A r \in Requests : req[r] = Done("none")
  BY DEF Init
<1>3. Done("none") \in Request /\ Done("none").pc = "done" /\ Done("none").kind = "none"
  BY DoneType DEF Kinds
<1>4. Typed(records, req, leaseSeq, origin)
  BY <1>3, StoreAssumption DEF Init, Typed
<1>5. RecordsKnown(records, leaseSeq, origin) /\ WaitersListed(records, req)
  BY <1>1 DEF RecordsKnown, WaitersListed
<1>6. /\ WaitersKept(records, req) /\ RunnersKnown(req, leaseSeq, origin)
      /\ LeasesDistinct(req) /\ LockHeld(records, req)
      /\ ReplaysKnown(req, leaseSeq, origin)
  BY <1>2, <1>3 DEF WaitersKept, RunnersKnown, LeasesDistinct, LockHeld, ReplaysKnown
<1>7. Bounded(records)
  BY <1>1, FS_EmptySet, StoreAssumption DEF Bounded
<1> QED
  BY <1>4, <1>5, <1>6, <1>7, StoreAssumption DEF IInv, Good, Init

(* A request that arrives finds the store pruned.                          *)
LEMMA ArriveGood ==
  ASSUME Good(records, req, leaseSeq, origin),
         NEW r \in Requests, NEW k \in Keys, NEW f \in Fingerprints, Arrive(r, k, f)
  PROVE  Good(records', req', leaseSeq', origin')
<1> DEFINE recs == pruneExpired
           rq   == AfterPrune
<1>1. req[r].pc = "done"
  BY DEF Arrive, StartConflict, StartReplay, StartWait, StartOverflow, StartProceed
<1>2. Good(recs, rq, leaseSeq, origin) /\ rq[r].pc = "done"
  BY <1>1, PruneGood
<1> HIDE DEF recs, rq
<1>3. CASE StartConflict(r, k, f)
  <2>1. /\ Done("conflict") \in Request /\ Done("conflict").pc = "done"
        /\ Done("conflict").kind = "conflict"
    BY DoneType DEF Kinds
  <2>2. Good(recs, [rq EXCEPT ![r] = Done("conflict")], leaseSeq, origin)
    BY <1>2, <2>1, EndGood
  <2> QED
    BY <1>3, <2>2 DEF StartConflict, recs, rq
<1>4. CASE StartOverflow(r, k, f)
  <2>1. /\ Done("overflow") \in Request /\ Done("overflow").pc = "done"
        /\ Done("overflow").kind = "overflow"
    BY DoneType DEF Kinds
  <2>2. Good(recs, [rq EXCEPT ![r] = Done("overflow")], leaseSeq, origin)
    BY <1>2, <2>1, EndGood
  <2> QED
    BY <1>4, <2>2 DEF StartOverflow, recs, rq
<1>5. CASE StartReplay(r, k, f)
  <2> DEFINE d == Replayed(k, f, recs[k].lease)
  <2>1. k \in Present(recs) /\ recs[k].fp = f
    BY <1>5 DEF StartReplay, SameFingerprint, recs
  <2>2. /\ recs[k].lease \in Leases /\ recs[k].lease \in 1 .. leaseSeq
        /\ origin[recs[k].lease] = <<k, f>>
    BY <1>2, <2>1, StoreAssumption DEF Good, Typed, RecordsKnown, Present, Record, Leases
  <2>3. /\ d \in Request /\ d.pc = "done" /\ d.kind = "replay"
        /\ d.lease = recs[k].lease /\ d.key = k /\ d.fp = f
    BY <2>2, ReplayedType
  <2> HIDE DEF d
  <2>4. Good(recs, [rq EXCEPT ![r] = d], leaseSeq, origin)
    BY <1>2, <2>2, <2>3, EndGood
  <2> QED
    BY <1>5, <2>4 DEF StartReplay, d, recs, rq
<1>6. CASE StartWait(r, k, f)
  <2>1. k \in Present(recs) /\ recs[k].fp = f /\ recs[k].status = "in-flight"
    BY <1>6 DEF StartWait, SameFingerprint, recs
  <2>2. Good([recs EXCEPT ![k].waiters = @ \cup {r}],
             [rq EXCEPT ![r] = [pc |-> "waiting", key |-> k, fp |-> recs[k].fp,
                                lease |-> 0, age |-> 0, kind |-> "none"]],
             leaseSeq, origin)
    BY <1>2, <2>1, WaitGood
  <2> QED
    BY <1>6, <2>1, <2>2 DEF StartWait, recs, rq
<1>7. CASE StartProceed(r, k, f)
  <2> DEFINE room == MakeRoom(recs)
  <2>1. leaseSeq < MaxLeases /\ k \notin Present(recs) /\ leaseSeq' = leaseSeq + 1
    BY <1>7 DEF StartProceed, recs
  <2>2. Full(recs) => Evictable(recs) # {}
    BY <1>7 DEF StartProceed, recs
  <2>3. /\ Good(room, rq, leaseSeq, origin)
        /\ Present(room) \subseteq Present(recs)
        /\ Cardinality(Present(room)) < MaxKeys
    BY <1>2, <2>2, RoomGood
  <2>4. k \in Keys \ Present(room)
    BY <2>1, <2>3
  <2> HIDE DEF room
  <2>5. Good([room EXCEPT ![k] = [status |-> "in-flight", fp |-> f, lease |-> leaseSeq + 1,
                                  left |-> Ttl, waiters |-> {}]],
             [rq EXCEPT ![r] = [pc |-> "running", key |-> k, fp |-> f,
                                lease |-> leaseSeq + 1, age |-> 0, kind |-> "none"]],
             leaseSeq + 1,
             [origin EXCEPT ![leaseSeq + 1] = <<k, f>>])
    BY <1>2, <2>1, <2>3, <2>4, ProceedGood
  <2> QED
    BY <1>7, <2>1, <2>5 DEF StartProceed, room, recs, rq
<1> QED
  BY <1>3, <1>4, <1>5, <1>6, <1>7 DEF Arrive

(* Whoever still holds the lease is the only request that can.             *)
LEMMA HolderAlone ==
  ASSUME Good(records, req, leaseSeq, origin),
         NEW r \in Requests, req[r].pc = "running", Holds(r)
  PROVE  /\ req[r].key \in Present(records)
         /\ \A s \in Requests \ {r} :
              req[s].pc = "running" /\ req[s].key = req[r].key => req[s].age = Ttl
<1>1. req[r].key \in Present(records) /\ records[req[r].key].lease = req[r].lease
  BY DEF Good, RunnersKnown, Holds, InFlight, Present
<1>2. ASSUME NEW s \in Requests \ {r}, req[s].pc = "running", req[s].key = req[r].key,
             req[s].age # Ttl
      PROVE  FALSE
  <2>1. req[s].age < Ttl
    BY <1>2, StoreAssumption DEF Good, Typed, Request
  <2>2. records[req[s].key].lease = req[s].lease
    BY <1>2, <2>1 DEF Good, LockHeld
  <2> QED
    BY <1>1, <1>2, <2>2 DEF Good, LeasesDistinct
<1> QED
  BY <1>1, <1>2

(* The end of a handler, whatever becomes of the record and its waiters.   *)
LEMMA HandlerEndGood ==
  ASSUME Good(records, req, leaseSeq, origin),
         NEW r \in Requests, req[r].pc = "running", Holds(r),
         NEW kind \in Kinds \ {"replay"},
         NEW rec \in Record \cup {None},
         rec # None => /\ rec.fp = records[req[r].key].fp
                       /\ rec.lease = records[req[r].key].lease
                       /\ rec.waiters = {},
         NEW new,
         new \in {Resolve([req EXCEPT ![r] = Done(kind)], records[req[r].key].waiters,
                          req[r].lease),
                  Reject([req EXCEPT ![r] = Done(kind)], records[req[r].key].waiters)}
  PROVE  Good([records EXCEPT ![req[r].key] = rec], new, leaseSeq, origin)
<1> DEFINE ended == [req EXCEPT ![r] = Done(kind)]
           k     == req[r].key
           waiters == records[k].waiters
<1>1. Done(kind) \in Request /\ Done(kind).pc = "done" /\ Done(kind).kind = kind
  BY DoneType
<1>2. Good(records, ended, leaseSeq, origin)
  BY <1>1, EndGood
<1>3. /\ req \in [Requests -> Request]
      /\ ended \in [Requests -> Request]
      /\ ended[r] = Done(kind)
      /\ \A s \in Requests \ {r} : ended[s] = req[s]
  BY <1>1 DEF Good, Typed
<1> HIDE DEF ended
<1>4. /\ k \in Present(records)
      /\ \A s \in Requests : ended[s].pc = "running" /\ ended[s].key = k => ended[s].age = Ttl
  BY <1>1, <1>3, HolderAlone
<1>5. /\ req[r].lease \in 1 .. leaseSeq /\ req[r].lease \in Leases /\ k \in Keys
      /\ records[k].lease = req[r].lease
      /\ origin[req[r].lease] = <<k, records[k].fp>>
  BY <1>4, StoreAssumption
  DEF Good, Typed, RunnersKnown, RecordsKnown, Holds, Leases
<1>6. \A w \in waiters : w \in Requests /\ ended[w].key = k /\ ended[w].fp = records[k].fp
  <2>1. waiters \subseteq Requests /\ records[k].fp \in Fingerprints
    BY <1>4 DEF Good, Typed, Present, Record
  <2> QED
    BY <1>2, <1>4, <2>1 DEF Good, WaitersListed
<1>7. records[k].fp \in Fingerprints
  BY <1>4 DEF Good, Typed, Present, Record
<1>8. /\ new \in [Requests -> Request]
      /\ \A s \in Requests \ waiters : new[s] = ended[s]
      /\ \A s \in waiters :
           /\ new[s].pc = "done"
           /\ new[s].kind = "replay" =>
                new[s].lease \in 1 .. leaseSeq
                /\ origin[new[s].lease] = <<new[s].key, new[s].fp>>
  <2>1. CASE new = Resolve(ended, waiters, req[r].lease)
    <3> DEFINE d == Replayed(k, records[k].fp, req[r].lease)
    <3>1. /\ d \in Request /\ d.pc = "done" /\ d.lease = req[r].lease
          /\ d.key = k /\ d.fp = records[k].fp
      BY <1>5, <1>7, ReplayedType
    <3>2. new = [s \in Requests |-> IF s \in waiters THEN d ELSE ended[s]]
      BY <1>6, <2>1 DEF Resolve
    <3> HIDE DEF d, k, waiters
    <3>3. /\ \A s \in Requests \ waiters : new[s] = ended[s]
          /\ \A s \in waiters : new[s] = d
      BY <1>6, <3>2
    <3>4. new \in [Requests -> Request]
      BY <1>3, <3>1, <3>2
    <3> QED
      BY <1>5, <3>1, <3>3, <3>4
  <2>2. CASE new = Reject(ended, waiters)
    <3>1. /\ Done("lost") \in Request /\ Done("lost").pc = "done"
          /\ Done("lost").kind = "lost"
      BY DoneType DEF Kinds
    <3>2. new = [s \in Requests |-> IF s \in waiters THEN Done("lost") ELSE ended[s]]
      BY <2>2 DEF Reject
    <3> HIDE DEF k, waiters
    <3>3. /\ \A s \in Requests \ waiters : new[s] = ended[s]
          /\ \A s \in waiters : new[s] = Done("lost")
      BY <1>6, <3>2
    <3>4. new \in [Requests -> Request]
      BY <1>3, <3>1, <3>2
    <3> QED
      BY <3>1, <3>3, <3>4
  <2> QED
    BY <2>1, <2>2 DEF ended
<1>9. rec # None => /\ rec.fp = records[k].fp /\ rec.lease = records[k].lease
                    /\ rec.waiters = {}
  OBVIOUS
<1>10. ASSUME NEW j, j = k PROVE Good([records EXCEPT ![j] = rec], new, leaseSeq, origin)
  <2>1. /\ j \in Present(records)
        /\ \A s \in Requests : ended[s].pc = "running" /\ ended[s].key = j => ended[s].age = Ttl
        /\ \A s \in Requests \ records[j].waiters : new[s] = ended[s]
        /\ \A s \in records[j].waiters :
             /\ new[s].pc = "done"
             /\ new[s].kind = "replay" =>
                  new[s].lease \in 1 .. leaseSeq
                  /\ origin[new[s].lease] = <<new[s].key, new[s].fp>>
        /\ rec # None => /\ rec.fp = records[j].fp /\ rec.lease = records[j].lease
                         /\ rec.waiters = {}
    BY <1>4, <1>8, <1>9, <1>10
  <2> HIDE DEF k, waiters
  <2>2. new \in [Requests -> Request]
    BY <1>8
  <2> QED
    BY <1>2, <2>1, <2>2, SettleGood, ZenonT(60)
<1> QED
  BY <1>10

(* A handler that ends, in time or late, keeps the store good.             *)
LEMMA HandlerGood ==
  ASSUME Good(records, req, leaseSeq, origin),
         NEW r \in Requests, HandlerSucceeds(r) \/ HandlerFails(r)
  PROVE  Good(records', req', leaseSeq', origin')
<1>1. req[r].pc = "running" /\ leaseSeq' = leaseSeq /\ origin' = origin
  BY DEF HandlerSucceeds, HandlerFails
<1>2. ASSUME NEW kind \in Kinds \ {"replay"}
      PROVE  Good(records, [req EXCEPT ![r] = Done(kind)], leaseSeq, origin)
  <2>1. Done(kind) \in Request /\ Done(kind).pc = "done" /\ Done(kind).kind = kind
    BY DoneType
  <2> QED
    BY <1>1, <2>1, EndGood
<1>3. CASE HandlerSucceeds(r) /\ Holds(r)
  <2> DEFINE k == req[r].key
             rec == [status |-> "complete", fp |-> records[k].fp, lease |-> req[r].lease,
                     left |-> FreshLife(records[k]), waiters |-> {}]
  <2>1. records[k] \in Record /\ records[k].lease = req[r].lease
    BY <1>1, <1>3, HolderAlone DEF Holds, Good, Typed, Present
  <2>2. /\ rec \in Record /\ rec.fp = records[k].fp /\ rec.lease = records[k].lease
        /\ rec.waiters = {}
    BY <2>1, StoreAssumption DEF Record, FreshLife
  <2>3. /\ records' = [records EXCEPT ![k] = rec]
        /\ req' = Resolve([req EXCEPT ![r] = Done("success")], records[k].waiters,
                          req[r].lease)
    BY <1>3 DEF HandlerSucceeds
  <2> HIDE DEF rec
  <2>4. "success" \in Kinds \ {"replay"}
    BY DEF Kinds
  <2> QED
    BY <1>1, <1>3, <2>2, <2>3, <2>4, HandlerEndGood
<1>4. CASE HandlerSucceeds(r) /\ ~Holds(r)
  <2>1. records' = records /\ req' = [req EXCEPT ![r] = Done("success")]
    BY <1>4 DEF HandlerSucceeds
  <2> QED
    BY <1>1, <1>2, <2>1 DEF Kinds
<1>5. CASE HandlerFails(r) /\ Holds(r)
  <2>1. PICK kind \in {"failure", "threw"} :
          /\ records' = [records EXCEPT ![req[r].key] = None]
          /\ req' = IF kind = "failure"
                      THEN Resolve([req EXCEPT ![r] = Done(kind)],
                                   records[req[r].key].waiters, req[r].lease)
                      ELSE Reject([req EXCEPT ![r] = Done(kind)],
                                  records[req[r].key].waiters)
    BY <1>5 DEF HandlerFails
  <2>2. kind \in Kinds \ {"replay"}
    BY DEF Kinds
  <2> QED
    BY <1>1, <1>5, <2>1, <2>2, HandlerEndGood
<1>6. CASE HandlerFails(r) /\ ~Holds(r)
  <2>1. PICK kind \in {"failure", "threw"} :
          records' = records /\ req' = [req EXCEPT ![r] = Done(kind)]
    BY <1>6 DEF HandlerFails
  <2>2. kind \in Kinds \ {"replay"}
    BY DEF Kinds
  <2> QED
    BY <1>1, <1>2, <2>1, <2>2
<1> QED
  BY <1>3, <1>4, <1>5, <1>6

(* Every step keeps the invariant.                                         *)
LEMMA NextIInv == IInv /\ [Next]_vars => IInv'
<1> SUFFICES ASSUME IInv, [Next]_vars PROVE IInv'
  OBVIOUS
<1> USE DEF IInv
<1>1. ASSUME NEW r \in Requests, Bypass(r) PROVE IInv'
  <2>1. /\ Done("bypassed") \in Request /\ Done("bypassed").pc = "done"
        /\ Done("bypassed").kind = "bypassed"
    BY DoneType DEF Kinds
  <2>2. Good(records, [req EXCEPT ![r] = Done("bypassed")], leaseSeq, origin)
    BY <1>1, <2>1, EndGood DEF Bypass
  <2> QED
    BY <1>1, <2>2 DEF Bypass
<1>2. ASSUME NEW r \in Requests, NEW k \in Keys, NEW f \in Fingerprints, Arrive(r, k, f)
      PROVE  IInv'
  <2>1. sweeping' = sweeping
    BY <1>2 DEF Arrive, StartConflict, StartReplay, StartWait, StartOverflow, StartProceed
  <2> QED
    BY <1>2, <2>1, ArriveGood
<1>3. ASSUME NEW r \in Requests, HandlerSucceeds(r) \/ HandlerFails(r) PROVE IInv'
  <2>1. sweeping' = sweeping
    BY <1>3 DEF HandlerSucceeds, HandlerFails
  <2> QED
    BY <1>3, <2>1, HandlerGood
<1>4. CASE Sweep
  BY <1>4, PruneGood DEF Sweep
<1>5. CASE dispose
  BY <1>5 DEF dispose
<1>6. CASE Tick
  BY <1>6, TickGood DEF Tick
<1>7. CASE UNCHANGED vars
  BY <1>7 DEF vars
<1> QED
  BY <1>1, <1>2, <1>3, <1>4, <1>5, <1>6, <1>7 DEF Next

(* The inductive invariant of the middleware over its store.               *)
THEOREM Invariance == Spec => []IInv
<1> QED
  BY InitIInv, NextIInv, PTL DEF Spec

-----------------------------------------------------------------------------
(* Every variable of store.ts keeps a value of its kind.                   *)
THEOREM TypeCorrect == Spec => []TypeOK
<1>1. IInv => TypeOK
  BY DEF IInv, Good, Typed, TypeOK
<1> QED
  BY <1>1, Invariance, PTL

(* A replayed response is that of an execution of the same key and         *)
(* fingerprint, however many leases expired meanwhile.                     *)
THEOREM ReplaysMatch == Spec => []ReplayMatches
<1>1. IInv => ReplayMatches
  BY DEF IInv, Good, ReplaysKnown, ReplayMatches
<1> QED
  BY <1>1, Invariance, PTL

(* Nothing but the end of its time to live takes a lock from its holder.   *)
THEOREM LocksExclude == Spec => []ExclusiveWhileLocked
<1>1. ASSUME IInv PROVE ExclusiveWhileLocked
  <2> SUFFICES ASSUME NEW r \in Requests, NEW s \in Requests, r # s,
                      req[r].pc = "running", req[s].pc = "running",
                      req[r].key = req[s].key, req[r].age # Ttl, req[s].age # Ttl
               PROVE  FALSE
    BY DEF ExclusiveWhileLocked
  <2>1. req[r].age < Ttl /\ req[s].age < Ttl
    BY <1>1, StoreAssumption DEF IInv, Good, Typed, Request
  <2>2. req[r].lease = req[s].lease
    BY <1>1, <2>1 DEF IInv, Good, LockHeld
  <2> QED
    BY <1>1, <2>2 DEF IInv, Good, LeasesDistinct
<1> QED
  BY <1>1, Invariance, PTL

(* No step removes a record in flight and leaves a waiter behind.          *)
THEOREM WaitersRemembered == Spec => []NoLostWaiter
<1>1. IInv => NoLostWaiter
  BY DEF IInv, Good, WaitersKept, NoLostWaiter, InFlight, Present
<1> QED
  BY <1>1, Invariance, PTL

(* The Map never outgrows options.maxKeys.                                 *)
THEOREM CapacityBound == Spec => []CapacityHeld
<1>1. IInv => CapacityHeld
  BY DEF IInv, Good, Bounded, CapacityHeld
<1> QED
  BY <1>1, Invariance, PTL

(* A running request answers as its own handler ends, and then only.       *)
LEMMA OnlyHandlersEnd ==
  ASSUME Good(records, req, leaseSeq, origin), Next,
         NEW r \in Requests, req[r].pc = "running", req'[r].pc = "done",
         req'[r].kind = "success"
  PROVE  HandlerSucceeds(r)
<1>1. req \in [Requests -> Request] /\ AfterPrune[r] = req[r]
  BY PruneGood DEF Good, Typed
<1>2. AfterPrune \in [Requests -> Request]
  BY PruneGood DEF Good, Typed
<1>3. ASSUME NEW s \in Requests, Bypass(s) PROVE FALSE
  BY <1>1, <1>3 DEF Bypass
<1>4. ASSUME NEW s \in Requests, NEW k \in Keys, NEW f \in Fingerprints, Arrive(s, k, f)
      PROVE  FALSE
  <2>1. s # r /\ req'[r] = AfterPrune[r]
    BY <1>2, <1>4
    DEF Arrive, StartConflict, StartReplay, StartWait, StartOverflow, StartProceed
  <2> QED
    BY <1>1, <2>1
<1>5. ASSUME NEW s \in Requests, HandlerSucceeds(s) \/ HandlerFails(s), s # r PROVE FALSE
  <2>1. Holds(s) => r \notin records[req[s].key].waiters
    <3>1. CASE Holds(s)
      <4>1. req[s].key \in Present(records)
        BY <1>5, <3>1, HolderAlone DEF HandlerSucceeds, HandlerFails
      <4> QED
        BY <4>1 DEF Good, WaitersListed
    <3> QED
      BY <3>1
  <2>2. req'[r] = req[r]
    BY <1>1, <1>5, <2>1 DEF HandlerSucceeds, HandlerFails, Resolve, Reject
  <2> QED
    BY <2>2
<1>6. ~HandlerFails(r)
  <2>1. SUFFICES ASSUME HandlerFails(r) PROVE FALSE
    OBVIOUS
  <2>2. Holds(r) => r \notin records[req[r].key].waiters
    <3>1. CASE Holds(r)
      <4>1. req[r].key \in Present(records)
        BY <3>1, HolderAlone
      <4> QED
        BY <4>1 DEF Good, WaitersListed
    <3> QED
      BY <3>1
  <2>3. req'[r] \in {Done("failure"), Done("threw")}
    BY <1>1, <2>1, <2>2 DEF HandlerFails, Resolve, Reject
  <2> QED
    BY <2>3 DEF Done
<1>7. ~Sweep
  BY <1>1 DEF Sweep
<1>8. ~dispose
  BY DEF dispose
<1>9. ~Tick
  <2>1. SUFFICES ASSUME Tick PROVE FALSE
    OBVIOUS
  <2>2. req'[r] = req[r] \/ req'[r] = [req[r] EXCEPT !.age = req[r].age + 1]
    BY <2>1 DEF Tick
  <2>3. req'[r].pc = req[r].pc
    BY <1>1, <2>2 DEF Request
  <2> QED
    BY <2>3
<1> QED
  BY <1>3, <1>4, <1>5, <1>6, <1>7, <1>8, <1>9 DEF Next

(* An execution that ends in time finds its lease in place and its         *)
(* response cached.                                                        *)
THEOREM TimelyCached == Spec => TimelyResponseCached
<1>1. ASSUME IInv, Next, NEW r \in Requests, req[r].pc = "running", req[r].age < Ttl,
             req'[r].pc = "done", req'[r].kind = "success"
      PROVE  /\ records'[req[r].key] # None
             /\ records'[req[r].key].status = "complete"
             /\ records'[req[r].key].lease = req[r].lease
  <2>1. Good(records, req, leaseSeq, origin) /\ req \in [Requests -> Request]
    BY <1>1 DEF IInv, Good, Typed
  <2>2. HandlerSucceeds(r)
    BY <1>1, <2>1, OnlyHandlersEnd
  <2>3. Holds(r) /\ req[r].key \in Keys
    BY <1>1, <2>1 DEF Good, LockHeld, Present, Holds, InFlight
  <2>4. records' = [records EXCEPT ![req[r].key] =
                      [status |-> "complete", fp |-> records[req[r].key].fp,
                       lease |-> req[r].lease, left |-> FreshLife(records[req[r].key]),
                       waiters |-> {}]]
    BY <2>2, <2>3 DEF HandlerSucceeds
  <2>5. records[req[r].key] \in Record /\ records[req[r].key].lease = req[r].lease
    BY <1>1, <2>1, <2>3, HolderAlone DEF Holds, Good, Typed, Present
  <2>6. [status |-> "complete", fp |-> records[req[r].key].fp, lease |-> req[r].lease,
         left |-> FreshLife(records[req[r].key]), waiters |-> {}] \in Record
    BY <2>5, StoreAssumption DEF Record, FreshLife
  <2> QED
    BY <2>1, <2>3, <2>4, <2>6, NoneNotRecord DEF Good, Typed
<1>2. IInv /\ [Next]_vars => [\A r \in Requests : CachedInTime(r)]_vars
  BY <1>1 DEF CachedInTime, vars
<1> QED
  BY <1>2, Invariance, PTL DEF Spec, TimelyResponseCached

=============================================================================
