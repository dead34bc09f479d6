---------------------------- MODULE Idempotency ----------------------------
(***************************************************************************)
(* The Idempotency-Key middleware (packages/idempotency/lib/idempotency.ts)*)
(* over the in-memory store (packages/idempotency/lib/store.ts), as any    *)
(* number of overlapping requests use them.                                *)
(*                                                                         *)
(* The store's methods are synchronous, so each is one step.  A request    *)
(* that gets a lease runs its handler across many steps, and one that      *)
(* finds its key in flight waits for a promise that the store settles.     *)
(*                                                                         *)
(* Time is relative: `left` is expiresAt - now, never below 0, and Tick    *)
(* advances the clock.  A record is expired when left = 0.  A response is  *)
(* identified by the lease of the execution that produced it.  start()     *)
(* increments leaseSeq and seq together, so `lease` is also a record's seq.*)
(***************************************************************************)
EXTENDS Integers, FiniteSets

CONSTANTS
  Requests,      \* slots for requests in progress
  Keys,          \* store keys (already scoped)
  Fingerprints,
  None,          \* no record, no key, no fingerprint
  MaxKeys,       \* options.maxKeys
  Ttl,           \* ttlMs, in ticks
  Sweeper,       \* whether options.sweepIntervalMs is set
  MaxLeases      \* bound on the executions of a behaviour

ASSUME StoreAssumption ==
  /\ IsFiniteSet(Keys)
  /\ MaxKeys \in Nat
  /\ Ttl \in Nat \ {0}
  /\ Sweeper \in BOOLEAN
  /\ MaxLeases \in Nat
ASSUME NoneAssumption ==
  /\ None \notin Keys
  /\ \A rec \in [status : {"in-flight", "complete"}, fp : Fingerprints,
                 lease : 1 .. MaxLeases, left : 0 .. Ttl, waiters : SUBSET Requests] :
       None # rec

VARIABLES
  records,    \* the store's Map
  leaseSeq,   \* the last lease granted
  sweeping,   \* the sweep timer is set
  req,        \* the requests
  origin      \* ghost: the key and fingerprint each lease was granted for

vars == <<records, leaseSeq, sweeping, req, origin>>

Leases == 1 .. MaxLeases

Record == [status  : {"in-flight", "complete"},
           fp      : Fingerprints,
           lease   : Leases,
           left    : 0 .. Ttl,
           waiters : SUBSET Requests]

(***************************************************************************)
(* How a request was answered: "bypassed" without the store; "replay" of   *)
(* the response of execution `lease`; "conflict" and "overflow" by the     *)
(* store's verdict; "lost" when the promise it waited on was rejected;     *)
(* "success", "failure" (a response that is not cached) or "threw" (no     *)
(* response either) by its own handler.  Of a request that is done, only   *)
(* what tells whose response it got is kept.                               *)
(***************************************************************************)
Kinds == {"none", "bypassed", "replay", "conflict", "overflow", "lost",
          "success", "failure", "threw"}

Request == [pc    : {"done", "running", "waiting"},
            key   : Keys \cup {None},
            fp    : Fingerprints \cup {None},
            lease : 0 .. MaxLeases,   \* held while running; replayed when done
            age   : 0 .. Ttl,         \* ghost: ticks since the lease was granted
            kind  : Kinds]

Done(kind) == [pc |-> "done", key |-> None, fp |-> None, lease |-> 0, age |-> 0,
               kind |-> kind]
Replayed(k, f, lease) == [pc |-> "done", key |-> k, fp |-> f, lease |-> lease, age |-> 0,
                          kind |-> "replay"]

InFlight(k) == records[k] # None /\ records[k].status = "in-flight"

Init ==
  /\ records = [k \in Keys |-> None]
  /\ leaseSeq = 0
  /\ sweeping = Sweeper
  /\ req = [r \in Requests |-> Done("none")]
  /\ origin = [l \in Leases |-> << >>]

-----------------------------------------------------------------------------
(* The store's parts, on a Map `recs` and requests `rq`.                   *)

Bug_ExpireEarly(rec) == rec.left <= 1
Expired(rec) == rec.left = 0

Present(recs) == {k \in Keys : recs[k] # None}
ExpiredKeys(recs) == {k \in Present(recs) : Expired(recs[k])}

(* Settling the promise of every request in `waiters`: rejected, or        *)
(* resolved with the response of `lease`.                                  *)
Reject(rq, waiters) ==
  [r \in Requests |-> IF r \in waiters THEN Done("lost") ELSE rq[r]]

Resolve(rq, waiters, lease) ==
  [r \in Requests |->
     IF r \in waiters THEN Replayed(rq[r].key, rq[r].fp, lease) ELSE rq[r]]

(* pruneExpired: expired records go, and those who waited for one are      *)
(* rejected.                                                               *)
pruneExpired == [k \in Keys |-> IF k \in ExpiredKeys(records) THEN None ELSE records[k]]

Bug_WaitersForgotten == {}
Abandoned == UNION {records[k].waiters : k \in ExpiredKeys(records)}

AfterPrune == Reject(req, Abandoned)

(* evictOldestComplete.                                                    *)
Bug_EvictAny(recs) == Present(recs)
Evictable(recs) == {k \in Present(recs) : recs[k].status = "complete"}

Oldest(recs) ==
  CHOOSE k \in Evictable(recs) : \A j \in Evictable(recs) : recs[k].lease <= recs[j].lease

Full(recs) == Cardinality(Present(recs)) >= MaxKeys

(* The loop that makes room: the Map never holds more than MaxKeys records,*)
(* so it removes one at most.                                              *)
MakeRoom(recs) == IF Full(recs) THEN [recs EXCEPT ![Oldest(recs)] = None] ELSE recs

(* complete() gives the record a whole time to live from now on.           *)
Bug_LifeAdded(rec) == rec.left + Ttl
FreshLife(rec) == Ttl

(* takeInFlight: the record of `key`, if this lease holds it.              *)
Bug_NotFenced(r) == InFlight(req[r].key)
Holds(r) == InFlight(req[r].key) /\ records[req[r].key].lease = req[r].lease

Bug_AnyFingerprint(rec, f) == TRUE
SameFingerprint(rec, f) == rec.fp = f

-----------------------------------------------------------------------------
(* A request arrives.                                                      *)

(* The method takes no part or there is no key, or the key is malformed or *)
(* missing though required: the store is not used.                         *)
Bypass(r) ==
  /\ req[r].pc = "done"
  /\ req' = [req EXCEPT ![r] = Done("bypassed")]
  /\ UNCHANGED <<records, leaseSeq, sweeping, origin>>

(* A record with another fingerprint: 409.                                 *)
StartConflict(r, k, f) ==
  /\ req[r].pc = "done"
  /\ k \in Present(pruneExpired)
  /\ ~SameFingerprint(pruneExpired[k], f)
  /\ records' = pruneExpired
  /\ req' = [AfterPrune EXCEPT ![r] = Done("conflict")]
  /\ UNCHANGED <<leaseSeq, sweeping, origin>>

StartReplay(r, k, f) ==
  /\ req[r].pc = "done"
  /\ k \in Present(pruneExpired)
  /\ SameFingerprint(pruneExpired[k], f)
  /\ pruneExpired[k].status = "complete"
  /\ records' = pruneExpired
  /\ req' = [AfterPrune EXCEPT ![r] = Replayed(k, f, pruneExpired[k].lease)]
  /\ UNCHANGED <<leaseSeq, sweeping, origin>>

(* The key is in flight: join its waiters.                                 *)
StartWait(r, k, f) ==
  /\ req[r].pc = "done"
  /\ k \in Present(pruneExpired)
  /\ SameFingerprint(pruneExpired[k], f)
  /\ pruneExpired[k].status = "in-flight"
  /\ records' = [pruneExpired EXCEPT ![k].waiters = @ \cup {r}]
  /\ req' = [AfterPrune EXCEPT ![r] = [pc |-> "waiting", key |-> k, fp |-> f, lease |-> 0,
                                       age |-> 0, kind |-> "none"]]
  /\ UNCHANGED <<leaseSeq, sweeping, origin>>

StartOverflow(r, k, f) ==
  /\ req[r].pc = "done"
  /\ k \notin Present(pruneExpired)
  /\ Full(pruneExpired)
  /\ Evictable(pruneExpired) = {}
  /\ records' = pruneExpired
  /\ req' = [AfterPrune EXCEPT ![r] = Done("overflow")]
  /\ UNCHANGED <<leaseSeq, sweeping, origin>>

(* A new lease, after evicting the oldest complete record if need be.      *)
StartProceed(r, k, f) ==
  /\ req[r].pc = "done"
  /\ leaseSeq < MaxLeases
  /\ k \notin Present(pruneExpired)
  /\ Full(pruneExpired) => Evictable(pruneExpired) # {}
  /\ leaseSeq' = leaseSeq + 1
  /\ records' = [MakeRoom(pruneExpired) EXCEPT
                   ![k] = [status |-> "in-flight", fp |-> f, lease |-> leaseSeq',
                           left |-> Ttl, waiters |-> {}]]
  /\ req' = [AfterPrune EXCEPT ![r] = [pc |-> "running", key |-> k, fp |-> f,
                                       lease |-> leaseSeq', age |-> 0, kind |-> "none"]]
  /\ origin' = [origin EXCEPT ![leaseSeq'] = <<k, f>>]
  /\ UNCHANGED sweeping

-----------------------------------------------------------------------------
(* The handler of a request with a lease ends.                             *)

(* A response to cache: complete().  Whoever lost the lease only answers.  *)
HandlerSucceeds(r) ==
  /\ req[r].pc = "running"
  /\ LET k == req[r].key
         ended == [req EXCEPT ![r] = Done("success")]
     IN  IF Holds(r)
           THEN /\ records' = [records EXCEPT ![k] =
                     [status |-> "complete", fp |-> @.fp, lease |-> req[r].lease,
                      left |-> FreshLife(@), waiters |-> {}]]
                /\ req' = Resolve(ended, records[k].waiters, req[r].lease)
           ELSE /\ req' = ended
                /\ UNCHANGED records
  /\ UNCHANGED <<leaseSeq, sweeping, origin>>

(* A response that is not cached, no response, or an exception: fail().    *)
(* The waiters get that response once, or are rejected.                    *)
HandlerFails(r) ==
  /\ req[r].pc = "running"
  /\ \E kind \in {"failure", "threw"} :
       LET k == req[r].key
           ended == [req EXCEPT ![r] = Done(kind)]
       IN  IF Holds(r)
             THEN /\ records' = [records EXCEPT ![k] = None]
                  /\ req' = IF kind = "failure"
                              THEN Resolve(ended, records[k].waiters, req[r].lease)
                              ELSE Reject(ended, records[k].waiters)
             ELSE /\ req' = ended
                  /\ UNCHANGED records
  /\ UNCHANGED <<leaseSeq, sweeping, origin>>

-----------------------------------------------------------------------------
(* The sweep timer, dispose() and the clock.                               *)

Sweep ==
  /\ sweeping
  /\ ExpiredKeys(records) # {}
  /\ records' = pruneExpired
  /\ req' = AfterPrune
  /\ UNCHANGED <<leaseSeq, sweeping, origin>>

dispose ==
  /\ sweeping
  /\ sweeping' = FALSE
  /\ UNCHANGED <<records, leaseSeq, req, origin>>

Tick ==
  /\ records' = [k \in Keys |->
                   IF k \in Present(records) /\ records[k].left > 0
                     THEN [records[k] EXCEPT !.left = @ - 1] ELSE records[k]]
  /\ req' = [r \in Requests |->
               IF req[r].pc = "running" /\ req[r].age < Ttl
                 THEN [req[r] EXCEPT !.age = @ + 1] ELSE req[r]]
  /\ UNCHANGED <<leaseSeq, sweeping, origin>>

-----------------------------------------------------------------------------
Arrive(r, k, f) ==
  \/ StartConflict(r, k, f) \/ StartReplay(r, k, f) \/ StartWait(r, k, f)
  \/ StartOverflow(r, k, f) \/ StartProceed(r, k, f)

Next ==
  \/ \E r \in Requests :
       \/ Bypass(r)
       \/ \E k \in Keys, f \in Fingerprints : Arrive(r, k, f)
       \/ HandlerSucceeds(r)
       \/ HandlerFails(r)
  \/ Sweep
  \/ dispose
  \/ Tick

Spec == Init /\ [][Next]_vars

(* Time passes and a timer that is set fires; handlers may hang, and new   *)
(* requests need never come.                                               *)
FairSpec == Spec /\ WF_vars(Tick) /\ WF_vars(Sweep)

-----------------------------------------------------------------------------
(* Every variable holds a value of its kind.                               *)
TypeOK ==
  /\ records \in [Keys -> Record \cup {None}]
  /\ leaseSeq \in 0 .. MaxLeases
  /\ sweeping \in BOOLEAN
  /\ req \in [Requests -> Request]
  /\ origin \in [Leases -> (Keys \X Fingerprints) \cup {<< >>}]

(* A replayed response, from the cache or from the promise of the first    *)
(* request, comes from an execution of the same key and fingerprint, even  *)
(* if leases expired and their holders finished late.                      *)
ReplayMatches ==
  \A r \in Requests : req[r].kind = "replay" =>
    origin[req[r].lease] = <<req[r].key, req[r].fp>>

(* Two executions of one key only overlap once the lock's time to live has *)
(* run out for one of them: nothing else takes a lock from its holder.     *)
ExclusiveWhileLocked ==
  \A r, s \in Requests :
    /\ r # s
    /\ req[r].pc = "running" /\ req[s].pc = "running"
    /\ req[r].key = req[s].key
    => req[r].age = Ttl \/ req[s].age = Ttl

(* A request that waits is on the list of a record in flight: nothing      *)
(* removes a record and leaves its waiters behind.                         *)
NoLostWaiter ==
  \A r \in Requests : req[r].pc = "waiting" =>
    InFlight(req[r].key) /\ r \in records[req[r].key].waiters

(* The store never holds more than maxKeys records.                        *)
CapacityHeld == Cardinality(Present(records)) <= MaxKeys

CachedInTime(r) ==
  req[r].pc = "running" /\ req[r].age < Ttl /\ req'[r].pc = "done" /\ req'[r].kind = "success"
  => /\ records'[req[r].key] # None
     /\ records'[req[r].key].status = "complete"
     /\ records'[req[r].key].lease = req[r].lease

(* An execution that succeeds before its lock expires gets its response    *)
(* cached: no late finisher of an earlier lease can have removed or        *)
(* replaced its record.                                                    *)
TimelyResponseCached == [][\A r \in Requests : CachedInTime(r)]_vars

(* While the sweeper is on, a waiter is answered even if the request it    *)
(* waits for hangs and no other request ever comes.                        *)
WaitersFreed ==
  (\A r \in Requests : req[r].pc = "waiting" ~> req[r].pc = "done") \/ <>[]~sweeping

=============================================================================
