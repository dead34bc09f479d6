---------------------------- MODULE Zwen_proofs ----------------------------
(***************************************************************************)
(* Proofs about Zwen, for any manifests, route tables and apps.            *)
(*                                                                         *)
(* The tool is the generator of Wire, the routes and the documents beside  *)
(* each other, and so is the proof.  The container that gen:wire writes    *)
(* boots and a cycle that it reports is one; references in a document lead *)
(* to the schema that was meant, and types of the client are of the        *)
(* component that is mentioned; a call through the client is answered by   *)
(* the route that it was generated from.                                   *)
(***************************************************************************)
EXTENDS Zwen, FiniteSetTheorems, SequenceTheorems, WellFoundedInduction, TLAPS

-----------------------------------------------------------------------------
(* Among: the entries of a list that lie in S, as a list.  The place of an *)
(* entry among them is the number of those up to it; two differ in it.     *)
LEMMA RankOrdered ==
  ASSUME NEW places, places \subseteq Nat, IsFiniteSet(places),
         NEW rank, rank = [i \in places |-> Cardinality({j \in places : j <= i})]
  PROVE  \A i, k \in places : i < k => rank[i] # rank[k]
  <1>1. IsFiniteSet(places)
    OBVIOUS
  <1>. SUFFICES ASSUME NEW i \in places, NEW k \in places, i < k
                PROVE  rank[i] # rank[k]
    OBVIOUS
  <1>2. PICK low : low = {j \in places : j <= i}
    OBVIOUS
  <1>3. PICK high : high = {j \in places : j <= k}
    OBVIOUS
  <1>4. low \subseteq high /\ k \notin low /\ k \in high /\ high \subseteq places
    <2>1. i \in Nat /\ k \in Nat /\ \A j \in places : j \in Nat
      OBVIOUS
    <2>2. \A j \in low : j \in high
      <3>1. \A j \in Nat : j <= i => j <= k
        BY <2>1
      <3>. QED
        BY <1>2, <1>3, <2>1, <3>1, Zenon
    <2>3. k \notin low /\ k \in high
      <3>1. k <= k /\ ~(k <= i)
        BY <2>1
      <3>. QED
        BY <1>2, <1>3, <3>1, Zenon
    <2>. QED
      BY <1>3, <2>2, <2>3
  <1>5. IsFiniteSet(high)
    BY <1>1, <1>4, FS_Subset
  <1>6. Cardinality(low) # Cardinality(high)
    BY <1>4, <1>5, FS_Subset
  <1>. QED
    BY <1>2, <1>3, <1>6

(* So the places of the entries are the numbers up to their count.         *)
LEMMA Ranking ==
  ASSUME NEW places, places \subseteq Nat, IsFiniteSet(places)
  PROVE  \E rank :
           /\ rank = [i \in places |-> Cardinality({j \in places : j <= i})]
           /\ Cardinality(places) \in Nat
           /\ rank \in [places -> 1 .. Cardinality(places)]
           /\ \A k \in 1 .. Cardinality(places) : \E i \in places : rank[i] = k
           /\ \A i, k \in places : i < k => rank[i] # rank[k]
  <1>1. PICK rank : rank = [i \in places |-> Cardinality({j \in places : j <= i})]
    OBVIOUS
  <1>2. \A i, k \in places : i < k => rank[i] # rank[k]
    BY <1>1, RankOrdered, Zenon
  <1>3. PICK count : count = Cardinality(places)
    OBVIOUS
  <1>4. count \in Nat
    BY <1>3, FS_CardinalityType
  <1>5. ASSUME NEW i \in places PROVE rank[i] \in 1 .. count
    <2>1. PICK low : low = {j \in places : j <= i}
      OBVIOUS
    <2>2. low \subseteq places /\ i \in low
      BY <2>1
    <2>3. IsFiniteSet(low) /\ Cardinality(low) <= count
      BY <1>3, <2>2, FS_Subset
    <2>4. Cardinality(low) \in Nat /\ Cardinality(low) # 0
      BY <2>2, <2>3, FS_EmptySet, FS_CardinalityType
    <2>. QED
      BY <1>1, <1>4, <2>1, <2>3, <2>4
  <1>6. rank \in [places -> 1 .. count]
    BY <1>1, <1>5
  <1>7. \A i, k \in places : rank[i] = rank[k] => i = k
    BY <1>2
  <1>8. rank \in Injection(places, 1 .. count)
    BY <1>6, <1>7 DEF Injection, IsInjective
  <1>9. IsFiniteSet(1 .. count) /\ Cardinality(1 .. count) = count
    BY <1>4, FS_Interval
  <1>10. rank \in Surjection(places, 1 .. count)
    BY <1>3, <1>8, <1>9, FS_Injection
  <1>11. \A k \in 1 .. count : \E i \in places : rank[i] = k
    BY <1>10 DEF Surjection
  <1>12. /\ Cardinality(places) \in Nat
         /\ rank \in [places -> 1 .. Cardinality(places)]
         /\ \A k \in 1 .. Cardinality(places) : \E i \in places : rank[i] = k
    BY <1>3, <1>4, <1>6, <1>11
  <1>. QED
    BY <1>1, <1>2, <1>12, Zenon

(* The entry of each place.                                                *)
LEMMA AmongEntries ==
  ASSUME NEW T, NEW list \in Seq(T), NEW S
  PROVE  /\ Among(list, S) \in Seq(T \cap S)
         /\ \A i \in DOMAIN list : list[i] \in S =>
              \E k \in DOMAIN Among(list, S) : Among(list, S)[k] = list[i]
         /\ IsInjective(list) => IsInjective(Among(list, S))
  <1>1. PICK places : places = {i \in DOMAIN list : list[i] \in S}
    OBVIOUS
  <1>2. Len(list) \in Nat /\ places \subseteq 1 .. Len(list) /\ places \subseteq Nat
    BY <1>1
  <1>3. IsFiniteSet(places)
    <2>1. IsFiniteSet(1 .. Len(list))
      BY <1>2, FS_Interval
    <2>. QED
      BY <1>2, <2>1, FS_Subset
  <1>4. PICK rank :
          /\ rank = [i \in places |-> Cardinality({j \in places : j <= i})]
          /\ Cardinality(places) \in Nat
          /\ rank \in [places -> 1 .. Cardinality(places)]
          /\ \A k \in 1 .. Cardinality(places) : \E i \in places : rank[i] = k
          /\ \A i, k \in places : i < k => rank[i] # rank[k]
    BY <1>2, <1>3, Ranking, Zenon
  <1>5. PICK n : n = Cardinality(places)
    OBVIOUS
  <1>6. /\ n \in Nat
        /\ \A i \in places : rank[i] \in 1 .. n
        /\ \A k \in 1 .. n : \E i \in places : rank[i] = k
    BY <1>4, <1>5
  <1>. DEFINE at(k) == CHOOSE i \in places : Cardinality({j \in places : j <= i}) = k
  <1>7. Among(list, S) = [k \in 1 .. n |-> list[at(k)]]
    <2>. DEFINE F(p) == [k \in 1 .. Cardinality(p) |->
                           list[CHOOSE i \in p : Cardinality({j \in p : j <= i}) = k]]
    <2>1. Among(list, S) = F({i \in DOMAIN list : list[i] \in S})
      BY Zenon DEF Among
    <2>2. F(places) = [k \in 1 .. n |-> list[at(k)]]
      <3>1. F(places) = [k \in 1 .. Cardinality(places) |-> list[at(k)]]
        BY Zenon
      <3>. HIDE DEF F, at
      <3>. QED
        BY <1>5, <3>1
    <2>. HIDE DEF F, at
    <2>. QED
      BY <1>1, <2>1, <2>2
  <1>8. ASSUME NEW k \in 1 .. n PROVE at(k) \in places /\ rank[at(k)] = k
    <2>1. PICK i \in places : rank[i] = k
      BY <1>6
    <2>2. Cardinality({j \in places : j <= i}) = k
      BY <1>4, <2>1
    <2>3. at(k) \in places /\ Cardinality({j \in places : j <= at(k)}) = k
      BY <2>2, Zenon
    <2>. HIDE DEF at
    <2>. QED
      BY <1>4, <2>3
  <1>. HIDE DEF at
  <1>9. \A i \in places : i \in Nat /\ i \in DOMAIN list /\ list[i] \in T \cap S
    BY <1>1, <1>2
  <1>10. Among(list, S) \in Seq(T \cap S) /\ DOMAIN Among(list, S) = 1 .. n
    BY <1>6, <1>7, <1>8, <1>9
  <1>11. ASSUME NEW i \in DOMAIN list, list[i] \in S
         PROVE  \E k \in DOMAIN Among(list, S) : Among(list, S)[k] = list[i]
    <2>1. i \in places
      BY <1>1, <1>11
    <2>2. PICK k \in 1 .. n : k = rank[i]
      BY <1>6, <2>1
    <2>3. at(k) \in places /\ rank[at(k)] = rank[i]
      BY <1>8, <2>2
    <2>4. at(k) = i
      <3>1. PICK h : h = at(k)
        OBVIOUS
      <3>2. h \in places /\ ~(h < i) /\ ~(i < h)
        BY <1>4, <2>1, <2>3, <3>1
      <3>3. h \in Nat /\ i \in Nat
        BY <1>9, <2>1, <3>2
      <3>. QED
        BY <3>1, <3>2, <3>3
    <2>. QED
      BY <1>7, <1>10, <2>4
  <1>12. ASSUME IsInjective(list) PROVE IsInjective(Among(list, S))
    <2>1. \A h, k \in 1 .. n : list[at(h)] = list[at(k)] => h = k
      BY <1>8, <1>9, <1>12 DEF IsInjective
    <2>. QED
      BY <1>7, <1>10, <2>1 DEF IsInjective
  <1>. QED
    BY <1>10, <1>11, <1>12

-----------------------------------------------------------------------------
(* Queues: what is in them, and that it is in them once.                   *)
LEMMA TailSet ==
  ASSUME NEW T, NEW s \in Seq(T), s # <<>>
  PROVE  /\ Head(s) \in T /\ Tail(s) \in Seq(T)
         /\ ToSet(s) = {Head(s)} \cup ToSet(Tail(s))
         /\ IsInjective(s) => Head(s) \notin ToSet(Tail(s)) /\ IsInjective(Tail(s))
  <1>1. PICK n : n = Len(s) - 1
    OBVIOUS
  <1>2. n \in Nat /\ Len(s) = n + 1
    BY <1>1
  <1>3. PICK t : t = Tail(s)
    OBVIOUS
  <1>4. PICK x : x = Head(s)
    OBVIOUS
  <1>5. /\ DOMAIN s = 1 .. n + 1 /\ x = s[1] /\ x \in T
        /\ t \in Seq(T) /\ DOMAIN t = 1 .. n
        /\ \A i \in 1 .. n : t[i] = s[i + 1]
    BY <1>2, <1>3, <1>4
  <1>6. /\ \A i \in 1 .. n : i + 1 \in 1 .. n + 1 /\ i + 1 # 1
        /\ 1 \in 1 .. n + 1
        /\ \A i \in 1 .. n + 1 : i # 1 => i - 1 \in 1 .. n /\ (i - 1) + 1 = i
        /\ \A i, j \in 1 .. n : i + 1 = j + 1 => i = j
    BY <1>2
  <1>7. ToSet(s) = {x} \cup ToSet(t)
    <2>1. \A y \in ToSet(s) : y \in {x} \cup ToSet(t)
      BY <1>5, <1>6 DEF ToSet
    <2>2. \A y \in ToSet(t) : y \in ToSet(s)
      BY <1>5, <1>6 DEF ToSet
    <2>3. x \in ToSet(s)
      BY <1>5, <1>6 DEF ToSet
    <2>. QED
      BY <2>1, <2>2, <2>3
  <1>8. ASSUME IsInjective(s) PROVE x \notin ToSet(t) /\ IsInjective(t)
    <2>1. \A i, j \in 1 .. n + 1 : s[i] = s[j] => i = j
      BY <1>5, <1>8 DEF IsInjective
    <2>2. x \notin ToSet(t)
      BY <1>5, <1>6, <2>1 DEF ToSet
    <2>3. \A i, j \in 1 .. n : t[i] = t[j] => i = j
      BY <1>5, <1>6, <2>1
    <2>. QED
      BY <1>5, <2>2, <2>3 DEF IsInjective
  <1>. QED
    BY <1>3, <1>4, <1>5, <1>7, <1>8

LEMMA ConcatSet ==
  ASSUME NEW T, NEW a \in Seq(T), NEW b \in Seq(T)
  PROVE  /\ a \o b \in Seq(T)
         /\ ToSet(a \o b) = ToSet(a) \cup ToSet(b)
         /\ (IsInjective(a) /\ IsInjective(b) /\ ToSet(a) \cap ToSet(b) = {}) => IsInjective(a \o b)
  <1>1. PICK m \in Nat : m = Len(a) /\ DOMAIN a = 1 .. m
    OBVIOUS
  <1>2. PICK n \in Nat : n = Len(b) /\ DOMAIN b = 1 .. n
    OBVIOUS
  <1>3. PICK s : s = a \o b
    OBVIOUS
  <1>4. /\ s \in Seq(T) /\ DOMAIN s = 1 .. m + n
        /\ \A i \in 1 .. m + n : s[i] = IF i <= m THEN a[i] ELSE b[i - m]
    BY <1>1, <1>2, <1>3
  <1>5. /\ \A i \in 1 .. m : i \in 1 .. m + n /\ s[i] = a[i]
        /\ \A i \in 1 .. n : i + m \in 1 .. m + n /\ s[i + m] = b[i]
    BY <1>4
  <1>6. \A i \in 1 .. m + n :
          \/ i \in 1 .. m /\ s[i] = a[i]
          \/ i - m \in 1 .. n /\ s[i] = b[i - m]
    BY <1>4
  <1>7. ToSet(s) = ToSet(a) \cup ToSet(b)
    <2>1. \A x \in ToSet(s) : x \in ToSet(a) \cup ToSet(b)
      BY <1>1, <1>2, <1>4, <1>6 DEF ToSet
    <2>2. \A x \in ToSet(a) : x \in ToSet(s)
      BY <1>1, <1>4, <1>5 DEF ToSet
    <2>3. \A x \in ToSet(b) : x \in ToSet(s)
      BY <1>2, <1>4, <1>5 DEF ToSet
    <2>. QED
      BY <2>1, <2>2, <2>3
  <1>8. ASSUME IsInjective(a), IsInjective(b), ToSet(a) \cap ToSet(b) = {}
        PROVE  IsInjective(s)
    <2>1. \A i, j \in 1 .. m : a[i] = a[j] => i = j
      BY <1>1, <1>8 DEF IsInjective
    <2>2. \A i, j \in 1 .. n : b[i] = b[j] => i = j
      BY <1>2, <1>8 DEF IsInjective
    <2>3. \A i \in 1 .. m : \A j \in 1 .. n : a[i] # b[j]
      BY <1>1, <1>2, <1>8 DEF ToSet
    <2>4. \A i, j \in 1 .. m + n : i - m = j - m => i = j
      OBVIOUS
    <2>5. ASSUME NEW i \in 1 .. m + n, NEW j \in 1 .. m + n, s[i] = s[j] PROVE i = j
      <3>1. CASE i \in 1 .. m /\ s[i] = a[i]
        BY <1>6, <2>1, <2>3, <2>5, <3>1
      <3>2. CASE i - m \in 1 .. n /\ s[i] = b[i - m]
        BY <1>6, <2>2, <2>3, <2>4, <2>5, <3>2
      <3>. QED
        BY <1>6, <3>1, <3>2
    <2>. QED
      BY <1>4, <2>5 DEF IsInjective
  <1>. QED
    BY <1>3, <1>4, <1>7, <1>8

LEMMA AppendSet ==
  ASSUME NEW T, NEW s \in Seq(T), NEW x \in T
  PROVE  /\ Append(s, x) \in Seq(T) /\ Len(Append(s, x)) = Len(s) + 1
         /\ \A i \in DOMAIN s : i \in DOMAIN Append(s, x) /\ Append(s, x)[i] = s[i]
         /\ \A i \in DOMAIN Append(s, x) : i \in DOMAIN s \/ (i = Len(s) + 1 /\ Append(s, x)[i] = x)
         /\ ToSet(Append(s, x)) = ToSet(s) \cup {x}
         /\ (IsInjective(s) /\ x \notin ToSet(s)) => IsInjective(Append(s, x))
  <1>1. PICK n \in Nat : n = Len(s) /\ DOMAIN s = 1 .. n
    OBVIOUS
  <1>2. PICK t : t = Append(s, x)
    OBVIOUS
  <1>3. /\ t \in Seq(T) /\ Len(t) = n + 1 /\ DOMAIN t = 1 .. n + 1
        /\ \A i \in 1 .. n + 1 : t[i] = IF i = n + 1 THEN x ELSE s[i]
    BY <1>1, <1>2
  <1>4. /\ \A i \in 1 .. n : i \in 1 .. n + 1 /\ t[i] = s[i]
        /\ n + 1 \in 1 .. n + 1 /\ t[n + 1] = x
        /\ \A i \in 1 .. n + 1 : i \in 1 .. n \/ (i = n + 1 /\ t[i] = x)
    BY <1>3
  <1>5. ToSet(t) = ToSet(s) \cup {x}
    BY <1>1, <1>3, <1>4 DEF ToSet
  <1>6. ASSUME IsInjective(s), x \notin ToSet(s) PROVE IsInjective(t)
    <2>1. (\A i, j \in 1 .. n : s[i] = s[j] => i = j) /\ \A i \in 1 .. n : s[i] # x
      BY <1>1, <1>6 DEF IsInjective, ToSet
    <2>. QED
      BY <1>3, <1>4, <2>1 DEF IsInjective
  <1>. QED
    BY <1>1, <1>2, <1>3, <1>4, <1>5, <1>6

-----------------------------------------------------------------------------
(* The inductive invariant of Wire.  A provider waits for its mentions of  *)
(* dependencies that are neither seeds nor in order yet; the queue holds   *)
(* those that wait for none and are not in order themselves.               *)
Awaited(key) == {i \in DOMAIN Deps(key) : Deps(key)[i] \notin Seeds \cup ToSet(ordered)}

Sorting == {"sort", "search", "circular", "written", "booting", "up", "broken"}

FreshInv ==
  /\ manifest \in Manifests
  /\ stage \in {"parse", "count"} =>
       queue = <<>> /\ ordered = <<>> /\ trail = <<>> /\ booted = 0
  /\ stage = "count" => Accepted

SortInv ==
  stage \in Sorting =>
    /\ Accepted /\ Bound
    /\ IsInjective(queue) /\ IsInjective(ordered)
    /\ ToSet(queue) \cap ToSet(ordered) = {}
    /\ \A key \in Keys : indegree[key] = Cardinality(Awaited(key))
    /\ \A key \in Keys : indegree[key] = 0 => key \in ToSet(queue) \cup ToSet(ordered)
    /\ \A key \in Keys : \A dep \in ToSet(Deps(key)) : \A i \in DOMAIN ordered :
         ordered[i] = key => dep \in Seeds \/ \E j \in 1 .. i - 1 : ordered[j] = dep

SearchInv ==
  stage = "search" =>
    /\ queue = <<>>
    /\ trail # <<>>
    /\ IsInjective(trail)
    /\ \A i \in DOMAIN trail : indegree[trail[i]] # 0
    /\ \A key \in Keys : \A i \in 1 .. Len(trail) - 1 :
         trail[i] = key => trail[i + 1] \in ToSet(Deps(key)) \ Seeds

BootInv ==
  /\ stage \in {"written", "booting", "up", "broken"} => Len(ordered) = Len(Providers)
  /\ stage \in {"sort", "written"} => booted = 0
  /\ stage = "booting" => booted < Len(ordered)

WireInv ==
  WireTypeOK /\ FreshInv /\ SortInv /\ SearchInv /\ BootInv /\ ContainerBoots /\ CycleReal

-----------------------------------------------------------------------------
(* What hangs on the manifest alone does not change with it.               *)
LEMMA SameManifest ==
  ASSUME UNCHANGED manifest
  PROVE  /\ Keys' = Keys /\ Seeds' = Seeds /\ Providers' = Providers /\ KeyOrder' = KeyOrder
         /\ \A key : ByKey(key)' = ByKey(key) /\ Deps(key)' = Deps(key)
         /\ Exposed' = Exposed
         /\ manifest \in Manifests => manifest' \in Manifests
  <1>1. Seeds' = Seeds /\ Providers' = Providers
    BY DEF Seeds, Providers
  <1>2. KeyOrder' = KeyOrder
    BY DEF KeyOrder, Providers
  <1>3. Keys' = Keys
    BY <1>2 DEF Keys
  <1>4. \A key : ByKey(key)' = ByKey(key)
    BY DEF ByKey, Providers
  <1>5. \A key : Deps(key)' = Deps(key)
    BY <1>4 DEF Deps
  <1>6. Exposed' = Exposed
    BY <1>3 DEF Exposed
  <1>. QED
    BY <1>1, <1>2, <1>3, <1>4, <1>5, <1>6

LEMMA SameAccepted ==
  ASSUME UNCHANGED manifest
  PROVE  /\ Accepted => Accepted'
         /\ Bound => Bound'
         /\ NameClash => NameClash'
  <1>1. Accepted => Accepted'
    BY SameManifest DEF Accepted, WellFormed
  <1>2. Bound => Bound'
    BY SameManifest DEF Bound
  <1>3. ~Loads => ~Loads'
    BY SameManifest DEF Loads, Factories
  <1>4. NameClash => NameClash'
    BY <1>3, SameManifest DEF NameClash
  <1>. QED
    BY <1>1, <1>2, <1>4

LEMMA SameOrder ==
  ASSUME UNCHANGED <<manifest, ordered>>
  PROVE  \A key : Awaited(key)' = Awaited(key)
  BY SameManifest DEF Awaited

(* The manifest's lists are sequences.                                     *)
LEMMA ManifestLists ==
  ASSUME manifest \in Manifests
  PROVE  /\ Len(Providers) \in Nat /\ DOMAIN Providers = 1 .. Len(Providers)
         /\ KeyOrder \in Seq(Keys) /\ Len(KeyOrder) = Len(Providers)
         /\ \A i \in DOMAIN Providers : Providers[i].deps \in Seq(ToSet(Providers[i].deps))
  <1>1. Providers \in Seq(ToSet(Providers))
    BY ManifestsAssumption DEF Providers, IsSequence
  <1>2. Len(Providers) \in Nat /\ DOMAIN Providers = 1 .. Len(Providers)
    BY <1>1
  <1>3. KeyOrder \in Seq(Keys) /\ Len(KeyOrder) = Len(Providers)
    BY <1>2 DEF KeyOrder, Keys, ToSet
  <1>4. \A i \in DOMAIN Providers : Providers[i].deps \in Seq(ToSet(Providers[i].deps))
    BY ManifestsAssumption DEF Providers, IsSequence
  <1>. QED
    BY <1>2, <1>3, <1>4

(* In an accepted manifest a key is that of one provider.                  *)
LEMMA OneProvider ==
  ASSUME manifest \in Manifests, Accepted, NEW key \in Keys
  PROVE  /\ \E i \in DOMAIN Providers : Providers[i].key = key /\ ByKey(key) = Providers[i]
         /\ Deps(key) \in Seq(ToSet(Deps(key)))
  <1>1. PICK i \in DOMAIN Providers : Providers[i].key = key
    BY ManifestLists DEF Keys, KeyOrder, ToSet
  <1>2. \A j \in DOMAIN Providers : Providers[j].key = key => j = i
    BY <1>1 DEF Accepted, IsInjective, KeyOrder
  <1>3. i <= i
    BY ManifestLists
  <1>4. \A j \in DOMAIN Providers : Providers[j].key = key => j <= i
    BY <1>2, <1>3
  <1>5. ByKey(key) = Providers[i]
    BY <1>1, <1>2, <1>4 DEF ByKey
  <1>. QED
    BY <1>1, <1>5, ManifestLists DEF Deps

(* The awaited mentions, and those of one dependency among them.           *)
LEMMA MentionCount ==
  ASSUME NEW T, NEW deps \in Seq(T)
  PROVE  /\ IsFiniteSet(DOMAIN deps)
         /\ \A some \in SUBSET (DOMAIN deps) :
              /\ IsFiniteSet(some)
              /\ Cardinality(some) \in Nat
              /\ Cardinality(some) = 0 <=> some = {}
              /\ \A few \in SUBSET some :
                   /\ Cardinality(few) \in Nat
                   /\ Cardinality(few) <= Cardinality(some)
                   /\ Cardinality(some \ few) = Cardinality(some) - Cardinality(few)
  <1>1. IsFiniteSet(DOMAIN deps)
    <2>1. Len(deps) \in Nat /\ DOMAIN deps = 1 .. Len(deps)
      OBVIOUS
    <2>. QED
      BY <2>1, FS_Interval
  <1>2. ASSUME NEW some \in SUBSET (DOMAIN deps)
        PROVE  /\ IsFiniteSet(some)
               /\ Cardinality(some) \in Nat
               /\ Cardinality(some) = 0 <=> some = {}
    <2>1. IsFiniteSet(some)
      BY <1>1, FS_Subset
    <2>. QED
      BY <2>1, FS_CardinalityType, FS_EmptySet
  <1>3. ASSUME NEW some \in SUBSET (DOMAIN deps), NEW few \in SUBSET some
        PROVE  /\ Cardinality(few) \in Nat
               /\ Cardinality(few) <= Cardinality(some)
               /\ Cardinality(some \ few) = Cardinality(some) - Cardinality(few)
    <2>1. IsFiniteSet(some) /\ Cardinality(few) \in Nat
      BY <1>2
    <2>2. Cardinality(few) <= Cardinality(some)
      BY <2>1, FS_Subset
    <2>3. Cardinality(some \ few) = Cardinality(some) - Cardinality(some \cap few)
      BY <2>1, FS_Difference
    <2>4. some \cap few = few
      OBVIOUS
    <2>. QED
      BY <2>1, <2>2, <2>3, <2>4
  <1>. QED
    BY <1>1, <1>2, <1>3

-----------------------------------------------------------------------------
(* The invariant at the start of the generator.                            *)
LEMMA WireStarts ==
  ASSUME manifest \in Manifests, WireStart
  PROVE  WireInv
  <1>1. WireTypeOK
    BY DEF WireStart, WireTypeOK
  <1>2. FreshInv /\ SortInv /\ SearchInv /\ BootInv /\ ContainerBoots /\ CycleReal
    BY DEF WireStart, FreshInv, SortInv, SearchInv, BootInv, ContainerBoots, CycleReal, Sorting
  <1>. QED
    BY <1>1, <1>2 DEF WireInv

(* Steps that leave the order alone keep what is known of it.              *)
LEMMA SortKept ==
  ASSUME SortInv, UNCHANGED <<manifest, indegree, queue, ordered>>,
         stage' \in Sorting => stage \in Sorting
  PROVE  SortInv'
  <1>. SUFFICES ASSUME stage' \in Sorting PROVE SortInv'
    BY DEF SortInv
  <1>1. /\ Accepted /\ Bound
        /\ IsInjective(queue) /\ IsInjective(ordered)
        /\ ToSet(queue) \cap ToSet(ordered) = {}
        /\ \A key \in Keys : indegree[key] = Cardinality(Awaited(key))
        /\ \A key \in Keys : indegree[key] = 0 => key \in ToSet(queue) \cup ToSet(ordered)
        /\ \A key \in Keys : \A dep \in ToSet(Deps(key)) : \A i \in DOMAIN ordered :
             ordered[i] = key => dep \in Seeds \/ \E j \in 1 .. i - 1 : ordered[j] = dep
    BY DEF SortInv
  <1>2. Accepted' /\ Bound'
    BY <1>1, SameAccepted
  <1>3. Keys' = Keys /\ Seeds' = Seeds /\ \A key : Deps(key)' = Deps(key) /\ Awaited(key)' = Awaited(key)
    BY SameManifest, SameOrder
  <1>4. /\ IsInjective(queue') /\ IsInjective(ordered')
        /\ ToSet(queue') \cap ToSet(ordered') = {}
    BY <1>1
  <1>5. \A key \in Keys' : indegree'[key] = Cardinality(Awaited(key)')
    BY <1>1, <1>3
  <1>6. \A key \in Keys' : indegree'[key] = 0 => key \in ToSet(queue') \cup ToSet(ordered')
    BY <1>1, <1>3
  <1>7. \A key \in Keys' : \A dep \in ToSet(Deps(key)') : \A i \in DOMAIN ordered' :
          ordered'[i] = key => dep \in Seeds' \/ \E j \in 1 .. i - 1 : ordered'[j] = dep
    BY <1>1, <1>3
  <1>. QED
    BY <1>2, <1>4, <1>5, <1>6, <1>7 DEF SortInv

(* And steps that leave it all alone but the stage keep the types.         *)
LEMMA TypesKept ==
  ASSUME WireTypeOK, UNCHANGED <<manifest, indegree, queue, ordered, trail, booted>>,
         stage' \in {"count", "sort", "search", "refused", "circular",
                     "written", "booting", "up", "broken"},
         stage \in {"parse", "count"} => queue = <<>> /\ ordered = <<>>
  PROVE  WireTypeOK'
  <1>1. stage \in {"parse", "count"} => ToSet(queue) \cup ToSet(ordered) = {}
    BY DEF ToSet
  <1>2. \A key \in ToSet(queue) \cup ToSet(ordered) : indegree[key] = 0
    BY <1>1 DEF WireTypeOK
  <1>. QED
    BY <1>2, SameManifest DEF WireTypeOK

-----------------------------------------------------------------------------
(* One lemma for each step.                                                *)
LEMMA ParseStep ==
  ASSUME WireInv, Parse
  PROVE  WireInv'
  <1>. USE DEF Parse
  <1>1. WireTypeOK'
    BY TypesKept DEF WireInv, FreshInv
  <1>2. FreshInv'
    BY SameManifest, SameAccepted DEF WireInv, FreshInv
  <1>3. SortInv' /\ SearchInv' /\ BootInv' /\ ContainerBoots' /\ CycleReal'
    BY DEF SortInv, SearchInv, BootInv, ContainerBoots, CycleReal, Sorting
  <1>. QED
    BY <1>1, <1>2, <1>3 DEF WireInv

LEMMA MissingBindingStep ==
  ASSUME WireInv, MissingBinding
  PROVE  WireInv'
  <1>. USE DEF MissingBinding
  <1>1. WireTypeOK'
    BY TypesKept DEF WireInv, FreshInv
  <1>2. FreshInv'
    BY SameManifest DEF WireInv, FreshInv
  <1>3. SortInv' /\ SearchInv' /\ BootInv' /\ ContainerBoots' /\ CycleReal'
    BY DEF SortInv, SearchInv, BootInv, ContainerBoots, CycleReal, Sorting
  <1>. QED
    BY <1>1, <1>2, <1>3 DEF WireInv

LEMMA EmitStep ==
  ASSUME WireInv, Emit
  PROVE  WireInv'
  <1>. USE DEF Emit
  <1>1. WireTypeOK'
    BY TypesKept DEF WireInv, FreshInv
  <1>2. FreshInv'
    BY SameManifest DEF WireInv, FreshInv
  <1>3. SortInv'
    BY SortKept DEF WireInv, Sorting
  <1>4. Providers' = Providers /\ booted = 0
    BY SameManifest DEF WireInv, BootInv
  <1>5. SearchInv' /\ BootInv' /\ ContainerBoots' /\ CycleReal'
    BY <1>4 DEF SearchInv, BootInv, ContainerBoots, CycleReal
  <1>. QED
    BY <1>1, <1>2, <1>3, <1>5 DEF WireInv

LEMMA LoadStep ==
  ASSUME WireInv, Load
  PROVE  WireInv'
  <1>. USE DEF Load
  <1>1. WireTypeOK'
    BY TypesKept DEF WireInv, FreshInv
  <1>2. FreshInv'
    BY SameManifest DEF WireInv, FreshInv
  <1>3. SortInv'
    BY SortKept DEF WireInv, Sorting
  <1>4. SearchInv' /\ CycleReal'
    BY DEF SearchInv, CycleReal
  <1>5. Len(ordered) = Len(Providers) /\ Providers' = Providers /\ booted = 0
    BY SameManifest DEF WireInv, BootInv
  <1>6. 0 < Len(ordered)
    <2>1. Accepted /\ manifest \in Manifests
      BY DEF WireInv, SortInv, Sorting, FreshInv
    <2>2. Len(Providers) \in Nat /\ Providers # <<>> /\ Providers \in Seq(ToSet(Providers))
      BY <2>1, ManifestsAssumption DEF Accepted, Providers, IsSequence
    <2>. QED
      BY <1>5, <2>2
  <1>7. BootInv'
    BY <1>5, <1>6 DEF BootInv
  <1>8. stage' = "broken" => NameClash
    BY DEF NameClash
  <1>9. ContainerBoots'
    BY <1>8, SameAccepted DEF ContainerBoots
  <1>. QED
    BY <1>1, <1>2, <1>3, <1>4, <1>7, <1>9 DEF WireInv

LEMMA CountStep ==
  ASSUME WireInv, Count
  PROVE  WireInv'
  <1>. USE DEF Count
  <1>1. /\ manifest \in Manifests /\ Accepted /\ Bound
        /\ ordered = <<>> /\ trail = <<>> /\ booted = 0
    BY DEF WireInv, FreshInv
  <1>2. /\ Keys' = Keys /\ Seeds' = Seeds /\ Providers' = Providers
        /\ \A key : Deps(key)' = Deps(key)
        /\ manifest' \in Manifests /\ Accepted' /\ Bound'
    BY <1>1, SameManifest, SameAccepted
  <1>3. ASSUME NEW key \in Keys PROVE Needs(key) \in Nat
    <2>1. Deps(key) \in Seq(ToSet(Deps(key)))
      BY <1>1, OneProvider
    <2>2. {i \in DOMAIN Deps(key) : Deps(key)[i] \notin Seeds} \in SUBSET (DOMAIN Deps(key))
      OBVIOUS
    <2>. QED
      BY <2>1, <2>2, MentionCount DEF Needs
  <1>4. indegree' \in [Keys -> Nat] /\ \A key \in Keys : indegree'[key] = Needs(key)
    BY <1>3
  <1>5. PICK free : free = {key \in Keys : Needs(key) = 0}
    OBVIOUS
  <1>6. KeyOrder \in Seq(Keys) /\ IsInjective(KeyOrder) /\ queue' = Among(KeyOrder, free)
    BY <1>1, <1>5, ManifestLists DEF Accepted
  <1>7. /\ queue' \in Seq(Keys \cap free)
        /\ \A i \in DOMAIN KeyOrder : KeyOrder[i] \in free =>
             \E k \in DOMAIN queue' : queue'[k] = KeyOrder[i]
        /\ IsInjective(queue')
    <2>1. /\ Among(KeyOrder, free) \in Seq(Keys \cap free)
          /\ \A i \in DOMAIN KeyOrder : KeyOrder[i] \in free =>
               \E k \in DOMAIN Among(KeyOrder, free) : Among(KeyOrder, free)[k] = KeyOrder[i]
          /\ IsInjective(KeyOrder) => IsInjective(Among(KeyOrder, free))
      BY <1>6, AmongEntries, Zenon
    <2>. QED
      BY <1>6, <2>1, Zenon
  <1>8. ToSet(queue') \subseteq free /\ queue' \in Seq(Keys)
    BY <1>5, <1>7 DEF ToSet
  <1>9. \A key \in Keys : indegree'[key] = 0 => key \in ToSet(queue')
    BY <1>4, <1>5, <1>7 DEF Keys, ToSet
  <1>10. ToSet(ordered) = {} /\ ordered \in Seq(Keys) /\ Len(ordered) = 0 /\ trail \in Seq(Keys)
    BY <1>1 DEF ToSet
  <1>11. WireTypeOK'
    <2>1. \A key \in ToSet(queue') \cup ToSet(ordered') : indegree'[key] = 0
      BY <1>4, <1>5, <1>8, <1>10
    <2>. QED
      BY <1>1, <1>2, <1>4, <1>8, <1>10, <2>1 DEF WireTypeOK
  <1>12. \A key \in Keys : indegree'[key] = Cardinality(Awaited(key)')
    <2>1. \A key : Awaited(key)' = {i \in DOMAIN Deps(key) : Deps(key)[i] \notin Seeds}
      BY <1>2, <1>10 DEF Awaited
    <2>. QED
      BY <1>4, <2>1 DEF Needs
  <1>13. SortInv'
    <2>1. IsInjective(ordered') /\ DOMAIN ordered' = {}
      BY <1>1 DEF IsInjective
    <2>2. ToSet(queue') \cap ToSet(ordered') = {}
      BY <1>10
    <2>. QED
      BY <1>2, <1>7, <1>9, <1>12, <2>1, <2>2 DEF SortInv
  <1>14. FreshInv' /\ SearchInv' /\ BootInv' /\ ContainerBoots' /\ CycleReal'
    BY <1>1, <1>2 DEF FreshInv, SearchInv, BootInv, ContainerBoots, CycleReal
  <1>. QED
    BY <1>11, <1>13, <1>14 DEF WireInv

(* What waits for nothing depends on what is in order.                     *)
LEMMA FreeDeps ==
  ASSUME WireInv, stage \in Sorting, NEW key \in Keys
  PROVE  /\ indegree[key] = Cardinality(Awaited(key)) /\ indegree[key] \in Nat
         /\ indegree[key] = 0 <=> ToSet(Deps(key)) \subseteq Seeds \cup ToSet(ordered)
         /\ Deps(key) \in Seq(ToSet(Deps(key)))
  <1>1. manifest \in Manifests /\ Accepted
    BY DEF WireInv, FreshInv, SortInv
  <1>2. Deps(key) \in Seq(ToSet(Deps(key)))
    BY <1>1, OneProvider
  <1>3. indegree[key] = Cardinality(Awaited(key)) /\ indegree[key] \in Nat
    BY DEF WireInv, SortInv, WireTypeOK
  <1>4. Awaited(key) \in SUBSET (DOMAIN Deps(key))
    BY DEF Awaited
  <1>5. Cardinality(Awaited(key)) = 0 <=> Awaited(key) = {}
    BY <1>2, <1>4, MentionCount
  <1>6. Awaited(key) = {} <=> ToSet(Deps(key)) \subseteq Seeds \cup ToSet(ordered)
    BY DEF Awaited, ToSet
  <1>. QED
    BY <1>2, <1>3, <1>5, <1>6

(* Lists without repetitions of all of a set's members have one length.    *)
LEMMA SameLength ==
  ASSUME NEW S, NEW a \in Seq(S), NEW b \in Seq(S),
         IsInjective(a), IsInjective(b), ToSet(b) = S
  PROVE  Len(a) = Len(b) <=> ToSet(a) = S
  <1>1. PICK m \in Nat : m = Len(a) /\ DOMAIN a = 1 .. m /\ a \in [1 .. m -> S]
    OBVIOUS
  <1>2. PICK n \in Nat : n = Len(b) /\ DOMAIN b = 1 .. n /\ b \in [1 .. n -> S]
    OBVIOUS
  <1>3. a \in Injection(1 .. m, S)
    BY <1>1 DEF IsInjective, Injection
  <1>4. b \in Injection(1 .. n, S) /\ b \in Surjection(1 .. n, S)
    BY <1>2 DEF IsInjective, Injection, ToSet, Surjection
  <1>5. IsFiniteSet(1 .. m) /\ Cardinality(1 .. m) = m /\ IsFiniteSet(1 .. n) /\ Cardinality(1 .. n) = n
    BY FS_Interval
  <1>6. IsFiniteSet(S) /\ Cardinality(S) = n
    BY <1>4, <1>5, FS_Surjection
  <1>7. m = n <=> a \in Surjection(1 .. m, S)
    BY <1>3, <1>5, <1>6, FS_Injection
  <1>8. a \in Surjection(1 .. m, S) <=> ToSet(a) = S
    BY <1>1 DEF Surjection, ToSet
  <1>. QED
    BY <1>1, <1>2, <1>7, <1>8

(* The order is complete when it is as long as the list of providers.      *)
LEMMA FullOrder ==
  ASSUME WireInv, stage \in Sorting
  PROVE  Len(ordered) = Len(Providers) <=> ToSet(ordered) = Keys
  <1>1. manifest \in Manifests /\ Accepted /\ IsInjective(ordered) /\ ordered \in Seq(Keys)
    BY DEF WireInv, FreshInv, SortInv, WireTypeOK
  <1>2. /\ KeyOrder \in Seq(Keys) /\ Len(KeyOrder) = Len(Providers)
        /\ IsInjective(KeyOrder) /\ ToSet(KeyOrder) = Keys
    BY <1>1, ManifestLists DEF Accepted, Keys
  <1>3. Len(ordered) = Len(KeyOrder) <=> ToSet(ordered) = Keys
    BY <1>1, <1>2, SameLength, Zenon
  <1>. QED
    BY <1>2, <1>3

(* The providers that are left over.                                       *)
LEMMA LeftOver ==
  ASSUME WireInv, stage \in Sorting
  PROVE  /\ Remaining \in Seq(Keys)
         /\ ToSet(Remaining) = {key \in Keys : indegree[key] # 0}
  <1>1. manifest \in Manifests /\ Accepted /\ indegree \in [Keys -> Nat]
    BY DEF WireInv, FreshInv, SortInv, WireTypeOK
  <1>2. KeyOrder \in Seq(Keys)
    BY <1>1, ManifestLists
  <1>3. PICK left : left = {key \in Keys : indegree[key] > 0}
    OBVIOUS
  <1>4. Remaining = Among(KeyOrder, left)
    BY <1>3 DEF Remaining
  <1>5. /\ Among(KeyOrder, left) \in Seq(Keys \cap left)
        /\ \A i \in DOMAIN KeyOrder : KeyOrder[i] \in left =>
             \E k \in DOMAIN Among(KeyOrder, left) : Among(KeyOrder, left)[k] = KeyOrder[i]
        /\ IsInjective(KeyOrder) => IsInjective(Among(KeyOrder, left))
    BY <1>2, AmongEntries, Zenon
  <1>6. Remaining \in Seq(Keys \cap left)
    BY <1>4, <1>5
  <1>7. ToSet(Remaining) \subseteq left /\ Remaining \in Seq(Keys)
    BY <1>6 DEF ToSet
  <1>8. ASSUME NEW key \in left PROVE key \in ToSet(Remaining)
    <2>1. PICK i \in DOMAIN KeyOrder : KeyOrder[i] = key
      BY <1>3 DEF Keys, ToSet
    <2>. QED
      BY <1>4, <1>5, <2>1 DEF ToSet
  <1>9. left = {key \in Keys : indegree[key] # 0}
    BY <1>1, <1>3
  <1>. QED
    BY <1>7, <1>8, <1>9

LEMMA StuckStep ==
  ASSUME WireInv, Stuck
  PROVE  WireInv'
  <1>. USE DEF Stuck
  <1>1. stage \in Sorting /\ stage' \in Sorting /\ manifest \in Manifests
    BY DEF Sorting, WireInv, FreshInv
  <1>2. /\ Keys' = Keys /\ Seeds' = Seeds /\ Providers' = Providers
        /\ \A key : Deps(key)' = Deps(key)
        /\ manifest' \in Manifests
    BY <1>1, SameManifest
  <1>3. ToSet(ordered) # Keys
    BY <1>1, FullOrder
  <1>4. PICK key \in Keys : indegree[key] # 0
    <2>1. ToSet(ordered) \subseteq Keys
      BY DEF WireInv, WireTypeOK, ToSet
    <2>2. PICK key \in Keys : key \notin ToSet(ordered)
      BY <1>3, <2>1
    <2>3. key \notin ToSet(queue)
      BY DEF ToSet
    <2>. QED
      BY <1>1, <2>2, <2>3 DEF WireInv, SortInv
  <1>5. Remaining \in Seq(Keys) /\ key \in ToSet(Remaining)
    BY <1>1, <1>4, LeftOver
  <1>6. Remaining # <<>> /\ Head(Remaining) \in ToSet(Remaining)
    BY <1>5 DEF ToSet
  <1>7. PICK first \in Keys : first = Head(Remaining) /\ indegree[first] # 0
    BY <1>1, <1>6, LeftOver
  <1>8. trail' = <<first>> /\ trail' \in Seq(Keys) /\ Len(trail') = 1
    BY <1>7
  <1>9. WireTypeOK'
    <2>1. \A k \in ToSet(queue) \cup ToSet(ordered) : indegree[k] = 0
      BY DEF WireInv, WireTypeOK
    <2>. QED
      BY <1>2, <1>8, <2>1 DEF WireInv, WireTypeOK
  <1>10. SortInv'
    BY <1>1, SortKept DEF WireInv
  <1>11. SearchInv'
    <2>1. trail' # <<>> /\ IsInjective(trail') /\ \A i \in DOMAIN trail' : indegree'[trail'[i]] # 0
      BY <1>7, <1>8 DEF IsInjective
    <2>2. \A k \in Keys' : \A i \in 1 .. Len(trail') - 1 :
            trail'[i] = k => trail'[i + 1] \in ToSet(Deps(k)') \ Seeds'
      BY <1>8
    <2>. QED
      BY <2>1, <2>2 DEF SearchInv
  <1>12. FreshInv' /\ BootInv' /\ ContainerBoots' /\ CycleReal'
    BY <1>2 DEF FreshInv, BootInv, ContainerBoots, CycleReal
  <1>. QED
    BY <1>9, <1>10, <1>11, <1>12 DEF WireInv

(* The search always has somewhere to go.                                  *)
LEMMA OnwardLeft ==
  ASSUME WireInv, stage \in Sorting, queue = <<>>, NEW key \in Keys, indegree[key] # 0
  PROVE  /\ Onward(key) \in Keys /\ indegree[Onward(key)] # 0
         /\ Onward(key) \in ToSet(Deps(key)) \ Seeds
  <1>1. PICK deps : deps = Deps(key)
    OBVIOUS
  <1>2. deps \in Seq(ToSet(deps))
    BY <1>1, FreeDeps
  <1>3. PICK dep \in ToSet(deps) : dep \notin Seeds \cup ToSet(ordered)
    BY <1>1, FreeDeps
  <1>4. dep \in Keys
    BY <1>1, <1>3 DEF WireInv, SortInv, Bound
  <1>5. indegree[dep] # 0
    BY <1>3, <1>4 DEF WireInv, SortInv, ToSet
  <1>6. PICK left : left = ToSet(Remaining) \ Seeds
    OBVIOUS
  <1>7. left \subseteq {k \in Keys : indegree[k] # 0} \ Seeds /\ dep \in left
    BY <1>3, <1>4, <1>5, <1>6, LeftOver
  <1>8. PICK some : some = Among(deps, left)
    OBVIOUS
  <1>9. /\ Among(deps, left) \in Seq(ToSet(deps) \cap left)
        /\ \A i \in DOMAIN deps : deps[i] \in left =>
             \E k \in DOMAIN Among(deps, left) : Among(deps, left)[k] = deps[i]
        /\ IsInjective(deps) => IsInjective(Among(deps, left))
    BY <1>2, AmongEntries, Zenon
  <1>10. some \in Seq(ToSet(deps) \cap left) /\ \E k \in DOMAIN some : TRUE
    <2>1. PICK i \in DOMAIN deps : deps[i] = dep
      BY <1>3 DEF ToSet
    <2>. QED
      BY <1>7, <1>8, <1>9, <2>1
  <1>11. Head(some) \in ToSet(deps) \cap left
    BY <1>10
  <1>12. Onward(key) = Head(some)
    BY <1>1, <1>6, <1>8 DEF Onward
  <1>. QED
    BY <1>1, <1>7, <1>11, <1>12

LEMMA SearchStep ==
  ASSUME WireInv, Search
  PROVE  WireInv'
  <1>1. /\ stage = "search" /\ queue = <<>> /\ stage \in Sorting /\ stage' \in Sorting
        /\ UNCHANGED <<manifest, indegree, queue, ordered, booted>>
    BY DEF Search, Sorting, WireInv, SearchInv
  <1>2. /\ Keys' = Keys /\ Seeds' = Seeds /\ Providers' = Providers
        /\ \A key : Deps(key)' = Deps(key)
        /\ manifest' \in Manifests
    BY <1>1, SameManifest DEF WireInv, FreshInv
  <1>3. /\ trail \in Seq(Keys) /\ trail # <<>> /\ IsInjective(trail)
        /\ \A i \in DOMAIN trail : indegree[trail[i]] # 0
        /\ \A key \in Keys : \A i \in 1 .. Len(trail) - 1 :
             trail[i] = key => trail[i + 1] \in ToSet(Deps(key)) \ Seeds
    BY <1>1 DEF WireInv, WireTypeOK, SearchInv
  <1>4. PICK n \in Nat \ {0} : n = Len(trail) /\ DOMAIN trail = 1 .. n
    BY <1>3
  <1>5. PICK last \in Keys : last = trail[n] /\ last = Last(trail) /\ indegree[last] # 0
    BY <1>3, <1>4 DEF Last
  <1>6. PICK onto : onto = Onward(last)
    OBVIOUS
  <1>7. onto \in Keys /\ indegree[onto] # 0 /\ onto \in ToSet(Deps(last)) \ Seeds
    BY <1>1, <1>5, <1>6, OnwardLeft
  <1>8. \/ /\ onto \in ToSet(trail)
           /\ trail' = Append(PathFrom(onto), onto)
           /\ stage' = "circular"
        \/ /\ onto \notin ToSet(trail)
           /\ trail' = Append(trail, onto)
           /\ stage' = "search"
    BY <1>5, <1>6 DEF Search
  <1>9. SortInv'
    BY <1>1, SortKept DEF WireInv
  <1>10. FreshInv' /\ BootInv' /\ ContainerBoots'
    BY <1>1, <1>2, <1>8 DEF FreshInv, BootInv, ContainerBoots
  <1>11. ASSUME trail' \in Seq(Keys) PROVE WireTypeOK'
    <2>1. \A k \in ToSet(queue) \cup ToSet(ordered) : indegree[k] = 0
      BY <1>1 DEF WireInv, WireTypeOK
    <2>. QED
      BY <1>1, <1>2, <1>8, <1>11, <2>1 DEF WireInv, WireTypeOK
  <1>12. CASE onto \notin ToSet(trail)
    <2>1. trail' = Append(trail, onto) /\ stage' = "search"
      BY <1>8, <1>12
    <2>2. trail' \in Seq(Keys) /\ Len(trail') = n + 1 /\ trail' # <<>>
      BY <1>3, <1>4, <1>7, <2>1
    <2>3. DOMAIN trail' = 1 .. n + 1 /\ \A i \in 1 .. n + 1 : trail'[i] = IF i = n + 1 THEN onto ELSE trail[i]
      BY <1>3, <1>4, <1>7, <2>1
    <2>4. IsInjective(trail')
      BY <1>3, <1>4, <1>12, <2>3 DEF IsInjective, ToSet
    <2>5. \A i \in DOMAIN trail' : indegree'[trail'[i]] # 0
      BY <1>1, <1>3, <1>4, <1>7, <2>3
    <2>6. ASSUME NEW key \in Keys, NEW i \in 1 .. n, trail'[i] = key
          PROVE  trail'[i + 1] \in ToSet(Deps(key)) \ Seeds
      <3>1. CASE i = n
        <4>1. n \in 1 .. n + 1 /\ n + 1 \in 1 .. n + 1 /\ n # n + 1
          OBVIOUS
        <4>2. trail'[n] = trail[n] /\ trail'[n + 1] = onto
          BY <2>3, <4>1
        <4>. QED
          BY <1>5, <1>7, <2>6, <3>1, <4>2
      <3>2. CASE i # n
        <4>1. i \in 1 .. n - 1 /\ trail[i] = key /\ trail'[i + 1] = trail[i + 1]
          BY <2>3, <2>6, <3>2
        <4>. QED
          BY <1>3, <1>4, <4>1
      <3>. QED
        BY <3>1, <3>2
    <2>7. SearchInv'
      BY <1>1, <1>2, <2>2, <2>4, <2>5, <2>6 DEF SearchInv
    <2>8. CycleReal'
      BY <2>1 DEF CycleReal
    <2>. QED
      BY <1>9, <1>10, <1>11, <2>2, <2>7, <2>8 DEF WireInv
  <1>13. CASE onto \in ToSet(trail)
    <2>1. trail' = Append(PathFrom(onto), onto) /\ stage' = "circular"
      BY <1>8, <1>13
    <2>2. PICK p \in 1 .. n : trail[p] = onto /\ PathFrom(onto) = SubSeq(trail, p, n)
      BY <1>4, <1>13 DEF PathFrom, ToSet
    <2>3. PICK m \in Nat \ {0} : m = n - p + 1
      BY <2>2
    <2>4. /\ SubSeq(trail, p, n) \in Seq(Keys) /\ Len(SubSeq(trail, p, n)) = m
          /\ \A i \in 1 .. m : SubSeq(trail, p, n)[i] = trail[i + p - 1]
      BY <1>3, <1>4, <2>2, <2>3
    <2>5. /\ trail' \in Seq(Keys) /\ Len(trail') = m + 1 /\ DOMAIN trail' = 1 .. m + 1
          /\ \A i \in 1 .. m : trail'[i] = trail[i + p - 1]
          /\ trail'[m + 1] = onto
      BY <1>7, <2>1, <2>2, <2>3, <2>4
    <2>6. trail'[1] = onto
      BY <2>2, <2>3, <2>5
    <2>7. Len(trail') > 1 /\ Last(trail') = Head(trail')
      BY <2>3, <2>5, <2>6 DEF Last
    <2>8. IsInjective(Tail(trail'))
      <3>1. /\ DOMAIN Tail(trail') = 1 .. m
            /\ \A i \in 1 .. m : Tail(trail')[i] = trail'[i + 1]
        BY <2>3, <2>5
      <3>2. \A i \in 1 .. m : Tail(trail')[i] = IF i = m THEN trail[p] ELSE trail[i + p]
        BY <2>2, <2>3, <2>5, <3>1
      <3>3. \A i, j \in 1 .. n : trail[i] = trail[j] => i = j
        BY <1>3, <1>4 DEF IsInjective
      <3>4. PICK at : at = [i \in 1 .. m |-> IF i = m THEN p ELSE i + p]
        OBVIOUS
      <3>5. \A i \in 1 .. m : at[i] \in 1 .. n /\ Tail(trail')[i] = trail[at[i]]
        <4>. TAKE i \in 1 .. m
        <4>1. i \in Nat /\ m \in Nat /\ p \in Nat /\ n \in Nat
          OBVIOUS
        <4>2. at[i] = IF i = m THEN p ELSE i + p
          BY <3>4
        <4>3. at[i] \in 1 .. n
          BY <2>2, <2>3, <4>1, <4>2
        <4>. QED
          BY <3>2, <4>2, <4>3
      <3>6. \A i, j \in 1 .. m : at[i] = at[j] => i = j
        BY <2>2, <2>3, <3>4
      <3>7. \A i, j \in 1 .. m : Tail(trail')[i] = Tail(trail')[j] => i = j
        BY <3>3, <3>5, <3>6
      <3>. QED
        BY <3>1, <3>7 DEF IsInjective
    <2>9. ASSUME NEW key \in Keys, NEW i \in 1 .. m, trail'[i] = key
          PROVE  trail'[i + 1] \in ToSet(Deps(key)) \ Seeds
      <3>1. CASE i = m
        <4>1. m \in 1 .. m /\ m + p - 1 = n
          BY <2>2, <2>3
        <4>2. trail'[i + 1] = onto /\ key = last
          BY <1>5, <2>5, <2>9, <3>1, <4>1
        <4>. QED
          BY <1>7, <4>2
      <3>2. CASE i # m
        <4>1. PICK j \in 1 .. n - 1 : j = i + p - 1
          BY <2>2, <2>3, <3>2
        <4>2. i + 1 \in 1 .. m /\ (i + 1) + p - 1 = j + 1
          BY <2>2, <2>3, <3>2, <4>1
        <4>3. trail[j] = key /\ trail'[i + 1] = trail[j + 1]
          BY <2>5, <2>9, <4>1, <4>2
        <4>. QED
          BY <1>3, <1>4, <4>1, <4>3
      <3>. QED
        BY <3>1, <3>2
    <2>10. CycleReal'
      <3>1. \A i \in 1 .. Len(trail') - 1 : trail'[i] \in Keys /\ i \in 1 .. m
        BY <2>3, <2>5
      <3>2. \A i \in 1 .. Len(trail') - 1 : trail'[i + 1] \in ToSet(Deps(trail[i])') \ Seeds'
        BY <1>1, <1>2, <2>9, <3>1 DEF Deps, ByKey, Providers
      <3>. QED
        BY <2>7, <2>8, <3>2 DEF CycleReal
    <2>11. SearchInv'
      BY <2>1 DEF SearchInv
    <2>. QED
      BY <1>9, <1>10, <1>11, <2>5, <2>10, <2>11 DEF WireInv
  <1>. QED
    BY <1>12, <1>13

(* A provider is taken from the queue: what its dependents wait for.       *)
LEMMA ShiftCount ==
  ASSUME WireInv, stage \in Sorting, NEW first \in Keys,
         first \notin ToSet(ordered), NEW key \in Keys
  PROVE  LET after == {i \in DOMAIN Deps(key) :
                         Deps(key)[i] \notin Seeds \cup ToSet(ordered) \cup {first}}
         IN  /\ Mentions(key, first) \in Nat
             /\ indegree[key] - Mentions(key, first) = Cardinality(after)
             /\ indegree[key] - Mentions(key, first) \in Nat
  <1>1. Accepted
    BY DEF WireInv, SortInv
  <1>2. first \notin Seeds
    BY <1>1 DEF Accepted
  <1>3. PICK deps : deps = Deps(key) /\ deps \in Seq(ToSet(deps))
    BY FreeDeps
  <1>4. PICK awaited : awaited = {i \in DOMAIN deps : deps[i] \notin Seeds \cup ToSet(ordered)}
    OBVIOUS
  <1>5. PICK few : few = {i \in DOMAIN deps : deps[i] = first}
    OBVIOUS
  <1>6. PICK after : after = {i \in DOMAIN deps : deps[i] \notin Seeds \cup ToSet(ordered) \cup {first}}
    OBVIOUS
  <1>7. awaited \in SUBSET (DOMAIN deps) /\ few \in SUBSET awaited /\ after = awaited \ few
    BY <1>2, <1>4, <1>5, <1>6
  <1>8. after \in SUBSET (DOMAIN deps)
    BY <1>6
  <1>9. /\ Cardinality(few) \in Nat /\ Cardinality(after) \in Nat
        /\ Cardinality(after) = Cardinality(awaited) - Cardinality(few)
    BY <1>3, <1>7, <1>8, MentionCount
  <1>10. indegree[key] = Cardinality(awaited)
    BY <1>3, <1>4, FreeDeps DEF Awaited
  <1>11. Mentions(key, first) = Cardinality(few)
    BY <1>3, <1>5 DEF Mentions
  <1>. QED
    BY <1>3, <1>6, <1>9, <1>10, <1>11

LEMMA ShiftStep ==
  ASSUME WireInv, Shift
  PROVE  WireInv'
  <1>1. /\ stage = "sort" /\ stage \in Sorting /\ stage' = "sort" /\ queue # <<>>
        /\ UNCHANGED <<manifest, trail, booted>>
    BY DEF Shift, Sorting
  <1>2. /\ manifest \in Manifests /\ Accepted /\ Bound
        /\ indegree \in [Keys -> Nat] /\ queue \in Seq(Keys) /\ ordered \in Seq(Keys)
        /\ IsInjective(queue) /\ IsInjective(ordered)
        /\ ToSet(queue) \cap ToSet(ordered) = {}
        /\ \A k \in ToSet(queue) \cup ToSet(ordered) : indegree[k] = 0
        /\ \A k \in Keys : indegree[k] = 0 => k \in ToSet(queue) \cup ToSet(ordered)
    BY <1>1 DEF WireInv, FreshInv, SortInv, WireTypeOK
  <1>3. /\ Keys' = Keys /\ Seeds' = Seeds /\ Providers' = Providers
        /\ \A k : Deps(k)' = Deps(k)
        /\ manifest' \in Manifests /\ Accepted' /\ Bound'
    BY <1>1, <1>2, SameManifest, SameAccepted
  <1>4. /\ Head(queue) \in Keys /\ Tail(queue) \in Seq(Keys)
        /\ ToSet(queue) = {Head(queue)} \cup ToSet(Tail(queue))
        /\ Head(queue) \notin ToSet(Tail(queue)) /\ IsInjective(Tail(queue))
    BY <1>1, <1>2, TailSet
  <1>5. PICK first \in Keys : first = Head(queue)
    BY <1>4
  <1>6. PICK rest \in Seq(Keys) :
          /\ rest = Tail(queue)
          /\ ToSet(queue) = {first} \cup ToSet(rest) /\ first \notin ToSet(rest)
          /\ IsInjective(rest)
    BY <1>4, <1>5
  <1>7. first \notin ToSet(ordered) /\ indegree[first] = 0
    BY <1>2, <1>6
  <1>8. PICK free : free = {k \in Keys : Mentions(k, first) > 0 /\ indegree'[k] = 0}
    OBVIOUS
  <1>9. /\ ordered' = Append(ordered, first)
        /\ indegree' = [k \in Keys |-> indegree[k] - Mentions(k, first)]
        /\ queue' = rest \o Among(KeyOrder, free)
    BY <1>5, <1>6, <1>8 DEF Shift
  <1>10. PICK more : more = Among(KeyOrder, free)
    OBVIOUS
  <1>11. /\ more \in Seq(Keys \cap free)
         /\ \A i \in DOMAIN KeyOrder : KeyOrder[i] \in free =>
              \E k \in DOMAIN more : more[k] = KeyOrder[i]
         /\ IsInjective(more)
    <2>1. KeyOrder \in Seq(Keys) /\ IsInjective(KeyOrder)
      BY <1>2, ManifestLists DEF Accepted
    <2>2. /\ Among(KeyOrder, free) \in Seq(Keys \cap free)
          /\ \A i \in DOMAIN KeyOrder : KeyOrder[i] \in free =>
               \E k \in DOMAIN Among(KeyOrder, free) : Among(KeyOrder, free)[k] = KeyOrder[i]
          /\ IsInjective(KeyOrder) => IsInjective(Among(KeyOrder, free))
      BY <2>1, AmongEntries, Zenon
    <2>. QED
      BY <1>10, <2>1, <2>2, Zenon
  <1>12. ToSet(more) = free /\ more \in Seq(Keys)
    <2>1. ToSet(more) \subseteq free
      BY <1>11 DEF ToSet
    <2>2. free \subseteq ToSet(more)
      BY <1>8, <1>11 DEF ToSet, Keys
    <2>. QED
      BY <1>8, <1>11, <2>1, <2>2
  <1>13. ToSet(rest) \cap free = {}
    <2>1. \A k \in ToSet(rest) \cap free : Mentions(k, first) > 0 /\ indegree[k] = 0
      BY <1>2, <1>6, <1>8
    <2>2. \A k \in free : Mentions(k, first) \in Nat /\ indegree[k] - Mentions(k, first) \in Nat
      BY <1>1, <1>7, <1>8, ShiftCount
    <2>. QED
      BY <2>1, <2>2
  <1>14. /\ queue' \in Seq(Keys) /\ ToSet(queue') = ToSet(rest) \cup free /\ IsInjective(queue')
    <2>1. ToSet(rest) \cap ToSet(more) = {}
      BY <1>12, <1>13
    <2>2. /\ rest \o more \in Seq(Keys)
          /\ ToSet(rest \o more) = ToSet(rest) \cup ToSet(more)
          /\ (IsInjective(rest) /\ IsInjective(more) /\ ToSet(rest) \cap ToSet(more) = {})
               => IsInjective(rest \o more)
      BY <1>12, ConcatSet, Zenon
    <2>. QED
      BY <1>6, <1>9, <1>10, <1>11, <1>12, <2>1, <2>2
  <1>15. /\ ordered' \in Seq(Keys) /\ Len(ordered') = Len(ordered) + 1
         /\ \A i \in DOMAIN ordered : i \in DOMAIN ordered' /\ ordered'[i] = ordered[i]
         /\ \A i \in DOMAIN ordered' :
              i \in DOMAIN ordered \/ (i = Len(ordered) + 1 /\ ordered'[i] = first)
         /\ ToSet(ordered') = ToSet(ordered) \cup {first}
         /\ IsInjective(ordered')
    BY <1>2, <1>7, <1>9, AppendSet
  <1>16. ASSUME NEW k \in Keys
         PROVE  indegree'[k] = Cardinality(Awaited(k)') /\ indegree'[k] \in Nat
    <2>1. PICK after : after = {i \in DOMAIN Deps(k) :
                                 Deps(k)[i] \notin Seeds \cup ToSet(ordered) \cup {first}}
      OBVIOUS
    <2>2. /\ indegree[k] - Mentions(k, first) = Cardinality(after)
          /\ indegree[k] - Mentions(k, first) \in Nat
      BY <1>1, <1>7, <2>1, ShiftCount
    <2>3. Awaited(k)' = after
      BY <1>3, <1>15, <2>1 DEF Awaited
    <2>. QED
      BY <1>9, <2>2, <2>3
  <1>17. indegree' \in [Keys -> Nat]
    BY <1>9, <1>16
  <1>18. \A k \in ToSet(queue') \cup ToSet(ordered') : indegree'[k] = 0
    <2>1. ASSUME NEW k \in ToSet(queue) \cup ToSet(ordered) PROVE indegree'[k] = 0
      <3>1. k \in Keys /\ indegree[k] = 0
        BY <1>2 DEF ToSet
      <3>2. /\ Mentions(k, first) \in Nat
            /\ indegree[k] - Mentions(k, first) \in Nat
        BY <1>1, <1>7, <3>1, ShiftCount
      <3>. QED
        BY <1>9, <3>1, <3>2
    <2>2. \A k \in free : indegree'[k] = 0
      BY <1>8
    <2>. QED
      BY <1>6, <1>14, <1>15, <2>1, <2>2
  <1>19. ASSUME NEW k \in Keys, indegree'[k] = 0
         PROVE  k \in ToSet(queue') \cup ToSet(ordered')
    <2>1. CASE Mentions(k, first) > 0
      BY <1>8, <1>14, <1>19, <2>1
    <2>2. CASE ~(Mentions(k, first) > 0)
      <3>1. Mentions(k, first) \in Nat /\ indegree[k] \in Nat
        BY <1>1, <1>2, <1>7, ShiftCount
      <3>2. indegree[k] = 0
        BY <1>9, <1>19, <2>2, <3>1
      <3>. QED
        BY <1>2, <1>6, <1>14, <1>15, <3>2
    <2>. QED
      BY <2>1, <2>2
  <1>20. ASSUME NEW k \in Keys, NEW dep \in ToSet(Deps(k)), NEW i \in DOMAIN ordered',
                ordered'[i] = k
         PROVE  dep \in Seeds \/ \E j \in 1 .. i - 1 : ordered'[j] = dep
    <2>1. PICK n \in Nat : n = Len(ordered) /\ DOMAIN ordered = 1 .. n
      BY <1>2
    <2>2. CASE i \in DOMAIN ordered
      <3>1. dep \in Seeds \/ \E j \in 1 .. i - 1 : ordered[j] = dep
        BY <1>1, <1>15, <1>20, <2>2 DEF WireInv, SortInv
      <3>2. \A j \in 1 .. i - 1 : j \in DOMAIN ordered
        BY <2>1, <2>2
      <3>. QED
        BY <1>15, <3>1, <3>2
    <2>3. CASE i = n + 1 /\ k = first
      <3>1. dep \in Seeds \cup ToSet(ordered)
        BY <1>1, <1>7, <1>20, <2>3, FreeDeps
      <3>2. dep \in ToSet(ordered) => \E j \in 1 .. n : ordered[j] = dep
        BY <2>1 DEF ToSet
      <3>3. 1 .. i - 1 = 1 .. n
        BY <2>3
      <3>. QED
        BY <1>15, <2>1, <3>1, <3>2, <3>3
    <2>. QED
      BY <1>15, <1>20, <2>1, <2>2, <2>3
  <1>21. ToSet(queue') \cap ToSet(ordered') = {}
    <2>1. free \cap ToSet(ordered) = {} /\ first \notin free
      <3>1. \A k \in free : indegree[k] # 0
        <4>. TAKE k \in free
        <4>1. /\ Mentions(k, first) \in Nat /\ Mentions(k, first) > 0 /\ indegree[k] \in Nat
              /\ indegree[k] - Mentions(k, first) \in Nat
          BY <1>1, <1>2, <1>7, <1>8, ShiftCount
        <4>. QED
          BY <4>1
      <3>. QED
        BY <1>2, <1>7, <3>1
    <2>. QED
      BY <1>2, <1>6, <1>14, <1>15, <2>1
  <1>22. WireTypeOK'
    <2>1. trail \in Seq(Keys) /\ booted = 0 /\ Len(ordered) \in Nat
      BY <1>1, <1>2 DEF WireInv, WireTypeOK, BootInv
    <2>2. booted' \in 0 .. Len(ordered')
      BY <1>1, <1>15, <2>1
    <2>. QED
      BY <1>1, <1>3, <1>14, <1>15, <1>17, <1>18, <2>1, <2>2 DEF WireTypeOK
  <1>23. SortInv'
    BY <1>3, <1>14, <1>15, <1>16, <1>19, <1>20, <1>21 DEF SortInv
  <1>24. FreshInv' /\ SearchInv' /\ BootInv' /\ ContainerBoots' /\ CycleReal'
    BY <1>1, <1>3 DEF FreshInv, SearchInv, BootInv, ContainerBoots, CycleReal, WireInv
  <1>. QED
    BY <1>22, <1>23, <1>24 DEF WireInv

(* A statement of the container finds what it depends on, as the order has *)
(* it before: only a name can be in its way.                               *)
LEMMA StatementStep ==
  ASSUME WireInv, Statement
  PROVE  WireInv'
  <1>1. /\ stage = "booting" /\ stage \in Sorting /\ stage' \in {"booting", "up", "broken"}
        /\ UNCHANGED <<manifest, indegree, queue, ordered, trail>>
    BY DEF Statement, Sorting
  <1>2. /\ manifest \in Manifests /\ Accepted /\ Bound
        /\ ordered \in Seq(Keys) /\ IsInjective(ordered)
        /\ Len(ordered) = Len(Providers)
        /\ booted < Len(ordered) /\ booted \in Nat /\ Len(ordered) \in Nat
    BY <1>1 DEF WireInv, FreshInv, SortInv, WireTypeOK, BootInv
  <1>3. /\ Keys' = Keys /\ Seeds' = Seeds /\ Providers' = Providers
        /\ \A k : Deps(k)' = Deps(k)
        /\ manifest' \in Manifests
    BY <1>1, <1>2, SameManifest
  <1>4. booted + 1 \in DOMAIN ordered /\ booted + 1 \in 1 .. Len(ordered)
    BY <1>2
  <1>5. PICK key \in Keys : key = ordered[booted + 1]
    BY <1>2, <1>4
  <1>6. \A dep \in ToSet(Deps(key)) : dep \in Seeds \/ \E j \in 1 .. (booted + 1) - 1 : ordered[j] = dep
    BY <1>1, <1>4, <1>5 DEF WireInv, SortInv
  <1>7. ~StatementRuns(booted + 1) => NameClash
    <2>1. StatementRuns(booted + 1) <=>
            /\ ByKey(key).factory \notin Keys \cup Seeds
            /\ \A dep \in ToSet(Deps(key)) :
                 dep \in Seeds \/ \E j \in 1 .. (booted + 1) - 1 : ordered[j] = dep
      BY <1>5 DEF StatementRuns, Emitted
    <2>. QED
      BY <1>6, <2>1 DEF NameClash
  <1>8. booted' \in 0 .. Len(ordered) /\ (stage' = "booting" => booted' < Len(ordered))
    <2>1. \/ booted' = booted + 1 /\ stage' = (IF booted' = Len(ordered) THEN "up" ELSE "booting")
          \/ booted' = booted /\ stage' = "broken"
      BY DEF Statement
    <2>. QED
      BY <1>2, <2>1
  <1>9. stage' = "broken" => ~StatementRuns(booted + 1)
    BY DEF Statement
  <1>10. WireTypeOK'
    <2>1. \A k \in ToSet(queue) \cup ToSet(ordered) : indegree[k] = 0
      BY <1>1 DEF WireInv, WireTypeOK
    <2>. QED
      BY <1>1, <1>3, <1>8, <2>1 DEF WireInv, WireTypeOK
  <1>11. SortInv'
    BY <1>1, SortKept DEF WireInv
  <1>12. FreshInv' /\ SearchInv' /\ CycleReal'
    BY <1>1, <1>3 DEF FreshInv, SearchInv, CycleReal
  <1>13. BootInv'
    BY <1>1, <1>2, <1>3, <1>8 DEF BootInv
  <1>14. ContainerBoots'
    <2>1. stage' = "broken" => NameClash'
      BY <1>1, <1>7, <1>9, SameAccepted
    <2>2. IsInjective(ordered') /\ ToSet(ordered') = Keys'
      BY <1>1, <1>2, <1>3, FullOrder
    <2>. QED
      BY <2>1, <2>2 DEF ContainerBoots
  <1>. QED
    BY <1>10, <1>11, <1>12, <1>13, <1>14 DEF WireInv

(* Nothing of the generator and the container changes.                     *)
LEMMA WireStutter ==
  ASSUME WireInv, UNCHANGED wireVars
  PROVE  WireInv'
  <1>. USE DEF wireVars
  <1>1. /\ Keys' = Keys /\ Seeds' = Seeds /\ Providers' = Providers
        /\ \A k : Deps(k)' = Deps(k)
        /\ manifest' \in Manifests
    BY SameManifest DEF WireInv, FreshInv
  <1>2. WireTypeOK'
    BY <1>1 DEF WireInv, WireTypeOK
  <1>3. SortInv'
    BY SortKept DEF WireInv
  <1>4. FreshInv'
    BY <1>1, SameAccepted DEF WireInv, FreshInv
  <1>5. SearchInv'
    BY <1>1 DEF WireInv, SearchInv
  <1>6. BootInv'
    BY <1>1 DEF WireInv, BootInv
  <1>7. ContainerBoots'
    BY <1>1, SameAccepted DEF WireInv, ContainerBoots
  <1>8. CycleReal'
    <2>. SUFFICES ASSUME stage = "circular" PROVE CycleReal'
      BY DEF CycleReal
    <2>1. \A i \in 1 .. Len(trail) - 1 : trail[i + 1] \in ToSet(Deps(trail[i])) \ Seeds
      BY DEF WireInv, CycleReal
    <2>2. \A i \in 1 .. Len(trail) - 1 : \A key : trail[i] = key =>
            trail[i + 1] \in ToSet(Deps(key)) \ Seeds
      BY <2>1
    <2>3. \A i \in 1 .. Len(trail) - 1 : trail[i + 1] \in ToSet(Deps(trail[i])') \ Seeds'
      <3>. TAKE i \in 1 .. Len(trail) - 1
      <3>1. PICK key : key = trail[i] /\ key = trail'[i]
        OBVIOUS
      <3>2. trail[i + 1] \in ToSet(Deps(key)) \ Seeds
        BY <2>2, <3>1
      <3>3. trail[i + 1] \in ToSet(Deps(key)') \ Seeds'
        BY <1>1, <3>2
      <3>. QED
        BY <3>1, <3>3 DEF Deps, ByKey, Providers
    <2>4. Len(trail) > 1 /\ Last(trail) = Head(trail) /\ IsInjective(Tail(trail))
      BY DEF WireInv, CycleReal
    <2>. QED
      BY <2>3, <2>4 DEF CycleReal
  <1>. QED
    BY <1>2, <1>3, <1>4, <1>5, <1>6, <1>7, <1>8 DEF WireInv

-----------------------------------------------------------------------------
(* Every step of the generator and of the container.                       *)
LEMMA WireSteps ==
  ASSUME WireInv, WireNext \/ UNCHANGED wireVars
  PROVE  WireInv'
  BY ParseStep, MissingBindingStep, CountStep, ShiftStep, StuckStep, SearchStep, EmitStep,
     LoadStep, StatementStep, WireStutter DEF WireNext

(* The generator and its container, for every set of manifests: a written  *)
(* container boots unless names clash, and a reported cycle is one.        *)
THEOREM WireInvariance == WireSpec => []WireInv
  <1>1. WireInit => WireInv
    BY WireStarts DEF WireInit
  <1>2. WireInv /\ [WireNext]_wireVars => WireInv'
    BY WireSteps
  <1>. QED
    BY <1>1, <1>2, PTL DEF WireSpec

(* `zwen gen:wire` and the application that imports its container are this *)
(* generator and this container, whatever else the tool does.              *)
THEOREM ZwenImplementsWire == ZwenSpec => WireSpec
  <1>1. ZwenInit => WireInit
    <2>1. OneManifest \subseteq Manifests
      BY ManifestsAssumption DEF OneManifest
    <2>. QED
      BY <2>1 DEF ZwenInit, WireInit
  <1>2. [ZwenNext]_zwenVars => [WireNext]_wireVars
    <2>1. ZwenNext => WireNext \/ UNCHANGED wireVars
      BY DEF ZwenNext, WireNext, Refuse, Choose, Generate, Write, Check, GenerateWire,
             RunContainer, UseClient
    <2>2. UNCHANGED zwenVars => UNCHANGED wireVars
      BY DEF zwenVars
    <2>. QED
      BY <2>1, <2>2
  <1>. QED
    BY <1>1, <1>2, PTL DEF ZwenSpec, WireSpec

(* A container that the tool wrote comes up, each provider made once after *)
(* all that it depends on, unless names clash.                             *)
THEOREM WrittenContainerBoots == ZwenSpec => []ContainerBoots
  <1>1. WireInv => ContainerBoots
    BY DEF WireInv
  <1>. QED
    BY <1>1, WireInvariance, ZwenImplementsWire, PTL

(* What the tool reports as a cycle is one.                                *)
THEOREM ReportedCycleReal == ZwenSpec => []CycleReal
  <1>1. WireInv => CycleReal
    BY DEF WireInv
  <1>. QED
    BY <1>1, WireInvariance, ZwenImplementsWire, PTL

-----------------------------------------------------------------------------
(* A set of numbers has a least one.                                       *)
LEMMA Least ==
  ASSUME NEW S, S \subseteq Nat, S # {}
  PROVE  \E m \in S : \A x \in S : m <= x
  <1>1. PICK less : less = OpToRel(<, Nat)
    BY Zenon
  <1>2. IsWellFoundedOn(less, Nat)
    BY <1>1, NatLessThanWellFounded, Zenon
  <1>3. \A m, n \in Nat : m < n => <<m, n>> \in less
    <2>1. less = {p \in Nat \X Nat : p[1] < p[2]}
      BY <1>1, Zenon DEF OpToRel
    <2>. QED
      BY <2>1
  <1>4. PICK m \in S : \A y \in Nat : <<y, m>> \in less => ~(y \in S)
    <2>1. S \subseteq Nat /\ S # {}
      OBVIOUS
    <2>2. PICK m \in S : \A y \in S : ~(<<y, m>> \in less)
      BY <1>2, <2>1, WFMin, Zenon
    <2>. QED
      BY <2>2
  <1>5. ASSUME NEW x \in S PROVE m <= x
    <2>1. m \in Nat /\ x \in Nat /\ ~(x < m)
      BY <1>3, <1>4
    <2>. QED
      BY <2>1
  <1>. QED
    BY <1>5

(* What can be collected along the steps of a relation is a function that  *)
(* solves the equation: that of all that a member reaches.                 *)
LEMMA Collected ==
  ASSUME NEW D, NEW base \in [D -> SUBSET D], NEW step \in [D -> SUBSET D]
  PROVE  \E f \in [D -> SUBSET D] :
           \A s \in D : \A x : x \in f[s] <=> x \in base[s] \/ \E t \in step[s] : x \in f[t]
  <1>. DEFINE Closed == {C \in SUBSET D : \A v \in C : step[v] \subseteq C}
  <1>1. PICK reach : reach = [s \in D |-> {u \in D : \A C \in Closed : s \in C => u \in C}]
    OBVIOUS
  <1>2. \A s \in D : s \in reach[s] /\ reach[s] \in Closed /\ reach[s] \subseteq D
    BY <1>1
  <1>3. ASSUME NEW s \in D
        PROVE  reach[s] = {s} \cup UNION {reach[t] : t \in step[s]}
    <2>1. PICK all : all = {s} \cup UNION {reach[t] : t \in step[s]}
      OBVIOUS
    <2>2. ASSUME NEW t \in step[s] PROVE t \in D /\ t \in reach[t] /\ reach[t] \in Closed
      BY <1>2
    <2>3. all \in Closed
      <3>1. all \subseteq D
        BY <2>1, <2>2
      <3>2. ASSUME NEW v \in all PROVE step[v] \subseteq all
        <4>1. CASE v = s
          BY <2>1, <2>2, <4>1
        <4>2. CASE \E t \in step[s] : v \in reach[t]
          BY <2>1, <2>2, <4>2
        <4>. QED
          BY <2>1, <4>1, <4>2
      <3>. QED
        BY <3>1, <3>2
    <2>4. s \in all
      BY <2>1
    <2>5. reach[s] \subseteq all
      BY <1>1, <2>3, <2>4
    <2>6. ASSUME NEW t \in step[s], NEW u \in reach[t] PROVE u \in reach[s]
      <3>1. t \in D /\ u \in D /\ \A C \in Closed : t \in C => u \in C
        BY <1>1, <2>2
      <3>2. \A C \in Closed : s \in C => t \in C
        OBVIOUS
      <3>. QED
        BY <1>1, <3>1, <3>2
    <2>7. all \subseteq reach[s]
      BY <1>2, <2>1, <2>6
    <2>. QED
      BY <2>1, <2>5, <2>7
  <1>. HIDE DEF Closed
  <1>4. PICK f : f = [s \in D |-> UNION {base[u] : u \in reach[s]}]
    OBVIOUS
  <1>5. ASSUME NEW s \in D
        PROVE  \A x : x \in f[s] <=> x \in base[s] \/ \E t \in step[s] : x \in f[t]
    <2>1. \A x : x \in f[s] <=> \E u \in reach[s] : x \in base[u]
      BY <1>4
    <2>2. \A t \in step[s] : \A x : x \in f[t] <=> \E u \in reach[t] : x \in base[u]
      BY <1>4
    <2>3. \A u : u \in reach[s] <=> u = s \/ \E t \in step[s] : u \in reach[t]
      BY <1>3
    <2>. QED
      BY <2>1, <2>2, <2>3
  <1>6. f \in [D -> SUBSET D]
    BY <1>2, <1>4
  <1>. QED
    BY <1>5, <1>6

(* Over, without its definition.                                           *)
LEMMA OverBoth ==
  ASSUME NEW f, NEW g
  PROVE  /\ DOMAIN Over(f, g) = DOMAIN f \cup DOMAIN g
         /\ \A x \in DOMAIN f : Over(f, g)[x] = f[x]
         /\ \A x \in DOMAIN g \ DOMAIN f : Over(f, g)[x] = g[x]
  BY DEF Over

-----------------------------------------------------------------------------
(* What the JSON of a schema refers to: schemas of lower numbers that are  *)
(* not written in place.                                                   *)
LEMMA SchemaNumbers ==
  ASSUME api \in Apps
  PROVE  /\ Len(api.schemas) \in Nat /\ Schemas = 1 .. Len(api.schemas)
         /\ \A s \in Schemas : api.schemas[s].uses \subseteq 1 .. s - 1
         /\ \A s \in Schemas : \A t \in 1 .. s - 1 : t \in Schemas
         /\ IsFiniteSet(Schemas)
  <1>1. Len(api.schemas) \in Nat /\ Schemas = 1 .. Len(api.schemas)
    BY AppsAssumption DEF Schemas
  <1>2. \A s \in Schemas : api.schemas[s].uses \subseteq 1 .. s - 1
    BY AppsAssumption DEF Schemas
  <1>3. \A s \in Schemas : \A t \in 1 .. s - 1 : t \in Schemas
    BY <1>1
  <1>4. IsFiniteSet(1 .. Len(api.schemas))
    BY <1>1, FS_Interval
  <1>. QED
    BY <1>1, <1>2, <1>3, <1>4

LEMMA DirectEquation ==
  ASSUME api \in Apps, NEW reg, NEW s \in Schemas
  PROVE  Direct(reg)[s] = UNION {IF Extracted(t, reg) THEN {t} ELSE Direct(reg)[t] :
                                   t \in api.schemas[s].uses}
  <1>1. PICK base : base = [v \in Schemas |-> {t \in api.schemas[v].uses : Extracted(t, reg)}]
    OBVIOUS
  <1>2. PICK step : step = [v \in Schemas |-> {t \in api.schemas[v].uses : ~Extracted(t, reg)}]
    OBVIOUS
  <1>3. base \in [Schemas -> SUBSET Schemas] /\ step \in [Schemas -> SUBSET Schemas]
    <2>1. \A v \in Schemas : api.schemas[v].uses \subseteq Schemas
      BY SchemaNumbers
    <2>. QED
      BY <1>1, <1>2, <2>1
  <1>4. PICK f \in [Schemas -> SUBSET Schemas] :
          \A v \in Schemas : \A x : x \in f[v] <=> x \in base[v] \/ \E t \in step[v] : x \in f[t]
    BY <1>3, Collected
  <1>5. ASSUME NEW v \in Schemas
        PROVE  f[v] = UNION {IF Extracted(t, reg) THEN {t} ELSE f[t] : t \in api.schemas[v].uses}
    <2>1. \A x : x \in f[v] <=>
            \E t \in api.schemas[v].uses : IF Extracted(t, reg) THEN x = t ELSE x \in f[t]
      BY <1>1, <1>2, <1>4
    <2>. QED
      BY <2>1
  <1>6. f = [v \in Schemas |->
               UNION {IF Extracted(t, reg) THEN {t} ELSE f[t] : t \in api.schemas[v].uses}]
    BY <1>4, <1>5
  <1>. DEFINE Solves(g) ==
                g = [v \in Schemas |->
                      UNION {IF Extracted(t, reg) THEN {t} ELSE g[t] : t \in api.schemas[v].uses}]
  <1>7. Solves(Direct(reg))
    <2>1. Direct(reg) = CHOOSE g : Solves(g)
      BY DEF Direct
    <2>2. Solves(f)
      BY <1>6
    <2>. HIDE DEF Solves
    <2>. QED
      BY <2>1, <2>2, Zenon
  <1>. QED
    BY <1>7

LEMMA DirectRange ==
  ASSUME api \in Apps, NEW reg, NEW s \in Schemas, NEW t \in Direct(reg)[s]
  PROVE  t \in 1 .. s - 1 /\ t \in Schemas /\ Extracted(t, reg)
  <1>. DEFINE Right(v) == \A u \in Direct(reg)[v] : u \in 1 .. v - 1 /\ Extracted(u, reg)
              wrong == {v \in Schemas : ~Right(v)}
  <1>1. wrong = {}
    <2>. SUFFICES ASSUME wrong # {} PROVE FALSE
      OBVIOUS
    <2>1. wrong \subseteq Nat
      BY SchemaNumbers
    <2>2. PICK m \in wrong : \A v \in wrong : m <= v
      BY <2>1, Least
    <2>3. m \in Schemas /\ m \in Nat
      BY <2>1
    <2>4. ASSUME NEW v \in 1 .. m - 1 PROVE v \in Schemas /\ Right(v)
      <3>1. v \in Schemas /\ v \in Nat /\ ~(m <= v)
        BY <2>3, SchemaNumbers
      <3>. QED
        BY <2>2, <3>1
    <2>. HIDE DEF Right
    <2>5. ASSUME NEW u \in Direct(reg)[m] PROVE u \in 1 .. m - 1 /\ Extracted(u, reg)
      <3>1. PICK v \in api.schemas[m].uses : u \in (IF Extracted(v, reg) THEN {v} ELSE Direct(reg)[v])
        BY <2>3, DirectEquation
      <3>2. v \in 1 .. m - 1
        BY <2>3, SchemaNumbers
      <3>3. CASE Extracted(v, reg)
        BY <3>1, <3>2, <3>3
      <3>4. CASE ~Extracted(v, reg)
        <4>1. u \in 1 .. v - 1 /\ Extracted(u, reg)
          BY <2>4, <3>1, <3>2, <3>4 DEF Right
        <4>2. \A k \in 1 .. v - 1 : k \in 1 .. m - 1
          BY <2>3, <3>2
        <4>. QED
          BY <4>1, <4>2
      <3>. QED
        BY <3>3, <3>4
    <2>. QED
      BY <2>2, <2>5 DEF Right
  <1>2. Right(s)
    BY <1>1
  <1>. QED
    BY <1>2, SchemaNumbers

(* And all that it is made of in this way.                                 *)
LEMMA WithinEquation ==
  ASSUME api \in Apps, NEW reg, NEW s \in Schemas
  PROVE  Within(reg)[s] = Direct(reg)[s] \cup UNION {Within(reg)[t] : t \in Direct(reg)[s]}
  <1>1. PICK base : base = [v \in Schemas |-> Direct(reg)[v]]
    OBVIOUS
  <1>2. base \in [Schemas -> SUBSET Schemas]
    <2>1. \A v \in Schemas : \A t \in Direct(reg)[v] : t \in Schemas
      BY DirectRange
    <2>. QED
      BY <1>1, <2>1
  <1>3. PICK f \in [Schemas -> SUBSET Schemas] :
          \A v \in Schemas : \A x : x \in f[v] <=> x \in base[v] \/ \E t \in base[v] : x \in f[t]
    BY <1>2, Collected
  <1>4. ASSUME NEW v \in Schemas
        PROVE  f[v] = Direct(reg)[v] \cup UNION {f[t] : t \in Direct(reg)[v]}
    <2>1. \A x : x \in f[v] <=> x \in Direct(reg)[v] \/ \E t \in Direct(reg)[v] : x \in f[t]
      BY <1>1, <1>3
    <2>. QED
      BY <2>1
  <1>. DEFINE Solves(g) ==
                g = [v \in Schemas |-> Direct(reg)[v] \cup UNION {g[t] : t \in Direct(reg)[v]}]
  <1>5. Solves(f)
    BY <1>3, <1>4
  <1>6. Solves(Within(reg))
    <2>1. Within(reg) = CHOOSE g : Solves(g)
      BY DEF Within
    <2>. HIDE DEF Solves
    <2>. QED
      BY <1>5, <2>1, Zenon
  <1>. QED
    BY <1>6

LEMMA WithinRange ==
  ASSUME api \in Apps, NEW reg, NEW s \in Schemas
  PROVE  /\ \A t \in Within(reg)[s] : t \in Schemas /\ Extracted(t, reg)
         /\ \A t \in Direct(reg)[s] : t \in Within(reg)[s]
         /\ \A t \in Within(reg)[s] : \A u \in Direct(reg)[t] : u \in Within(reg)[s]
  <1>. DEFINE Right(v) == \A t \in Within(reg)[v] :
                            /\ t \in Schemas /\ Extracted(t, reg)
                            /\ \A u \in Direct(reg)[t] : u \in Within(reg)[v]
              wrong == {v \in Schemas : ~Right(v)}
  <1>1. ASSUME NEW v \in Schemas, NEW t \in Direct(reg)[v]
        PROVE  /\ t \in Schemas /\ t \in 1 .. v - 1 /\ Extracted(t, reg)
               /\ t \in Within(reg)[v] /\ Within(reg)[t] \subseteq Within(reg)[v]
    BY <1>1, DirectRange, WithinEquation
  <1>2. wrong = {}
    <2>. SUFFICES ASSUME wrong # {} PROVE FALSE
      OBVIOUS
    <2>1. wrong \subseteq Nat
      BY SchemaNumbers
    <2>2. PICK m \in wrong : \A v \in wrong : m <= v
      BY <2>1, Least
    <2>3. m \in Schemas /\ m \in Nat
      BY <2>1
    <2>4. ASSUME NEW v \in 1 .. m - 1 PROVE v \in Schemas /\ Right(v)
      <3>1. v \in Schemas /\ v \in Nat /\ ~(m <= v)
        BY <2>3, SchemaNumbers
      <3>. QED
        BY <2>2, <3>1
    <2>5. ASSUME NEW t \in Within(reg)[m]
          PROVE  /\ t \in Schemas /\ Extracted(t, reg)
                 /\ \A u \in Direct(reg)[t] : u \in Within(reg)[m]
      <3>1. CASE t \in Direct(reg)[m]
        BY <1>1, <2>3, <3>1
      <3>2. CASE \E d \in Direct(reg)[m] : t \in Within(reg)[d]
        <4>1. PICK d \in Direct(reg)[m] : t \in Within(reg)[d]
          BY <3>2
        <4>2. Right(d) /\ Within(reg)[d] \subseteq Within(reg)[m]
          BY <1>1, <2>3, <2>4
        <4>. QED
          BY <4>1, <4>2
      <3>. QED
        BY <2>3, <3>1, <3>2, WithinEquation
    <2>. QED
      BY <2>2, <2>5
  <1>3. Right(s)
    BY <1>2
  <1>. QED
    BY <1>1, <1>3

(* The definitions that come with the parameters of a route: schemas with  *)
(* ids, and with each of them those that it refers to.                     *)
LEMMA ParameterDefsRange ==
  ASSUME api \in Apps, NEW i \in DOMAIN api.routes
  PROVE  /\ \A s \in ParameterDefs(api.routes[i]) : s \in Schemas /\ Id(s) # ""
         /\ ParameterRefs(api.routes[i]) \subseteq ParameterDefs(api.routes[i])
         /\ \A s \in ParameterDefs(api.routes[i]) :
              Direct(<<>>)[s] \subseteq ParameterDefs(api.routes[i])
  <1>1. PICK route : route = api.routes[i] /\ route \in ToSet(api.routes)
    BY DEF ToSet
  <1>2. route.params \subseteq Schemas
    BY <1>1, AppsAssumption DEF Schemas
  <1>3. \A t : Extracted(t, <<>>) => Id(t) # ""
    <2>1. DOMAIN <<>> = {}
      OBVIOUS
    <2>2. \A t : ~IsRegistered(t, <<>>)
      BY <2>1, Zenon DEF IsRegistered
    <2>. QED
      BY <2>2 DEF Extracted
  <1>4. ASSUME NEW t \in ParameterRefs(route) PROVE t \in Schemas /\ Id(t) # ""
    <2>1. PICK p \in route.params : t \in (IF Id(p) # "" THEN {p} ELSE Direct(<<>>)[p])
      BY DEF ParameterRefs
    <2>2. CASE Id(p) # ""
      BY <1>2, <2>1, <2>2
    <2>3. CASE Id(p) = ""
      BY <1>2, <1>3, <2>1, <2>3, DirectRange
    <2>. QED
      BY <2>2, <2>3
  <1>5. ASSUME NEW s \in ParameterDefs(route)
        PROVE  /\ s \in Schemas /\ Id(s) # ""
               /\ Direct(<<>>)[s] \subseteq ParameterDefs(route)
    <2>1. CASE s \in ParameterRefs(route)
      <3>1. \A u \in Direct(<<>>)[s] : u \in Within(<<>>)[s]
        BY <1>4, <2>1, WithinRange
      <3>. QED
        BY <1>4, <2>1, <3>1 DEF ParameterDefs
    <2>2. CASE \E t \in ParameterRefs(route) : s \in Within(<<>>)[t]
      <3>1. PICK t \in ParameterRefs(route) : s \in Within(<<>>)[t]
        BY <2>2
      <3>2. /\ s \in Schemas /\ Extracted(s, <<>>)
            /\ \A u \in Direct(<<>>)[s] : u \in Within(<<>>)[t]
        BY <1>4, <3>1, WithinRange
      <3>. QED
        BY <1>3, <3>1, <3>2 DEF ParameterDefs
    <2>. QED
      BY <2>1, <2>2 DEF ParameterDefs
  <1>6. ParameterRefs(route) \subseteq ParameterDefs(route)
    BY DEF ParameterDefs
  <1>. QED
    BY <1>1, <1>5, <1>6

-----------------------------------------------------------------------------
(* uniqueIdent: one of a number of names is free that is greater by one    *)
(* than that of the names in use.                                          *)
LEMMA UniqueIdentFree ==
  ASSUME NEW text, NEW used, IsFiniteSet(used)
  PROVE  \E n \in Nat \ {0} : /\ UniqueIdent(text, used) = <<text, n>>
                              /\ <<text, n>> \notin used
                              /\ <<text, 1>> \notin used => n = 1
  <1>1. PICK c \in Nat : c = Cardinality(used)
    BY FS_CardinalityType
  <1>2. PICK free : free = {n \in 1 .. c + 1 : <<text, n>> \notin used}
    OBVIOUS
  <1>3. free # {}
    <2>. SUFFICES ASSUME free = {} PROVE FALSE
      OBVIOUS
    <2>1. PICK f : f = [n \in 1 .. c + 1 |-> <<text, n>>]
      OBVIOUS
    <2>2. f \in [1 .. c + 1 -> used]
      BY <1>2, <2>1
    <2>3. \A m, n \in 1 .. c + 1 : f[m] = f[n] => m = n
      BY <2>1
    <2>4. f \in Injection(1 .. c + 1, used)
      BY <2>2, <2>3 DEF Injection, IsInjective
    <2>5. Cardinality(1 .. c + 1) <= c
      BY <1>1, <2>4, FS_Injection
    <2>6. Cardinality(1 .. c + 1) = c + 1
      BY FS_Interval
    <2>. QED
      BY <2>5, <2>6
  <1>4. free \subseteq Nat \ {0}
    BY <1>2
  <1>5. PICK m \in free : \A x \in free : m <= x
    BY <1>3, <1>4, Least
  <1>6. \A x \in free : (\A y \in free : x <= y) => x = m
    BY <1>4, <1>5
  <1>7. Min(free) = m
    BY <1>5, <1>6 DEF Min
  <1>8. UniqueIdent(text, used) = <<text, m>>
    BY <1>1, <1>2, <1>7 DEF UniqueIdent
  <1>9. <<text, 1>> \notin used => m = 1
    <2>1. <<text, 1>> \notin used => 1 \in free
      BY <1>2
    <2>. QED
      BY <1>4, <1>5, <2>1
  <1>. QED
    BY <1>2, <1>4, <1>5, <1>8, <1>9

(* One list behind another.                                                *)
LEMMA Joined ==
  ASSUME NEW T, NEW a \in Seq(T), NEW b \in Seq(T)
  PROVE  \E c \in Seq(T) :
           /\ c = a \o b /\ Len(c) = Len(a) + Len(b) /\ DOMAIN c = 1 .. Len(a) + Len(b)
           /\ \A k \in 1 .. Len(a) + Len(b) : c[k] = IF k <= Len(a) THEN a[k] ELSE b[k - Len(a)]
  <1>1. PICK c : c = a \o b
    OBVIOUS
  <1>2. c \in Seq(T)
    BY <1>1
  <1>3. /\ Len(c) = Len(a) + Len(b)
        /\ \A k \in 1 .. Len(a) + Len(b) : c[k] = IF k <= Len(a) THEN a[k] ELSE b[k - Len(a)]
    BY <1>1, ConcatProperties
  <1>4. DOMAIN c = 1 .. Len(a) + Len(b)
    BY <1>2, <1>3
  <1>. QED
    BY <1>1, <1>2, <1>3, <1>4, Zenon

(* What is wanted of the registry for a route.                             *)
LEMMA WantedEntries ==
  ASSUME api \in Apps, NEW i \in DOMAIN api.routes
  PROVE  /\ Len(Wanted(api.routes[i])) \in Nat
         /\ \A n \in 1 .. Len(Wanted(api.routes[i])) :
              /\ Wanted(api.routes[i])[n].schema \in {0} \cup Schemas
              /\ Wanted(api.routes[i])[n].hint \in Hints
         /\ \A s \in {api.routes[i].output, api.routes[i].body} \cup ToSet(api.routes[i].errors) :
              \E n \in 1 .. Len(Wanted(api.routes[i])) : Wanted(api.routes[i])[n].schema = s
  <1>1. PICK route : route = api.routes[i] /\ route \in ToSet(api.routes)
    BY DEF ToSet
  <1>2. /\ route.output \in {0} \cup Schemas /\ route.body \in {0} \cup Schemas
        /\ route.errors \in Seq(Schemas)
    BY <1>1, AppsAssumption DEF Schemas
  <1>3. "Problem" \in Hints /\ route.outputHint \in Hints /\ route.bodyHint \in Hints
    BY <1>1 DEF Hints
  <1>4. PICK n \in Nat : n = Len(route.errors) /\ DOMAIN route.errors = 1 .. n
    BY <1>2
  <1>5. PICK a : a = <<[schema |-> route.output, hint |-> route.outputHint]>>
    OBVIOUS
  <1>6. PICK b : b = [k \in DOMAIN route.errors |-> [schema |-> route.errors[k], hint |-> "Problem"]]
    OBVIOUS
  <1>7. PICK c : c = <<[schema |-> route.body, hint |-> route.bodyHint]>>
    OBVIOUS
  <1>8. PICK T : T = [schema : {0} \cup Schemas, hint : Hints]
    OBVIOUS
  <1>9. a \in Seq(T) /\ Len(a) = 1 /\ a[1].schema = route.output
    BY <1>8, <1>2, <1>3, <1>5
  <1>10. /\ b \in Seq(T) /\ Len(b) = n
         /\ \A k \in 1 .. n : b[k].schema = route.errors[k]
    <2>1. \A k \in 1 .. n : b[k] \in T /\ b[k].schema = route.errors[k]
      BY <1>8, <1>2, <1>3, <1>4, <1>6
    <2>2. b \in [1 .. n -> T]
      BY <1>4, <1>6, <2>1
    <2>. QED
      BY <2>1, <2>2
  <1>11. c \in Seq(T) /\ Len(c) = 1 /\ c[1].schema = route.body
    BY <1>8, <1>2, <1>3, <1>7
  <1>12. PICK w : w = a \o b \o c
    OBVIOUS
  <1>13. Wanted(route) = w
    BY <1>5, <1>6, <1>7, <1>12 DEF Wanted
  <1>14. /\ w \in Seq(T) /\ Len(w) = n + 2 /\ DOMAIN w = 1 .. n + 2
         /\ w[1] = a[1] /\ w[n + 2] = c[1]
         /\ \A k \in 1 .. n : w[k + 1] = b[k]
    <2>1. PICK d : d = a \o b
      OBVIOUS
    <2>2. /\ d \in Seq(T) /\ Len(d) = n + 1 /\ d[1] = a[1]
          /\ \A k \in 1 .. n : d[k + 1] = b[k]
      <3>1. /\ d \in Seq(T) /\ Len(d) = 1 + n /\ DOMAIN d = 1 .. 1 + n
            /\ \A k \in 1 .. 1 + n : d[k] = IF k <= 1 THEN a[k] ELSE b[k - 1]
        <4>1. a \in Seq(T) /\ b \in Seq(T)
          BY <1>9, <1>10
        <4>2. Len(a) = 1 /\ Len(b) = n
          BY <1>9, <1>10
        <4>3. \E e \in Seq(T) :
                /\ e = a \o b /\ Len(e) = Len(a) + Len(b) /\ DOMAIN e = 1 .. Len(a) + Len(b)
                /\ \A k \in 1 .. Len(a) + Len(b) : e[k] = IF k <= Len(a) THEN a[k] ELSE b[k - Len(a)]
          BY <4>1, Joined, Zenon
        <4>. QED
          BY <2>1, <4>2, <4>3
      <3>2. 1 \in 1 .. 1 + n /\ \A k \in 1 .. n : k + 1 \in 1 .. 1 + n /\ ~(k + 1 <= 1) /\ (k + 1) - 1 = k
        OBVIOUS
      <3>. QED
        BY <3>1, <3>2
    <2>3. w = d \o c
      BY <1>12, <2>1
    <2>4. /\ w \in Seq(T) /\ Len(w) = n + 2 /\ w[n + 2] = c[1]
          /\ \A k \in 1 .. n + 1 : w[k] = d[k]
      <3>1. /\ w \in Seq(T) /\ Len(w) = (n + 1) + 1 /\ DOMAIN w = 1 .. (n + 1) + 1
            /\ \A k \in 1 .. (n + 1) + 1 : w[k] = IF k <= n + 1 THEN d[k] ELSE c[k - (n + 1)]
        <4>1. d \in Seq(T) /\ c \in Seq(T)
          BY <1>11, <2>2
        <4>2. Len(d) = n + 1 /\ Len(c) = 1
          BY <1>11, <2>2
        <4>3. \E e \in Seq(T) :
                /\ e = d \o c /\ Len(e) = Len(d) + Len(c) /\ DOMAIN e = 1 .. Len(d) + Len(c)
                /\ \A k \in 1 .. Len(d) + Len(c) : e[k] = IF k <= Len(d) THEN d[k] ELSE c[k - Len(d)]
          BY <4>1, Joined, Zenon
        <4>. QED
          BY <2>3, <4>2, <4>3
      <3>2. /\ \A k \in 1 .. n + 1 : k \in 1 .. n + 2 /\ k <= n + 1
            /\ n + 2 \in 1 .. n + 2 /\ ~(n + 2 <= n + 1) /\ (n + 2) - (n + 1) = 1
        OBVIOUS
      <3>. QED
        BY <3>1, <3>2
    <2>5. 1 \in 1 .. n + 1 /\ \A k \in 1 .. n : k + 1 \in 1 .. n + 1
      OBVIOUS
    <2>. QED
      BY <2>2, <2>4, <2>5
  <1>15. \A k \in 1 .. n + 2 : w[k].schema \in {0} \cup Schemas /\ w[k].hint \in Hints
    <2>1. \A k \in 1 .. n + 2 : w[k] \in T
      BY <1>14
    <2>. QED
      BY <1>8, <2>1
  <1>16. ASSUME NEW s \in {route.output, route.body} \cup ToSet(route.errors)
         PROVE  \E k \in 1 .. n + 2 : w[k].schema = s
    <2>1. CASE s = route.output
      <3>1. 1 \in 1 .. n + 2
        OBVIOUS
      <3>. QED
        BY <1>9, <1>14, <2>1, <3>1
    <2>2. CASE s = route.body
      <3>1. n + 2 \in 1 .. n + 2
        OBVIOUS
      <3>. QED
        BY <1>11, <1>14, <2>2, <3>1
    <2>3. CASE s \in ToSet(route.errors)
      <3>1. PICK k \in 1 .. n : route.errors[k] = s
        BY <1>4, <2>3 DEF ToSet
      <3>2. k + 1 \in 1 .. n + 2
        OBVIOUS
      <3>. QED
        BY <1>10, <1>14, <3>1, <3>2
    <2>. QED
      BY <2>1, <2>2, <2>3
  <1>. QED
    BY <1>1, <1>13, <1>14, <1>15, <1>16

(* A route's registrations, one after the other.                           *)
LEMMA RegisterEquation ==
  ASSUME NEW route, Len(Wanted(route)) \in Nat
  PROVE  \E f : /\ f[0] = registry
                /\ \A k \in 1 .. Len(Wanted(route)) : f[k] = Ref(f[k - 1], Wanted(route)[k])
                /\ Register(route) = f[Len(Wanted(route))]
  <1>1. PICK last \in Nat : last = Len(Wanted(route))
    OBVIOUS
  <1>2. PICK w : w = Wanted(route)
    OBVIOUS
  <1>. DEFINE Solves(n, g) ==
                g = [k \in 0 .. n |-> IF k = 0 THEN registry ELSE Ref(g[k - 1], w[k])]
              Solvable(n) == \E g : Solves(n, g)
              wrong == {n \in Nat : ~Solvable(n)}
  <1>3. Solvable(0)
    <2>1. PICK f : f = [k \in 0 .. 0 |-> registry]
      OBVIOUS
    <2>2. Solves(0, f)
      BY <2>1
    <2>. QED
      BY <2>2
  <1>4. ASSUME NEW n \in Nat, Solvable(n) PROVE Solvable(n + 1)
    <2>1. PICK f : Solves(n, f)
      BY <1>4
    <2>2. PICK g : g = [k \in 0 .. n + 1 |-> IF k <= n THEN f[k] ELSE Ref(f[n], w[n + 1])]
      OBVIOUS
    <2>3. ASSUME NEW k \in 0 .. n + 1
          PROVE  g[k] = IF k = 0 THEN registry ELSE Ref(g[k - 1], w[k])
      <3>1. CASE k = 0
        BY <2>1, <2>2, <3>1
      <3>2. CASE k \in 1 .. n
        <4>1. g[k] = f[k] /\ g[k - 1] = f[k - 1]
          BY <2>2, <3>2
        <4>2. f[k] = Ref(f[k - 1], w[k])
          BY <2>1, <3>2
        <4>. QED
          BY <3>2, <4>1, <4>2
      <3>3. CASE k = n + 1
        <4>1. g[k] = Ref(f[n], w[n + 1]) /\ g[n] = f[n] /\ k - 1 = n
          BY <2>2, <3>3
        <4>. QED
          BY <3>3, <4>1
      <3>. QED
        BY <3>1, <3>2, <3>3
    <2>4. Solves(n + 1, g)
      BY <2>2, <2>3
    <2>. QED
      BY <2>4
  <1>5. wrong = {}
    <2>. SUFFICES ASSUME wrong # {} PROVE FALSE
      OBVIOUS
    <2>. HIDE DEF Solvable
    <2>1. PICK m \in wrong : \A n \in wrong : m <= n
      BY Least
    <2>2. CASE m = 0
      BY <1>3, <2>2
    <2>3. CASE m # 0
      <3>1. m - 1 \in Nat /\ (m - 1) + 1 = m /\ ~(m <= m - 1)
        BY <2>3
      <3>2. Solvable(m - 1)
        BY <2>1, <3>1
      <3>3. Solvable((m - 1) + 1)
        BY <1>4, <3>1, <3>2
      <3>. QED
        BY <3>1, <3>3
    <2>. QED
      BY <2>2, <2>3
  <1>6. Solvable(last)
    BY <1>5
  <1>7. PICK h : h = CHOOSE g : Solves(last, g)
    OBVIOUS
  <1>8. Solves(last, h)
    <2>. HIDE DEF Solves
    <2>. QED
      BY <1>6, <1>7, Zenon
  <1>9. Register(route) = h[last]
    BY <1>1, <1>2, <1>7 DEF Register
  <1>10. /\ h[0] = registry
         /\ \A k \in 1 .. last : h[k] = Ref(h[k - 1], w[k])
    BY <1>8
  <1>. QED
    BY <1>1, <1>2, <1>9, <1>10

-----------------------------------------------------------------------------
(* The registry: its schemas are schemas of the app, each of them is in it *)
(* once and under a name of its own, and the text of the name is the       *)
(* schema's id, or one of the hints if it has none.                        *)
TextOf(s, text) ==
  IF Id(s) # "" THEN text = Sanitized[Id(s)] ELSE \E hint \in Hints : text = Sanitized[hint]

RegistryOK(reg) ==
  /\ IsSequence(reg)
  /\ \A i \in 1 .. Len(reg) :
       /\ reg[i].schema \in Schemas
       /\ \E text : \E n \in Nat \ {0} : reg[i].name = <<text, n>> /\ TextOf(reg[i].schema, text)
  /\ \A i, j \in 1 .. Len(reg) :
       reg[i].schema = reg[j].schema \/ reg[i].name = reg[j].name => i = j

(* What a function on a finite set yields is finite.                       *)
LEMMA FiniteImage ==
  ASSUME NEW S, IsFiniteSet(S), NEW f
  PROVE  IsFiniteSet({f[x] : x \in S})
  <1>1. PICK T : T = {f[x] : x \in S}
    OBVIOUS
  <1>2. PICK g : g = [x \in S |-> f[x]]
    OBVIOUS
  <1>3. g \in Surjection(S, T)
    BY <1>1, <1>2 DEF Surjection
  <1>. QED
    BY <1>1, <1>3, FS_Surjection

LEMMA SchemasFinite ==
  ASSUME api \in Apps
  PROVE  IsFiniteSet(Schemas)
  <1>1. PICK n \in Nat : Schemas = 1 .. n
    BY AppsAssumption DEF Schemas
  <1>2. IsFiniteSet(1 .. n)
    BY FS_Interval
  <1>. QED
    BY <1>1, <1>2

LEMMA RefStep ==
  ASSUME api \in Apps, NEW reg, RegistryOK(reg), NEW wanted,
         wanted.schema \in {0} \cup Schemas, wanted.hint \in Hints
  PROVE  /\ RegistryOK(Ref(reg, wanted))
         /\ \A s : IsRegistered(s, reg) => IsRegistered(s, Ref(reg, wanted))
         /\ wanted.schema = 0 \/ IsRegistered(wanted.schema, Ref(reg, wanted))
  <1>1. CASE wanted.schema = 0 \/ IsRegistered(wanted.schema, reg)
    BY <1>1 DEF Ref
  <1>2. CASE ~(wanted.schema = 0 \/ IsRegistered(wanted.schema, reg))
    <2>1. PICK n \in Nat : n = Len(reg) /\ DOMAIN reg = 1 .. n
      BY DEF RegistryOK, IsSequence
    <2>2. PICK used : used = {reg[i].name : i \in DOMAIN reg}
      OBVIOUS
    <2>3. IsFiniteSet(used)
      <3>1. PICK f : f = [i \in 1 .. n |-> reg[i].name]
        OBVIOUS
      <3>2. IsFiniteSet({f[i] : i \in 1 .. n})
        <4>1. IsFiniteSet(1 .. n)
          BY FS_Interval
        <4>. QED
          BY <4>1, FiniteImage
      <3>3. {f[i] : i \in 1 .. n} = used
        BY <2>1, <2>2, <3>1
      <3>. QED
        BY <3>2, <3>3
    <2>4. PICK source : source = IF Id(wanted.schema) # "" THEN Id(wanted.schema) ELSE wanted.hint
      OBVIOUS
    <2>5. PICK k \in Nat \ {0} : /\ UniqueIdent(Sanitized[source], used) = <<Sanitized[source], k>>
                                 /\ <<Sanitized[source], k>> \notin used
      BY <2>3, UniqueIdentFree
    <2>6. PICK entry : entry = [schema |-> wanted.schema, name |-> <<Sanitized[source], k>>]
      OBVIOUS
    <2>7. Ref(reg, wanted) = Append(reg, entry)
      BY <1>2, <2>2, <2>4, <2>5, <2>6 DEF Ref
    <2>8. PICK new : new = Append(reg, entry)
      OBVIOUS
    <2>9. /\ IsSequence(new) /\ Len(new) = n + 1 /\ DOMAIN new = 1 .. n + 1
          /\ new[n + 1] = entry /\ \A i \in 1 .. n : new[i] = reg[i]
      <3>1. PICK T : T = ToSet(reg) \cup {entry}
        OBVIOUS
      <3>2. reg \in Seq(T) /\ entry \in T
        BY <3>1 DEF RegistryOK, IsSequence
      <3>3. new \in Seq(T) /\ Len(new) = n + 1
            /\ new[n + 1] = entry /\ \A i \in 1 .. n : new[i] = reg[i]
        BY <2>1, <2>8, <3>2, AppendProperties
      <3>4. DOMAIN new = 1 .. n + 1 /\ new \in [1 .. n + 1 -> ToSet(new)]
        BY <3>3 DEF ToSet
      <3>. QED
        BY <3>3, <3>4 DEF IsSequence
    <2>10. entry.schema \in Schemas /\ entry.schema = wanted.schema
           /\ entry.name = <<Sanitized[source], k>> /\ TextOf(entry.schema, Sanitized[source])
      BY <1>2, <2>4, <2>6 DEF TextOf
    <2>11. \A i \in 1 .. n : reg[i].schema # entry.schema /\ reg[i].name # entry.name
      BY <1>2, <2>1, <2>2, <2>5, <2>10 DEF IsRegistered
    <2>12. \A i \in 1 .. n + 1 : i = n + 1 \/ i \in 1 .. n
      OBVIOUS
    <2>13. \A i \in 1 .. n + 1 :
             /\ new[i].schema \in Schemas
             /\ \E text : \E m \in Nat \ {0} : new[i].name = <<text, m>> /\ TextOf(new[i].schema, text)
      <3>1. \A i \in 1 .. n :
              /\ reg[i].schema \in Schemas
              /\ \E text : \E m \in Nat \ {0} : reg[i].name = <<text, m>> /\ TextOf(reg[i].schema, text)
        BY <2>1 DEF RegistryOK
      <3>2. \E text : \E m \in Nat \ {0} : entry.name = <<text, m>> /\ TextOf(entry.schema, text)
        BY <2>10
      <3>. QED
        BY <2>9, <2>10, <2>12, <3>1, <3>2
    <2>14. \A i, j \in 1 .. n + 1 :
             new[i].schema = new[j].schema \/ new[i].name = new[j].name => i = j
      <3>1. \A i, j \in 1 .. n :
              reg[i].schema = reg[j].schema \/ reg[i].name = reg[j].name => i = j
        BY <2>1 DEF RegistryOK
      <3>. QED
        BY <2>9, <2>11, <2>12, <3>1
    <2>15. RegistryOK(new)
      BY <2>9, <2>13, <2>14 DEF RegistryOK
    <2>16. \A s : IsRegistered(s, reg) => IsRegistered(s, new)
      BY <2>1, <2>9 DEF IsRegistered
    <2>17. IsRegistered(wanted.schema, new)
      <3>1. n + 1 \in DOMAIN new
        BY <2>9
      <3>. QED
        BY <2>9, <2>10, <3>1 DEF IsRegistered
    <2>. QED
      BY <2>7, <2>8, <2>15, <2>16, <2>17
  <1>. QED
    BY <1>1, <1>2

(* A route's schemas are in the registry when its turn is over, and what   *)
(* was in it before still is.                                              *)
OwnSchemas(route) == {route.output, route.body} \cup ToSet(route.errors)

LEMMA RegisterStep ==
  ASSUME api \in Apps, RegistryOK(registry), NEW i \in DOMAIN api.routes
  PROVE  /\ RegistryOK(Register(api.routes[i]))
         /\ \A s : IsRegistered(s, registry) => IsRegistered(s, Register(api.routes[i]))
         /\ \A s \in OwnSchemas(api.routes[i]) :
              s = 0 \/ IsRegistered(s, Register(api.routes[i]))
  <1>1. PICK route : route = api.routes[i]
    OBVIOUS
  <1>2. PICK last \in Nat : last = Len(Wanted(route))
    BY <1>1, WantedEntries
  <1>3. PICK w : w = Wanted(route)
    OBVIOUS
  <1>4. PICK f : /\ f[0] = registry
                 /\ \A k \in 1 .. last : f[k] = Ref(f[k - 1], w[k])
                 /\ Register(route) = f[last]
    BY <1>2, <1>3, RegisterEquation
  <1>5. /\ \A n \in 1 .. last : w[n].schema \in {0} \cup Schemas /\ w[n].hint \in Hints
        /\ \A s \in OwnSchemas(route) : \E n \in 1 .. last : w[n].schema = s
    <2>1. /\ \A n \in 1 .. Len(Wanted(api.routes[i])) :
               /\ Wanted(api.routes[i])[n].schema \in {0} \cup Schemas
               /\ Wanted(api.routes[i])[n].hint \in Hints
          /\ \A s \in {api.routes[i].output, api.routes[i].body} \cup ToSet(api.routes[i].errors) :
               \E n \in 1 .. Len(Wanted(api.routes[i])) : Wanted(api.routes[i])[n].schema = s
      BY WantedEntries
    <2>. QED
      BY <1>1, <1>2, <1>3, <2>1, Zenon DEF OwnSchemas
  <1>. DEFINE Right(k) == /\ RegistryOK(f[k])
                          /\ \A s : IsRegistered(s, registry) => IsRegistered(s, f[k])
                          /\ \A n \in 1 .. k : w[n].schema = 0 \/ IsRegistered(w[n].schema, f[k])
              wrong == {k \in 0 .. last : ~Right(k)}
  <1>6. Right(0)
    BY <1>4
  <1>7. ASSUME NEW k \in 1 .. last, Right(k - 1) PROVE Right(k)
    <2>1. PICK reg : reg = f[k - 1]
      OBVIOUS
    <2>2. f[k] = Ref(reg, w[k]) /\ w[k].schema \in {0} \cup Schemas /\ w[k].hint \in Hints
      BY <1>4, <1>5, <2>1
    <2>3. RegistryOK(reg)
      BY <1>7, <2>1
    <2>4. /\ RegistryOK(Ref(reg, w[k]))
          /\ \A s : IsRegistered(s, reg) => IsRegistered(s, Ref(reg, w[k]))
          /\ w[k].schema = 0 \/ IsRegistered(w[k].schema, Ref(reg, w[k]))
      BY <2>2, <2>3, RefStep
    <2>5. \A n \in 1 .. k : n = k \/ n \in 1 .. k - 1
      OBVIOUS
    <2>. QED
      BY <1>7, <2>1, <2>2, <2>4, <2>5
  <1>8. wrong = {}
    <2>. SUFFICES ASSUME wrong # {} PROVE FALSE
      OBVIOUS
    <2>. HIDE DEF Right
    <2>1. wrong \subseteq Nat
      OBVIOUS
    <2>2. PICK m \in wrong : \A n \in wrong : m <= n
      BY <2>1, Least
    <2>3. m # 0 /\ m \in 0 .. last
      BY <1>6
    <2>4. m \in 1 .. last /\ m - 1 \in 0 .. last /\ ~(m <= m - 1)
      BY <2>3
    <2>5. Right(m - 1)
      BY <2>2, <2>4
    <2>. QED
      BY <1>7, <2>4, <2>5
  <1>9. Right(last)
    BY <1>8
  <1>. QED
    BY <1>1, <1>4, <1>5, <1>9

-----------------------------------------------------------------------------
(* The document.  Everything that the routes before this turn refer to is  *)
(* registered or among the raw extras, each of which is a definition that  *)
(* came with such a route, under its safe name; and once it is built, the  *)
(* document consists of the registered schemas, of those that they share,  *)
(* and of the extras.                                                      *)
Built == Over(Over(Registered, SharedDefs), rawExtras)

DocumentInv ==
  /\ api \in Apps
  /\ turn \in 1 .. Len(api.routes) + 1
  /\ RegistryOK(registry)
  /\ IsFiniteSet(DOMAIN rawExtras)
  /\ \A i \in 1 .. turn - 1 :
       /\ \A s \in OwnSchemas(api.routes[i]) : s = 0 \/ IsRegistered(s, registry)
       /\ \A s \in ParameterDefs(api.routes[i]) : SafeName(s) \in DOMAIN rawExtras
  /\ \A name \in DOMAIN rawExtras :
       /\ SafeName(rawExtras[name]) = name
       /\ \E i \in 1 .. turn - 1 : rawExtras[name] \in ParameterDefs(api.routes[i])
  /\ components # NoDocument => turn = Len(api.routes) + 1 /\ components = Built

(* What hangs on the app alone does not change with it.  What is chosen is *)
(* the same when it is written as a function of what it hangs on.          *)
DirectIn(app, reg) ==
  CHOOSE refs :
    refs = [s \in DOMAIN app.schemas |->
              UNION {IF app.schemas[t].id # "" \/ IsRegistered(t, reg) THEN {t} ELSE refs[t] :
                       t \in app.schemas[s].uses}]
RegisteredIn(reg) ==
  [n \in {reg[i].name : i \in DOMAIN reg} |->
     reg[CHOOSE i \in DOMAIN reg : reg[i].name = n].schema]
SharedDefsIn(app, shared) ==
  [n \in {<<app.schemas[t].id, 1>> : t \in shared} |->
     CHOOSE t \in shared : <<app.schemas[t].id, 1>> = n]

LEMMA SameApi ==
  ASSUME UNCHANGED api
  PROVE  /\ Schemas' = Schemas /\ Hints' = Hints
         /\ \A s : Id(s)' = Id(s) /\ SafeName(s)' = SafeName(s)
         /\ \A s, text : TextOf(s, text)' <=> TextOf(s, text)
         /\ \A reg : Direct(reg)' = Direct(reg) /\ Within(reg)' = Within(reg)
         /\ \A reg : RegistryOK(reg)' <=> RegistryOK(reg)
         /\ \A route : ParameterDefs(route)' = ParameterDefs(route)
  <1>1. Schemas' = Schemas /\ Hints' = Hints
    BY DEF Schemas, Hints
  <1>2. \A s : Id(s)' = Id(s)
    BY DEF Id
  <1>3. \A s, reg : Extracted(s, reg)' = Extracted(s, reg)
    BY <1>2 DEF Extracted, IsRegistered
  <1>4. \A reg : Direct(reg)' = Direct(reg)
    <2>1. \A reg : Direct(reg) = DirectIn(api, reg)
      BY Zenon DEF Direct, DirectIn, Schemas, Extracted, Id
    <2>2. \A reg : Direct(reg)' = DirectIn(api', reg)
      BY Zenon DEF Direct, DirectIn, Schemas, Extracted, Id, IsRegistered
    <2>. QED
      BY <2>1, <2>2
  <1>5. \A reg : Within(reg)' = Within(reg)
    BY <1>1, <1>4, Zenon DEF Within
  <1>6. \A s : SafeName(s)' = SafeName(s)
    BY <1>2 DEF SafeName
  <1>7. \A s, text : TextOf(s, text)' <=> TextOf(s, text)
    BY <1>1, <1>2 DEF TextOf
  <1>8. \A reg : RegistryOK(reg)' <=> RegistryOK(reg)
    BY <1>1, <1>7 DEF RegistryOK
  <1>9. \A route : ParameterRefs(route)' = ParameterRefs(route)
    BY <1>2, <1>4, Zenon DEF ParameterRefs
  <1>10. \A route : ParameterDefs(route)' = ParameterDefs(route)
    BY <1>5, <1>9, Zenon DEF ParameterDefs
  <1>. QED
    BY <1>1, <1>2, <1>4, <1>5, <1>6, <1>7, <1>8, <1>10

LEMMA SameDocument ==
  ASSUME UNCHANGED <<api, registry, rawExtras>>
  PROVE  Built' = Built /\ Shared' = Shared
  <1>1. Shared' = Shared
    <2>1. api' = api /\ registry' = registry
      OBVIOUS
    <2>2. \A reg : Within(reg)' = Within(reg)
      BY <2>1, SameApi
    <2>3. Within(registry)' = Within(registry)
      BY <2>1, <2>2
    <2>. QED
      BY <2>1, <2>3 DEF Shared, IsRegistered
  <1>2. \A t : Given(t)' = Given(t)
    BY SameApi DEF Given
  <1>3. SharedDefs' = SharedDefs
    <2>1. SharedDefs = SharedDefsIn(api, Shared)
      BY Zenon DEF SharedDefs, SharedDefsIn, Given, Id
    <2>2. SharedDefs' = SharedDefsIn(api', Shared')
      BY Zenon DEF SharedDefs, SharedDefsIn, Given, Id
    <2>. QED
      BY <1>1, <2>1, <2>2
  <1>4. Registered' = Registered
    <2>1. Registered = RegisteredIn(registry)
      BY Zenon DEF Registered, RegisteredIn
    <2>2. Registered' = RegisteredIn(registry')
      BY Zenon DEF Registered, RegisteredIn
    <2>. QED
      BY <2>1, <2>2
  <1>. QED
    BY <1>1, <1>3, <1>4, Zenon DEF Built, Over

(* And the client: a component that has been come to has a type; as long   *)
(* as no two names are made alike, it is that of its name, and so are the  *)
(* types that are declared and mentioned.                                  *)
ClientFresh == untyped = {} /\ alias = <<>> /\ pending = <<>> /\ decls = <<>> /\ mentions = {}

OwnType(name) == <<TypeText(name), 1>>
TypesApart == \A m, n \in DOMAIN components :
                Sanitized[m[1]] = Sanitized[n[1]] /\ m[2] = n[2] => m = n

ClientTypes ==
  /\ \A name \in DOMAIN alias : alias[name] = OwnType(name)
  /\ \A name \in DOMAIN components \ untyped :
       name \in DOMAIN alias /\ OwnType(name) \in DOMAIN decls
  /\ \A type \in DOMAIN decls : decls[type] \in DOMAIN components /\ type = OwnType(decls[type])
  /\ \A use \in mentions :
       use.of \in DOMAIN components /\ use.type = OwnType(use.of) /\ use.type \in DOMAIN decls

ClientInv ==
  /\ components = NoDocument => ClientFresh \/ (components = Built /\ turn = Len(api.routes) + 1)
  /\ components # NoDocument =>
       /\ IsFiniteSet(DOMAIN components) /\ untyped \subseteq DOMAIN components
       /\ DOMAIN alias \subseteq DOMAIN components
       /\ pending \in Seq(DOMAIN components)
       /\ TypesApart => ClientTypes

LEMMA OverProps ==
  ASSUME NEW f, NEW g
  PROVE  /\ DOMAIN Over(f, g) = DOMAIN f \cup DOMAIN g
         /\ \A x \in DOMAIN f : Over(f, g)[x] = f[x]
         /\ \A x \in DOMAIN g : x \notin DOMAIN f => Over(f, g)[x] = g[x]
  BY DEF Over

LEMMA DocumentStarts ==
  ASSUME api \in Apps, OpenApiStart
  PROVE  DocumentInv /\ ClientInv
  <1>1. /\ turn = 1 /\ registry = <<>> /\ rawExtras = <<>> /\ components = NoDocument
        /\ ClientFresh
    BY DEF OpenApiStart, ClientFresh
  <1>2. turn \in 1 .. Len(api.routes) + 1 /\ 1 .. turn - 1 = {}
    <2>1. Len(api.routes) \in Nat
      BY AppsAssumption
    <2>. QED
      BY <1>1, <2>1
  <1>3. RegistryOK(registry)
    <2>1. registry \in Seq(ToSet(registry)) /\ Len(registry) = 0 /\ 1 .. 0 = {}
      BY <1>1
    <2>. QED
      BY <2>1 DEF RegistryOK, IsSequence
  <1>4. DOMAIN rawExtras = {} /\ IsFiniteSet(DOMAIN rawExtras)
    BY <1>1, FS_EmptySet
  <1>5. DocumentInv
    BY <1>1, <1>2, <1>3, <1>4 DEF DocumentInv
  <1>6. ClientInv
    BY <1>1 DEF ClientInv
  <1>. QED
    BY <1>5, <1>6

LEMMA AddRouteStep ==
  ASSUME DocumentInv, ClientInv, AddRoute
  PROVE  DocumentInv' /\ ClientInv'
  <1>1. PICK route : route = api.routes[turn]
    OBVIOUS
  <1>2. /\ turn \in DOMAIN api.routes /\ turn' = turn + 1
        /\ registry' = Register(route)
        /\ rawExtras' = Over(rawExtras, EnsureRaw(route))
        /\ UNCHANGED <<api, components, clientVars>>
    BY <1>1 DEF AddRoute
  <1>3. api \in Apps /\ RegistryOK(registry) /\ IsFiniteSet(DOMAIN rawExtras)
    BY DEF DocumentInv
  <1>4. PICK count \in Nat : count = Len(api.routes) /\ DOMAIN api.routes = 1 .. count
    BY <1>3, AppsAssumption
  <1>5. /\ turn \in 1 .. count /\ turn' \in 1 .. count + 1
        /\ \A i \in 1 .. turn' - 1 : i = turn \/ i \in 1 .. turn - 1
        /\ \A i \in 1 .. turn - 1 : i \in 1 .. turn' - 1
        /\ turn \in 1 .. turn' - 1
    BY <1>2, <1>4
  <1>6. components = NoDocument
    BY <1>4, <1>5 DEF DocumentInv
  <1>7. /\ RegistryOK(registry')
        /\ \A s : IsRegistered(s, registry) => IsRegistered(s, registry')
        /\ \A s \in OwnSchemas(route) : s = 0 \/ IsRegistered(s, registry')
    BY <1>1, <1>2, <1>3, RegisterStep
  <1>8. PICK defs : defs = ParameterDefs(route)
    OBVIOUS
  <1>9. PICK new : new = {SafeName(s) : s \in defs} \ DOMAIN rawExtras
    OBVIOUS
  <1>10. DOMAIN EnsureRaw(route) = new
         /\ \A n \in new : EnsureRaw(route)[n] \in defs /\ SafeName(EnsureRaw(route)[n]) = n
    BY <1>8, <1>9 DEF EnsureRaw
  <1>11. /\ DOMAIN rawExtras' = DOMAIN rawExtras \cup new
         /\ \A n \in DOMAIN rawExtras : rawExtras'[n] = rawExtras[n]
         /\ \A n \in new : rawExtras'[n] \in defs /\ SafeName(rawExtras'[n]) = n
    <2>1. PICK extra : extra = EnsureRaw(route)
      OBVIOUS
    <2>2. /\ DOMAIN Over(rawExtras, extra) = DOMAIN rawExtras \cup DOMAIN extra
          /\ \A x \in DOMAIN rawExtras : Over(rawExtras, extra)[x] = rawExtras[x]
          /\ \A x \in DOMAIN extra : x \notin DOMAIN rawExtras => Over(rawExtras, extra)[x] = extra[x]
      BY OverProps, Zenon
    <2>3. rawExtras' = Over(rawExtras, extra)
      BY <1>2, <2>1
    <2>. QED
      BY <1>9, <1>10, <2>1, <2>2, <2>3
  <1>12. IsFiniteSet(DOMAIN rawExtras')
    <2>1. PICK f : f = [s \in defs |-> SafeName(s)]
      OBVIOUS
    <2>2. defs \in SUBSET Schemas
      BY <1>1, <1>2, <1>3, <1>8, ParameterDefsRange
    <2>3. IsFiniteSet(defs)
      BY <1>3, <2>2, SchemasFinite, FS_Subset
    <2>4. IsFiniteSet({f[s] : s \in defs})
      BY <2>3, FiniteImage
    <2>5. new \in SUBSET {f[s] : s \in defs}
      BY <1>9, <2>1
    <2>6. IsFiniteSet(new)
      BY <2>4, <2>5, FS_Subset
    <2>. QED
      BY <1>3, <1>11, <2>6, FS_Union
  <1>13. ASSUME NEW i \in 1 .. turn' - 1
         PROVE  /\ \A s \in OwnSchemas(api.routes[i]) : s = 0 \/ IsRegistered(s, registry')
                /\ \A s \in ParameterDefs(api.routes[i]) : SafeName(s) \in DOMAIN rawExtras'
    <2>1. CASE i = turn
      BY <1>1, <1>7, <1>8, <1>9, <1>11, <2>1
    <2>2. CASE i \in 1 .. turn - 1
      <3>1. /\ \A s \in OwnSchemas(api.routes[i]) : s = 0 \/ IsRegistered(s, registry)
            /\ \A s \in ParameterDefs(api.routes[i]) : SafeName(s) \in DOMAIN rawExtras
        BY <2>2 DEF DocumentInv
      <3>. QED
        BY <1>7, <1>11, <3>1
    <2>. QED
      BY <1>5, <2>1, <2>2
  <1>14. ASSUME NEW name \in DOMAIN rawExtras'
         PROVE  /\ SafeName(rawExtras'[name]) = name
                /\ \E i \in 1 .. turn' - 1 : rawExtras'[name] \in ParameterDefs(api.routes[i])
    <2>1. CASE name \in new
      <3>1. SafeName(rawExtras'[name]) = name /\ rawExtras'[name] \in ParameterDefs(api.routes[turn])
        BY <1>1, <1>8, <1>11, <2>1
      <3>2. turn \in 1 .. turn' - 1
        BY <1>5
      <3>. QED
        BY <3>1, <3>2, Zenon
    <2>2. CASE name \in DOMAIN rawExtras
      <3>1. /\ SafeName(rawExtras[name]) = name
            /\ \E i \in 1 .. turn - 1 : rawExtras[name] \in ParameterDefs(api.routes[i])
        BY <2>2 DEF DocumentInv
      <3>2. PICK i \in 1 .. turn - 1 : rawExtras[name] \in ParameterDefs(api.routes[i])
        BY <3>1
      <3>3. rawExtras'[name] = rawExtras[name] /\ i \in 1 .. turn' - 1
        BY <1>5, <1>11, <2>2, <3>2
      <3>. QED
        BY <3>1, <3>2, <3>3
    <2>. QED
      BY <1>11, <2>1, <2>2
  <1>15. /\ api' = api /\ components' = components
         /\ \A s : SafeName(s)' = SafeName(s)
         /\ \A other : ParameterDefs(other)' = ParameterDefs(other)
         /\ \A reg : RegistryOK(reg)' <=> RegistryOK(reg)
    BY <1>2, SameApi
  <1>16. DocumentInv'
    BY <1>3, <1>4, <1>5, <1>6, <1>7, <1>12, <1>13, <1>14, <1>15
    DEF DocumentInv, IsRegistered, OwnSchemas
  <1>17. ClientFresh
    <2>1. turn # Len(api.routes) + 1
      BY <1>4, <1>5
    <2>. QED
      BY <1>6, <2>1 DEF ClientInv
  <1>18. ClientFresh' /\ components' = NoDocument
    BY <1>2, <1>6, <1>17 DEF ClientFresh, clientVars
  <1>. QED
    BY <1>16, <1>18 DEF ClientInv

(* The parts of the document: what is shared are schemas with ids that are *)
(* not registered and that a registered schema reaches, so there are       *)
(* finitely many names.                                                    *)
LEMMA PartsOfDocument ==
  ASSUME api \in Apps, RegistryOK(registry)
  PROVE  /\ \A t \in Shared : /\ t \in Schemas /\ Id(t) # "" /\ ~IsRegistered(t, registry)
                              /\ Given(t) \in DOMAIN SharedDefs
         /\ DOMAIN SharedDefs = {Given(t) : t \in Shared}
         /\ \A name \in DOMAIN SharedDefs :
              SharedDefs[name] \in Shared /\ Given(SharedDefs[name]) = name
         /\ DOMAIN Registered = {registry[i].name : i \in 1 .. Len(registry)}
         /\ \A i \in 1 .. Len(registry) : Registered[registry[i].name] = registry[i].schema
         /\ IsFiniteSet(DOMAIN Registered) /\ IsFiniteSet(DOMAIN SharedDefs)
  <1>1. PICK n \in Nat : n = Len(registry) /\ DOMAIN registry = 1 .. n
    BY DEF RegistryOK, IsSequence
  <1>2. ASSUME NEW t \in Shared
        PROVE  t \in Schemas /\ Id(t) # "" /\ ~IsRegistered(t, registry)
    <2>1. PICK i \in 1 .. n : t \in Within(registry)[registry[i].schema]
      BY <1>1 DEF Shared
    <2>2. registry[i].schema \in Schemas
      BY <1>1 DEF RegistryOK
    <2>3. t \in Schemas /\ Extracted(t, registry)
      BY <2>1, <2>2, WithinRange
    <2>. QED
      BY <2>3 DEF Shared, Extracted
  <1>3. DOMAIN SharedDefs = {Given(t) : t \in Shared}
    BY DEF SharedDefs
  <1>4. \A name \in DOMAIN SharedDefs : SharedDefs[name] \in Shared /\ Given(SharedDefs[name]) = name
    BY DEF SharedDefs
  <1>5. PICK names : names = {registry[i].name : i \in 1 .. n}
    OBVIOUS
  <1>6. DOMAIN Registered = names
    BY <1>1, <1>5 DEF Registered
  <1>7. ASSUME NEW i \in 1 .. n
        PROVE  Registered[registry[i].name] = registry[i].schema
    <2>1. PICK k : k = CHOOSE j \in DOMAIN registry : registry[j].name = registry[i].name
      OBVIOUS
    <2>2. k \in 1 .. n /\ registry[k].name = registry[i].name
      BY <1>1, <2>1
    <2>3. k = i
      BY <1>1, <2>2 DEF RegistryOK
    <2>4. Registered[registry[i].name] = registry[k].schema
      BY <1>1, <2>1 DEF Registered
    <2>. QED
      BY <2>3, <2>4
  <1>8. IsFiniteSet(names)
    <2>1. PICK f : f = [i \in 1 .. n |-> registry[i].name]
      OBVIOUS
    <2>2. IsFiniteSet({f[i] : i \in 1 .. n})
      <3>1. IsFiniteSet(1 .. n)
        BY FS_Interval
      <3>. QED
        BY <3>1, FiniteImage
    <2>3. {f[i] : i \in 1 .. n} = names
      BY <1>5, <2>1
    <2>. QED
      BY <2>2, <2>3
  <1>9. IsFiniteSet({Given(t) : t \in Shared})
    <2>1. PICK f : f = [t \in Shared |-> Given(t)]
      OBVIOUS
    <2>2. Shared \in SUBSET Schemas
      BY <1>2
    <2>3. IsFiniteSet(Shared)
      BY <2>2, SchemasFinite, FS_Subset
    <2>4. IsFiniteSet({f[t] : t \in Shared})
      BY <2>3, FiniteImage
    <2>5. {f[t] : t \in Shared} = {Given(t) : t \in Shared}
      BY <2>1
    <2>. QED
      BY <2>4, <2>5
  <1>. QED
    BY <1>1, <1>2, <1>3, <1>4, <1>5, <1>6, <1>7, <1>8, <1>9

LEMMA BuiltParts ==
  /\ DOMAIN Built = (DOMAIN Registered \cup DOMAIN SharedDefs) \cup DOMAIN rawExtras
  /\ \A x \in DOMAIN Registered : Built[x] = Registered[x]
  /\ \A x \in DOMAIN SharedDefs : x \notin DOMAIN Registered => Built[x] = SharedDefs[x]
  /\ \A x \in DOMAIN rawExtras :
       x \notin DOMAIN Registered \cup DOMAIN SharedDefs => Built[x] = rawExtras[x]
  <1>1. PICK f : f = Registered
    OBVIOUS
  <1>2. PICK g : g = SharedDefs
    OBVIOUS
  <1>3. PICK both : both = Over(f, g)
    OBVIOUS
  <1>4. /\ DOMAIN both = DOMAIN f \cup DOMAIN g
        /\ \A x \in DOMAIN f : both[x] = f[x]
        /\ \A x \in DOMAIN g : x \notin DOMAIN f => both[x] = g[x]
    BY <1>3 DEF Over
  <1>5. PICK all : all = Over(both, rawExtras)
    OBVIOUS
  <1>6. /\ DOMAIN all = DOMAIN both \cup DOMAIN rawExtras
        /\ \A x \in DOMAIN both : all[x] = both[x]
        /\ \A x \in DOMAIN rawExtras : x \notin DOMAIN both => all[x] = rawExtras[x]
    BY <1>5 DEF Over
  <1>7. Built = all
    BY <1>1, <1>2, <1>3, <1>5 DEF Built
  <1>. QED
    BY <1>1, <1>2, <1>4, <1>6, <1>7

LEMMA BuiltFinite ==
  ASSUME DocumentInv
  PROVE  IsFiniteSet(DOMAIN Built)
  <1>1. api \in Apps /\ RegistryOK(registry) /\ IsFiniteSet(DOMAIN rawExtras)
    BY DEF DocumentInv
  <1>2. IsFiniteSet(DOMAIN Registered) /\ IsFiniteSet(DOMAIN SharedDefs)
    BY <1>1, PartsOfDocument
  <1>3. IsFiniteSet(DOMAIN Registered \cup DOMAIN SharedDefs)
    BY <1>2, FS_Union
  <1>4. IsFiniteSet((DOMAIN Registered \cup DOMAIN SharedDefs) \cup DOMAIN rawExtras)
    BY <1>1, <1>3, FS_Union
  <1>. QED
    BY <1>4, BuiltParts

LEMMA BuildStep ==
  ASSUME DocumentInv, ClientInv, Build
  PROVE  DocumentInv' /\ ClientInv'
  <1>1. /\ turn = Len(api.routes) + 1 /\ components = NoDocument
        /\ components' = Built /\ untyped' = DOMAIN components'
        /\ UNCHANGED <<api, turn, registry, rawExtras, alias, pending, decls, mentions>>
    BY DEF Build, Built
  <1>2. /\ Built' = Built
        /\ \A s : SafeName(s)' = SafeName(s)
        /\ \A route : ParameterDefs(route)' = ParameterDefs(route)
        /\ \A reg : RegistryOK(reg)' <=> RegistryOK(reg)
    BY <1>1, SameApi, SameDocument
  <1>3. DocumentInv'
    BY <1>1, <1>2 DEF DocumentInv, IsRegistered, OwnSchemas
  <1>4. CASE components' = NoDocument
    <2>1. components' = Built' /\ turn' = Len(api'.routes) + 1
      BY <1>1, <1>2
    <2>. QED
      BY <1>3, <1>4, <2>1, Zenon DEF ClientInv
  <1>5. CASE components' # NoDocument
    <2>1. ClientFresh
      BY <1>1, <1>5 DEF ClientInv
    <2>2. alias' = <<>> /\ pending' = <<>> /\ decls' = <<>> /\ mentions' = {}
      BY <1>1, <2>1 DEF ClientFresh
    <2>3. DOMAIN alias' = {} /\ DOMAIN decls' = {} /\ pending' \in Seq(DOMAIN components')
      BY <2>2
    <2>4. IsFiniteSet(DOMAIN components')
      BY <1>1, BuiltFinite
    <2>5. ClientTypes'
      BY <1>1, <2>2, <2>3 DEF ClientTypes
    <2>6. untyped' \subseteq DOMAIN components' /\ DOMAIN alias' \subseteq DOMAIN components'
      BY <1>1, <2>3
    <2>. QED
      BY <1>3, <1>5, <2>3, <2>4, <2>5, <2>6, Zenon DEF ClientInv
  <1>. QED
    BY <1>3, <1>4, <1>5

(* The elements of a finite set, as a list.                                *)
LEMMA Listed ==
  ASSUME NEW S, IsFiniteSet(S)
  PROVE  SetToSeq(S) \in Seq(S)
  <1>1. PICK n \in Nat : n = Cardinality(S)
    BY FS_CardinalityType
  <1>2. PICK f : f \in Bijection(1 .. n, S)
    BY <1>1, FS_CardinalityType DEF ExistsBijection
  <1>3. f \in [1 .. n -> S] /\ IsInjective(f)
    BY <1>2 DEF Bijection, Injection, IsInjective
  <1>4. SetToSeq(S) \in [1 .. n -> S]
    BY <1>1, <1>3 DEF SetToSeq
  <1>. QED
    BY <1>4

LEMMA FollowList ==
  ASSUME IsFiniteSet(DOMAIN components), NEW name
  PROVE  Follow(name) \in Seq(DOMAIN components)
  <1>1. PICK S : S = {ref.to : ref \in RefsIn(name)} \cap DOMAIN components
    OBVIOUS
  <1>2. IsFiniteSet(S)
    BY <1>1, FS_Subset
  <1>3. SetToSeq(S) \in Seq(S)
    BY <1>2, Listed
  <1>4. Follow(name) = SetToSeq(S)
    BY <1>1 DEF Follow
  <1>. QED
    BY <1>1, <1>3, <1>4

(* A type of its own is declared, unless it already is.                    *)
LEMMA EmitOwn ==
  ASSUME NEW name \in DOMAIN components, NEW type, NEW rest \in Seq(DOMAIN components),
         IsFiniteSet(DOMAIN components), Emit1(type, name, rest)
  PROVE  /\ pending' \in Seq(DOMAIN components)
         /\ DOMAIN decls' = DOMAIN decls \cup {type}
         /\ \A t \in DOMAIN decls : decls'[t] = decls[t]
         /\ type \in DOMAIN decls \/ decls'[type] = name
  <1>1. CASE type \in DOMAIN decls
    BY <1>1 DEF Emit1
  <1>2. CASE type \notin DOMAIN decls
    <2>1. pending' = Follow(name) \o rest /\ decls' = Put(decls, type, name)
      BY <1>2 DEF Emit1
    <2>2. Follow(name) \in Seq(DOMAIN components)
      BY FollowList
    <2>3. /\ DOMAIN Put(decls, type, name) = DOMAIN decls \cup {type}
          /\ Put(decls, type, name)[type] = name
          /\ \A x \in DOMAIN decls : x # type => Put(decls, type, name)[x] = decls[x]
      BY DEF Put, Over
    <2>4. pending' \in Seq(DOMAIN components)
      BY <2>1, <2>2
    <2>5. /\ DOMAIN decls' = DOMAIN decls \cup {type}
          /\ \A t \in DOMAIN decls : decls'[t] = decls[t]
          /\ decls'[type] = name
      BY <1>2, <2>1, <2>3
    <2>. QED
      BY <2>4, <2>5
  <1>. QED
    BY <1>1, <1>2

(* What is the same for both steps of the client.                          *)
LEMMA SameDocumentInv ==
  ASSUME DocumentInv, UNCHANGED <<api, turn, documentVars>>
  PROVE  DocumentInv' /\ Built' = Built
  <1>1. UNCHANGED <<api, turn, registry, rawExtras, components>>
    BY DEF documentVars
  <1>2. /\ Built' = Built
        /\ \A s : SafeName(s)' = SafeName(s)
        /\ \A route : ParameterDefs(route)' = ParameterDefs(route)
        /\ \A reg : RegistryOK(reg)' <=> RegistryOK(reg)
    BY <1>1, SameApi, SameDocument
  <1>. QED
    BY <1>1, <1>2 DEF DocumentInv, IsRegistered, OwnSchemas

LEMMA TypesKeptApart ==
  ASSUME UNCHANGED components
  PROVE  TypesApart' <=> TypesApart
  BY DEF TypesApart

LEMMA NextComponentStep ==
  ASSUME DocumentInv, ClientInv, NextComponent
  PROVE  DocumentInv' /\ ClientInv'
  <1>1. PICK name \in untyped :
          LET type == UniqueIdent(TypeText(name), {alias[n] : n \in DOMAIN components \ untyped})
          IN  /\ untyped' = untyped \ {name}
              /\ alias' = Put(alias, name, type)
              /\ Emit1(type, name, <<>>)
    BY DEF NextComponent
  <1>2. pending = <<>> /\ UNCHANGED <<api, turn, documentVars, mentions>>
    BY DEF NextComponent
  <1>3. DocumentInv' /\ Built' = Built
    BY <1>2, SameDocumentInv
  <1>4. components' = components /\ api' = api /\ turn' = turn /\ mentions' = mentions
    BY <1>2 DEF documentVars
  <1>5. CASE components = NoDocument
    <2>1. ~ClientFresh
      BY <1>1 DEF ClientFresh
    <2>2. components = Built /\ turn = Len(api.routes) + 1
      BY <1>5, <2>1 DEF ClientInv
    <2>. QED
      BY <1>3, <1>4, <1>5, <2>2 DEF ClientInv
  <1>6. CASE components # NoDocument
    <2>1. /\ IsFiniteSet(DOMAIN components) /\ untyped \subseteq DOMAIN components
          /\ DOMAIN alias \subseteq DOMAIN components
          /\ TypesApart => ClientTypes
      BY <1>6 DEF ClientInv
    <2>2. PICK used : used = {alias[n] : n \in DOMAIN components \ untyped}
      OBVIOUS
    <2>3. PICK type : type = UniqueIdent(TypeText(name), used)
      OBVIOUS
    <2>4. /\ untyped' = untyped \ {name} /\ alias' = Put(alias, name, type)
          /\ Emit1(type, name, <<>>)
      BY <1>1, <2>2, <2>3
    <2>5. name \in DOMAIN components /\ <<>> \in Seq(DOMAIN components)
      BY <2>1
    <2>6. /\ pending' \in Seq(DOMAIN components)
          /\ DOMAIN decls' = DOMAIN decls \cup {type}
          /\ \A t \in DOMAIN decls : decls'[t] = decls[t]
          /\ type \in DOMAIN decls \/ decls'[type] = name
      BY <2>1, <2>4, <2>5, EmitOwn
    <2>7. /\ DOMAIN alias' = DOMAIN alias \cup {name} /\ alias'[name] = type
          /\ \A n \in DOMAIN alias : n # name => alias'[n] = alias[n]
      <3>1. /\ DOMAIN Put(alias, name, type) = DOMAIN alias \cup {name}
            /\ Put(alias, name, type)[name] = type
            /\ \A x \in DOMAIN alias : x # name => Put(alias, name, type)[x] = alias[x]
        BY DEF Put, Over
      <3>. QED
        BY <2>4, <3>1
    <2>8. ASSUME TypesApart PROVE ClientTypes'
      <3>1. /\ \A n \in DOMAIN alias : alias[n] = OwnType(n)
            /\ \A n \in DOMAIN components \ untyped :
                 n \in DOMAIN alias /\ OwnType(n) \in DOMAIN decls
            /\ \A t \in DOMAIN decls : decls[t] \in DOMAIN components /\ t = OwnType(decls[t])
            /\ \A use \in mentions :
                 use.of \in DOMAIN components /\ use.type = OwnType(use.of) /\ use.type \in DOMAIN decls
        BY <2>1, <2>8 DEF ClientTypes
      <3>2. IsFiniteSet(used)
        <4>1. PICK f : f = [n \in DOMAIN components \ untyped |-> alias[n]]
          OBVIOUS
        <4>2. IsFiniteSet(DOMAIN components \ untyped)
          BY <2>1, FS_Subset
        <4>3. IsFiniteSet({f[n] : n \in DOMAIN components \ untyped})
          BY <4>2, FiniteImage
        <4>4. {f[n] : n \in DOMAIN components \ untyped} = used
          BY <2>2, <4>1
        <4>. QED
          BY <4>3, <4>4
      <3>3. <<TypeText(name), 1>> \notin used
        <4>. SUFFICES ASSUME NEW n \in DOMAIN components \ untyped, alias[n] = <<TypeText(name), 1>>
                      PROVE  FALSE
          BY <2>2
        <4>1. TypeText(n) = TypeText(name)
          BY <3>1 DEF OwnType
        <4>2. n = name
          BY <2>5, <2>8, <4>1 DEF TypeText, TypesApart
        <4>. QED
          BY <4>2
      <3>4. type = OwnType(name)
        <4>1. PICK k \in Nat \ {0} : /\ UniqueIdent(TypeText(name), used) = <<TypeText(name), k>>
                                     /\ <<TypeText(name), 1>> \notin used => k = 1
          BY <3>2, UniqueIdentFree
        <4>. QED
          BY <2>3, <3>3, <4>1 DEF OwnType
      <3>5. \A n \in DOMAIN alias' : alias'[n] = OwnType(n)
        BY <2>7, <3>1, <3>4
      <3>6. \A n \in DOMAIN components \ untyped' : n \in DOMAIN alias' /\ OwnType(n) \in DOMAIN decls'
        BY <2>4, <2>6, <2>7, <3>1, <3>4
      <3>7. \A t \in DOMAIN decls' : decls'[t] \in DOMAIN components /\ t = OwnType(decls'[t])
        BY <2>5, <2>6, <3>1, <3>4
      <3>8. \A use \in mentions :
              use.of \in DOMAIN components /\ use.type = OwnType(use.of) /\ use.type \in DOMAIN decls'
        BY <2>6, <3>1
      <3>9. \A n : OwnType(n)' = OwnType(n)
        BY DEF OwnType, TypeText
      <3>. QED
        BY <1>4, <3>5, <3>6, <3>7, <3>8, <3>9 DEF ClientTypes
    <2>9. DOMAIN alias' \subseteq DOMAIN components /\ untyped' \subseteq DOMAIN components
      BY <2>1, <2>4, <2>5, <2>7
    <2>. QED
      <3>1. TypesApart' => ClientTypes'
        BY <1>4, <2>8, TypesKeptApart
      <3>2. /\ IsFiniteSet(DOMAIN components') /\ untyped' \subseteq DOMAIN components'
            /\ DOMAIN alias' \subseteq DOMAIN components' /\ pending' \in Seq(DOMAIN components')
        BY <1>4, <2>1, <2>6, <2>9
      <3>3. components' # NoDocument
        BY <1>4, <1>6
      <3>. QED
        BY <1>3, <3>1, <3>2, <3>3, Zenon DEF ClientInv
  <1>. QED
    BY <1>3, <1>5, <1>6

LEMMA FollowRefStep ==
  ASSUME DocumentInv, ClientInv, FollowRef
  PROVE  DocumentInv' /\ ClientInv'
  <1>1. PICK name : name = Head(pending)
    OBVIOUS
  <1>2. PICK type : type = TypeOf(name)
    OBVIOUS
  <1>3. /\ pending # <<>>
        /\ alias' = Put(alias, name, type)
        /\ mentions' = mentions \cup {[type |-> type, of |-> name]}
        /\ Emit1(type, name, Tail(pending))
        /\ UNCHANGED <<api, turn, documentVars, untyped>>
    BY <1>1, <1>2 DEF FollowRef
  <1>4. DocumentInv' /\ Built' = Built
    BY <1>3, SameDocumentInv
  <1>5. components' = components /\ api' = api /\ turn' = turn /\ untyped' = untyped
    BY <1>3 DEF documentVars
  <1>6. CASE components = NoDocument
    <2>1. ~ClientFresh
      BY <1>3 DEF ClientFresh
    <2>2. components = Built /\ turn = Len(api.routes) + 1
      BY <1>6, <2>1 DEF ClientInv
    <2>. QED
      BY <1>4, <1>5, <1>6, <2>2 DEF ClientInv
  <1>7. CASE components # NoDocument
    <2>1. /\ IsFiniteSet(DOMAIN components) /\ untyped \subseteq DOMAIN components
          /\ DOMAIN alias \subseteq DOMAIN components
          /\ pending \in Seq(DOMAIN components)
          /\ TypesApart => ClientTypes
      BY <1>7 DEF ClientInv
    <2>2. name \in DOMAIN components /\ Tail(pending) \in Seq(DOMAIN components)
      BY <1>1, <1>3, <2>1
    <2>3. /\ pending' \in Seq(DOMAIN components)
          /\ DOMAIN decls' = DOMAIN decls \cup {type}
          /\ \A t \in DOMAIN decls : decls'[t] = decls[t]
          /\ type \in DOMAIN decls \/ decls'[type] = name
      BY <1>3, <2>1, <2>2, EmitOwn
    <2>4. /\ DOMAIN alias' = DOMAIN alias \cup {name} /\ alias'[name] = type
          /\ \A n \in DOMAIN alias : n # name => alias'[n] = alias[n]
      <3>1. /\ DOMAIN Put(alias, name, type) = DOMAIN alias \cup {name}
            /\ Put(alias, name, type)[name] = type
            /\ \A x \in DOMAIN alias : x # name => Put(alias, name, type)[x] = alias[x]
        BY DEF Put, Over
      <3>. QED
        BY <1>3, <3>1
    <2>5. ASSUME TypesApart PROVE ClientTypes'
      <3>1. /\ \A n \in DOMAIN alias : alias[n] = OwnType(n)
            /\ \A n \in DOMAIN components \ untyped :
                 n \in DOMAIN alias /\ OwnType(n) \in DOMAIN decls
            /\ \A t \in DOMAIN decls : decls[t] \in DOMAIN components /\ t = OwnType(decls[t])
            /\ \A use \in mentions :
                 use.of \in DOMAIN components /\ use.type = OwnType(use.of) /\ use.type \in DOMAIN decls
        BY <2>1, <2>5 DEF ClientTypes
      <3>2. type = OwnType(name)
        BY <1>2, <3>1 DEF TypeOf, OwnType
      <3>3. \A n \in DOMAIN alias' : alias'[n] = OwnType(n)
        BY <2>4, <3>1, <3>2
      <3>4. \A n \in DOMAIN components \ untyped : n \in DOMAIN alias' /\ OwnType(n) \in DOMAIN decls'
        BY <2>3, <2>4, <3>1
      <3>5. \A t \in DOMAIN decls' : decls'[t] \in DOMAIN components /\ t = OwnType(decls'[t])
        BY <2>2, <2>3, <3>1, <3>2
      <3>6. \A use \in mentions' :
              use.of \in DOMAIN components /\ use.type = OwnType(use.of) /\ use.type \in DOMAIN decls'
        <4>1. PICK new : new = [type |-> type, of |-> name]
          OBVIOUS
        <4>2. new.of \in DOMAIN components /\ new.type = OwnType(new.of) /\ new.type \in DOMAIN decls'
          BY <2>2, <2>3, <3>2, <4>1
        <4>. QED
          BY <1>3, <2>3, <3>1, <4>1, <4>2
      <3>7. \A n : OwnType(n)' = OwnType(n)
        BY DEF OwnType, TypeText
      <3>. QED
        BY <1>5, <3>3, <3>4, <3>5, <3>6, <3>7 DEF ClientTypes
    <2>6. DOMAIN alias' \subseteq DOMAIN components
      BY <2>1, <2>2, <2>4
    <2>. QED
      <3>1. TypesApart' => ClientTypes'
        BY <1>5, <2>5, TypesKeptApart
      <3>2. /\ IsFiniteSet(DOMAIN components') /\ untyped' \subseteq DOMAIN components'
            /\ DOMAIN alias' \subseteq DOMAIN components' /\ pending' \in Seq(DOMAIN components')
        BY <1>5, <2>1, <2>3, <2>6
      <3>3. components' # NoDocument
        BY <1>5, <1>7
      <3>. QED
        BY <1>4, <3>1, <3>2, <3>3, Zenon DEF ClientInv
  <1>. QED
    BY <1>4, <1>6, <1>7

LEMMA DocumentStutter ==
  ASSUME DocumentInv, ClientInv, UNCHANGED openApiVars
  PROVE  DocumentInv' /\ ClientInv'
  <1>1. UNCHANGED <<api, turn, documentVars>> /\ components' = components
        /\ UNCHANGED <<untyped, alias, pending, decls, mentions>>
    BY DEF openApiVars, documentVars, clientVars
  <1>2. DocumentInv' /\ Built' = Built
    BY <1>1, SameDocumentInv
  <1>3. ClientFresh' <=> ClientFresh
    BY <1>1 DEF ClientFresh
  <1>4. ClientTypes' <=> ClientTypes
    BY <1>1 DEF ClientTypes, OwnType, TypeText
  <1>5. TypesApart' <=> TypesApart
    BY <1>1, TypesKeptApart
  <1>. QED
    BY <1>1, <1>2, <1>3, <1>4, <1>5 DEF ClientInv

LEMMA DocumentSteps ==
  ASSUME DocumentInv, ClientInv, [ZwenNext]_zwenVars
  PROVE  DocumentInv' /\ ClientInv'
  <1>1. CASE Generate
    <2>1. AddRoute \/ Build \/ NextComponent \/ FollowRef
      BY <1>1 DEF Generate
    <2>. QED
      BY <2>1, AddRouteStep, BuildStep, NextComponentStep, FollowRefStep
  <1>2. CASE UNCHANGED zwenVars
    BY <1>2, DocumentStutter DEF zwenVars
  <1>3. CASE Refuse \/ Choose \/ Write \/ Check \/ GenerateWire \/ RunContainer \/ UseClient
    <2>1. UNCHANGED openApiVars
      BY <1>3 DEF Refuse, Choose, Write, Check, GenerateWire, RunContainer, UseClient
    <2>. QED
      BY <2>1, DocumentStutter
  <1>. QED
    BY <1>1, <1>2, <1>3 DEF ZwenNext

(* In every run of the commands the document and its client are as         *)
(* DocumentInv and ClientInv say.                                          *)
THEOREM DocumentInvariance == ZwenSpec => [](DocumentInv /\ ClientInv)
  <1>1. ZwenInit => DocumentInv /\ ClientInv
    <2>. SUFFICES ASSUME ZwenInit PROVE DocumentInv /\ ClientInv
      OBVIOUS
    <2>1. OpenApiStart
      BY DEF ZwenInit
    <2>2. api \in Apps
      <3>1. OneApp \subseteq Apps
        BY AppsAssumption DEF OneApp
      <3>. QED
        BY <3>1 DEF ZwenInit
    <2>. QED
      BY <2>1, <2>2, DocumentStarts
  <1>2. DocumentInv /\ ClientInv /\ [ZwenNext]_zwenVars => (DocumentInv /\ ClientInv)'
    BY DocumentSteps
  <1>. QED
    BY <1>1, <1>2, PTL DEF ZwenSpec

(* With names that cannot be mistaken for each other the component under   *)
(* the name of a schema is that schema: for every one that is registered,  *)
(* shared, or came with the parameters of a route.                         *)
LEMMA RegisteredAlone ==
  ASSUME api \in Apps, RegistryOK(registry), NamesApart,
         NEW t \in Schemas, Id(t) # "", NEW i \in 1 .. Len(registry), registry[i].name = Given(t)
  PROVE  registry[i].schema = t
  <1>1. PICK s \in Schemas : s = registry[i].schema
    BY DEF RegistryOK
  <1>2. PICK text : TextOf(s, text) /\ text = Id(t)
    <2>1. \E text : \E n \in Nat \ {0} : registry[i].name = <<text, n>> /\ TextOf(s, text)
      BY <1>1 DEF RegistryOK
    <2>2. PICK text, n : registry[i].name = <<text, n>> /\ TextOf(s, text)
      BY <2>1
    <2>3. <<text, n>> = <<Id(t), 1>>
      BY <2>2 DEF Given
    <2>4. text = Id(t)
      BY <2>3
    <2>. QED
      BY <2>2, <2>4
  <1>3. \A hint \in Hints : Sanitized[hint] = hint
    <2>1. \A k \in DOMAIN api.routes : api.routes[k] \in ToSet(api.routes)
      BY DEF ToSet
    <2>. QED
      BY <2>1, AppsAssumption DEF Hints
  <1>4. CASE Id(s) # ""
    BY <1>1, <1>2, <1>4 DEF TextOf, NamesApart
  <1>5. CASE Id(s) = ""
    BY <1>2, <1>3, <1>5 DEF TextOf, NamesApart
  <1>. QED
    BY <1>1, <1>4, <1>5

LEMMA Meanings ==
  ASSUME DocumentInv, NamesApart, components = Built
  PROVE  /\ \A i \in 1 .. Len(registry) :
              /\ registry[i].name \in DOMAIN components
              /\ components[registry[i].name] = registry[i].schema
         /\ \A t \in Shared : Given(t) \in DOMAIN components /\ components[Given(t)] = t
         /\ \A i \in 1 .. turn - 1 : \A t \in ParameterDefs(api.routes[i]) :
              Given(t) \in DOMAIN components /\ components[Given(t)] = t
  <1>1. api \in Apps /\ RegistryOK(registry)
    BY DEF DocumentInv
  <1>2. /\ DOMAIN components = (DOMAIN Registered \cup DOMAIN SharedDefs) \cup DOMAIN rawExtras
        /\ \A x \in DOMAIN Registered : components[x] = Registered[x]
        /\ \A x \in DOMAIN SharedDefs : x \notin DOMAIN Registered => components[x] = SharedDefs[x]
        /\ \A x \in DOMAIN rawExtras :
             x \notin DOMAIN Registered \cup DOMAIN SharedDefs => components[x] = rawExtras[x]
    BY BuiltParts
  <1>3. /\ \A t \in Shared : /\ t \in Schemas /\ Id(t) # "" /\ ~IsRegistered(t, registry)
                             /\ Given(t) \in DOMAIN SharedDefs
        /\ \A name \in DOMAIN SharedDefs :
             SharedDefs[name] \in Shared /\ Given(SharedDefs[name]) = name
        /\ DOMAIN Registered = {registry[i].name : i \in 1 .. Len(registry)}
        /\ \A i \in 1 .. Len(registry) : Registered[registry[i].name] = registry[i].schema
    BY <1>1, PartsOfDocument
  <1>4. ASSUME NEW i \in 1 .. Len(registry)
        PROVE  /\ registry[i].name \in DOMAIN components
               /\ components[registry[i].name] = registry[i].schema
    BY <1>2, <1>3
  <1>5. ASSUME NEW t \in Schemas, NEW u \in Schemas, Id(t) # "", Given(u) = Given(t)
        PROVE  u = t
    <2>1. Id(u) = Id(t)
      BY <1>5 DEF Given
    <2>. QED
      BY <1>5, <2>1 DEF NamesApart
  <1>6. ASSUME NEW t \in Schemas, Id(t) # "", Given(t) \in DOMAIN Registered
        PROVE  components[Given(t)] = t
    <2>1. PICK i \in 1 .. Len(registry) : registry[i].name = Given(t)
      BY <1>3, <1>6
    <2>2. registry[i].schema = t
      BY <1>1, <1>6, <2>1, RegisteredAlone
    <2>. QED
      BY <1>4, <2>1, <2>2
  <1>7. ASSUME NEW t \in Schemas, Id(t) # "", Given(t) \in DOMAIN Registered \cup DOMAIN SharedDefs
        PROVE  components[Given(t)] = t
    <2>1. CASE Given(t) \in DOMAIN Registered
      BY <1>6, <1>7, <2>1
    <2>2. CASE Given(t) \notin DOMAIN Registered
      <3>1. PICK u : u = SharedDefs[Given(t)]
        OBVIOUS
      <3>2. Given(t) \in DOMAIN SharedDefs /\ components[Given(t)] = u
        BY <1>2, <1>7, <2>2, <3>1
      <3>3. u \in Schemas /\ Given(u) = Given(t)
        BY <1>3, <3>1, <3>2
      <3>. QED
        BY <1>5, <1>7, <3>2, <3>3
    <2>. QED
      BY <2>1, <2>2
  <1>8. ASSUME NEW t \in Shared
         PROVE  Given(t) \in DOMAIN components /\ components[Given(t)] = t
    BY <1>2, <1>3, <1>7
  <1>9. ASSUME NEW i \in 1 .. turn - 1, NEW t \in ParameterDefs(api.routes[i])
         PROVE  Given(t) \in DOMAIN components /\ components[Given(t)] = t
    <2>1. \A k \in 1 .. turn - 1 : k \in DOMAIN api.routes
      BY <1>1, AppsAssumption DEF DocumentInv
    <2>2. \A k \in 1 .. turn - 1 : \A s \in ParameterDefs(api.routes[k]) : s \in Schemas /\ Id(s) # ""
      BY <1>1, <2>1, ParameterDefsRange
    <2>3. \A s \in Schemas : Id(s) # "" => SafeName(s) = Given(s)
      BY DEF NamesApart, SafeName, Given
    <2>4. t \in Schemas /\ Id(t) # "" /\ Given(t) \in DOMAIN rawExtras
      BY <2>2, <2>3 DEF DocumentInv
    <2>5. CASE Given(t) \in DOMAIN Registered \cup DOMAIN SharedDefs
      BY <1>2, <1>7, <2>4, <2>5
    <2>6. CASE Given(t) \notin DOMAIN Registered \cup DOMAIN SharedDefs
      <3>1. PICK u : u = rawExtras[Given(t)]
        OBVIOUS
      <3>2. components[Given(t)] = u
        BY <1>2, <2>4, <2>6, <3>1
      <3>3. SafeName(u) = Given(t) /\ \E k \in 1 .. turn - 1 : u \in ParameterDefs(api.routes[k])
        BY <2>4, <3>1 DEF DocumentInv
      <3>4. u \in Schemas /\ Given(u) = Given(t)
        BY <2>2, <2>3, <3>3
      <3>. QED
        BY <1>2, <1>5, <2>4, <3>2, <3>4
    <2>. QED
      BY <2>5, <2>6
  <1>. QED
    BY <1>4, <1>8, <1>9

(* Each reference of the document leads to the schema it is meant for: by  *)
(* what a component refers to, the references of a schema that is          *)
(* registered or shared are registered or shared, and those of a raw extra *)
(* came with the same parameters.                                          *)
LEMMA NamedFound ==
  ASSUME api \in Apps, RegistryOK(registry), NEW s, IsRegistered(s, registry)
  PROVE  \E i \in 1 .. Len(registry) : registry[i].schema = s /\ NameIn(s, registry) = registry[i].name
  <1>1. PICK k : k = CHOOSE i \in DOMAIN registry : registry[i].schema = s
    OBVIOUS
  <1>2. k \in DOMAIN registry /\ registry[k].schema = s
    BY <1>1 DEF IsRegistered
  <1>3. k \in 1 .. Len(registry)
    BY <1>2 DEF RegistryOK, IsSequence
  <1>. QED
    BY <1>1, <1>2, <1>3 DEF NameIn

LEMMA ReferencesLead ==
  ASSUME DocumentInv, NamesApart, DocumentDone, NEW ref \in DocumentRefs
  PROVE  ref.to \in DOMAIN components /\ components[ref.to] = ref.of
  <1>1. api \in Apps /\ RegistryOK(registry)
        /\ components = Built /\ turn = Len(api.routes) + 1
    BY DEF DocumentInv, DocumentDone
  <1>2. PICK count \in Nat : count = Len(api.routes) /\ DOMAIN api.routes = 1 .. count
    BY <1>1, AppsAssumption
  <1>3. 1 .. turn - 1 = 1 .. count
    BY <1>1, <1>2
  <1>4. PICK n \in Nat : n = Len(registry) /\ DOMAIN registry = 1 .. n
    BY <1>1 DEF RegistryOK, IsSequence
  <1>5. /\ \A i \in 1 .. n : /\ registry[i].name \in DOMAIN components
                             /\ components[registry[i].name] = registry[i].schema
        /\ \A t \in Shared : Given(t) \in DOMAIN components /\ components[Given(t)] = t
        /\ \A i \in 1 .. count : \A t \in ParameterDefs(api.routes[i]) :
             Given(t) \in DOMAIN components /\ components[Given(t)] = t
    BY <1>1, <1>3, <1>4, Meanings
  <1>. DEFINE Leads(r) == r.to \in DOMAIN components /\ components[r.to] = r.of
  <1>6. ASSUME NEW s, IsRegistered(s, registry) PROVE Leads(Named(s))
    <2>1. PICK i \in 1 .. n : registry[i].schema = s /\ NameIn(s, registry) = registry[i].name
      BY <1>1, <1>4, <1>6, NamedFound
    <2>2. Named(s).to = registry[i].name /\ Named(s).of = s
      BY <1>6, <2>1 DEF Named
    <2>. QED
      BY <1>5, <2>1, <2>2
  <1>7. ASSUME NEW s \in Shared PROVE Leads(Named(s))
    <2>1. Named(s).to = Given(s) /\ Named(s).of = s
      BY DEF Named, Shared
    <2>. QED
      BY <1>5, <2>1
  <1>8. ASSUME NEW i \in 1 .. count, NEW s \in ParameterDefs(api.routes[i]) PROVE Leads(ByGiven(s))
    <2>1. ByGiven(s).to = Given(s) /\ ByGiven(s).of = s
      BY DEF ByGiven
    <2>. QED
      BY <1>5, <2>1
  <1>9. ASSUME NEW c, c \in Shared \/ IsRegistered(c, registry), NEW t \in Direct(registry)[c]
        PROVE  t \in Shared \/ IsRegistered(t, registry)
    <2>1. PICK i \in 1 .. n : c = registry[i].schema \/ c \in Within(registry)[registry[i].schema]
      BY <1>4, <1>9 DEF Shared, IsRegistered
    <2>2. registry[i].schema \in Schemas
      BY <1>1, <1>4 DEF RegistryOK
    <2>3. t \in Within(registry)[registry[i].schema]
      BY <1>1, <2>1, <2>2, WithinRange
    <2>. QED
      BY <1>4, <2>3 DEF Shared
  <1>. DEFINE names == {Named(s).to : s \in Shared \cup {registry[i].schema : i \in DOMAIN registry}}
  <1>10. ASSUME NEW name \in DOMAIN components, name \in names
         PROVE  components[name] \in Shared \/ IsRegistered(components[name], registry)
    <2>1. PICK s \in Shared \cup {registry[i].schema : i \in DOMAIN registry} : Named(s).to = name
      BY <1>10
    <2>2. s \in Shared \/ IsRegistered(s, registry)
      BY <2>1 DEF IsRegistered
    <2>3. Leads(Named(s)) /\ Named(s).of = s
      BY <1>6, <1>7, <2>2 DEF Named
    <2>. QED
      BY <2>1, <2>2, <2>3
  <1>11. ASSUME NEW name \in DOMAIN components, name \notin names
         PROVE  \E i \in 1 .. count : components[name] \in ParameterDefs(api.routes[i])
    <2>1. /\ DOMAIN components = (DOMAIN Registered \cup DOMAIN SharedDefs) \cup DOMAIN rawExtras
          /\ \A x \in DOMAIN rawExtras :
               x \notin DOMAIN Registered \cup DOMAIN SharedDefs => components[x] = rawExtras[x]
      BY <1>1, BuiltParts
    <2>2. ASSUME name \in DOMAIN Registered PROVE FALSE
      <3>1. PICK i \in 1 .. n : registry[i].name = name
        BY <1>1, <1>4, <2>2, PartsOfDocument
      <3>2. IsRegistered(registry[i].schema, registry)
        BY <1>4 DEF IsRegistered
      <3>3. PICK j \in 1 .. n : /\ registry[j].schema = registry[i].schema
                                /\ NameIn(registry[i].schema, registry) = registry[j].name
        BY <1>1, <1>4, <3>2, NamedFound
      <3>4. j = i
        BY <1>1, <1>4, <3>3 DEF RegistryOK
      <3>5. Named(registry[i].schema).to = name
        BY <3>1, <3>2, <3>3, <3>4 DEF Named
      <3>. QED
        BY <1>4, <1>11, <3>5
    <2>3. ASSUME name \in DOMAIN SharedDefs PROVE FALSE
      <3>1. PICK s \in Shared : Given(s) = name
        BY <1>1, <2>3, PartsOfDocument
      <3>2. Named(s).to = name
        BY <3>1 DEF Named, Shared
      <3>. QED
        BY <1>11, <3>1, <3>2
    <2>4. name \in DOMAIN rawExtras /\ components[name] = rawExtras[name]
      BY <2>1, <2>2, <2>3
    <2>. QED
      BY <1>3, <2>4 DEF DocumentInv
  <1>12. ASSUME NEW name \in DOMAIN components, ref \in RefsIn(name) PROVE Leads(ref)
    <2>1. CASE name \in names
      <3>1. PICK t \in Direct(registry)[components[name]] : ref = Named(t)
        BY <1>12, <2>1 DEF RefsIn
      <3>2. t \in Shared \/ IsRegistered(t, registry)
        BY <1>9, <1>10, <2>1, <3>1
      <3>. QED
        BY <1>6, <1>7, <3>1, <3>2
    <2>2. CASE name \notin names
      <3>1. PICK t \in Direct(<<>>)[components[name]] : ref = ByGiven(t)
        BY <1>12, <2>2 DEF RefsIn
      <3>2. PICK i \in 1 .. count : components[name] \in ParameterDefs(api.routes[i])
        BY <1>11, <2>2
      <3>3. t \in ParameterDefs(api.routes[i])
        BY <1>1, <1>2, <3>1, <3>2, ParameterDefsRange
      <3>. QED
        BY <1>8, <3>1, <3>3
    <2>. QED
      BY <2>1, <2>2
  <1>13. ASSUME NEW i \in DOMAIN api.routes, ref \in OperationRefs(api.routes[i]) PROVE Leads(ref)
    <2>1. CASE \E s \in OwnSchemas(api.routes[i]) \ {0} : ref = Named(s)
      <3>1. PICK s \in OwnSchemas(api.routes[i]) : s # 0 /\ ref = Named(s)
        BY <2>1
      <3>2. IsRegistered(s, registry)
        BY <1>2, <1>3, <3>1 DEF DocumentInv
      <3>. QED
        BY <1>6, <3>1, <3>2
    <2>2. CASE \E s \in ParameterRefs(api.routes[i]) : ref = ByGiven(s)
      <3>1. PICK s \in ParameterRefs(api.routes[i]) : ref = ByGiven(s)
        BY <2>2
      <3>2. s \in ParameterDefs(api.routes[i])
        BY <1>1, <3>1, ParameterDefsRange
      <3>. QED
        BY <1>2, <1>8, <3>1, <3>2
    <2>. QED
      BY <1>13, <2>1, <2>2 DEF OperationRefs, OwnSchemas
  <1>14. Leads(ref)
    <2>1. CASE \E name \in DOMAIN components : ref \in RefsIn(name)
      BY <1>12, <2>1
    <2>2. CASE \E i \in DOMAIN api.routes : ref \in OperationRefs(api.routes[i])
      BY <1>13, <2>2
    <2>3. \/ \E name \in DOMAIN components : ref \in RefsIn(name)
          \/ \E i \in DOMAIN api.routes : ref \in OperationRefs(api.routes[i])
      BY DEF DocumentRefs
    <2>. QED
      BY <2>1, <2>2, <2>3
  <1>. QED
    BY <1>14

(* The references of the document lead to the schemas that they are meant  *)
(* for, whatever schemas the routes name, nest and share                   *)
(* (docs/rfcs/0003-route-openapi.md; operations.ts, components.ts).        *)
THEOREM ReferencesResolve == ZwenSpec => []RefsResolve
  <1>1. DocumentInv /\ ClientInv => RefsResolve
    BY ReferencesLead DEF RefsResolve
  <1>. QED
    BY <1>1, DocumentInvariance, PTL

(* A type of the generated client is the one of the component that its     *)
(* mentions mean, and each component ends with a type that is its own      *)
(* (client.ts), unless sanitizeIdent makes two names alike.                *)
THEOREM ClientTypesTrue == ZwenSpec => []ClientTypesFaithful
  <1>1. DocumentInv /\ ClientInv => ClientTypesFaithful
    <2>. SUFFICES ASSUME DocumentInv, ClientInv, ClientDone, TypesApart
                  PROVE  /\ \A use \in mentions : decls[use.type] = use.of
                         /\ \A name \in DOMAIN components : decls[alias[name]] = name
      BY DEF ClientTypesFaithful, TypesApart
    <2>1. untyped = {} /\ ClientTypes
      BY DEF ClientInv, ClientDone, DocumentDone
    <2>2. \A m, n \in DOMAIN components : OwnType(m) = OwnType(n) => m = n
      <3>1. \A m, n : OwnType(m) = OwnType(n) => Sanitized[m[1]] = Sanitized[n[1]] /\ m[2] = n[2]
        BY DEF OwnType, TypeText
      <3>. QED
        BY <3>1 DEF TypesApart
    <2>3. ASSUME NEW name \in DOMAIN components, OwnType(name) \in DOMAIN decls
          PROVE  decls[OwnType(name)] = name
      <3>1. decls[OwnType(name)] \in DOMAIN components
            /\ OwnType(name) = OwnType(decls[OwnType(name)])
        BY <2>1, <2>3 DEF ClientTypes
      <3>. QED
        BY <2>2, <3>1
    <2>4. \A use \in mentions : decls[use.type] = use.of
      BY <2>1, <2>3 DEF ClientTypes
    <2>5. \A name \in DOMAIN components : decls[alias[name]] = name
      BY <2>1, <2>3 DEF ClientTypes
    <2>. QED
      BY <2>4, <2>5
  <1>. QED
    BY <1>1, DocumentInvariance, PTL

-----------------------------------------------------------------------------
(* The routes.  Once they are checked and no error is found, they differ.  *)
(* While a call is under way it is one that the client makes, the routes   *)
(* before the next one do not serve it, and the answer is that of the      *)
(* first route that does.                                                  *)
AllDiffer == \A i, j \in DOMAIN table : i < j => table[i] # table[j]

Called == table[call.route]

RoutesInv ==
  /\ table \in Tables
  /\ duplicates \subseteq (DOMAIN table) \X (DOMAIN table)
  /\ next \in 0 .. Len(table) + 1
  /\ phase \in {"check", "client", "match", "answered"}
  /\ phase # "answered" => reply = NoRoute
  /\ phase # "check" /\ duplicates = {} => AllDiffer
  /\ phase \in {"match", "answered"} =>
       /\ next > 0
       /\ call.route \in DOMAIN table
       /\ call.args \in [1 .. Arity(Called.path) -> Values]
       /\ url = ClientUrl(Called.path, call.args)
       /\ \A j \in 1 .. next - 1 : ~Serves(j, Called.method, url)
  /\ phase = "answered" =>
       \/ next = Len(table) + 1
       \/ /\ next \in DOMAIN table /\ Serves(next, Called.method, url)
          /\ reply = [route |-> next, params |-> ParamsOf(table[next].path, url)]

LEMMA TableLength ==
  ASSUME table \in Tables
  PROVE  Len(table) \in Nat /\ DOMAIN table = 1 .. Len(table)
  BY TablesAssumption

LEMMA RoutesStarts ==
  ASSUME table \in Tables, RoutesStart
  PROVE  RoutesInv
  BY TableLength DEF RoutesInv, RoutesStart

LEMMA RoutesStutter ==
  ASSUME RoutesInv, UNCHANGED routesVars
  PROVE  RoutesInv'
  <1>1. UNCHANGED <<table, duplicates, call, url, next, reply, phase>>
    BY DEF routesVars
  <1>2. \A j : Serves(j, Called.method, url)' <=> Serves(j, Called.method, url)
    BY <1>1 DEF Serves, Called
  <1>3. Called' = Called
    BY <1>1 DEF Called
  <1>4. AllDiffer' <=> AllDiffer
    BY <1>1 DEF AllDiffer
  <1>. QED
    BY <1>1, <1>2, <1>3, <1>4 DEF RoutesInv

(* checkApp names the first of the routes that are alike.                  *)
LEMMA CheckFindsAlike ==
  ASSUME table \in Tables, CheckRoutes, duplicates' = {}
  PROVE  AllDiffer
  <1>. SUFFICES ASSUME NEW i \in DOMAIN table, NEW j \in DOMAIN table,
                       i < j, table[i] = table[j]
                PROVE  FALSE
    BY DEF AllDiffer
  <1>1. PICK count \in Nat : DOMAIN table = 1 .. count
    BY TableLength
  <1>. DEFINE alike == {h \in DOMAIN table : table[h] = table[j]}
  <1>2. alike \subseteq Nat /\ i \in alike
    BY <1>1
  <1>3. PICK h \in alike : \A k \in alike : h <= k
    BY <1>2, Least
  <1>4. h \in DOMAIN table /\ h < j /\ table[h] = table[j]
    <2>1. h <= i /\ h \in 1 .. count /\ i \in 1 .. count /\ j \in 1 .. count
      BY <1>1, <1>2, <1>3
    <2>. QED
      BY <1>3, <2>1
  <1>5. \A k \in 1 .. h - 1 : table[k] # table[h]
    <2>. SUFFICES ASSUME NEW k \in 1 .. h - 1, table[k] = table[h] PROVE FALSE
      OBVIOUS
    <2>1. k \in DOMAIN table /\ ~(h <= k)
      BY <1>1, <1>4
    <2>. QED
      BY <1>3, <1>4, <2>1
  <1>6. <<h, j>> \in duplicates'
    <2>1. <<h, j>>[1] = h /\ <<h, j>>[2] = j /\ <<h, j>> \in (DOMAIN table) \X (DOMAIN table)
      BY <1>4
    <2>. QED
      BY <1>4, <1>5, <2>1 DEF CheckRoutes
  <1>. QED
    BY <1>6

LEMMA RoutesSteps ==
  ASSUME RoutesInv, CheckRoutes \/ CallClient \/ PassOver \/ Match \/ NothingMatches
  PROVE  RoutesInv'
  <1>1. table' = table /\ table \in Tables
    BY DEF CheckRoutes, CallClient, PassOver, Match, NothingMatches, RoutesInv
  <1>2. PICK count \in Nat : count = Len(table) /\ DOMAIN table = 1 .. count
    BY <1>1, TableLength
  <1>3. \A j, m, s : Serves(j, m, s)' <=> Serves(j, m, s)
    BY <1>1 DEF Serves
  <1>4. AllDiffer' <=> AllDiffer
    BY <1>1 DEF AllDiffer
  <1>5. CASE CheckRoutes
    <2>1. duplicates' = {} => AllDiffer
      BY <1>1, <1>5, CheckFindsAlike
    <2>2. duplicates' \subseteq (DOMAIN table) \X (DOMAIN table)
      BY <1>5, Zenon DEF CheckRoutes
    <2>3. phase = "check" /\ phase' = "client" /\ UNCHANGED <<call, url, next, reply>>
      BY <1>5 DEF CheckRoutes
    <2>. QED
      BY <1>1, <1>4, <2>2, <2>3, <2>1 DEF RoutesInv
  <1>6. CASE CallClient
    <2>1. PICK r \in DOMAIN table : \E args \in [1 .. Arity(table[r].path) -> Values] :
            call' = [route |-> r, args |-> args] /\ url' = ClientUrl(table[r].path, args)
      BY <1>6 DEF CallClient
    <2>2. PICK args \in [1 .. Arity(table[r].path) -> Values] :
            call' = [route |-> r, args |-> args] /\ url' = ClientUrl(table[r].path, args)
      BY <2>1
    <2>3. call'.route = r /\ call'.args = args /\ Called' = table[r]
      BY <1>1, <2>2 DEF Called
    <2>4. /\ next' = 1 /\ phase = "client" /\ phase' = "match"
          /\ duplicates' = duplicates /\ reply' = reply
      BY <1>6 DEF CallClient
    <2>5. 1 \in 0 .. count + 1 /\ 1 .. 1 - 1 = {}
      OBVIOUS
    <2>. QED
      BY <1>1, <1>2, <1>4, <2>2, <2>3, <2>4, <2>5 DEF RoutesInv
  <1>7. CASE PassOver
    <2>1. /\ phase = "match" /\ next \in DOMAIN table /\ next' = next + 1
          /\ ~Serves(next, Called.method, url)
          /\ UNCHANGED <<duplicates, call, url, reply, phase>>
      BY <1>7 DEF PassOver, Called
    <2>2. Called' = Called
      BY <1>1, <2>1 DEF Called
    <2>3. next' \in 0 .. count + 1 /\ next' > 0 /\ \A j \in 1 .. next' - 1 : j = next \/ j \in 1 .. next - 1
      BY <1>2, <2>1
    <2>4. \A j \in 1 .. next' - 1 : ~Serves(j, Called.method, url)
      BY <2>1, <2>3 DEF RoutesInv
    <2>. QED
      BY <1>1, <1>2, <1>3, <1>4, <2>1, <2>2, <2>3, <2>4 DEF RoutesInv
  <1>8. CASE Match
    <2>1. /\ phase = "match" /\ next \in DOMAIN table /\ phase' = "answered"
          /\ Serves(next, Called.method, url)
          /\ reply' = [route |-> next, params |-> ParamsOf(table[next].path, url)]
          /\ UNCHANGED <<duplicates, call, url, next>>
      BY <1>8 DEF Match, Called
    <2>2. Called' = Called
      BY <1>1, <2>1 DEF Called
    <2>. QED
      BY <1>1, <1>2, <1>3, <1>4, <2>1, <2>2 DEF RoutesInv
  <1>9. CASE NothingMatches
    <2>1. /\ phase = "match" /\ next \notin DOMAIN table /\ phase' = "answered"
          /\ UNCHANGED <<duplicates, call, url, next, reply>>
      BY <1>9 DEF NothingMatches
    <2>2. Called' = Called
      BY <1>1, <2>1 DEF Called
    <2>3. next = count + 1
      BY <1>2, <2>1 DEF RoutesInv
    <2>. QED
      BY <1>1, <1>2, <1>3, <1>4, <2>1, <2>2, <2>3 DEF RoutesInv
  <1>. QED
    BY <1>5, <1>6, <1>7, <1>8, <1>9

(* A call through the client is answered by the first route that serves    *)
(* it, if any does (router.ts, matchRoute).                                *)
THEOREM RoutesInvariance == ZwenSpec => []RoutesInv
  <1>1. ZwenInit => RoutesInv
    <2>1. OneTable \subseteq Tables
      BY TablesAssumption DEF OneTable
    <2>. QED
      BY <2>1, RoutesStarts DEF ZwenInit
  <1>2. RoutesInv /\ [ZwenNext]_zwenVars => RoutesInv'
    <2>. SUFFICES ASSUME RoutesInv, [ZwenNext]_zwenVars PROVE RoutesInv'
      OBVIOUS
    <2>1. CASE Check \/ UseClient
      <3>1. CheckRoutes \/ CallClient \/ PassOver \/ Match \/ NothingMatches
        BY <2>1 DEF Check, UseClient
      <3>. QED
        BY <3>1, RoutesSteps
    <2>2. CASE Refuse \/ Choose \/ Generate \/ Write \/ GenerateWire \/ RunContainer
      <3>1. UNCHANGED routesVars
        BY <2>2 DEF Refuse, Choose, Generate, Write, GenerateWire, RunContainer
      <3>. QED
        BY <3>1, RoutesStutter
    <2>3. CASE UNCHANGED zwenVars
      BY <2>3, RoutesStutter DEF zwenVars
    <2>. QED
      BY <2>1, <2>2, <2>3 DEF ZwenNext
  <1>. QED
    BY <1>1, <1>2, PTL DEF ZwenSpec

(* Among the first numbers those of a set are counted up one by one.       *)
LEMMA Ranks ==
  ASSUME NEW n \in Nat, NEW S \in SUBSET (1 .. n)
  PROVE  /\ Cardinality(S) \in Nat
         /\ \A k \in S : Cardinality({j \in S : j <= k}) \in 1 .. Cardinality(S)
         /\ \A i \in 1 .. Cardinality(S) : \E k \in S : Cardinality({j \in S : j <= k}) = i
         /\ \A k, l \in S :
              Cardinality({j \in S : j <= k}) = Cardinality({j \in S : j <= l}) => k = l
  <1>1. S \subseteq Nat /\ IsFiniteSet(1 .. n)
    BY FS_Interval
  <1>2. IsFiniteSet(S)
    BY <1>1, FS_Subset
  <1>3. PICK rank :
          /\ rank = [i \in S |-> Cardinality({j \in S : j <= i})]
          /\ Cardinality(S) \in Nat
          /\ rank \in [S -> 1 .. Cardinality(S)]
          /\ \A k \in 1 .. Cardinality(S) : \E i \in S : rank[i] = k
          /\ \A i, k \in S : i < k => rank[i] # rank[k]
    BY <1>1, <1>2, Ranking, Zenon
  <1>4. \A k \in S : Cardinality({j \in S : j <= k}) = rank[k]
    BY <1>3, Zenon
  <1>5. \A k \in S : rank[k] \in 1 .. Cardinality(S)
    BY <1>3, Zenon
  <1>6. \A k, l \in S : rank[k] = rank[l] => k = l
    <2>1. \A k, l \in S : k < l \/ l < k \/ k = l
      BY <1>1
    <2>. QED
      BY <1>3, <2>1, Zenon
  <1>. QED
    BY <1>3, <1>4, <1>5, <1>6, Zenon

(* What is pushed one by one is the list.                                  *)
LEMMA PrefixSteps ==
  ASSUME NEW T, NEW w \in Seq(T)
  PROVE  /\ Len(w) \in Nat /\ DOMAIN w = 1 .. Len(w)
         /\ SubSeq(w, 1, 0) = <<>> /\ SubSeq(w, 1, Len(w)) = w
         /\ \A k \in 1 .. Len(w) :
              /\ SubSeq(w, 1, k - 1) \in Seq(T) /\ w[k] \in T
              /\ SubSeq(w, 1, k) = SubSeq(w, 1, k - 1) \o <<w[k]>>
              /\ SubSeq(w, 1, k) = Append(SubSeq(w, 1, k - 1), w[k])
  <1>1. Len(w) \in Nat /\ DOMAIN w = 1 .. Len(w) /\ \A k \in 1 .. Len(w) : w[k] \in T
    OBVIOUS
  <1>2. SubSeq(w, 1, 0) = <<>>
    BY SubSeqEmpty
  <1>3. SubSeq(w, 1, Len(w)) = w
    BY SubSeqFull
  <1>4. ASSUME NEW k \in 1 .. Len(w)
        PROVE  /\ SubSeq(w, 1, k - 1) \in Seq(T)
               /\ SubSeq(w, 1, k) = SubSeq(w, 1, k - 1) \o <<w[k]>>
               /\ SubSeq(w, 1, k) = Append(SubSeq(w, 1, k - 1), w[k])
    <2>1. k - 1 \in Int /\ \A i \in 1 .. k - 1 : w[i] \in T
      BY <1>1
    <2>2. SubSeq(w, 1, k - 1) \in Seq(T)
      BY <2>1, SubSeqProperties
    <2>3. 1 \in 1 .. Len(w) /\ k \in 1 .. Len(w)
      BY <1>1
    <2>4. SubSeq(w, 1, k) = SubSeq(w, 1, k - 1) \o <<w[k]>>
      BY <2>3, SubSeqRecursiveSecond
    <2>5. Append(SubSeq(w, 1, k - 1), w[k]) = SubSeq(w, 1, k - 1) \o <<w[k]>>
      BY <1>1, <2>2, AppendIsConcat
    <2>. QED
      BY <2>2, <2>4, <2>5
  <1>. QED
    BY <1>1, <1>2, <1>3, <1>4

(* A URL keeps every segment that is not dots.                             *)
LEMMA ResolveKeeps ==
  ASSUME NEW T, NEW w \in Seq(T), w # <<>>, \A k \in DOMAIN w : w[k] \notin Dots
  PROVE  Resolve(w) = w
  <1>. DEFINE n == Len(w)
              f == [k \in 0 .. n |-> SubSeq(w, 1, k)]
              Solves(g) == g = [k \in 0 .. n |->
                IF k = 0 THEN <<>>
                ELSE IF w[k] \in SingleDots THEN g[k - 1]
                ELSE IF w[k] \notin DoubleDots THEN Append(g[k - 1], w[k])
                ELSE IF g[k - 1] = <<>> THEN <<>> ELSE Front(g[k - 1])]
  <1>1. n \in Nat /\ DOMAIN w = 1 .. n /\ n > 0
    OBVIOUS
  <1>0. /\ \A k \in 1 .. n : w[k] \notin SingleDots /\ w[k] \notin DoubleDots
        /\ Last(w) \notin Dots
    BY <1>1 DEF Dots, Last
  <1>2. /\ f[0] = <<>> /\ f[n] = w
        /\ \A k \in 1 .. n : f[k] = Append(f[k - 1], w[k])
    <2>1. /\ 0 \in 0 .. n /\ n \in 0 .. n
          /\ \A k \in 1 .. n : k \in 0 .. n /\ k - 1 \in 0 .. n
      BY <1>1
    <2>2. /\ Len(w) \in Nat /\ DOMAIN w = 1 .. Len(w)
          /\ SubSeq(w, 1, 0) = <<>> /\ SubSeq(w, 1, Len(w)) = w
          /\ \A k \in 1 .. Len(w) :
               /\ SubSeq(w, 1, k - 1) \in Seq(T) /\ w[k] \in T
               /\ SubSeq(w, 1, k) = SubSeq(w, 1, k - 1) \o <<w[k]>>
               /\ SubSeq(w, 1, k) = Append(SubSeq(w, 1, k - 1), w[k])
      BY PrefixSteps, Zenon
    <2>3. \A k \in 0 .. n : f[k] = SubSeq(w, 1, k)
      OBVIOUS
    <2>. HIDE DEF f
    <2>. QED
      BY <2>1, <2>2, <2>3, Zenon
  <1>. HIDE DEF n
  <1>3. Solves(f)
    <2>1. \A k \in 0 .. n : k # 0 => k \in 1 .. n
      BY <1>1
    <2>. DEFINE Entry(k) == IF k = 0 THEN <<>>
                            ELSE IF w[k] \in SingleDots THEN f[k - 1]
                            ELSE IF w[k] \notin DoubleDots THEN Append(f[k - 1], w[k])
                            ELSE IF f[k - 1] = <<>> THEN <<>> ELSE Front(f[k - 1])
    <2>2. \A k \in 0 .. n : f[k] = Entry(k)
      BY <1>0, <1>1, <1>2, <2>1
    <2>3. f = [k \in 0 .. n |-> f[k]]
      BY Zenon
    <2>. HIDE DEF f, Entry
    <2>4. f = [k \in 0 .. n |-> Entry(k)]
      BY <2>2, <2>3
    <2>. QED
      BY <2>4 DEF Entry
  <1>4. PICK done : done = CHOOSE g : Solves(g)
    OBVIOUS
  <1>5. Resolve(w) = done[n] \o (IF Last(w) \in Dots THEN << <<>> >> ELSE <<>>)
    BY <1>4 DEF Resolve, n
  <1>6. Solves(done)
    <2>. HIDE DEF Solves
    <2>. QED
      BY <1>3, <1>4, Zenon
  <1>7. done[0] = <<>> /\ \A k \in 1 .. n : done[k] = Append(done[k - 1], w[k])
    <2>1. 0 \in 0 .. n /\ \A k \in 1 .. n : k \in 0 .. n /\ k # 0
      BY <1>1
    <2>. QED
      BY <1>0, <1>1, <1>6, <2>1
  <1>. HIDE DEF f, Solves
  <1>8. done[n] = f[n]
    <2>. DEFINE wrong == {k \in 0 .. n : done[k] # f[k]}
    <2>1. wrong = {}
      <3>. SUFFICES ASSUME wrong # {} PROVE FALSE
        OBVIOUS
      <3>1. wrong \subseteq Nat
        BY <1>1
      <3>2. PICK m \in wrong : \A k \in wrong : m <= k
        BY <3>1, Least
      <3>3. m \in 0 .. n /\ done[m] # f[m] /\ m # 0
        BY <1>2, <1>7
      <3>4. m \in 1 .. n /\ m - 1 \in 0 .. n /\ ~(m <= m - 1)
        BY <1>1, <3>3
      <3>5. done[m - 1] = f[m - 1]
        BY <3>2, <3>4
      <3>. QED
        BY <1>2, <1>7, <3>3, <3>4, <3>5
    <2>. QED
      BY <1>1, <2>1
  <1>. QED
    BY <1>0, <1>2, <1>5, <1>8, ConcatEmptySeq

(* What a plain call has at a place of its URL: the segment's text, or the *)
(* argument with its escapes.                                              *)
Written(path, args, k) ==
  IF path[k].param = "" THEN Literal(path[k])
  ELSE Carried(ArgumentAt(path, args, k).texts[1])

(* A plain value is one text, which takes the whole place of its parameter. *)
LEMMA OneOnly ==
  ASSUME NEW x, NEW y
  PROVE  /\ \A k \in 1 .. 1 : k = 1
         /\ (<<>> \o <<x>>) \o <<>> = <<x>>
         /\ [k \in 1 .. 1 |-> y] = <<y>>
         /\ DOMAIN <<x>> = 1 .. 1 /\ Len(<<x>>) = 1 /\ <<x>>[1] = x
  OBVIOUS

LEMMA PlainText ==
  ASSUME NEW v \in Values, Plain(v)
  PROVE  \E t : /\ v.texts = <<t>> /\ v.texts[1] = t /\ t # Undecodable
                /\ Encoded[t] # "" /\ Carried(t) = <<Encoded[t]>> /\ Carried(t) \notin Dots
                /\ Decoded[Encoded[t]] = t
                /\ ~v.cut
  <1>1. /\ ~v.cut /\ Len(v.texts) = 1 /\ v.texts[1] # ""
        /\ Carried(v.texts[1]) \notin Dots
        /\ Decoded[Encoded[v.texts[1]]] = v.texts[1]
    BY DEF Plain
  <1>2. PICK S : S = ToSet(v.texts)
    OBVIOUS
  <1>3. v.texts \in Seq(S) /\ v.texts # <<>> /\ Undecodable \notin S
    BY <1>2, TablesAssumption
  <1>4. PICK texts \in Seq(S) : texts = v.texts
    BY <1>3
  <1>5. Len(texts) = 1
    BY <1>1, <1>4
  <1>6. texts[1] \in S /\ texts = <<texts[1]>>
    BY <1>5
  <1>7. PICK t : t = texts[1]
    OBVIOUS
  <1>8. v.texts = <<t>> /\ v.texts[1] = t /\ t # Undecodable /\ t # ""
    BY <1>1, <1>3, <1>4, <1>6, <1>7, Zenon
  <1>9. Decoded[""] = ""
    BY EscapesAssumption, Zenon
  <1>10. Encoded[t] # ""
    BY <1>1, <1>8, <1>9, Zenon
  <1>11. Carried(t) = <<Encoded[t]>>
    BY <1>10, Zenon DEF Carried, Text
  <1>. QED
    BY <1>1, <1>8, <1>10, <1>11, Zenon

LEMMA Plugged ==
  ASSUME NEW seg, seg.pre = "", seg.post = "", NEW v \in Values, Plain(v)
  PROVE  Plug(seg, v) = <<Carried(v.texts[1])>>
  <1>1. PICK t : v.texts = <<t>> /\ Carried(t) = <<Encoded[t]>> /\ ~v.cut
    BY PlainText, Zenon
  <1>2. PICK e : e = Encoded[t]
    OBVIOUS
  <1>3. DOMAIN <<t>> = 1 .. 1 /\ Len(<<t>>) = 1 /\ <<t>>[1] = t
    BY OneOnly, Zenon
  <1>4. Encoded[""] = ""
    BY EscapesAssumption, Zenon
  <1>5. Carried("") = <<>> /\ Carried(t) = <<e>>
    BY <1>1, <1>2, <1>4, Zenon DEF Carried, Text
  <1>6. /\ \A k \in 1 .. 1 : k = 1
        /\ (<<>> \o <<e>>) \o <<>> = <<e>>
        /\ [k \in 1 .. 1 |-> <<e>>] = << <<e>> >>
    BY OneOnly, Zenon
  <1>7. \A k \in DOMAIN v.texts :
          (IF k = 1 THEN Carried(seg.pre) ELSE <<>>) \o Carried(v.texts[k])
            \o (IF k = Len(v.texts) /\ ~v.cut THEN Carried(seg.post) ELSE <<>>)
          = <<e>>
    BY <1>1, <1>3, <1>5, <1>6, Zenon
  <1>8. Plug(seg, v) = [k \in DOMAIN v.texts |-> <<e>>]
    BY <1>7, Zenon DEF Plug
  <1>. QED
    BY <1>1, <1>3, <1>5, <1>6, <1>8, Zenon

LEMMA ArgumentPlaces ==
  ASSUME NEW path, path \in Seq(ToSet(path))
  PROVE  /\ Documented(path) \in SUBSET (1 .. Len(path)) /\ Len(path) \in Nat
         /\ DOMAIN path = 1 .. Len(path)
         /\ Arity(path) \in Nat
         /\ \A k \in Documented(path) :
              Cardinality({j \in Documented(path) : j <= k}) \in 1 .. Arity(path)
         /\ \A i \in 1 .. Arity(path) : \E k \in Documented(path) :
              Cardinality({j \in Documented(path) : j <= k}) = i
         /\ \A k, l \in Documented(path) :
              Cardinality({j \in Documented(path) : j <= k})
                = Cardinality({j \in Documented(path) : j <= l}) => k = l
  <1>1. PICK n \in Nat : n = Len(path) /\ DOMAIN path = 1 .. n
    OBVIOUS
  <1>2. PICK S : S = Documented(path)
    OBVIOUS
  <1>3. S \in SUBSET (1 .. n)
    BY <1>1, <1>2 DEF Documented
  <1>4. /\ Cardinality(S) \in Nat
        /\ \A k \in S : Cardinality({j \in S : j <= k}) \in 1 .. Cardinality(S)
        /\ \A i \in 1 .. Cardinality(S) : \E k \in S : Cardinality({j \in S : j <= k}) = i
        /\ \A k, l \in S :
             Cardinality({j \in S : j <= k}) = Cardinality({j \in S : j <= l}) => k = l
    BY <1>3, Ranks, Zenon
  <1>5. Arity(path) = Cardinality(S)
    BY <1>2 DEF Arity
  <1>. QED
    BY <1>1, <1>2, <1>3, <1>4, <1>5, Zenon

LEMMA WrittenWhole ==
  ASSUME NEW path, path \in Seq(ToSet(path)), WholeSegments(path),
         NEW args \in [1 .. Arity(path) -> Values], \A i \in DOMAIN args : Plain(args[i]),
         NEW k \in DOMAIN path
  PROVE  /\ path[k].param # "" =>
              /\ ArgumentAt(path, args, k) \in Values
              /\ Plain(ArgumentAt(path, args, k))
              /\ ~ArgumentAt(path, args, k).cut
              /\ Plug(path[k], ArgumentAt(path, args, k)) = <<Written(path, args, k)>>
         /\ path[k].param = "" => InUrl(path[k]) = Written(path, args, k)
         /\ path[k].param # "" => Written(path, args, k) # <<>>
         /\ Written(path, args, k) \notin Dots
  <1>1. CASE path[k].param = ""
    BY <1>1, Zenon DEF WholeSegments, Written
  <1>2. CASE path[k].param # ""
    <2>1. k \in Documented(path)
      BY <1>2 DEF Documented
    <2>2. PICK i : i = Cardinality({j \in Documented(path) : j <= k})
      OBVIOUS
    <2>3. i \in 1 .. Arity(path)
      BY <2>1, <2>2, ArgumentPlaces
    <2>4. ArgumentAt(path, args, k) = args[i]
      BY <2>2 DEF ArgumentAt
    <2>5. args[i] \in Values /\ Plain(args[i])
      BY <2>3
    <2>6. path[k].pre = "" /\ path[k].post = ""
      BY <1>2, Zenon DEF WholeSegments
    <2>7. /\ Plug(path[k], args[i]) = <<Carried(args[i].texts[1])>> /\ ~args[i].cut
          /\ Carried(args[i].texts[1]) \notin Dots /\ Carried(args[i].texts[1]) # <<>>
      <3>1. Plug(path[k], args[i]) = <<Carried(args[i].texts[1])>>
        BY <2>5, <2>6, Plugged, Zenon
      <3>2. PICK t : /\ args[i].texts[1] = t /\ ~args[i].cut
                     /\ Carried(t) = <<Encoded[t]>> /\ Carried(t) \notin Dots
        BY <2>5, PlainText, Zenon
      <3>3. \A e : <<e>> # <<>>
        OBVIOUS
      <3>. QED
        BY <3>1, <3>2, <3>3, Zenon
    <2>8. Written(path, args, k) = Carried(args[i].texts[1])
      BY <1>2, <2>4, Zenon DEF Written
    <2>. QED
      BY <1>2, <2>4, <2>5, <2>7, <2>8, Zenon
  <1>. QED
    BY <1>1, <1>2

(* So the URL of the call has its segments as they are written.            *)
LEMMA ClientUrlKeeps ==
  ASSUME NEW path, path \in Seq(ToSet(path)), path # <<>>, WholeSegments(path),
         NEW args \in [1 .. Arity(path) -> Values], \A i \in DOMAIN args : Plain(args[i])
  PROVE  ClientUrl(path, args) = [k \in 1 .. Len(path) |-> Written(path, args, k)]
  <1>1. PICK n \in Nat : n = Len(path) /\ DOMAIN path = 1 .. n /\ n > 0
    OBVIOUS
  <1>2. PICK w : w = [k \in 1 .. n |-> Written(path, args, k)]
    OBVIOUS
  <1>3. PICK T : T = {Written(path, args, k) : k \in 1 .. n}
    OBVIOUS
  <1>4. w \in Seq(T) /\ Len(w) = n /\ w # <<>> /\ DOMAIN w = 1 .. n
    BY <1>1, <1>2, <1>3
  <1>5. ASSUME NEW k \in 1 .. n
        PROVE  /\ w[k] \notin Dots
               /\ path[k].param = "" => w[k] = InUrl(path[k]) /\ w[k] = Literal(path[k])
               /\ path[k].param # "" => w[k] # <<>>
               /\ path[k].param # "" =>
                    /\ Plug(path[k], ArgumentAt(path, args, k)) = <<w[k]>>
                    /\ ~ArgumentAt(path, args, k).cut
                    /\ ArgumentAt(path, args, k).cut = FALSE
    <2>1. w[k] = Written(path, args, k) /\ k \in DOMAIN path
      BY <1>1, <1>2
    <2>2. path[k].param = "" => w[k] = Literal(path[k])
      BY <2>1, Zenon DEF Written
    <2>3. /\ path[k].param # "" =>
             /\ ArgumentAt(path, args, k) \in Values
             /\ Plain(ArgumentAt(path, args, k))
             /\ ~ArgumentAt(path, args, k).cut
             /\ Plug(path[k], ArgumentAt(path, args, k)) = <<Written(path, args, k)>>
          /\ path[k].param = "" => InUrl(path[k]) = Written(path, args, k)
          /\ path[k].param # "" => Written(path, args, k) # <<>>
          /\ Written(path, args, k) \notin Dots
      BY <2>1, WrittenWhole, Zenon
    <2>4. \A v \in Values : ~v.cut => v.cut = FALSE
      BY TablesAssumption
    <2>. QED
      BY <2>1, <2>2, <2>3, <2>4, Zenon
  <1>. DEFINE Upto(k) == [segments |-> SubSeq(w, 1, k), cut |-> FALSE]
              f == [k \in 0 .. n |-> Upto(k)]
              Entry(g, k) ==
                IF k = 0 THEN [segments |-> <<>>, cut |-> FALSE]
                ELSE IF g[k - 1].cut THEN g[k - 1]
                ELSE IF path[k].param = ""
                THEN [segments |-> Append(g[k - 1].segments, InUrl(path[k])), cut |-> FALSE]
                ELSE LET value == ArgumentAt(path, args, k)
                     IN  [segments |-> g[k - 1].segments \o Plug(path[k], value),
                          cut |-> value.cut]
              Solves(g) == g = [k \in 0 .. n |-> Entry(g, k)]
  <1>6. PICK done : done = CHOOSE g : Solves(g)
    OBVIOUS
  <1>7. ClientUrl(path, args) = Pathname(done[n].segments)
    BY <1>1, <1>6 DEF ClientUrl
  <1>8. /\ SubSeq(w, 1, 0) = <<>> /\ SubSeq(w, 1, n) = w
        /\ \A k \in 1 .. n :
             /\ SubSeq(w, 1, k) = SubSeq(w, 1, k - 1) \o <<w[k]>>
             /\ SubSeq(w, 1, k) = Append(SubSeq(w, 1, k - 1), w[k])
    <2>1. /\ Len(w) \in Nat /\ DOMAIN w = 1 .. Len(w)
          /\ SubSeq(w, 1, 0) = <<>> /\ SubSeq(w, 1, Len(w)) = w
          /\ \A k \in 1 .. Len(w) :
               /\ SubSeq(w, 1, k - 1) \in Seq(T) /\ w[k] \in T
               /\ SubSeq(w, 1, k) = SubSeq(w, 1, k - 1) \o <<w[k]>>
               /\ SubSeq(w, 1, k) = Append(SubSeq(w, 1, k - 1), w[k])
      BY <1>4, PrefixSteps, Zenon
    <2>. QED
      BY <1>4, <2>1, Zenon
  <1>9. ASSUME NEW g, NEW k \in 1 .. n, g[k - 1] = Upto(k - 1)
        PROVE  Entry(g, k) = Upto(k)
    <2>1. k # 0
      BY <1>1
    <2>2. g[k - 1].segments = SubSeq(w, 1, k - 1) /\ g[k - 1].cut = FALSE
      BY <1>9
    <2>3. CASE path[k].param = ""
      <3>1. Entry(g, k) = [segments |-> Append(SubSeq(w, 1, k - 1), w[k]), cut |-> FALSE]
        BY <1>5, <2>1, <2>2, <2>3, Zenon
      <3>. QED
        BY <1>8, <3>1, Zenon
    <2>4. CASE path[k].param # ""
      <3>1. Entry(g, k) = [segments |-> SubSeq(w, 1, k - 1) \o <<w[k]>>, cut |-> FALSE]
        BY <1>5, <2>1, <2>2, <2>4, Zenon
      <3>. QED
        BY <1>8, <3>1, Zenon
    <2>. QED
      BY <2>3, <2>4
  <1>10. \A g : Entry(g, 0) = Upto(0)
    BY <1>8, Zenon
  <1>11. /\ 0 \in 0 .. n /\ n \in 0 .. n
         /\ \A k \in 1 .. n : k - 1 \in 0 .. n /\ k \in 0 .. n
         /\ \A k \in 0 .. n : k = 0 \/ k \in 1 .. n
    BY <1>1
  <1>. HIDE DEF Entry, Upto
  <1>12. Solves(f)
    <2>1. \A k \in 0 .. n : f[k] = Upto(k)
      BY Zenon
    <2>2. \A k \in 0 .. n : Entry(f, k) = Upto(k)
      <3>. HIDE DEF f
      <3>. QED
        BY <1>9, <1>10, <1>11, <2>1, Zenon
    <2>. QED
      BY <2>2, Zenon
  <1>13. Solves(done)
    <2>. HIDE DEF Solves
    <2>. QED
      BY <1>6, <1>12, Zenon
  <1>14. \A k \in 0 .. n : done[k] = Entry(done, k)
    BY <1>13, Zenon
  <1>. DEFINE wrong == {k \in 0 .. n : done[k] # Upto(k)}
  <1>15. wrong = {}
    <2>. SUFFICES ASSUME wrong # {} PROVE FALSE
      OBVIOUS
    <2>1. wrong \subseteq Nat
      BY <1>1
    <2>2. PICK m \in wrong : \A k \in wrong : m <= k
      BY <2>1, Least
    <2>3. m \in 0 .. n /\ done[m] # Upto(m) /\ m # 0
      BY <1>10, <1>11, <1>14
    <2>4. m \in 1 .. n /\ m - 1 \in 0 .. n /\ ~(m <= m - 1)
      BY <1>1, <2>3
    <2>5. done[m - 1] = Upto(m - 1)
      BY <2>2, <2>4
    <2>. QED
      BY <1>9, <1>14, <2>3, <2>4, <2>5, Zenon
  <1>16. done[n].segments = w
    <2>1. done[n] = Upto(n)
      BY <1>11, <1>15
    <2>2. Upto(n).segments = SubSeq(w, 1, n)
      BY DEF Upto
    <2>. QED
      BY <1>8, <2>1, <2>2
  <1>17. Resolve(w) = w
    <2>1. \A k \in DOMAIN w : w[k] \notin Dots
      BY <1>4, <1>5
    <2>. QED
      BY <1>4, <2>1, ResolveKeeps
  <1>18. w[1] = <<>> => n = 1
    <2>1. 1 \in 1 .. n
      BY <1>1
    <2>2. w[1] = <<>> => w[1] = Literal(path[1])
      BY <1>5, <2>1, Zenon
    <2>. QED
      BY <1>1, <2>2, Zenon DEF WholeSegments
  <1>19. ~(Len(w) > 1 /\ w[1] = <<>>)
    BY <1>4, <1>18
  <1>. QED
    BY <1>1, <1>2, <1>7, <1>16, <1>17, <1>19, Zenon DEF Pathname

(* The route of the call matches it, with the arguments as its parameters. *)
LEMMA OwnRoute ==
  ASSUME NEW path, path \in Seq(ToSet(path)), path # <<>>, WholeSegments(path),
         NEW args \in [1 .. Arity(path) -> Values], \A i \in DOMAIN args : Plain(args[i])
  PROVE  LET s == ClientUrl(path, args)
         IN  /\ Matches(path, s)
             /\ ParamsOf(path, s) = [i \in DOMAIN args |-> args[i].texts]
             /\ Decodes(path, s)
  <1>. DEFINE S == Documented(path)
              Rank(k) == Cardinality({j \in S : j <= k})
  <1>1. PICK s : s = ClientUrl(path, args)
    OBVIOUS
  <1>2. PICK n \in Nat : n = Len(path) /\ DOMAIN path = 1 .. n
    OBVIOUS
  <1>3. s = [k \in 1 .. n |-> Written(path, args, k)]
    BY <1>1, <1>2, ClientUrlKeeps
  <1>4. /\ S \in SUBSET (1 .. n)
        /\ \A k \in S : Rank(k) \in 1 .. Arity(path)
        /\ \A i \in 1 .. Arity(path) : \E k \in S : Rank(k) = i
        /\ Arity(path) = Cardinality(S)
    <2>1. /\ Documented(path) \in SUBSET (1 .. Len(path)) /\ Len(path) \in Nat
          /\ DOMAIN path = 1 .. Len(path)
          /\ Arity(path) \in Nat
          /\ \A k \in Documented(path) :
               Cardinality({j \in Documented(path) : j <= k}) \in 1 .. Arity(path)
          /\ \A i \in 1 .. Arity(path) : \E k \in Documented(path) :
               Cardinality({j \in Documented(path) : j <= k}) = i
          /\ \A k, l \in Documented(path) :
               Cardinality({j \in Documented(path) : j <= k})
                 = Cardinality({j \in Documented(path) : j <= l}) => k = l
      BY ArgumentPlaces, Zenon
    <2>2. Arity(path) = Cardinality(S)
      BY Zenon DEF Arity
    <2>. QED
      BY <1>2, <2>1, <2>2, Zenon
  <1>5. \A k \in 1 .. n : IsParam(path[k]) <=> path[k].param # ""
    BY <1>2, Zenon DEF WholeSegments, IsParam
  <1>6. ParamPlaces(path) = S
    <2>1. \A k : k \in ParamPlaces(path) <=> k \in S
      BY <1>2, <1>5, Zenon DEF ParamPlaces, Documented
    <2>. QED
      BY <2>1, Zenon
  <1>7. \A k \in S : s[k] = Carried(args[Rank(k)].texts[1]) /\ path[k].param # ""
    <2>1. \A k \in S : k \in 1 .. n /\ path[k].param # ""
      BY <1>4, Zenon DEF Documented
    <2>2. \A k \in 1 .. n : s[k] = Written(path, args, k)
      BY <1>3, Zenon
    <2>. QED
      BY <2>1, <2>2, Zenon DEF Written, ArgumentAt
  <1>8. \A k \in 1 .. n : k \notin S => s[k] = Literal(path[k])
    BY <1>2, <1>3, Zenon DEF Written, Documented
  <1>9. DOMAIN args = 1 .. Arity(path) /\ \A i \in 1 .. Arity(path) : args[i] \in Values /\ Plain(args[i])
    OBVIOUS
  <1>10. ASSUME NEW i \in 1 .. Arity(path)
         PROVE  \E t : /\ args[i].texts = <<t>> /\ t # Undecodable
                       /\ Decoded[Encoded[t]] = t
                       /\ Carried(args[i].texts[1]) = <<Encoded[t]>>
                       /\ Carried(args[i].texts[1]) # <<>>
    <2>1. PICK t : /\ args[i].texts = <<t>> /\ args[i].texts[1] = t /\ t # Undecodable
                   /\ Carried(t) = <<Encoded[t]>> /\ Decoded[Encoded[t]] = t
      BY <1>9, PlainText, Zenon
    <2>2. \A e : <<e>> # <<>>
      OBVIOUS
    <2>. QED
      BY <2>1, <2>2, Zenon
  <1>11. Matches(path, s)
    <2>1. Len(s) = n
      BY <1>3
    <2>2. ASSUME NEW k \in 1 .. n PROVE Fits(path[k], s[k])
      <3>1. CASE k \in S
        BY <1>4, <1>5, <1>7, <1>10, <3>1, Zenon DEF Fits
      <3>2. CASE k \notin S
        <4>1. path[k].param = ""
          BY <1>2, <3>2, Zenon DEF Documented
        <4>. QED
          BY <1>5, <1>8, <3>2, <4>1, Zenon DEF Fits
      <3>. QED
        BY <3>1, <3>2
    <2>. QED
      BY <1>2, <2>1, <2>2, Zenon DEF Matches
  <1>. DEFINE place(i) == CHOOSE k \in S : Rank(k) = i
              decode(texts) == [j \in DOMAIN texts |-> Decoded[texts[j]]]
  <1>12. ParamsOf(path, s) = [i \in 1 .. Arity(path) |-> decode(s[place(i)])]
    BY <1>4, <1>6, Zenon DEF ParamsOf
  <1>13. ASSUME NEW i \in 1 .. Arity(path)
         PROVE  decode(s[place(i)]) = args[i].texts
    <2>1. place(i) \in S /\ Rank(place(i)) = i
      BY <1>4, Zenon
    <2>2. PICK t : /\ args[i].texts = <<t>> /\ Decoded[Encoded[t]] = t
                   /\ Carried(args[i].texts[1]) = <<Encoded[t]>>
      BY <1>10
    <2>3. s[place(i)] = <<Encoded[t]>>
      BY <1>7, <2>1, <2>2, Zenon
    <2>4. PICK e : e = Encoded[t]
      OBVIOUS
    <2>5. [j \in DOMAIN <<e>> |-> Decoded[<<e>>[j]]] = <<Decoded[e]>>
      OBVIOUS
    <2>6. s[place(i)] = <<e>> /\ args[i].texts = <<Decoded[e]>>
      BY <2>2, <2>3, <2>4, Zenon
    <2>. QED
      BY <2>5, <2>6, Zenon
  <1>14. ParamsOf(path, s) = [i \in DOMAIN args |-> args[i].texts]
    <2>. HIDE DEF place, decode
    <2>. QED
      BY <1>9, <1>12, <1>13, Zenon
  <1>15. Decodes(path, s)
    <2>1. ASSUME NEW i \in 1 .. Arity(path)
          PROVE  Undecodable \notin ToSet(args[i].texts)
      <3>1. PICK t : args[i].texts = <<t>> /\ t # Undecodable
        BY <1>10
      <3>2. \A x \in ToSet(<<t>>) : x = t
        BY DEF ToSet
      <3>. QED
        BY <3>1, <3>2, Zenon
    <2>2. DOMAIN ParamsOf(path, s) = 1 .. Arity(path)
          /\ \A i \in 1 .. Arity(path) : ParamsOf(path, s)[i] = args[i].texts
      BY <1>9, <1>14, Zenon
    <2>. QED
      BY <2>1, <2>2, Zenon DEF Decodes
  <1>. QED
    BY <1>1, <1>11, <1>14, <1>15, Zenon

(* In an app that `zwen check` accepts, a plain call through the client    *)
(* reaches the handler that its method was generated from, with the values *)
(* that it was given, unless another path claims it first.                 *)
THEOREM ClientReaches == ZwenSpec => []ClientReachesRoute
  <1>1. RoutesInv => ClientReachesRoute
    <2>. SUFFICES ASSUME RoutesInv, phase = "answered", duplicates = {},
                         WholeSegments(Called.path),
                         \A i \in DOMAIN call.args : Plain(call.args[i]),
                         ~Shadowed
                  PROVE  reply = [route |-> call.route,
                                  params |-> [i \in DOMAIN call.args |-> call.args[i].texts]]
      BY DEF ClientReachesRoute, Called
    <2>1. PICK path : path = Called.path
      OBVIOUS
    <2>2. PICK args : args = call.args
      OBVIOUS
    <2>3. /\ table \in Tables /\ call.route \in DOMAIN table /\ AllDiffer
          /\ args \in [1 .. Arity(path) -> Values] /\ url = ClientUrl(path, args)
          /\ \A j \in 1 .. next - 1 : ~Serves(j, Called.method, url)
          /\ next > 0
          /\ \/ next = Len(table) + 1
             \/ /\ next \in DOMAIN table /\ Serves(next, Called.method, url)
                /\ reply = [route |-> next, params |-> ParamsOf(table[next].path, url)]
      BY <2>1, <2>2 DEF RoutesInv
    <2>4. PICK count \in Nat : count = Len(table) /\ DOMAIN table = 1 .. count
      BY <2>3, TableLength
    <2>5. path \in Seq(ToSet(path)) /\ path # <<>>
      BY <2>1, <2>3, TablesAssumption DEF Called
    <2>6. /\ Matches(path, url) /\ Decodes(path, url)
          /\ ParamsOf(path, url) = [i \in DOMAIN args |-> args[i].texts]
      BY <2>1, <2>2, <2>3, <2>5, OwnRoute
    <2>7. Serves(call.route, Called.method, url)
      BY <2>1, <2>6, Zenon DEF Serves, Called
    <2>8. ASSUME NEW j \in 1 .. call.route - 1, Serves(j, Called.method, url)
          PROVE  FALSE
      <3>1. PICK n \in Nat : n = Len(path) /\ DOMAIN path = 1 .. n
        BY <2>5
      <3>2. url = [k \in 1 .. n |-> Written(path, args, k)]
        BY <2>1, <2>2, <2>3, <2>5, <3>1, ClientUrlKeeps
      <3>3. j \in DOMAIN table /\ j < call.route
        BY <2>3, <2>4
      <3>4. table[j] # table[call.route]
        BY <2>3, <3>3 DEF AllDiffer
      <3>5. /\ table[j].method = table[call.route].method
            /\ Len(table[j].path) = Len(url)
            /\ \A k \in DOMAIN table[j].path : Fits(table[j].path[k], url[k])
        BY <2>8, Zenon DEF Serves, Matches, Called
      <3>6. Len(url) = n
        BY <3>2
      <3>7. DOMAIN table[j].path = 1 .. n
        BY <2>3, <3>3, <3>5, <3>6, TablesAssumption
      <3>8. \A k \in DOMAIN path :
              \/ IsParam(table[j].path[k]) /\ Written(path, args, k) # <<>>
              \/ Literal(table[j].path[k]) = Written(path, args, k)
        BY <3>1, <3>2, <3>5, <3>7, Zenon DEF Fits
      <3>. QED
        BY <2>1, <2>2, <3>1, <3>4, <3>5, <3>6, <3>8, Zenon DEF Shadowed, Written, Called
    <2>9. next = call.route
      <3>1. next \in 1 .. count + 1 /\ call.route \in 1 .. count
        BY <2>3, <2>4 DEF RoutesInv
      <3>2. call.route \notin 1 .. next - 1
        BY <2>3, <2>7
      <3>3. next <= call.route
        BY <3>1, <3>2
      <3>4. next \in DOMAIN table /\ Serves(next, Called.method, url)
        BY <2>3, <2>4, <3>1, <3>3
      <3>5. next \notin 1 .. call.route - 1
        BY <2>8, <3>4
      <3>. QED
        BY <3>1, <3>3, <3>5
    <2>. QED
      BY <2>1, <2>2, <2>3, <2>4, <2>6, <2>9 DEF Called
  <1>. QED
    BY <1>1, RoutesInvariance, PTL

-----------------------------------------------------------------------------
(* The tool's own variables.                                               *)
ToolTypeOK ==
  /\ invocation \in Invocations
  /\ running \in Commands \cup {"cli", "ended"}
  /\ exitCode \in {0, 1}

LEMMA ToolTypes == ZwenSpec => []ToolTypeOK
  <1>1. ZwenInit => ToolTypeOK
    BY DEF ZwenInit, ToolTypeOK
  <1>2. ToolTypeOK /\ [ZwenNext]_zwenVars => ToolTypeOK'
    <2>. SUFFICES ASSUME ToolTypeOK, [ZwenNext]_zwenVars PROVE ToolTypeOK'
      OBVIOUS
    <2>1. CASE UNCHANGED <<invocation, running, exitCode>>
      BY <2>1 DEF ToolTypeOK
    <2>2. CASE \E code \in {0, 1} : Exit(code) /\ UNCHANGED invocation
      BY <2>2 DEF ToolTypeOK, Exit
    <2>3. CASE Choose
      <3>1. \A i \in Invocations : i.command \in Commands
        BY DEF Invocations
      <3>. QED
        BY <2>3, <3>1 DEF Choose, ToolTypeOK
    <2>4. CASE Refuse \/ Write
      BY <2>2, <2>4 DEF Refuse, Write
    <2>5. CASE Check
      BY <2>2, <2>5 DEF Check
    <2>6. CASE GenerateWire
      BY <2>1, <2>2, <2>6 DEF GenerateWire
    <2>7. CASE Generate \/ RunContainer \/ UseClient
      BY <2>1, <2>7 DEF Generate, RunContainer, UseClient
    <2>8. CASE UNCHANGED zwenVars
      BY <2>1, <2>8 DEF zwenVars
    <2>. QED
      BY <2>3, <2>4, <2>5, <2>6, <2>7, <2>8 DEF ZwenNext
  <1>. QED
    BY <1>1, <1>2, PTL DEF ZwenSpec

(* The types that the runs check, in every run of the commands.            *)
THEOREM ZwenTypeCorrect == ZwenSpec => []ZwenTypeOK
  <1>1. WireInv /\ ToolTypeOK /\ RoutesInv /\ DocumentInv /\ ClientInv => ZwenTypeOK
    <2>. SUFFICES ASSUME WireInv, ToolTypeOK, RoutesInv, DocumentInv, ClientInv PROVE ZwenTypeOK
      OBVIOUS
    <2>1. WireTypeOK
      BY DEF WireInv
    <2>2. IsInjective([i \in DOMAIN registry |-> registry[i].schema])
      <3>1. RegistryOK(registry)
        BY DEF DocumentInv
      <3>2. DOMAIN registry = 1 .. Len(registry)
        BY <3>1 DEF RegistryOK, IsSequence
      <3>. QED
        BY <3>1, <3>2 DEF RegistryOK, IsInjective
    <2>3. DocumentDone => untyped \subseteq DOMAIN components /\ DOMAIN alias \subseteq DOMAIN components
      BY DEF DocumentDone, ClientInv
    <2>4. turn \in 1 .. Len(api.routes) + 1
      BY DEF DocumentInv
    <2>5. /\ duplicates \subseteq (DOMAIN table) \X (DOMAIN table)
          /\ next \in 0 .. Len(table) + 1
          /\ phase \in {"check", "client", "match", "answered"}
      BY Zenon DEF RoutesInv
    <2>. QED
      BY <2>1, <2>2, <2>3, <2>4, <2>5, Zenon DEF ToolTypeOK, ZwenTypeOK
  <1>2. ZwenSpec => []WireInv
    BY ZwenImplementsWire, WireInvariance, PTL
  <1>. QED
    BY <1>1, <1>2, ToolTypes, RoutesInvariance, DocumentInvariance, PTL

=============================================================================
