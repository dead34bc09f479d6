-------------------------------- MODULE Wire --------------------------------
(***************************************************************************)
(* `zwen gen:wire`: a manifest of providers is read, checked, sorted by    *)
(* its dependencies and written out as a container, a function that calls  *)
(* one factory after the other (packages/cli/lib/wire); and the run of     *)
(* that container by the application that imports it.                      *)
(*                                                                         *)
(* The sort is Kahn's: one step is one turn of its while loop.  When it    *)
(* leaves providers over, findCycle walks along dependencies until it      *)
(* comes back to where it has been.  Every dependency list is a sequence,  *)
(* as a name may stand in it twice.  The syntax of the manifest and of the *)
(* container is left out: what is kept of it are the names.                *)
(***************************************************************************)
EXTENDS Integers, SequencesExt

CONSTANTS
  Manifests,   \* the manifests that are given to the generator
  Reserved,    \* words that pass SAFE_IDENT and are no names in JavaScript
  NoExpose     \* a manifest without an `expose` list

IsSequence(s) == s \in Seq(ToSet(s))

ASSUME ManifestsAssumption ==
  /\ Manifests # {}
  /\ \A m \in Manifests :
       /\ IsSequence(m.providers) /\ IsSequence(m.seeds)
       /\ \A i \in DOMAIN m.providers : IsSequence(m.providers[i].deps)

VARIABLES
  manifest,    \* the manifest: providers, seeds, expose, imports, functionName, literal
  stage,       \* where the generator, and then the container, is
  indegree,    \* dependencies that a provider still waits for
  queue,       \* providers that wait for none
  ordered,     \* providers in the order of the container's statements
  trail,       \* the path of findCycle, at the end the cycle
  booted       \* statements of the container that have run

wireVars == <<manifest, stage, indegree, queue, ordered, trail, booted>>

-----------------------------------------------------------------------------
Providers == manifest.providers
Seeds == ToSet(manifest.seeds)
KeyOrder == [i \in DOMAIN Providers |-> Providers[i].key]
Keys == ToSet(KeyOrder)

(* byKey.get(key): the last provider of that key.                          *)
ByKey(key) ==
  Providers[CHOOSE i \in DOMAIN Providers :
              Providers[i].key = key /\ \A j \in DOMAIN Providers :
                                          Providers[j].key = key => j <= i]
Deps(key) == ByKey(key).deps

(* How often a provider names a dependency, and how many of those it       *)
(* names are no seeds.                                                     *)
Mentions(key, dep) == Cardinality({i \in DOMAIN Deps(key) : Deps(key)[i] = dep})
Bug_OncePerProvider(key) == Cardinality(ToSet(Deps(key)) \ Seeds)
Needs(key) == Cardinality({i \in DOMAIN Deps(key) : Deps(key)[i] \notin Seeds})

(* The manifest is written with literals, wire() calls and safe names.     *)
WellFormed == manifest.literal

(* What parseDefineWireObject and parseWireSource accept.                  *)
Accepted ==
  /\ WellFormed
  /\ Providers # <<>>
  /\ IsInjective(KeyOrder)
  /\ Seeds \cap Keys = {}
  /\ \A i \in DOMAIN Providers : Providers[i].factory \in manifest.imports

Bound == \A key \in Keys : ToSet(Deps(key)) \subseteq Keys \cup Seeds

Exposed ==
  IF manifest.expose = NoExpose THEN Keys ELSE ToSet(manifest.expose)

(* The entries of a list that lie in S, in the order of the list.          *)
Among(list, S) ==
  LET places == {i \in DOMAIN list : list[i] \in S}
      rank(i) == Cardinality({j \in places : j <= i})
  IN  [k \in 1 .. Cardinality(places) |-> list[CHOOSE i \in places : rank(i) = k]]

(* The keys that are left over, the one that the search goes to next, and  *)
(* the part of its path that comes back to a key.                          *)
Remaining == Among(KeyOrder, {key \in Keys : indegree[key] > 0})
Onward(key) == Head(Among(Deps(key), ToSet(Remaining) \ Seeds))

Bug_WholePath(key) == trail
PathFrom(key) == SubSeq(trail, CHOOSE i \in DOMAIN trail : trail[i] = key, Len(trail))

-----------------------------------------------------------------------------
WireStart ==
  /\ stage = "parse"
  /\ indegree = [key \in Keys |-> 0]
  /\ queue = <<>>
  /\ ordered = <<>>
  /\ trail = <<>>
  /\ booted = 0

WireInit == manifest \in Manifests /\ WireStart

(* parseWireSource.                                                        *)
Parse ==
  /\ stage = "parse"
  /\ stage' = IF Accepted THEN "count" ELSE "refused"
  /\ UNCHANGED <<manifest, indegree, queue, ordered, trail, booted>>

(* A dependency that is neither a provider nor a seed.                     *)
MissingBinding ==
  /\ stage = "count"
  /\ ~Bound
  /\ stage' = "refused"
  /\ UNCHANGED <<manifest, indegree, queue, ordered, trail, booted>>

(* The indegrees, and the providers that can go first.                     *)
Count ==
  /\ stage = "count"
  /\ Bound
  /\ indegree' = [key \in Keys |-> Needs(key)]
  /\ queue' = Among(KeyOrder, {key \in Keys : Needs(key) = 0})
  /\ stage' = "sort"
  /\ UNCHANGED <<manifest, ordered, trail, booted>>

(* queue.shift(): its dependents wait for one mention less each, and those *)
(* that wait for none any more are queued.                                 *)
Shift ==
  /\ stage = "sort"
  /\ queue # <<>>
  /\ LET first == Head(queue) IN
     /\ ordered' = Append(ordered, first)
     /\ indegree' = [key \in Keys |-> indegree[key] - Mentions(key, first)]
     /\ queue' = Tail(queue) \o
                   Among(KeyOrder, {key \in Keys : /\ Mentions(key, first) > 0
                                                   /\ indegree'[key] = 0})
  /\ UNCHANGED <<manifest, stage, trail, booted>>

(* Some are left over: the search for a cycle begins at the first of them. *)
Stuck ==
  /\ stage = "sort"
  /\ queue = <<>>
  /\ Len(ordered) # Len(Providers)
  /\ trail' = <<Head(Remaining)>>
  /\ stage' = "search"
  /\ UNCHANGED <<manifest, indegree, queue, ordered, booted>>

(* One call of dfs: on to the first dependency that is left over too, or,  *)
(* when that is on the path already, back with the cycle.  A provider that *)
(* is left over always has such a dependency, so the code after the loop   *)
(* of dfs is never reached (the source marks it so); without one, Head     *)
(* would end the run with an error.                                        *)
Search ==
  /\ stage = "search"
  /\ LET next == Onward(Last(trail)) IN
     IF next \in ToSet(trail)
     THEN /\ trail' = Append(PathFrom(next), next)
          /\ stage' = "circular"
     ELSE /\ trail' = Append(trail, next)
          /\ UNCHANGED stage
  /\ UNCHANGED <<manifest, indegree, queue, ordered, booted>>

(* emitWireContainer: all providers are in order; `expose` may name none   *)
(* but them and the seeds.  The container is written.                      *)
Emit ==
  /\ stage = "sort"
  /\ queue = <<>>
  /\ Len(ordered) = Len(Providers)
  /\ stage' = IF Exposed \subseteq Keys \cup Seeds THEN "written" ELSE "refused"
  /\ UNCHANGED <<manifest, indegree, queue, ordered, trail, booted>>

-----------------------------------------------------------------------------
(* The container is ECMAScript: `function f(seeds) { const key =           *)
(* factory(deps); ... }`.  Parameters are distinct, an import does not     *)
(* have the name of the function, and no name is a reserved word.          *)
Factories == {ByKey(key).factory : key \in Keys}
Bug_AsDeclared == KeyOrder
Emitted == ordered

Loads ==
  /\ IsInjective(manifest.seeds)
  /\ manifest.functionName \notin Factories
  /\ Reserved \cap (Keys \cup Seeds \cup {manifest.functionName}) = {}

(* A statement finds its factory when no parameter or constant hides the   *)
(* import, and its arguments when they are parameters or already assigned. *)
StatementRuns(i) ==
  /\ ByKey(Emitted[i]).factory \notin Keys \cup Seeds
  /\ \A dep \in ToSet(Deps(Emitted[i])) :
       dep \in Seeds \/ \E j \in 1 .. i - 1 : Emitted[j] = dep

Load ==
  /\ stage = "written"
  /\ stage' = IF Loads THEN "booting" ELSE "broken"
  /\ UNCHANGED <<manifest, indegree, queue, ordered, trail, booted>>

Statement ==
  /\ stage = "booting"
  /\ IF StatementRuns(booted + 1)
     THEN /\ booted' = booted + 1
          /\ stage' = IF booted' = Len(ordered) THEN "up" ELSE "booting"
     ELSE /\ stage' = "broken"
          /\ UNCHANGED booted
  /\ UNCHANGED <<manifest, indegree, queue, ordered, trail>>

WireNext ==
  \/ Parse \/ MissingBinding \/ Count \/ Shift \/ Stuck \/ Search \/ Emit
  \/ Load \/ Statement

WireSpec == WireInit /\ [][WireNext]_wireVars

-----------------------------------------------------------------------------
(* Types: no provider waits for less than nothing, and those in the queue  *)
(* and in the order wait for nothing (topo.ts).                            *)
WireTypeOK ==
  /\ stage \in {"parse", "count", "sort", "search", "refused", "circular",
                "written", "booting", "up", "broken"}
  /\ indegree \in [Keys -> Nat]
  /\ queue \in Seq(Keys)
  /\ ordered \in Seq(Keys)
  /\ trail \in Seq(Keys)
  /\ booted \in 0 .. Len(ordered)
  /\ stage \notin {"parse", "count"} =>
       \A key \in ToSet(queue) \cup ToSet(ordered) : indegree[key] = 0

(* Names that no check of the generator refuses and that spoil the         *)
(* container: a factory with the name of a provider or a seed, a seed that *)
(* is listed twice, a function with the name of a factory, a reserved word.*)
NameClash ==
  \/ ~Loads
  \/ \E key \in Keys : ByKey(key).factory \in Keys \cup Seeds

(* docs/rfcs/0005 (3.2): circular dependencies are errors of the           *)
(* generator, not exceptions at boot.  A container that was written comes  *)
(* up: every provider is made, once, after all that it depends on, whatever*)
(* order the manifest lists them in.  Only clashes of names can break it.  *)
ContainerBoots ==
  /\ stage = "broken" => NameClash
  /\ stage = "up" => IsInjective(ordered) /\ ToSet(ordered) = Keys

(* The other half: a manifest is refused as circular only when it is, and  *)
(* the path in the message is a cycle, each provider of which depends on   *)
(* the one after it.                                                       *)
CycleReal ==
  stage = "circular" =>
    /\ Len(trail) > 1
    /\ Last(trail) = Head(trail)
    /\ IsInjective(Tail(trail))
    /\ \A i \in 1 .. Len(trail) - 1 : trail[i + 1] \in ToSet(Deps(trail[i])) \ Seeds
=============================================================================
