------------------------------ MODULE OpenApi -------------------------------
(***************************************************************************)
(* The names in an OpenAPI document and in its fetch client                *)
(* (packages/openapi): generateOpenApi gives the schemas of the routes     *)
(* names and refers to them (generate.ts, operations.ts, components.ts),   *)
(* and generateFetchClient declares a type for each of them (client.ts).   *)
(*                                                                         *)
(* A schema is its meta id, "" if it has none, and the schemas that it is  *)
(* made of: numbers below its own, so that none contains itself.  A name   *)
(* is a text and the number that uniqueIdent has put behind it, 1 if none. *)
(* The JSON of a schema is which schema it is; its references follow.      *)
(***************************************************************************)
EXTENDS Integers, SequencesExt

CONSTANTS
  Apps,       \* [schemas, routes]: schemas are [id, uses]; routes are [output, errors,
              \* body, params, outputHint, bodyHint], with 0 for a schema left out
  Sanitized,  \* sanitizeIdent on the texts of Apps
  NoDocument  \* no component has been built

(* Hints are made of a method and the words of a path (path-names.ts), so  *)
(* they are identifiers as they are.                                       *)
ASSUME AppsAssumption ==
  /\ Apps # {}
  /\ Sanitized["Problem"] = "Problem"
  /\ \A a \in Apps :
       /\ a.schemas \in Seq(ToSet(a.schemas)) /\ a.routes \in Seq(ToSet(a.routes))
       /\ \A s \in DOMAIN a.schemas : a.schemas[s].uses \subseteq 1 .. s - 1
       /\ \A r \in ToSet(a.routes) :
            /\ r.output \in {0} \cup DOMAIN a.schemas /\ r.body \in {0} \cup DOMAIN a.schemas
            /\ r.errors \in Seq(DOMAIN a.schemas) /\ r.params \subseteq DOMAIN a.schemas
            /\ Sanitized[r.outputHint] = r.outputHint /\ Sanitized[r.bodyHint] = r.bodyHint

VARIABLES
  api,         \* the app's routes with their schemas
  turn,        \* the route that generateOpenApi looks at
  registry,    \* ComponentSchemaRegistry: [schema, name], in registration order
  rawExtras,   \* its rawExtras: schemas by name
  components,  \* components.schemas of the document: schemas by name
  untyped,     \* the components that generateFetchClient has yet to come to
  alias,       \* schemaAlias: the type of a component
  pending,     \* the references that emitSchemaType has yet to follow
  decls,       \* the types declared: the component that each was declared for
  mentions     \* the references in the types: [type, of]

documentVars == <<registry, rawExtras, components>>
clientVars == <<untyped, alias, pending, decls, mentions>>
openApiVars == <<api, turn, documentVars, clientVars>>

-----------------------------------------------------------------------------
(* What f has, and what g has besides.                                     *)
Over(f, g) == [x \in DOMAIN f \cup DOMAIN g |-> IF x \in DOMAIN f THEN f[x] ELSE g[x]]

(* uniqueIdent.                                                            *)
Bug_AlwaysFree(text, used) == <<text, 1>>
UniqueIdent(text, used) ==
  <<text, Min({n \in 1 .. Cardinality(used) + 1 : <<text, n>> \notin used})>>

Schemas == DOMAIN api.schemas
Id(s) == api.schemas[s].id
Given(s) == <<Id(s), 1>>

IsRegistered(s, reg) == \E i \in DOMAIN reg : reg[i].schema = s
NameIn(s, reg) == reg[CHOOSE i \in DOMAIN reg : reg[i].schema = s].name

(* z.toJSONSchema refers to a schema that has an id, or is in the registry *)
(* that is converted, and writes any other in place: the schemas that the  *)
(* JSON of each schema refers to.                                          *)
Extracted(s, reg) == Id(s) # "" \/ IsRegistered(s, reg)
Direct(reg) ==
  LET refs[s \in Schemas] ==
        UNION {IF Extracted(t, reg) THEN {t} ELSE refs[t] : t \in api.schemas[s].uses}
  IN  refs
Within(reg) ==
  LET all[s \in Schemas] == Direct(reg)[s] \cup UNION {all[t] : t \in Direct(reg)[s]}
  IN  all

(* Without a registry these are the $defs, here of the parameters' object. *)
ParameterRefs(route) ==
  UNION {IF Id(t) # "" THEN {t} ELSE Direct(<<>>)[t] : t \in route.params}
ParameterDefs(route) ==
  ParameterRefs(route) \cup UNION {Within(<<>>)[t] : t \in ParameterRefs(route)}

-----------------------------------------------------------------------------
(* ComponentSchemaRegistry.ref.                                            *)
Ref(reg, wanted) ==
  IF wanted.schema = 0 \/ IsRegistered(wanted.schema, reg) THEN reg
  ELSE LET text == IF Id(wanted.schema) # "" THEN Id(wanted.schema) ELSE wanted.hint
           used == {reg[i].name : i \in DOMAIN reg}
       IN  Append(reg, [schema |-> wanted.schema,
                        name |-> UniqueIdent(Sanitized[text], used)])

(* What buildOperation registers: output, errors and body, in this order.  *)
Wanted(route) ==
  <<[schema |-> route.output, hint |-> route.outputHint]>>
  \o [i \in DOMAIN route.errors |-> [schema |-> route.errors[i], hint |-> "Problem"]]
  \o <<[schema |-> route.body, hint |-> route.bodyHint]>>

Register(route) ==
  LET reg[n \in 0 .. Len(Wanted(route))] ==
        IF n = 0 THEN registry ELSE Ref(reg[n - 1], Wanted(route)[n])
  IN  reg[Len(Wanted(route))]

(* ensureRaw, for every definition of the parameters.                      *)
SafeName(s) == <<Sanitized[Id(s)], 1>>
EnsureRaw(route) ==
  LET defs == ParameterDefs(route)
  IN  [n \in {SafeName(s) : s \in defs} \ DOMAIN rawExtras |->
         CHOOSE s \in defs : SafeName(s) = n]

OpenApiStart ==
  /\ turn = 1
  /\ registry = <<>>
  /\ rawExtras = <<>>
  /\ components = NoDocument
  /\ untyped = {}
  /\ alias = <<>>
  /\ pending = <<>>
  /\ decls = <<>>
  /\ mentions = {}

(* One turn of generateOpenApi's loop.                                     *)
AddRoute ==
  /\ turn \in DOMAIN api.routes
  /\ registry' = Register(api.routes[turn])
  /\ rawExtras' = Over(rawExtras, EnsureRaw(api.routes[turn]))
  /\ turn' = turn + 1
  /\ UNCHANGED <<api, components, clientVars>>

(* build(): the definitions that the registered schemas share, then they   *)
(* themselves, and what the parameters need besides.                       *)
Shared ==
  {t \in UNION {Within(registry)[registry[i].schema] : i \in DOMAIN registry} :
     ~IsRegistered(t, registry)}

Registered ==
  [n \in {registry[i].name : i \in DOMAIN registry} |->
     registry[CHOOSE i \in DOMAIN registry : registry[i].name = n].schema]
SharedDefs == [n \in {Given(t) : t \in Shared} |-> CHOOSE t \in Shared : Given(t) = n]

Build ==
  /\ turn = Len(api.routes) + 1
  /\ components = NoDocument
  /\ components' = Over(Over(Registered, SharedDefs), rawExtras)
  /\ untyped' = DOMAIN components'
  /\ UNCHANGED <<api, turn, registry, rawExtras, alias, pending, decls, mentions>>

(* The references of the document, [to, of]: a name and the schema that is *)
(* meant.  Registered schemas and those they share are converted together, *)
(* each set of parameters by itself.                                       *)
Named(s) == [to |-> IF IsRegistered(s, registry) THEN NameIn(s, registry) ELSE Given(s), of |-> s]
ByGiven(s) == [to |-> Given(s), of |-> s]

RefsIn(name) ==
  IF name \in {Named(s).to : s \in Shared \cup {registry[i].schema : i \in DOMAIN registry}}
  THEN {Named(t) : t \in Direct(registry)[components[name]]}
  ELSE {ByGiven(t) : t \in Direct(<<>>)[components[name]]}
OperationRefs(route) ==
  {Named(s) : s \in ({route.output, route.body} \cup ToSet(route.errors)) \ {0}}
  \cup {ByGiven(s) : s \in ParameterRefs(route)}
DocumentRefs ==
  (UNION {RefsIn(name) : name \in DOMAIN components})
  \cup UNION {OperationRefs(api.routes[i]) : i \in DOMAIN api.routes}

-----------------------------------------------------------------------------
(* generateFetchClient.  sanitizeIdent on a component's name, with the     *)
(* number that uniqueIdent may put behind it once more.                    *)
Bug_DropNumber(name) == <<Sanitized[name[1]], 1>>
TypeText(name) == <<Sanitized[name[1]], name[2]>>
TypeOf(name) == IF name \in DOMAIN alias THEN alias[name] ELSE <<TypeText(name), 1>>

(* Map.set                                                                 *)
Put(map, key, value) == Over([k \in {key} |-> value], map)

Follow(name) == SetToSeq({ref.to : ref \in RefsIn(name)} \cap DOMAIN components)

(* emitSchemaType: a type that is declared already is not declared again.  *)
Emit1(type, name, rest) ==
  IF type \in DOMAIN decls
  THEN pending' = rest /\ UNCHANGED decls
  ELSE /\ pending' = Follow(name) \o rest
       /\ decls' = Put(decls, type, name)

(* The next component, in an order left open.                              *)
NextComponent ==
  /\ pending = <<>>
  /\ \E name \in untyped :
       LET type == UniqueIdent(TypeText(name), {alias[n] : n \in DOMAIN components \ untyped})
       IN  /\ untyped' = untyped \ {name}
           /\ alias' = Put(alias, name, type)
           /\ Emit1(type, name, <<>>)
  /\ UNCHANGED <<api, turn, documentVars, mentions>>

(* A $ref in the type that is being written.                               *)
FollowRef ==
  /\ pending # <<>>
  /\ LET name == Head(pending)
     IN  /\ alias' = Put(alias, name, TypeOf(name))
         /\ mentions' = mentions \cup {[type |-> TypeOf(name), of |-> name]}
         /\ Emit1(TypeOf(name), name, Tail(pending))
  /\ UNCHANGED <<api, turn, documentVars, untyped>>

DocumentDone == components # NoDocument
ClientDone == DocumentDone /\ untyped = {} /\ pending = <<>>

-----------------------------------------------------------------------------
(* Ids and hints that cannot be mistaken for each other: an id is a safe   *)
(* identifier of one schema, and no schema that is referred to by its id   *)
(* from inside of others has the name that a schema without one may get.   *)
Hints ==
  {"Problem"} \cup UNION {{api.routes[i].outputHint, api.routes[i].bodyHint} : i \in DOMAIN api.routes}
NamesApart ==
  \A s \in Schemas : Id(s) # "" =>
    /\ Sanitized[Id(s)] = Id(s)
    /\ Id(s) \notin Hints
    /\ \A t \in Schemas : Id(t) = Id(s) => t = s

(* docs/rfcs/0003-route-openapi.md, 4.1: schemas are referenced with $ref, *)
(* nested ones flattened into the components.  A reference in the document *)
(* leads to the schema that it was written for, in whatever order routes   *)
(* name, nest and share schemas and whichever of them have ids.            *)
RefsResolve ==
  (DocumentDone /\ NamesApart) =>
    \A ref \in DocumentRefs :
      ref.to \in DOMAIN components /\ components[ref.to] = ref.of

(* A type of the client is declared for the component that its mentions    *)
(* mean, and each component ends with a type that is its own.  Only names  *)
(* that sanitizeIdent makes alike are excepted.                            *)
ClientTypesFaithful ==
  (/\ ClientDone
   /\ \A m, n \in DOMAIN components :
        Sanitized[m[1]] = Sanitized[n[1]] /\ m[2] = n[2] => m = n) =>
    /\ \A use \in mentions : decls[use.type] = use.of
    /\ \A name \in DOMAIN components : decls[alias[name]] = name
=============================================================================
