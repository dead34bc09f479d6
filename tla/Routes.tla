------------------------------- MODULE Routes -------------------------------
(***************************************************************************)
(* A route's path as three parts of ZwenTS read it: the router            *)
(* (packages/core/lib/route.ts), the OpenAPI document and the generated    *)
(* fetch client (packages/openapi), and `zwen check` (packages/cli).  The  *)
(* client puts the values of the parameters into the path as they are, the *)
(* URL is parsed, which takes dots away and escapes what a URL cannot hold *)
(* as it is, and the router, which escapes nothing, tries its routes one   *)
(* by one.                                                                 *)
(*                                                                         *)
(* A path is a sequence of segments, and a segment has a text, a parameter *)
(* (with its colon) and a text, any of them "".  In a URL a segment is the *)
(* sequence of its non-empty texts.  One segment has one parameter at      *)
(* most, and parameters are told apart by their place.  Escapes are read   *)
(* in each text by itself, and no text has spaces at its ends.             *)
(***************************************************************************)
EXTENDS Integers, SequencesExt

CONSTANTS
  Tables,       \* route tables, in registration order: sequences of [method, path]
  Values,       \* what clients pass for a parameter: [texts, cut], a value that is
                \* split at its slashes and backslashes, with cut when a "?" or "#"
                \* follows
  Encoded,      \* what the URL parser makes of a text of a path or of a value
  Decoded,      \* decodeURIComponent on the texts of URLs
  Undecodable,  \* what it is for a text that makes it throw
  SingleDots,   \* the segments that a URL reads as ".": <<".">>, <<"%2e">>
  DoubleDots,   \* and those that it reads as "..": <<"..">>, <<".", ".">>
  NoRoute       \* matchRoute's null

(* Tables, paths and values are lists, and what is split has a part at     *)
(* least; Undecodable is no text.                                          *)
ASSUME TablesAssumption ==
  /\ Tables # {}
  /\ \A t \in Tables :
       /\ t \in Seq(ToSet(t))
       /\ \A i \in DOMAIN t : t[i].path \in Seq(ToSet(t[i].path)) \ {<<>>}
  /\ \A v \in Values :
       /\ v.texts \in Seq(ToSet(v.texts)) \ {<<>>} /\ Undecodable \notin ToSet(v.texts)
       /\ v.cut \in BOOLEAN

(* Nothing is carried as nothing.                                          *)
ASSUME EscapesAssumption == Encoded[""] = "" /\ Decoded[""] = ""

VARIABLES
  table,        \* app.routes
  duplicates,   \* the errors of checkApp: pairs of indexes
  call,         \* the route whose client method is called, and its arguments
  url,          \* the segments of the URL's path
  next,         \* the route that matchRoute looks at
  reply,        \* what it returns: the route's index and the parameters
  phase         \* "check", "client", "match" or "answered"

routesVars == <<table, duplicates, call, url, next, reply, phase>>

-----------------------------------------------------------------------------
Text(text) == IF text = "" THEN <<>> ELSE <<text>>

(* compilePath: a segment that begins with a colon is a parameter, the     *)
(* text after it is part of its name; any other stands for itself.         *)
IsParam(segment) == segment.param # "" /\ segment.pre = ""
Literal(segment) == Text(segment.pre) \o Text(segment.param) \o Text(segment.post)

Fits(segment, s) == IF IsParam(segment) THEN s # <<>> ELSE s = Literal(segment)

(* The regular expression is anchored at both ends.                        *)
Bug_NoEndAnchor(path, s) ==
  Len(path) <= Len(s) /\ \A k \in DOMAIN path : Fits(path[k], s[k])
Matches(path, s) ==
  Len(path) = Len(s) /\ \A k \in DOMAIN path : Fits(path[k], s[k])

(* decodeURIComponent on each parameter, from the first on.                *)
ParamPlaces(path) == {k \in DOMAIN path : IsParam(path[k])}
ParamsOf(path, s) ==
  LET places == ParamPlaces(path)
      place(i) == CHOOSE k \in places : Cardinality({j \in places : j <= k}) = i
      decode(texts) == [j \in DOMAIN texts |-> Decoded[texts[j]]]
  IN  [i \in 1 .. Cardinality(places) |-> decode(s[place(i)])]
Decodes(path, s) ==
  \A i \in DOMAIN ParamsOf(path, s) : Undecodable \notin ToSet(ParamsOf(path, s)[i])

-----------------------------------------------------------------------------
(* openApiPath finds a parameter anywhere in a segment, and the client     *)
(* writes the value in its place.                                          *)
Documented(path) == {k \in DOMAIN path : path[k].param # ""}
Arity(path) == Cardinality(Documented(path))
ArgumentAt(path, args, k) == args[Cardinality({j \in Documented(path) : j <= k})]

Carried(text) == Text(Encoded[text])

Plug(segment, value) ==
  [k \in DOMAIN value.texts |->
     (IF k = 1 THEN Carried(segment.pre) ELSE <<>>)
     \o Carried(value.texts[k])
     \o (IF k = Len(value.texts) /\ ~value.cut THEN Carried(segment.post) ELSE <<>>)]

(* A segment without a parameter, as a URL carries it.                     *)
InUrl(segment) == Carried(segment.pre) \o Carried(segment.post)

(* The URL parser drops "." and takes the segment before ".." away; either *)
(* leaves an empty segment at the end.                                     *)
Dots == SingleDots \cup DoubleDots
Resolve(segments) ==
  LET done[k \in 0 .. Len(segments)] ==
        IF k = 0 THEN <<>>
        ELSE IF segments[k] \in SingleDots THEN done[k - 1]
        ELSE IF segments[k] \notin DoubleDots THEN Append(done[k - 1], segments[k])
        ELSE IF done[k - 1] = <<>> THEN <<>> ELSE Front(done[k - 1])
  IN  done[Len(segments)] \o (IF Last(segments) \in Dots THEN << <<>> >> ELSE <<>>)

(* What begins with two slashes names another host, or none: no path of    *)
(* this one.                                                               *)
Pathname(segments) ==
  IF Len(segments) > 1 /\ segments[1] = <<>> THEN <<>> ELSE Resolve(segments)

(* What follows a "?" or "#" is no path.                                   *)
ClientUrl(path, args) ==
  LET done[k \in 0 .. Len(path)] ==
        IF k = 0 THEN [segments |-> <<>>, cut |-> FALSE]
        ELSE IF done[k - 1].cut THEN done[k - 1]
        ELSE IF path[k].param = ""
        THEN [segments |-> Append(done[k - 1].segments, InUrl(path[k])), cut |-> FALSE]
        ELSE LET value == ArgumentAt(path, args, k)
             IN  [segments |-> done[k - 1].segments \o Plug(path[k], value), cut |-> value.cut]
  IN  Pathname(done[Len(path)].segments)

-----------------------------------------------------------------------------
RoutesStart ==
  /\ duplicates = {}
  /\ call = [route |-> 0, args |-> <<>>]
  /\ url = <<>>
  /\ next = 0
  /\ reply = NoRoute
  /\ phase = "check"

(* checkApp: a method and path that an earlier route has.                  *)
CheckRoutes ==
  /\ phase = "check"
  /\ duplicates' = {p \in (DOMAIN table) \X (DOMAIN table) :
                      p[1] < p[2] /\ table[p[1]] = table[p[2]]
                      /\ \A h \in 1 .. p[1] - 1 : table[h] # table[p[1]]}
  /\ phase' = "client"
  /\ UNCHANGED <<table, call, url, next, reply>>

(* A method of the generated client is called.                             *)
CallClient ==
  /\ phase = "client"
  /\ \E r \in DOMAIN table : \E args \in [1 .. Arity(table[r].path) -> Values] :
       /\ call' = [route |-> r, args |-> args]
       /\ url' = ClientUrl(table[r].path, args)
  /\ next' = 1
  /\ phase' = "match"
  /\ UNCHANGED <<table, duplicates, reply>>

(* One turn of matchRoute's loop: a route of another method, one that does *)
(* not match and one whose parameters do not decode are passed over.       *)
Serves(r, method, s) ==
  /\ table[r].method = method
  /\ Matches(table[r].path, s)
  /\ Decodes(table[r].path, s)

PassOver ==
  /\ phase = "match"
  /\ next \in DOMAIN table
  /\ ~Serves(next, table[call.route].method, url)
  /\ next' = next + 1
  /\ UNCHANGED <<table, duplicates, call, url, reply, phase>>

Match ==
  /\ phase = "match"
  /\ next \in DOMAIN table
  /\ Serves(next, table[call.route].method, url)
  /\ reply' = [route |-> next, params |-> ParamsOf(table[next].path, url)]
  /\ phase' = "answered"
  /\ UNCHANGED <<table, duplicates, call, url, next>>

NothingMatches ==
  /\ phase = "match"
  /\ next \notin DOMAIN table
  /\ phase' = "answered"
  /\ UNCHANGED <<table, duplicates, call, url, next, reply>>

-----------------------------------------------------------------------------
(* Where the parts are meant to agree: a parameter is a whole segment, any *)
(* other segment is one that a URL keeps as it is (no dots, nothing that   *)
(* it escapes, not empty before others), and a value is one text that is   *)
(* not dots and that decodes, after the URL has escaped it, to itself.     *)
WholeSegments(path) ==
  /\ \A k \in DOMAIN path :
       IF path[k].param # "" THEN path[k].pre = "" /\ path[k].post = ""
       ELSE InUrl(path[k]) = Literal(path[k]) /\ Literal(path[k]) \notin Dots
  /\ Literal(path[1]) = <<>> => Len(path) = 1
Plain(value) ==
  /\ ~value.cut
  /\ Len(value.texts) = 1
  /\ value.texts[1] # ""
  /\ Carried(value.texts[1]) \notin Dots
  /\ Decoded[Encoded[value.texts[1]]] = value.texts[1]

(* Another, earlier route of the method that claims the call by what its   *)
(* path says: at each place a parameter, or the text that the URL of the   *)
(* call has there.                                                         *)
Shadowed ==
  LET path == table[call.route].path
      textAt(k) == IF path[k].param = "" THEN Literal(path[k])
                   ELSE Carried(ArgumentAt(path, call.args, k).texts[1])
  IN  \E j \in 1 .. call.route - 1 :
        /\ table[j] # table[call.route]
        /\ table[j].method = table[call.route].method
        /\ Len(table[j].path) = Len(path)
        /\ \A k \in DOMAIN path :
             \/ IsParam(table[j].path[k]) /\ textAt(k) # <<>>
             \/ Literal(table[j].path[k]) = textAt(k)

(* In an app that `zwen check` accepts, a method of the generated client   *)
(* reaches the handler it was generated from, with the values it was given *)
(* (docs/semver-contract.md: callable for documented paths): router,       *)
(* document and client read one path alike, and no other route answers.    *)
(* Excepted are paths with a parameter inside a segment or with a segment  *)
(* that a URL does not keep as it is, values that are empty, dots, more    *)
(* than one segment or not what their URL decodes to, and calls that the   *)
(* path of an earlier route claims as well.                                *)
ClientReachesRoute ==
  (/\ phase = "answered"
   /\ duplicates = {}
   /\ WholeSegments(table[call.route].path)
   /\ \A i \in DOMAIN call.args : Plain(call.args[i])
   /\ ~Shadowed)
  => reply = [route |-> call.route,
              params |-> [i \in DOMAIN call.args |-> call.args[i].texts]]
=============================================================================
