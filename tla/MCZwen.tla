------------------------------- MODULE MCZwen -------------------------------
(* Zwen on small instances.  Three providers with every list of up to two  *)
(* dependencies on each other and on a seed; two providers with every      *)
(* mistake in the names; tables of up to three routes; and apps of two     *)
(* routes that share four schemas, nested and with ids or without.         *)
EXTENDS Zwen

Provider(key, factory, deps) == [key |-> key, factory |-> factory, deps |-> deps]

Graphs3 ==
  {[providers |-> <<Provider("a", "f", d[1]), Provider("b", "g", d[2]), Provider("c", "f", d[3])>>,
    seeds |-> <<"s">>, expose |-> NoExpose, imports |-> {"f", "g"},
    functionName |-> "build", literal |-> TRUE] :
     d \in [1 .. 3 -> SeqOf({"a", "b", "c", "s"}, 2)]}

Names2 ==
  {[providers |-> <<Provider("a", f, d[1]), Provider(k, "g", d[2])>>,
    seeds |-> s, expose |-> e, imports |-> {"a", "f", "s", "new"} \cup i,
    functionName |-> n, literal |-> TRUE] :
     f \in {"f", "a", "s"}, k \in {"b", "a", "new"},
     d \in [1 .. 2 -> {<<>>, <<"b">>, <<"x">>}],
     s \in {<<>>, <<"s">>, <<"s", "s">>, <<"a">>},
     e \in {NoExpose, <<"s">>}, i \in {{}, {"g"}}, n \in {"build", "f"}}

MCManifests ==
  Graphs3 \cup Names2
  \cup {[m EXCEPT !.providers = <<>>] : m \in Names2}
  \cup {[m EXCEPT !.literal = FALSE] : m \in Names2}

Lit(text) == [pre |-> text, param |-> "", post |-> ""]
Par(pre, name, post) == [pre |-> pre, param |-> name, post |-> post]

MCPaths ==
  {<<Lit("")>>, <<Lit("users")>>, <<Par("", ":id", "")>>,
   <<Lit("users"), Par("", ":id", "")>>, <<Lit("users"), Lit("me")>>,
   <<Par("", ":kind", ""), Par("", ":id", "")>>,
   <<Lit("users"), Par("v", ":id", "")>>, <<Lit("users"), Par("", ":name", ".ext")>>,
   <<Lit("users"), Par("", ":id", ""), Lit("posts")>>, <<Lit("users"), Lit("..")>>,
   <<Lit("users"), Lit("."), Lit("me")>>, <<Lit("a b")>>, <<Lit(""), Lit("users")>>}

MCTables ==
  LET routes == [method : {"GET"}, path : MCPaths] \cup
                [method : {"POST"}, path : {<<Lit("users")>>, <<Lit("users"), Par("", ":id", "")>>}]
  IN  [1 .. 1 -> routes] \cup [1 .. 2 -> routes]
      \cup {t \in [1 .. 3 -> routes] : t[3].path = <<Lit("users"), Par("", ":id", "")>>}

MCValues ==
  {[texts |-> t, cut |-> FALSE] :
     t \in {<<"x">>, <<"me">>, <<"">>, <<".">>, <<"..">>, <<"a b">>, <<"%2e">>,
            <<"", "me">>, <<"x", "posts">>, <<"%41">>, <<"%">>}}
  \cup {[texts |-> <<"x">>, cut |-> TRUE]}

Unescaped == {"x", "me", "", ".", "..", "posts", "users", ".ext", "v"}
MCEncoded ==
  [t \in Unescaped \cup {"%41", "%2e", "%"} |-> t] @@ ("a b" :> "a%20b")
MCDecoded ==
  [t \in Unescaped |-> t]
    @@ ("%41" :> "A") @@ ("%2e" :> ".") @@ ("a%20b" :> "a b") @@ ("%" :> Undecodable)

MCSingleDots == {<<".">>, <<"%2e">>}
MCDoubleDots == {<<"..">>, <<".", ".">>}

Route(hints, output, errors, body, params) ==
  [outputHint |-> hints[1], bodyHint |-> hints[2], output |-> output, errors |-> errors,
   body |-> body, params |-> params]

MCSchemas ==
  {<<[id |-> i[1], uses |-> {}], [id |-> i[2], uses |-> {1}],
     [id |-> i[3], uses |-> u[1]], [id |-> i[4], uses |-> u[2]]>> :
     i \in {"", "Note", "a.b"} \X {"", "Note", "Problem"} \X {"", "User"} \X {"", "ab"},
     u \in {<<{1}, {2, 3}>>, <<{1, 2}, {1, 3}>>}}

MCApps ==
  [schemas : MCSchemas,
   routes : {<<Route(<<"GetA", "A">>, o, e, 0, p), Route(<<"GetB", "B">>, 3, f, b, {})>> :
               o \in {1, 4}, e \in {<<>>, <<2, 1>>}, f \in {<<>>, <<3, 2>>},
               b \in {0, 4}, p \in {{}, {2, 3}}}]

MCSanitized ==
  [t \in {"Note", "Problem", "User", "ab", "GetA", "A", "GetB", "B"} |-> t] @@ ("a.b" :> "ab")
=============================================================================
