----------------------------- MODULE MCDispatch -----------------------------
(* Dispatch on small instances: every stack of two middlewares, and some   *)
(* of three that have the recommended order of the framework's own; and    *)
(* operations that declare their security or tag a middleware of the       *)
(* app's own, with the framework's middlewares, without them, and with     *)
(* them after a user middleware.                                           *)
EXTENDS Dispatch

MCStacks ==
  {<<>>} \cup [1 .. 2 -> Kinds]
  \cup {<<"user", "accessLog", "user">>, <<"accessLog", "user", "otelHttp">>,
        <<"otelHttp", "user", "user">>, <<"user", "bearerAuth", "authorize">>,
        <<"bearerAuthOptional", "user", "authorize">>,
        <<"headers", "cors", "bearerAuth">>, <<"user", "user", "headers">>}

Declaring ==
  [stack : {<<>>, <<"user">>, <<"bearerAuth">>, <<"bearerAuthOptional", "authorize">>},
   security : [meta : {"public", "declared"}, tagged : {FALSE}]]
Tagging ==
  [stack : {<<"user">>, <<"user", "authorize">>, <<"user", "bearerAuthIgnore">>},
   security : [meta : {"inferred", "declared"}, tagged : {TRUE}]]

MCOperations ==
  [stack : MCStacks, security : {[meta |-> "inferred", tagged |-> FALSE]}]
    \cup Declaring \cup Tagging

MCErrors == {Other, NotFound, [app |-> TRUE, status |-> 503]}
=============================================================================
