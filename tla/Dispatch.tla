------------------------------ MODULE Dispatch ------------------------------
(***************************************************************************)
(* One request on its way through an app: dispatch()                       *)
(* (packages/core/lib/app.ts) runs the middlewares that composeMiddleware  *)
(* (middleware.ts) has put around the route's handler, and maps what they  *)
(* throw to a response.                                                    *)
(*                                                                         *)
(* The layers of the pipeline are numbered from the outside; the one after *)
(* the last middleware is dispatch()'s own, which calls the handler.  A    *)
(* layer called runs at once as far as its first await ("called"), and     *)
(* nothing else runs before.  Middlewares of the framework do what their   *)
(* code does; a "user" middleware does anything with next(): it calls it   *)
(* early, late, twice or never, awaits it or lets it run on by itself, and *)
(* swallows errors or throws its own.                                      *)
(*                                                                         *)
(* A route may say by itself how the OpenAPI document secures it           *)
(* (`meta.security`), and a middleware of the app's own may set ctx.auth   *)
(* and carry a requirement; none takes ctx.auth back.                      *)
(*                                                                         *)
(* A response is its status; an error is what it will be mapped to.  Two   *)
(* requests share nothing here, so one is modelled.                        *)
(***************************************************************************)
EXTENDS Integers, Sequences

CONSTANTS
  Operations,  \* what is tried: [stack, security], a sequence of middlewares, and
               \* what there is to read of the operation's security beside them
  MaxLayers,   \* bound on the length of stacks
  Statuses,    \* statuses that handlers and user middlewares respond with
  Errors       \* errors that they throw

(* bearerAuth with `required: true`, or without it and with invalidToken   *)
(* "reject" or "ignore"; "headers" is requestId or securityHeaders.  An    *)
(* accessLog that skips the request is as if it were not there.            *)
Kinds == {"user", "accessLog", "otelHttpMetrics", "otelHttp", "bearerAuth",
          "bearerAuthOptional", "bearerAuthIgnore", "authorize", "cors", "headers"}
Loggers == {"accessLog", "otelHttpMetrics", "otelHttp"}
BearerAuth == {"bearerAuth", "bearerAuthOptional", "bearerAuthIgnore"}

(* `app` tells an AppError, which has a status of its own, from any other  *)
(* error, which is answered 500.                                           *)
Error == [app : BOOLEAN, status : Nat]
Other == [app |-> FALSE, status |-> 500]
NotFound == [app |-> TRUE, status |-> 404]

(* `meta.security` is left out, false or an empty array, or an array of    *)
(* requirements; `tagged` when a user middleware carries some of its own   *)
(* (withSecurityMeta).                                                     *)
Security == [meta : {"inferred", "public", "declared"}, tagged : BOOLEAN]
Stacks == {o.stack : o \in Operations}

ASSUME OperationsAssumption ==
  /\ MaxLayers \in Nat
  /\ \A o \in Operations :
       /\ o.stack \in Seq(Kinds) /\ Len(o.stack) <= MaxLayers
       /\ o.security \in Security
ASSUME AnswersAssumption ==
  /\ Statuses \subseteq Nat
  /\ Errors \subseteq Error
  /\ \A e \in Errors : ~e.app => e = Other

VARIABLES
  stack,      \* the app's middlewares and the route's
  security,   \* what the route and its user middlewares say of its security
  request,    \* what of the request and the app decides the way
  index,      \* the last layer called
  layer,      \* the layers
  response,   \* ctx.response, if any
  auth,       \* ctx.auth is a principal
  headers,    \* the layers that have written to ctx.responseHeaders
  recorded,   \* what each logging layer has recorded
  handling,   \* the error that a custom error handler has been given
  answer,     \* what dispatch() has returned, if it has
  ran,        \* ghost: how often each layer was called
  floated     \* ghost: a middleware has called next() without awaiting it

configVars == <<stack, security, request>>
ctxVars == <<response, auth, headers>>
answerVars == <<handling, answer>>
vars == <<stack, security, request, index, layer, response, auth, headers, recorded,
          handling, answer, ran, floated>>

Layers == 1 .. MaxLayers + 1

(***************************************************************************)
(* A layer is "called", "deciding" while verify() or the policy is         *)
(* awaited, "running" as a user middleware or the handler, "waiting" for   *)
(* the next layer, and has "returned" or "threw".                          *)
(***************************************************************************)
Layer == [pc : {"idle", "called", "deciding", "running", "waiting", "returned", "threw"},
          error : Error]
Idle == [pc |-> "idle", error |-> Other]

Request == [routed  : BOOLEAN,    \* a route matches
            options : BOOLEAN,    \* the method is OPTIONS
            token   : BOOLEAN,    \* there is a bearer token
            custom  : BOOLEAN]    \* the app has set onError

Last == Len(stack) + 1
Kind(i) == IF i = Last THEN "terminal" ELSE stack[i]

Called(kind) == [pc |-> IF kind = "user" THEN "running" ELSE "called", error |-> Other]

Init ==
  /\ \E o \in Operations : stack = o.stack /\ security = o.security
  /\ request \in Request
  /\ index = 1
  /\ layer = [i \in Layers |-> IF i = 1 THEN Called(Kind(1)) ELSE Idle]
  /\ response = << >>
  /\ auth = FALSE
  /\ headers = {}
  /\ recorded = [i \in Layers |-> << >>]
  /\ handling = << >>
  /\ answer = << >>
  /\ ran = [i \in Layers |-> IF i = 1 THEN 1 ELSE 0]
  /\ floated = FALSE

-----------------------------------------------------------------------------
(* The conditions the code tests and the values it computes, some after    *)
(* the form a mistake might give it.                                       *)

(* `i <= index` in composeMiddleware, for the layer after i.               *)
Bug_PerLayer(i) == layer[i + 1].pc \notin {"idle", "returned"}
NextCalled(i) == i + 1 <= index

(* `required || invalidToken === "reject"`                                 *)
Bug_IgnoreWins(i) == stack[i] = "bearerAuthOptional"
Rejects(i) == stack[i] \in {"bearerAuth", "bearerAuthOptional"}

DefaultStatus(e) == IF e.app THEN e.status ELSE 500

Finalized == headers

Bug_ErrorsLost(i) == layer[i].pc = "returned"
Settled(i) == layer[i].pc \in {"returned", "threw"}
Quiet == \A i \in Layers : layer[i].pc # "called"

(* resolveStatus of accessLog and of otelHttpMetrics: how the layer inside *)
(* has ended, and what there is to see of it.                              *)
Bug_OnlyResponses(inner) == IF response # << >> THEN response[1] ELSE 0
resolveStatus(inner) ==
  CASE response # << >>                          -> response[1]
    [] response = << >> /\ inner.pc = "threw"    -> inner.error.status
    [] response = << >> /\ inner.pc = "returned" -> 0

(* otelHttp sets the span's status to ERROR.                               *)
SpanFails(inner) ==
  IF inner.pc = "threw" THEN inner.error.status >= 500
  ELSE response # << >> /\ response[1] >= 500

Record == [status : Nat, failed : BOOLEAN, threw : BOOLEAN, responded : BOOLEAN]

-----------------------------------------------------------------------------
(* The steps that layers have in common.                                   *)

Set(i, pc, e) == layer' = [layer EXCEPT ![i] = [pc |-> pc, error |-> e]]
Returns(i) == Set(i, "returned", Other)
Throws(i, e) == Set(i, "threw", e)

(* next(), the first time: dispatch(i + 1) runs as far as it can.          *)
CallNext(i, pc) ==
  /\ ~NextCalled(i)
  /\ index' = i + 1
  /\ layer' = [layer EXCEPT ![i].pc = pc, ![i + 1] = Called(Kind(i + 1))]
  /\ ran' = [ran EXCEPT ![i + 1] = @ + 1]

NextOnly == UNCHANGED <<configVars, recorded, answerVars, floated>>
OwnStep == UNCHANGED <<configVars, index, recorded, answerVars, ran, floated>>

(* ctx.respond(problemResponse(...)), and return without next().           *)
ShortCircuit(i, status) ==
  /\ response' = <<status>>
  /\ Returns(i)
  /\ UNCHANGED auth
  /\ OwnStep

-----------------------------------------------------------------------------
(* A layer of the framework has been called.                               *)

(* They record nothing before next().                                      *)
CallLogger(i) ==
  /\ Kind(i) \in Loggers
  /\ CallNext(i, "waiting")
  /\ UNCHANGED ctxVars
  /\ NextOnly

(* requestId and securityHeaders write headers; cors answers OPTIONS.      *)
CallHeaders(i) ==
  /\ Kind(i) \in {"headers", "cors"}
  /\ headers' = headers \cup {i}
  /\ IF Kind(i) = "cors" /\ request.options
       THEN ShortCircuit(i, 204)
       ELSE /\ CallNext(i, "waiting")
            /\ UNCHANGED <<response, auth>>
            /\ NextOnly

CallBearerAuth(i) ==
  /\ Kind(i) \in BearerAuth
  /\ UNCHANGED headers
  /\ CASE request.token ->
            /\ Set(i, "deciding", Other)
            /\ UNCHANGED <<response, auth>>
            /\ OwnStep
       [] ~request.token /\ Kind(i) = "bearerAuth" ->
            ShortCircuit(i, 401)
       [] ~request.token /\ Kind(i) # "bearerAuth" ->
            /\ CallNext(i, "waiting")
            /\ UNCHANGED <<response, auth>>
            /\ NextOnly

CallAuthorize(i) ==
  /\ Kind(i) = "authorize"
  /\ UNCHANGED headers
  /\ IF auth
       THEN /\ Set(i, "deciding", Other)
            /\ UNCHANGED <<response, auth>>
            /\ OwnStep
       ELSE ShortCircuit(i, 401)

(* dispatch()'s own layer: nothing to do if there is a response, 404, or   *)
(* the handler.                                                            *)
CallTerminal(i) ==
  /\ Kind(i) = "terminal"
  /\ CASE response # << >>                     -> Returns(i)
       [] response = << >> /\ ~request.routed  -> Throws(i, NotFound)
       [] response = << >> /\ request.routed   -> Set(i, "running", Other)
  /\ UNCHANGED ctxVars
  /\ OwnStep

Framework(i) ==
  /\ layer[i].pc = "called"
  /\ CallLogger(i) \/ CallHeaders(i) \/ CallBearerAuth(i) \/ CallAuthorize(i) \/ CallTerminal(i)

-----------------------------------------------------------------------------
(* What was awaited has settled.                                           *)

(* verify() has found a principal, or not, or has thrown.                  *)
Verified(i) ==
  /\ layer[i].pc = "deciding"
  /\ Kind(i) \in BearerAuth
  /\ UNCHANGED headers
  /\ \/ /\ auth' = TRUE
        /\ CallNext(i, "waiting")
        /\ UNCHANGED response
        /\ NextOnly
     \/ /\ Rejects(i)
        /\ ShortCircuit(i, 401)
     \/ /\ ~Rejects(i)
        /\ CallNext(i, "waiting")
        /\ UNCHANGED <<response, auth>>
        /\ NextOnly
     \/ \E e \in Errors :
          /\ Throws(i, e)
          /\ UNCHANGED <<response, auth>>
          /\ OwnStep

(* The policy has allowed, refused or thrown.                              *)
Decided(i) ==
  /\ layer[i].pc = "deciding"
  /\ Kind(i) = "authorize"
  /\ UNCHANGED headers
  /\ \/ /\ CallNext(i, "waiting")
        /\ UNCHANGED <<response, auth>>
        /\ NextOnly
     \/ ShortCircuit(i, 403)
     \/ \E e \in Errors :
          /\ Throws(i, e)
          /\ UNCHANGED <<response, auth>>
          /\ OwnStep

Recorded(inner) == <<[status    |-> resolveStatus(inner),
                      failed    |-> SpanFails(inner),
                      threw     |-> inner.pc = "threw",
                      responded |-> response # << >>]>>

(* `await next()` is over: a layer of the framework ends as the inner one  *)
(* did, a logging one after having recorded it.  A user middleware may     *)
(* catch what was thrown.  The `attributes` callback of otelHttpMetrics is *)
(* called in its `finally`, and may throw.                                 *)
Resume(i) ==
  /\ layer[i].pc = "waiting" /\ Kind(i) # "terminal"
  /\ Settled(i + 1)
  /\ \/ /\ layer' = [layer EXCEPT ![i] = layer[i + 1]]
        /\ recorded' = IF Kind(i) \in Loggers
                         THEN [recorded EXCEPT ![i] = Recorded(layer[i + 1])]
                         ELSE recorded
     \/ /\ Kind(i) = "user"
        /\ Set(i, "running", Other)
        /\ UNCHANGED recorded
     \/ /\ Kind(i) = "otelHttpMetrics"
        /\ Throws(i, Other)
        /\ UNCHANGED recorded
  /\ UNCHANGED <<configVars, index, ctxVars, answerVars, ran, floated>>

-----------------------------------------------------------------------------
(* User middlewares.                                                       *)

UserRuns(i) == layer[i].pc = "running" /\ Kind(i) = "user"

UserNext(i) ==
  /\ UserRuns(i)
  /\ \E pc \in {"waiting", "running"} :
       /\ CallNext(i, pc)
       /\ floated' = (floated \/ pc = "running")
  /\ UNCHANGED <<configVars, ctxVars, recorded, answerVars>>

(* It awaits the promise that next() has given it before.                  *)
UserAwaits(i) ==
  /\ UserRuns(i)
  /\ NextCalled(i) /\ ~Settled(i + 1)
  /\ Set(i, "waiting", Other)
  /\ UNCHANGED ctxVars
  /\ OwnStep

(* It has found a principal by a way of its own.                           *)
UserAuthenticates(i) ==
  /\ UserRuns(i)
  /\ auth' = TRUE
  /\ UNCHANGED <<layer, response, headers>>
  /\ OwnStep

(* It ends: by itself, with an error of its own, with the one of a next()  *)
(* that it awaits when it is over, or with the "next() called multiple     *)
(* times" of a call too many.                                              *)
UserEnds(i) ==
  /\ UserRuns(i)
  /\ \/ Returns(i)
     \/ \E e \in Errors : Throws(i, e)
     \/ NextCalled(i) /\ \E e \in {Other, layer[i + 1].error} : Throws(i, e)
  /\ UNCHANGED ctxVars
  /\ OwnStep

(* ctx.respond, by a user middleware or by the handler.                    *)
Responds(i) ==
  /\ layer[i].pc = "running"
  /\ \E s \in Statuses : response' = <<s>>
  /\ UNCHANGED <<layer, auth, headers>>
  /\ OwnStep

-----------------------------------------------------------------------------
(* The handler.                                                            *)

HandlerRuns(i) == layer[i].pc = "running" /\ Kind(i) = "terminal"

HandlerReturns(i) ==
  /\ HandlerRuns(i)
  /\ response' = IF response = << >> THEN <<200>> ELSE response
  /\ Returns(i)
  /\ UNCHANGED <<auth, headers>>
  /\ OwnStep

(* It throws, or returns an err(...) that unwrapHandlerResult throws; that *)
(* is only called when there is no response yet.                           *)
HandlerFails(i) ==
  /\ HandlerRuns(i)
  /\ \/ \E e \in Errors : Throws(i, e)
     \/ response # << >> /\ Returns(i)
  /\ UNCHANGED ctxVars
  /\ OwnStep

-----------------------------------------------------------------------------
(* The end of dispatch().                                                  *)

Answers(status) == answer' = <<[status |-> status, headers |-> Finalized]>>

PipelineReturns ==
  /\ answer = << >>
  /\ layer[1].pc = "returned"
  /\ Answers(IF response # << >> THEN response[1] ELSE 204)
  /\ UNCHANGED <<configVars, index, layer, ctxVars, recorded, handling, ran, floated>>

(* The default error handler, or the first half of calling another one.    *)
PipelineThrows ==
  /\ answer = << >>
  /\ handling = << >>
  /\ layer[1].pc = "threw"
  /\ IF request.custom
       THEN /\ handling' = <<layer[1].error>>
            /\ UNCHANGED <<response, answer>>
       ELSE /\ Answers(DefaultStatus(layer[1].error))
            /\ response' = <<answer'[1].status>>
            /\ UNCHANGED handling
  /\ UNCHANGED <<configVars, index, layer, auth, headers, recorded, ran, floated>>

(* A custom error handler gives a response, or throws, which the default   *)
(* one answers.                                                            *)
ErrorHandled ==
  /\ handling # << >>
  /\ answer = << >>
  /\ \/ \E s \in Statuses : Answers(s)
     \/ \E e \in Errors : Answers(DefaultStatus(e))
  /\ response' = <<answer'[1].status>>
  /\ UNCHANGED <<configVars, index, layer, auth, headers, recorded, handling, ran, floated>>

-----------------------------------------------------------------------------
Resumes(i) == Verified(i) \/ Decided(i) \/ Resume(i)
Ends(i) == UserEnds(i) \/ HandlerReturns(i) \/ HandlerFails(i)
Answering == PipelineReturns \/ PipelineThrows \/ ErrorHandled

Next ==
  \/ \E i \in 1 .. Last : Framework(i)
  \/ /\ Quiet
     /\ \/ \E i \in 1 .. Last :
             \/ Resumes(i) \/ Ends(i)
             \/ UserNext(i) \/ UserAwaits(i) \/ UserAuthenticates(i) \/ Responds(i)
        \/ Answering

Spec == Init /\ [][Next]_vars

(* Code that has been called goes on, and what a layer awaits settles.     *)
FairSpec ==
  /\ Spec
  /\ \A i \in Layers :
       /\ WF_vars(i <= Last /\ Framework(i))
       /\ WF_vars(i <= Last /\ Quiet /\ (Resumes(i) \/ Ends(i)))
  /\ WF_vars(Quiet /\ Answering)

-----------------------------------------------------------------------------
MaybeOne(v, S) == v \in Seq(S) /\ Len(v) <= 1

(* Every variable holds a value of its kind, and `index` tells the layers  *)
(* that have been called.                                                  *)
TypeOK ==
  /\ stack \in Stacks
  /\ security \in Security
  /\ request \in Request
  /\ index \in 1 .. Last
  /\ layer \in [Layers -> Layer]
  /\ \A i \in Layers : layer[i].pc = "idle" <=> i > index
  /\ MaybeOne(response, Nat)
  /\ auth \in BOOLEAN
  /\ headers \subseteq Layers
  /\ DOMAIN recorded = Layers /\ \A i \in Layers : MaybeOne(recorded[i], Record)
  /\ MaybeOne(handling, Error)
  /\ MaybeOne(answer, [status : Nat, headers : SUBSET Layers])
  /\ ran \in [Layers -> Nat]
  /\ floated \in BOOLEAN

(* However middlewares call next(), twice, late or without awaiting it,    *)
(* no layer runs twice, the handler included, and none runs before the     *)
(* ones around it.                                                         *)
LayersOnceInOrder ==
  \A i \in Layers : ran[i] = IF i <= index THEN 1 ELSE 0

(* buildOperation: what the route says itself decides, and otherwise the   *)
(* requirements that collectSecurity finds on the middlewares.             *)
Requires == \E i \in 1 .. Len(stack) : stack[i] \in {"bearerAuth", "authorize"}
Secured ==
  CASE security.meta = "public"   -> FALSE
    [] security.meta = "declared" -> TRUE
    [] security.meta = "inferred" -> Requires \/ security.tagged

(* A layer of the framework has sent the request away.                     *)
TurnedAway == Kind(index) \in BearerAuth \cup {"authorize"} /\ layer[index].pc = "returned"

(* "Auth middleware security metadata -> [...] operation `security`        *)
(* (unless `security: false` or explicit `security`)"                      *)
(* (docs/semver-contract.md:52).  Where the document infers, it says what  *)
(* the layers do, wherever in the stack they stand: the handler of an      *)
(* operation documented as secured runs only for a principal, and a caller *)
(* who sends no token, as the document of another allows, is not turned    *)
(* away.  What a route declares is its author's word, which no code        *)
(* compares with the middlewares, and so is the requirement that a         *)
(* middleware of the app's own carries.                                    *)
SecurityAsDocumented ==
  security = [meta |-> "inferred", tagged |-> FALSE] =>
    /\ Secured /\ layer[Last].pc = "running" => auth
    /\ ~Secured /\ ~request.token => ~TurnedAway

(* "`ctx.responseHeaders` set before a short-circuit or error are merged   *)
(* onto the final response" (docs/semver-contract.md:29): whatever ends    *)
(* the pipeline, and whoever answers.                                      *)
HeadersOnAnswer ==
  answer # << >> /\ ~floated =>
    \A i \in 1 .. Last : Kind(i) \in {"headers", "cors"} /\ i <= index => i \in answer[1].headers

(* Layer i is the last to have a say before dispatch() itself: the layers  *)
(* around it pass everything on, no other code still runs, and the app     *)
(* answers errors as the framework does.                                   *)
Outermost(i) ==
  /\ \A j \in 1 .. i - 1 : stack[j] \notin {"user", "otelHttpMetrics"}
  /\ ~floated
  /\ ~request.custom

(* The status that accessLog and otelHttpMetrics record is the one that is *)
(* sent, for every way a pipeline ends but two: without any response, and  *)
(* with an error after a response.                                         *)
LogAgrees ==
  \A i \in 1 .. Len(stack) :
    /\ stack[i] \in {"accessLog", "otelHttpMetrics"} /\ Outermost(i)
    /\ recorded[i] # << >> /\ answer # << >>
    /\ recorded[i][1].threw # recorded[i][1].responded
    => recorded[i][1].status = answer[1].status

(* The span of otelHttp has the status ERROR exactly when the answer is a  *)
(* server error.                                                           *)
SpanTellsFailure ==
  \A i \in 1 .. Len(stack) :
    /\ stack[i] = "otelHttp" /\ Outermost(i)
    /\ recorded[i] # << >> /\ answer # << >>
    => (recorded[i][1].failed <=> answer[1].status >= 500)

(* What is logged, measured and traced of a request agrees with what is    *)
(* sent, in every stack in which nobody outside may still change it.       *)
RecordsAgree == LogAgrees /\ SpanTellsFailure

(* Every request is answered, as long as what it awaits settles: no        *)
(* combination of short-circuits, errors, repeated calls of next() and     *)
(* failing error handlers leaves dispatch() pending.                       *)
AlwaysAnswered == <>(answer # << >>)

=============================================================================
