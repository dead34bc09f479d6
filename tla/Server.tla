------------------------------- MODULE Server -------------------------------
(***************************************************************************)
(* An app served over HTTP: listen() and close()                           *)
(* (packages/http/lib/listen.ts), the race of a request with its timeout   *)
(* (fetch-handler.ts, timeout.ts) and process signals (shutdown.ts), over  *)
(* the app's lifecycle.  Every step is a step of Lifecycle or leaves the   *)
(* app alone: a stop hook of the app that is close() settles as close()    *)
(* does.                                                                   *)
(*                                                                         *)
(* Entry is the caller that runs listen() and may stop the app; Signals is *)
(* the one that signal and fatal error handlers share.  The HTTP server    *)
(* itself is node's: closing it stops the accepting of connections at once *)
(* and completes when the open ones have ended.  A request is one          *)
(* connection and, behind it, the work of parsing and dispatching.         *)
(***************************************************************************)
EXTENDS Lifecycle, FiniteSets

CONSTANTS
  Entry, Signals,
  Requests,              \* slots for requests in progress
  RequestTimeout,        \* requestTimeoutMs > 0
  RejectWhileDraining,   \* options.rejectWhileDraining
  SignalsEarly           \* signals and stop() may come before listen() is done

ASSUME RolesAssumption == Entry \in Callers /\ Signals \in Callers /\ Entry # Signals
ASSUME OptionsAssumption ==
  /\ IsFiniteSet(Requests)
  /\ RequestTimeout \in BOOLEAN
  /\ RejectWhileDraining \in BOOLEAN
  /\ SignalsEarly \in BOOLEAN
ASSUME OwnerAssumption == "owner" \notin StopIds

VARIABLES
  listening,     \* how far listen() has come
  closeHook,     \* the number of close() among the stop hooks, 0 before
  server,        \* node's HTTP server
  draining,      \* the flag of that name
  closing,       \* how far the promise in closeInFlight has come
  drainExpired,  \* drainTimeoutMs ran out in waitForDrain
  closeWait,     \* who called close(), and how that ended
  inflight,      \* the counter of that name
  req,           \* the requests
  shuttingDown,  \* the latch of installProcessSignals
  exitCode,      \* the code beginShutdown was called with
  exit           \* the code the process exited with, once it has

closeVars == <<server, draining, closing, drainExpired, closeWait>>
requestVars == <<inflight, req>>
signalVars == <<shuttingDown, exitCode, exit>>
serverVars == <<vars, listening, closeHook, closeVars, requestVars, signalVars>>

Closers == StopIds \cup {"owner"}

(* `counted` until inner(request) has returned, `handler` while the work   *)
(* goes on, `conn` until the response is sent or the client has gone.      *)
ServerRequest == [conn : BOOLEAN, counted : BOOLEAN, handler : BOOLEAN]
NoRequest == [conn |-> FALSE, counted |-> FALSE, handler |-> FALSE]

ServerInit ==
  /\ Init
  /\ listening = "no"
  /\ closeHook = 0
  /\ server = "none"
  /\ draining = FALSE
  /\ closing = "none"
  /\ drainExpired = FALSE
  /\ closeWait = [w \in Closers |-> "none"]
  /\ inflight = 0
  /\ req = [r \in Requests |-> NoRequest]
  /\ shuttingDown = FALSE
  /\ exitCode = 0
  /\ exit = << >>

-----------------------------------------------------------------------------
(* The conditions the code tests, each after the form a mistake might give *)
(* it.                                                                     *)

closed == server = "closed"
closeInFlight == closing # "none"

Bug_NeverEmpty == TRUE
Drained == inflight = 0

Bug_CountLeaks(r) == FALSE
StillCounted(r) == req[r].counted

Bug_NoTimer(r) == FALSE
TimerRuns(r) == RequestTimeout /\ req[r].counted

Bug_FailureIgnored(out) == exitCode
ExitStatus(out) == IF out = "resolved" THEN exitCode ELSE 1

(* `inflight -= 1` in the `finally` of the fetch handler, once.            *)
Uncount(r) == inflight' = IF StillCounted(r) THEN inflight - 1 ELSE inflight

-----------------------------------------------------------------------------
(* close()                                                                 *)

(* waitForDrain is over at once when nothing is in flight, and the server  *)
(* is told to close.                                                       *)
CloseCalled(w) ==
  \/ /\ closed
     /\ closeWait' = [closeWait EXCEPT ![w] = "resolved"]
     /\ UNCHANGED <<server, draining, closing, drainExpired>>
  \/ /\ ~closed
     /\ closeInFlight
     /\ closeWait' = [closeWait EXCEPT ![w] = "pending"]
     /\ UNCHANGED <<server, draining, closing, drainExpired>>
  \/ /\ ~closed
     /\ ~closeInFlight
     /\ closeWait' = [closeWait EXCEPT ![w] = "pending"]
     /\ draining' = TRUE
     /\ drainExpired' = FALSE
     /\ closing' = IF Drained THEN "closing" ELSE "draining"
     /\ server' = IF Drained THEN "closing" ELSE server

(* A tick of waitForDrain finds nothing in flight, or the time is up.      *)
DrainEnds ==
  /\ closing = "draining"
  /\ \/ Drained /\ UNCHANGED drainExpired
     \/ ~Drained /\ drainExpired' = TRUE
  /\ closing' = "closing"
  /\ server' = "closing"
  /\ UNCHANGED <<vars, listening, closeHook, draining, closeWait, requestVars, signalVars>>

Settle(outcome) ==
  closeWait' = [w \in Closers |-> IF closeWait[w] = "pending" THEN outcome ELSE closeWait[w]]

(* server.close calls back: no connection is left.                         *)
ServerCloses ==
  /\ closing = "closing"
  /\ \A r \in Requests : ~req[r].conn
  /\ server' = "closed"
  /\ closing' = "none"
  /\ Settle("resolved")
  /\ UNCHANGED <<vars, listening, closeHook, draining, drainExpired, requestVars, signalVars>>

(* server.close reports an error: closeInFlight = null, draining stays.    *)
ServerCloseFails ==
  /\ closing = "closing"
  /\ server' = "open"
  /\ closing' = "none"
  /\ Settle("rejected")
  /\ UNCHANGED <<vars, listening, closeHook, draining, drainExpired, requestVars, signalVars>>

(* The owner of the handle calls close().                                  *)
OwnerCloses ==
  /\ listening = "up"
  /\ closeWait["owner"] # "pending"
  /\ CloseCalled("owner")
  /\ UNCHANGED <<vars, listening, closeHook, requestVars, signalVars>>

-----------------------------------------------------------------------------
(* The app's stop, whose hooks call close().                               *)

(* The hook that attempt `a` calls next is called in the same step.        *)
RunsClose(todo) == todo # << >> /\ closeHook # 0 /\ Head(todo) = closeHook

CallNextHook(a) ==
  IF RunsClose(stops'[a].todo) THEN CloseCalled(a) ELSE UNCHANGED closeVars

AppStop(c) ==
  \/ /\ StopIgnored(c) \/ StopJoin(c)
     /\ UNCHANGED closeVars
  \/ /\ StopBegin(c)
     /\ CallNextHook(stopInFlight')

OtherHookSettles(a) ==
  /\ ~RunsClose(stops[a].todo)
  /\ \/ StopHookReturns(a) /\ CallNextHook(a)
     \/ StopHookFails(a) /\ UNCHANGED closeVars
  /\ UNCHANGED <<listening, closeHook, requestVars, signalVars>>

CloseHookSettles(a) ==
  /\ RunsClose(stops[a].todo)
  /\ \/ closeWait[a] = "resolved" /\ StopHookReturns(a)
     \/ closeWait[a] = "rejected" /\ StopHookFails(a)
  /\ closeWait' = [closeWait EXCEPT ![a] = "none"]
  /\ UNCHANGED <<listening, closeHook, server, draining, closing, drainExpired,
                 requestVars, signalVars>>

(* Steps of the app that concern nobody else.                              *)
Alone == UNCHANGED <<listening, closeHook, closeVars, requestVars, signalVars>>

RegisterHook == OnStop /\ Alone
StartHookSettles(a) == StartStep(a) /\ Alone
StopSettles(a) == StopStep(a) /\ Alone
CallReturns(c) == CallEnds(c) /\ Alone

-----------------------------------------------------------------------------
(* listen()                                                                *)

(* `await app.start(...)`; after a failed listen() the entry may retry.    *)
ListenStarts ==
  /\ listening \in {"no", "failed"}
  /\ StartRefused(Entry) \/ StartJoin(Entry) \/ StartBegin(Entry) \/ StartAtOnce(Entry)
  /\ listening' = "starting"
  /\ UNCHANGED <<closeHook, closeVars, requestVars, signalVars>>

StartRejects ==
  /\ listening = "starting"
  /\ CanCall(Entry) /\ calls[Entry].out = "rejected"
  /\ listening' = "failed"
  /\ UNCHANGED <<vars, closeHook, closeVars, requestVars, signalVars>>

(* serve(): the host is looked up before the port is bound.                *)
ServeCalled ==
  /\ listening = "starting"
  /\ CanCall(Entry) /\ calls[Entry].out = "resolved"
  /\ listening' = "binding"
  /\ UNCHANGED <<vars, closeHook, closeVars, requestVars, signalVars>>

BindFails ==
  /\ listening = "binding"
  /\ listening' = "failed"
  /\ UNCHANGED <<vars, closeHook, closeVars, requestVars, signalVars>>

(* The server listens, and `app.onStop(close)` runs before it is handed a  *)
(* connection.                                                             *)
Bound ==
  /\ listening = "binding"
  /\ OnStop
  /\ closeHook' = nStop'
  /\ listening' = "up"
  /\ server' = "open"
  /\ UNCHANGED <<draining, closing, drainExpired, closeWait, requestVars, signalVars>>

(* The entry point calls app.stop() itself.                                *)
EntryStops ==
  /\ listening = "up"
  /\ AppStop(Entry)
  /\ UNCHANGED <<listening, closeHook, requestVars, signalVars>>

-----------------------------------------------------------------------------
(* Requests                                                                *)

RequestRejected(r) ==
  /\ server = "open"
  /\ draining /\ RejectWhileDraining
  /\ req[r] = NoRequest
  /\ req' = [req EXCEPT ![r].conn = TRUE]
  /\ UNCHANGED <<vars, listening, closeHook, closeVars, inflight, signalVars>>

RequestBegins(r) ==
  /\ server = "open"
  /\ ~(draining /\ RejectWhileDraining)
  /\ req[r] = NoRequest
  /\ req' = [req EXCEPT ![r] = [conn |-> TRUE, counted |-> TRUE, handler |-> TRUE]]
  /\ inflight' = inflight + 1
  /\ UNCHANGED <<vars, listening, closeHook, closeVars, signalVars>>

(* `work` settles; it is answered if the timeout has not been first.       *)
HandlerEnds(r) ==
  /\ req[r].handler
  /\ req' = [req EXCEPT ![r].handler = FALSE, ![r].counted = FALSE]
  /\ Uncount(r)
  /\ UNCHANGED <<vars, listening, closeHook, closeVars, signalVars>>

(* The timer aborts the signal and wins the race: 408, and `work` goes on. *)
RequestTimesOut(r) ==
  /\ TimerRuns(r)
  /\ req' = [req EXCEPT ![r].counted = FALSE]
  /\ Uncount(r)
  /\ UNCHANGED <<vars, listening, closeHook, closeVars, signalVars>>

(* The client goes.  Only a handler with a timeout races the abort.        *)
ClientGoes(r) ==
  /\ req[r].conn
  /\ IF RequestTimeout
       THEN /\ req' = [req EXCEPT ![r].conn = FALSE, ![r].counted = FALSE]
            /\ Uncount(r)
       ELSE /\ req' = [req EXCEPT ![r].conn = FALSE]
            /\ UNCHANGED inflight
  /\ UNCHANGED <<vars, listening, closeHook, closeVars, signalVars>>

(* The response has been sent, its body stream included.                   *)
ResponseSent(r) ==
  /\ req[r].conn /\ ~req[r].counted
  /\ req' = [req EXCEPT ![r].conn = FALSE]
  /\ UNCHANGED <<vars, listening, closeHook, closeVars, inflight, signalVars>>

-----------------------------------------------------------------------------
(* installProcessSignals                                                   *)

(* beginShutdown(code), the first time.                                    *)
BeginShutdown(code) ==
  /\ SignalsEarly \/ listening = "up"
  /\ ~shuttingDown
  /\ shuttingDown' = TRUE
  /\ exitCode' = code
  /\ AppStop(Signals)
  /\ UNCHANGED <<listening, closeHook, requestVars>>

Signal == BeginShutdown(0) /\ UNCHANGED exit

(* Like a second signal, a fatal error in the shutdown changes nothing.    *)
FatalError == BeginShutdown(1) /\ UNCHANGED exit

(* stop() has settled: exitProcess.                                        *)
Exits ==
  /\ shuttingDown
  /\ CanCall(Signals)
  /\ exit' = <<ExitStatus(calls[Signals].out)>>
  /\ UNCHANGED <<vars, listening, closeHook, closeVars, requestVars,
                 shuttingDown, exitCode>>

-----------------------------------------------------------------------------
Alive == exit = << >>

ListenStep == ListenStarts \/ StartRejects \/ ServeCalled \/ BindFails \/ Bound
CloseStep == OwnerCloses \/ DrainEnds \/ ServerCloses \/ ServerCloseFails
HookSettles(a) == OtherHookSettles(a) \/ CloseHookSettles(a)
RequestStep(r) ==
  \/ RequestRejected(r) \/ RequestBegins(r) \/ HandlerEnds(r)
  \/ RequestTimesOut(r) \/ ClientGoes(r) \/ ResponseSent(r)

ServerNext ==
  /\ Alive
  /\ \/ ListenStep \/ EntryStops \/ RegisterHook
     \/ \E a \in StartIds : StartHookSettles(a)
     \/ \E a \in StopIds : StopSettles(a) \/ HookSettles(a)
     \/ \E c \in Callers : CallReturns(c)
     \/ CloseStep
     \/ \E r \in Requests : RequestStep(r)
     \/ Signal \/ FatalError \/ Exits

ServerSpec == ServerInit /\ [][ServerNext]_serverVars

(***************************************************************************)
(* The event loop runs what is due: settled promises, timers, node's       *)
(* callbacks.  Handlers are not assumed to end.                            *)
(***************************************************************************)
LoopFairness ==
  /\ \A c \in Callers : WF_serverVars(Alive /\ CallReturns(c))
  /\ \A a \in StopIds : WF_serverVars(Alive /\ StopSettles(a))
  /\ WF_serverVars(Alive /\ DrainEnds)
  /\ WF_serverVars(Alive /\ ServerCloses)
  /\ \A r \in Requests : WF_serverVars(Alive /\ RequestTimesOut(r))
  /\ WF_serverVars(Alive /\ Exits)

(* Stop hooks settle, and clients read the responses they get.             *)
PeerFairness ==
  /\ \A a \in StopIds : WF_serverVars(Alive /\ HookSettles(a))
  /\ \A r \in Requests : WF_serverVars(Alive /\ ResponseSent(r))

ServerFairSpec == ServerSpec /\ LoopFairness /\ PeerFairness
OpenStreamSpec == ServerSpec /\ LoopFairness

-----------------------------------------------------------------------------
(* Every variable holds a value of its kind.                               *)
ServerTypeOK ==
  /\ listening \in {"no", "starting", "binding", "up", "failed"}
  /\ closeHook \in 0 .. MaxHooks
  /\ server \in {"none", "open", "closing", "closed"}
  /\ draining \in BOOLEAN
  /\ closing \in {"none", "draining", "closing"}
  /\ drainExpired \in BOOLEAN
  /\ closeWait \in [Closers -> {"none", "pending", "resolved", "rejected"}]
  /\ inflight \in 0 .. Cardinality(Requests)
  /\ req \in [Requests -> ServerRequest]
  /\ shuttingDown \in BOOLEAN
  /\ exitCode \in {0, 1}
  /\ exit \in {<< >>, <<0>>, <<1>>}

(* A stop hook registered before listen() releases what requests use: it   *)
(* only runs when the server is closed and no request is being answered,   *)
(* however stop(), its retries, the owner's close() and a failed           *)
(* server.close interleave.  Excepted is a request of a server without     *)
(* request timeout whose client went and whose drain ran out of time.      *)
HooksOutliveRequests ==
  \A a \in StopIds :
    stops[a].run = "hook" /\ Head(stops[a].todo) < closeHook =>
      /\ server = "closed"
      /\ \A r \in Requests : req[r].counted => drainExpired /\ ~req[r].conn

(* The server is told to close only once every request it took has been    *)
(* answered or given up, or the drain has run out of time: no order of     *)
(* timeouts, disconnects and handler ends makes the counter reach 0 early. *)
DrainWaitsForRequests ==
  [][closing # "closing" /\ closing' = "closing" =>
       drainExpired' \/ \A r \in Requests : ~req[r].counted]_serverVars

(* A process that exits with 0 has stopped its app and closed its server,  *)
(* whoever else called stop() or close(), and however those ended.         *)
ExitZeroIsClean ==
  exit = <<0>> => ~started /\ server = "closed"

(* A signal ends the process, even if handlers hang for ever.              *)
SignalEndsProcess == shuttingDown ~> ~Alive

-----------------------------------------------------------------------------
(* "If drain times out, the server still closes -- in-flight work may see  *)
(* connection errors (by design)." (docs/reliability-notes.md:27)          *)
DrainTimeoutCloses == closing = "closing" /\ drainExpired ~> closing = "none"
=============================================================================
