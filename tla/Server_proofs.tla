--------------------------- MODULE Server_proofs ---------------------------
(***************************************************************************)
(* Proofs about Server, for any number of requests, callers, attempts and  *)
(* hooks.                                                                  *)
(*                                                                         *)
(* Every step is a step of Lifecycle or leaves the app alone, so what is   *)
(* proved of Lifecycle holds here.  The counter of requests is exact.  The *)
(* rest is about an app that is stopped only once listen() is done: then   *)
(* close() is among the hooks of every stop, hooks run in the order n,     *)
(* n-1, ..., 1, and so one that was registered before close() runs when    *)
(* close() has succeeded, whoever called it first.  A closed server takes  *)
(* no connection and stays closed; an app that has stopped is not started  *)
(* again.                                                                  *)
(***************************************************************************)
EXTENDS Server, Lifecycle_proofs, FiniteSetTheorems

Counted == {r \in Requests : req[r].counted}

(* The counter of requests is the number of those that are counted.        *)
CountExact == inflight = Cardinality(Counted)

TypedInv ==
  /\ IInv
  /\ ServerTypeOK
  /\ CountExact

-----------------------------------------------------------------------------
(* Until it listens there is no server to close, close() is no stop hook,  *)
(* and nobody has stopped the app.                                         *)
ListenInv ==
  /\ listening = "up" => closeHook \in 1 .. nStop /\ server # "none"
  /\ listening # "up" =>
       /\ closeHook = 0 /\ server = "none" /\ closing = "none"
       /\ ~shuttingDown
       /\ \A a \in StopIds : stops[a].run = "idle" /\ stops[a].outer = "idle"

(* The app that listen() waited for is started.                            *)
StartInv ==
  /\ listening # "up" => \A a \in StartIds : starts[a].pc = "resolved" => started
  /\ listening = "starting" /\ calls[Entry].out = "resolved" => started
  /\ listening = "binding" => started
  /\ listening = "up" =>
       /\ \A a \in StartIds : starts[a].pc # "hook"
       /\ ~started => closed

(* close(): a closing server is the one closeInFlight is about; a closed   *)
(* one has no connection; neither has a request that the drain waited for. *)
CloseInv ==
  /\ closing = "closing" <=> server = "closing"
  /\ closing = "draining" => server = "open"
  /\ \A w \in Closers : closeWait[w] = "resolved" => closed
  /\ closed => \A r \in Requests : ~req[r].conn
  /\ server \in {"closing", "closed"} => \A r \in Requests : req[r].counted => drainExpired

(* The hooks that a stop attempt has yet to run are numbered down to 1.    *)
CountsDown(todo) == \A i \in 1 .. Len(todo) : todo[i] = Len(todo) + 1 - i

(* Below close() the server is closed, and an attempt that has succeeded   *)
(* has gone below it.                                                      *)
AttemptOK(a) ==
  /\ stops[a].run = "hook" =>
       /\ CountsDown(stops[a].todo)
       /\ Len(stops[a].todo) < closeHook => closed
  /\ stops[a].run = "ok" => closed
  /\ stops[a].outer \in {"stopped", "resolved"} => ~started

AttemptInv == \A a \in StopIds : AttemptOK(a)

(* The handler of signals calls stop(), once, and never start().           *)
SignalInv ==
  /\ \A a \in StartIds : ~WaitingFor(Signals, "start", a)
  /\ shuttingDown /\ CanCall(Signals) /\ calls[Signals].out = "resolved" => ~started
  /\ exit = <<0>> => shuttingDown /\ ~started

ServerInv ==
  /\ TypedInv
  /\ ListenInv
  /\ StartInv
  /\ CloseInv
  /\ AttemptInv
  /\ SignalInv

-----------------------------------------------------------------------------
(* Both callers of an app's stop are callers.                              *)
LEMMA StopsApp ==
  ASSUME NEW c \in Callers, AppStop(c)
  PROVE  Next
  BY DEF AppStop, Next, CallStep

(* What listen(), close(), the requests and the signals do to the app, the *)
(* app does to itself.                                                     *)
LEMMA StepIsStep == ServerNext => [Next]_vars
  <1>. SUFFICES ASSUME ServerNext PROVE [Next]_vars
    OBVIOUS
  <1>1. CASE ListenStep
    BY <1>1, RolesAssumption
    DEF ListenStep, ListenStarts, StartRejects, ServeCalled, BindFails, Bound, Next, CallStep
  <1>2. CASE EntryStops \/ Signal \/ FatalError
    BY <1>2, StopsApp, RolesAssumption DEF EntryStops, Signal, FatalError, BeginShutdown
  <1>3. CASE RegisterHook \/ CloseStep \/ Exits
    BY <1>3 DEF RegisterHook, CloseStep, OwnerCloses, DrainEnds, ServerCloses,
                ServerCloseFails, Exits, Next
  <1>4. ASSUME NEW a \in StartIds, StartHookSettles(a) PROVE Next
    BY <1>4 DEF StartHookSettles, Next
  <1>5. ASSUME NEW a \in StopIds, StopSettles(a) \/ HookSettles(a) PROVE Next
    BY <1>5 DEF StopSettles, HookSettles, OtherHookSettles, CloseHookSettles, StopHookStep, Next
  <1>6. ASSUME NEW c \in Callers, CallReturns(c) PROVE Next
    BY <1>6 DEF CallReturns, CallStep, Next
  <1>7. ASSUME NEW r \in Requests, RequestStep(r) PROVE UNCHANGED vars
    BY <1>7 DEF RequestStep, RequestRejected, RequestBegins, HandlerEnds, RequestTimesOut,
                ClientGoes, ResponseSent
  <1>. QED
    BY <1>1, <1>2, <1>3, <1>4, <1>5, <1>6, <1>7 DEF ServerNext

(* An app that is served over HTTP goes through the steps of Lifecycle and *)
(* no others: listen() and close() use start(), stop() and onStop() only.  *)
THEOREM ServedAppIsApp == ServerSpec => Spec
  <1>1. ServerInit => Init
    BY DEF ServerInit
  <1>2. [ServerNext]_serverVars => [Next]_vars
    <2>1. UNCHANGED serverVars => UNCHANGED vars
      BY DEF serverVars, vars
    <2>. QED
      BY <2>1, StepIsStep
  <1>. QED
    BY <1>1, <1>2, PTL DEF ServerSpec, Spec

-----------------------------------------------------------------------------
(* The counter after a step that begins or ends the counting of a request, *)
(* or leaves both alone.                                                   *)
LEMMA CountKeeps ==
  ASSUME TypedInv, NEW r \in Requests, req' \in [Requests -> ServerRequest],
         \A q \in Requests \ {r} : req'[q].counted = req[q].counted,
         \/ req'[r].counted = req[r].counted /\ UNCHANGED inflight
         \/ ~req[r].counted /\ req'[r].counted /\ inflight' = inflight + 1
         \/ req[r].counted /\ ~req'[r].counted /\ inflight' = inflight - 1
  PROVE  CountExact' /\ inflight' \in 0 .. Cardinality(Requests)
  <1>1. Counted \subseteq Requests /\ Counted' \subseteq Requests
    BY DEF Counted
  <1>2. IsFiniteSet(Requests) /\ IsFiniteSet(Counted) /\ IsFiniteSet(Counted')
    BY <1>1, FS_Subset, OptionsAssumption
  <1>3. req \in [Requests -> ServerRequest] /\ inflight = Cardinality(Counted)
    BY DEF TypedInv, ServerTypeOK, CountExact
  <1>4. CASE req'[r].counted = req[r].counted /\ UNCHANGED inflight
    <2>1. Counted' = Counted
      BY <1>3, <1>4 DEF Counted, ServerRequest
    <2>. QED
      BY <1>4, <1>3, <2>1 DEF CountExact, TypedInv, ServerTypeOK
  <1>5. CASE ~req[r].counted /\ req'[r].counted /\ inflight' = inflight + 1
    <2>1. Counted' = Counted \cup {r} /\ r \notin Counted
      BY <1>3, <1>5 DEF Counted, ServerRequest
    <2>2. Cardinality(Counted') = Cardinality(Counted) + 1
      BY <1>2, <2>1, FS_AddElement
    <2>. QED
      BY <1>1, <1>2, <1>3, <1>5, <2>2, FS_Subset, FS_CardinalityType DEF CountExact
  <1>6. CASE req[r].counted /\ ~req'[r].counted /\ inflight' = inflight - 1
    <2>1. Counted' = Counted \ {r} /\ r \in Counted
      BY <1>3, <1>6 DEF Counted, ServerRequest
    <2>2. Cardinality(Counted') = Cardinality(Counted) - 1
      BY <1>2, <2>1, FS_RemoveElement
    <2>. QED
      BY <1>1, <1>2, <1>3, <1>6, <2>2, FS_Subset, FS_CardinalityType DEF CountExact
  <1>. QED
    BY <1>4, <1>5, <1>6

(* No request is counted when the counter is 0.                            *)
LEMMA NoneCounted ==
  ASSUME TypedInv, Drained
  PROVE  \A r \in Requests : ~req[r].counted
  <1>1. IsFiniteSet(Counted)
    BY FS_Subset, OptionsAssumption DEF Counted
  <1>2. Counted = {}
    BY <1>1, FS_EmptySet DEF TypedInv, CountExact, Drained
  <1>. QED
    BY <1>2 DEF Counted

(* Every step of a request leaves the counter exact.                       *)
LEMMA RequestTyped ==
  ASSUME TypedInv, NEW r \in Requests, RequestStep(r)
  PROVE  /\ req' \in [Requests -> ServerRequest]
         /\ CountExact' /\ inflight' \in 0 .. Cardinality(Requests)
         /\ \A q \in Requests \ {r} : req'[q] = req[q]
  <1>0. req \in [Requests -> ServerRequest]
    BY DEF TypedInv, ServerTypeOK
  <1>1. /\ req' \in [Requests -> ServerRequest]
        /\ \A q \in Requests \ {r} : req'[q] = req[q]
    <2>1. PICK q \in ServerRequest : req' = [req EXCEPT ![r] = q]
      <3>1. CASE RequestBegins(r)
        BY <1>0, <3>1 DEF RequestBegins, ServerRequest
      <3>2. CASE RequestRejected(r) \/ ResponseSent(r)
        <4>1. \E b \in BOOLEAN : req' = [req EXCEPT ![r].conn = b]
          BY <3>2 DEF RequestRejected, ResponseSent
        <4>. QED
          BY <1>0, <4>1 DEF ServerRequest
      <3>3. CASE HandlerEnds(r)
        <4>. DEFINE ended == [req[r] EXCEPT !.handler = FALSE, !.counted = FALSE]
        <4>1. ended \in ServerRequest
          BY <1>0 DEF ServerRequest
        <4>2. req' = [req EXCEPT ![r] = ended]
          BY <1>0, <3>3 DEF HandlerEnds
        <4>. HIDE DEF ended
        <4>. QED
          BY <4>1, <4>2
      <3>4. CASE RequestTimesOut(r)
        <4>. DEFINE late == [req[r] EXCEPT !.counted = FALSE]
        <4>1. late \in ServerRequest
          BY <1>0 DEF ServerRequest
        <4>2. req' = [req EXCEPT ![r] = late]
          BY <1>0, <3>4 DEF RequestTimesOut
        <4>. HIDE DEF late
        <4>. QED
          BY <4>1, <4>2
      <3>5. CASE ClientGoes(r)
        <4>1. \/ req' = [req EXCEPT ![r].conn = FALSE, ![r].counted = FALSE]
              \/ req' = [req EXCEPT ![r].conn = FALSE]
          BY <3>5 DEF ClientGoes
        <4>2. CASE req' = [req EXCEPT ![r].conn = FALSE, ![r].counted = FALSE]
          <5>. DEFINE gone == [req[r] EXCEPT !.conn = FALSE, !.counted = FALSE]
          <5>1. gone \in ServerRequest
            BY <1>0 DEF ServerRequest
          <5>2. req' = [req EXCEPT ![r] = gone]
            BY <1>0, <4>2
          <5>. HIDE DEF gone
          <5>. QED
            BY <5>1, <5>2
        <4>3. CASE req' = [req EXCEPT ![r].conn = FALSE]
          <5>. DEFINE gone == [req[r] EXCEPT !.conn = FALSE]
          <5>1. gone \in ServerRequest
            BY <1>0 DEF ServerRequest
          <5>2. req' = [req EXCEPT ![r] = gone]
            BY <1>0, <4>3
          <5>. HIDE DEF gone
          <5>. QED
            BY <5>1, <5>2
        <4>. QED
          BY <4>1, <4>2, <4>3
      <3>. QED
        BY <3>1, <3>2, <3>3, <3>4, <3>5 DEF RequestStep
    <2>. QED
      BY <1>0, <2>1
  <1>2. \/ req'[r].counted = req[r].counted /\ UNCHANGED inflight
        \/ ~req[r].counted /\ req'[r].counted /\ inflight' = inflight + 1
        \/ req[r].counted /\ ~req'[r].counted /\ inflight' = inflight - 1
    <2>1. CASE RequestRejected(r) \/ ResponseSent(r)
      BY <1>0, <2>1 DEF RequestRejected, ResponseSent, ServerRequest
    <2>2. CASE RequestBegins(r)
      BY <1>0, <2>2 DEF RequestBegins, NoRequest, ServerRequest
    <2>3. CASE HandlerEnds(r) \/ RequestTimesOut(r) \/ ClientGoes(r)
      BY <1>0, <2>3
      DEF HandlerEnds, RequestTimesOut, ClientGoes, Uncount, StillCounted, TimerRuns, ServerRequest
    <2>. QED
      BY <2>1, <2>2, <2>3 DEF RequestStep
  <1>. QED
    BY <1>1, <1>2, CountKeeps

-----------------------------------------------------------------------------
(* The variables of listen(), of close() and of the signals hold values of *)
(* their kinds.                                                            *)
ListenTypeOK ==
  /\ listening \in {"no", "starting", "binding", "up", "failed"}
  /\ closeHook \in 0 .. MaxHooks

CloseTypeOK ==
  /\ server \in {"none", "open", "closing", "closed"}
  /\ draining \in BOOLEAN
  /\ closing \in {"none", "draining", "closing"}
  /\ drainExpired \in BOOLEAN
  /\ closeWait \in [Closers -> {"none", "pending", "resolved", "rejected"}]

SignalTypeOK ==
  /\ shuttingDown \in BOOLEAN
  /\ exitCode \in {0, 1}
  /\ exit \in {<< >>, <<0>>, <<1>>}

RequestTypeOK ==
  /\ req \in [Requests -> ServerRequest]
  /\ inflight \in 0 .. Cardinality(Requests)
  /\ CountExact

(* What the type invariant comes to.                                       *)
LEMMA TypedParts ==
  TypedInv <=> IInv /\ ListenTypeOK /\ CloseTypeOK /\ SignalTypeOK /\ RequestTypeOK
  BY DEF TypedInv, ServerTypeOK, ListenTypeOK, CloseTypeOK, SignalTypeOK, RequestTypeOK

(* A call of close() keeps the types.                                      *)
LEMMA CloseCalledTyped ==
  ASSUME CloseTypeOK, NEW w \in Closers, CloseCalled(w)
  PROVE  CloseTypeOK'
  <1>1. draining' \in BOOLEAN /\ drainExpired' \in BOOLEAN
    BY DEF CloseTypeOK, CloseCalled
  <1>2. server' \in {"none", "open", "closing", "closed"}
    BY DEF CloseTypeOK, CloseCalled
  <1>3. closing' \in {"none", "draining", "closing"}
    BY DEF CloseTypeOK, CloseCalled
  <1>4. closeWait' \in [Closers -> {"none", "pending", "resolved", "rejected"}]
    <2>1. \E o \in {"pending", "resolved"} : closeWait' = [closeWait EXCEPT ![w] = o]
      BY DEF CloseCalled
    <2>. QED
      BY <2>1 DEF CloseTypeOK
  <1>. QED
    BY <1>1, <1>2, <1>3, <1>4 DEF CloseTypeOK

(* A stop calls close() at most once in the step that begins it, for the   *)
(* attempt whose first hook it is.                                         *)
LEMMA StopMayClose ==
  ASSUME NEW c \in Callers, AppStop(c)
  PROVE  \/ UNCHANGED closeVars
         \/ \E w \in StopIds : CloseCalled(w) /\ stopInFlight' = w /\ StopBegin(c)
                               /\ RunsClose(stops'[w].todo)
  <1>1. CASE StopBegin(c) /\ CallNextHook(stopInFlight')
    <2>1. PICK w \in StopIds : stopInFlight' = w
      BY <1>1 DEF StopBegin
    <2>. QED
      BY <1>1, <2>1 DEF CallNextHook
  <1>. QED
    BY <1>1 DEF AppStop

(* No step but those of requests touches a request.                        *)
LEMMA OthersLeaveRequests ==
  ASSUME ServerNext
  PROVE  UNCHANGED requestVars \/ \E r \in Requests : RequestStep(r)
  <1>1. CASE ListenStep \/ CloseStep
    BY <1>1
    DEF ListenStep, ListenStarts, StartRejects, ServeCalled, BindFails, Bound, CloseStep,
        OwnerCloses, DrainEnds, ServerCloses, ServerCloseFails
  <1>2. CASE EntryStops \/ Signal \/ FatalError \/ Exits \/ RegisterHook
    BY <1>2 DEF EntryStops, Signal, FatalError, BeginShutdown, Exits, RegisterHook, Alone
  <1>3. CASE \E a \in StartIds : StartHookSettles(a)
    BY <1>3 DEF StartHookSettles, Alone
  <1>4. CASE \E a \in StopIds : StopSettles(a) \/ HookSettles(a)
    BY <1>4 DEF StopSettles, HookSettles, OtherHookSettles, CloseHookSettles, Alone
  <1>5. CASE \E c \in Callers : CallReturns(c)
    BY <1>5 DEF CallReturns, Alone
  <1>. QED
    BY <1>1, <1>2, <1>3, <1>4, <1>5 DEF ServerNext

(* Every step keeps the kinds of close()'s variables.                      *)
LEMMA CloseTyped ==
  ASSUME TypedInv, ServerNext
  PROVE  CloseTypeOK'
  <1>0. CloseTypeOK
    BY TypedParts
  <1>1. ASSUME UNCHANGED closeVars PROVE CloseTypeOK'
    BY <1>0, <1>1 DEF closeVars, CloseTypeOK
  <1>2. CASE EntryStops \/ Signal \/ FatalError
    <2>1. PICK c \in Callers : AppStop(c)
      BY <1>2, RolesAssumption DEF EntryStops, Signal, FatalError, BeginShutdown
    <2>. QED
      BY <1>0, <1>1, <2>1, StopMayClose, CloseCalledTyped DEF Closers
  <1>3. CASE OwnerCloses
    BY <1>0, <1>3, CloseCalledTyped DEF OwnerCloses, Closers
  <1>4. CASE DrainEnds
    BY <1>0, <1>4 DEF DrainEnds, CloseTypeOK
  <1>5. CASE ServerCloses \/ ServerCloseFails
    <2>1. closeWait' \in [Closers -> {"none", "pending", "resolved", "rejected"}]
      <3>1. \E o \in {"resolved", "rejected"} : Settle(o)
        BY <1>5 DEF ServerCloses, ServerCloseFails
      <3>. QED
        BY <1>0, <3>1 DEF Settle, CloseTypeOK
    <2>2. draining' \in BOOLEAN /\ drainExpired' \in BOOLEAN
      BY <1>0, <1>5 DEF ServerCloses, ServerCloseFails, CloseTypeOK
    <2>. QED
      BY <1>5, <2>1, <2>2 DEF ServerCloses, ServerCloseFails, CloseTypeOK
  <1>6. CASE Bound
    BY <1>0, <1>6 DEF Bound, CloseTypeOK
  <1>7. ASSUME NEW a \in StopIds, OtherHookSettles(a) PROVE CloseTypeOK'
    <2>1. UNCHANGED closeVars \/ CloseCalled(a)
      BY <1>7 DEF OtherHookSettles, CallNextHook
    <2>. QED
      BY <1>0, <1>1, <2>1, CloseCalledTyped DEF Closers
  <1>8. ASSUME NEW a \in StopIds, CloseHookSettles(a) PROVE CloseTypeOK'
    <2>1. draining' \in BOOLEAN /\ drainExpired' \in BOOLEAN
      BY <1>0, <1>8 DEF CloseHookSettles, CloseTypeOK
    <2>. QED
      BY <1>0, <1>8, <2>1 DEF CloseHookSettles, CloseTypeOK
  <1>9. ASSUME NEW r \in Requests, RequestStep(r) PROVE UNCHANGED closeVars
    BY <1>9 DEF RequestStep, RequestRejected, RequestBegins, HandlerEnds, RequestTimesOut,
                ClientGoes, ResponseSent
  <1>10. CASE \E a \in StartIds : StartHookSettles(a)
    BY <1>1, <1>10 DEF StartHookSettles, Alone
  <1>11. CASE \E a \in StopIds : StopSettles(a)
    BY <1>1, <1>11 DEF StopSettles, Alone
  <1>12. CASE \E c \in Callers : CallReturns(c)
    BY <1>1, <1>12 DEF CallReturns, Alone
  <1>13. CASE ListenStarts \/ StartRejects \/ ServeCalled \/ BindFails \/ RegisterHook \/ Exits
    BY <1>1, <1>13
    DEF ListenStarts, StartRejects, ServeCalled, BindFails, RegisterHook, Exits, Alone
  <1>. QED
    BY <1>1, <1>2, <1>3, <1>4, <1>5, <1>6, <1>7, <1>8, <1>9, <1>10, <1>11, <1>12, <1>13
    DEF ServerNext, ListenStep, CloseStep, HookSettles

(* Who touches the variables of listen() and of the signals, and how.      *)
LEMMA WhoListens ==
  ASSUME ServerNext
  PROVE  ListenStep \/ UNCHANGED <<listening, closeHook>>
  <1>1. CASE \E r \in Requests : RequestStep(r)
    BY <1>1 DEF RequestStep, RequestRejected, RequestBegins, HandlerEnds, RequestTimesOut,
                ClientGoes, ResponseSent
  <1>2. CASE CloseStep \/ EntryStops \/ Signal \/ FatalError \/ Exits \/ RegisterHook
    BY <1>2 DEF CloseStep, OwnerCloses, DrainEnds, ServerCloses, ServerCloseFails,
                EntryStops, Signal, FatalError, BeginShutdown, Exits, RegisterHook, Alone
  <1>3. CASE \E a \in StartIds : StartHookSettles(a)
    BY <1>3 DEF StartHookSettles, Alone
  <1>4. CASE \E a \in StopIds : StopSettles(a) \/ HookSettles(a)
    BY <1>4 DEF StopSettles, HookSettles, OtherHookSettles, CloseHookSettles, Alone
  <1>5. CASE \E c \in Callers : CallReturns(c)
    BY <1>5 DEF CallReturns, Alone
  <1>. QED
    BY <1>1, <1>2, <1>3, <1>4, <1>5 DEF ServerNext

(* The same for the variables of the signals.                              *)
LEMMA WhoSignals ==
  ASSUME ServerNext
  PROVE  Signal \/ FatalError \/ Exits \/ UNCHANGED signalVars
  <1>1. CASE \E r \in Requests : RequestStep(r)
    BY <1>1 DEF RequestStep, RequestRejected, RequestBegins, HandlerEnds, RequestTimesOut,
                ClientGoes, ResponseSent
  <1>2. CASE CloseStep \/ EntryStops \/ ListenStep \/ RegisterHook
    BY <1>2 DEF CloseStep, OwnerCloses, DrainEnds, ServerCloses, ServerCloseFails,
                EntryStops, ListenStep, ListenStarts, StartRejects, ServeCalled, BindFails,
                Bound, RegisterHook, Alone
  <1>3. CASE \E a \in StartIds : StartHookSettles(a)
    BY <1>3 DEF StartHookSettles, Alone
  <1>4. CASE \E a \in StopIds : StopSettles(a) \/ HookSettles(a)
    BY <1>4 DEF StopSettles, HookSettles, OtherHookSettles, CloseHookSettles, Alone
  <1>5. CASE \E c \in Callers : CallReturns(c)
    BY <1>5 DEF CallReturns, Alone
  <1>. QED
    BY <1>1, <1>2, <1>3, <1>4, <1>5 DEF ServerNext

(* The initial state satisfies the type invariant.                         *)
LEMMA InitTyped == ServerInit => TypedInv
  <1>. SUFFICES ASSUME ServerInit PROVE TypedInv
    OBVIOUS
  <1>1. IInv
    BY InitIInv DEF ServerInit
  <1>2. ListenTypeOK
    BY HooksAssumption DEF ServerInit, ListenTypeOK
  <1>3. CloseTypeOK
    <2>1. draining \in BOOLEAN /\ drainExpired \in BOOLEAN
      BY DEF ServerInit
    <2>. QED
      BY <2>1 DEF ServerInit, CloseTypeOK
  <1>4. SignalTypeOK
    <2>1. shuttingDown \in BOOLEAN
      BY DEF ServerInit
    <2>. QED
      BY <2>1 DEF ServerInit, SignalTypeOK
  <1>5. RequestTypeOK
    <2>1. req \in [Requests -> ServerRequest]
      BY DEF ServerInit, ServerRequest, NoRequest
    <2>2. Counted = {} /\ inflight = 0
      BY DEF ServerInit, Counted, NoRequest
    <2>3. Cardinality(Requests) \in Nat
      BY FS_CardinalityType, OptionsAssumption
    <2>. QED
      BY <2>1, <2>2, <2>3, FS_EmptySet DEF RequestTypeOK, CountExact
  <1>. QED
    BY <1>1, <1>2, <1>3, <1>4, <1>5, TypedParts

(* Every step preserves the type invariant.                                *)
LEMMA NextTyped == TypedInv /\ [ServerNext]_serverVars => TypedInv'
  <1>. SUFFICES ASSUME TypedInv, [ServerNext]_serverVars PROVE TypedInv'
    OBVIOUS
  <1>0. /\ IInv /\ TypeOK
        /\ ListenTypeOK /\ CloseTypeOK /\ SignalTypeOK /\ RequestTypeOK
    BY TypedParts DEF IInv
  <1>1. CASE ServerNext
    <2>1. IInv'
      BY <1>0, <1>1, StepIsStep, NextIInv
    <2>2. ListenTypeOK'
      <3>1. CASE UNCHANGED <<listening, closeHook>>
        BY <1>0, <3>1 DEF ListenTypeOK
      <3>2. CASE ListenStep
        <4>1. nStop' \in 0 .. MaxHooks
          BY <2>1 DEF IInv, TypeOK
        <4>. QED
          BY <1>0, <3>2, <4>1
          DEF ListenStep, ListenStarts, StartRejects, ServeCalled, BindFails, Bound, ListenTypeOK
      <3>. QED
        BY <1>1, <3>1, <3>2, WhoListens
    <2>3. CloseTypeOK'
      BY <1>1, CloseTyped
    <2>4. SignalTypeOK'
      <3>1. CASE UNCHANGED signalVars
        BY <1>0, <3>1 DEF SignalTypeOK, signalVars
      <3>2. CASE Signal \/ FatalError
        <4>1. shuttingDown' \in BOOLEAN
          BY <3>2 DEF Signal, FatalError, BeginShutdown
        <4>. QED
          BY <1>0, <3>2, <4>1 DEF Signal, FatalError, BeginShutdown, SignalTypeOK
      <3>3. CASE Exits
        <4>1. shuttingDown' \in BOOLEAN /\ exitCode' \in {0, 1}
          BY <1>0, <3>3 DEF Exits, SignalTypeOK
        <4>2. ExitStatus(calls[Signals].out) \in {0, 1}
          BY <1>0 DEF ExitStatus, SignalTypeOK
        <4>. QED
          BY <3>3, <4>1, <4>2 DEF Exits, SignalTypeOK
      <3>. QED
        BY <1>1, <3>1, <3>2, <3>3, WhoSignals
    <2>5. RequestTypeOK'
      <3>1. CASE UNCHANGED requestVars
        BY <1>0, <3>1 DEF RequestTypeOK, requestVars, CountExact, Counted
      <3>2. CASE \E r \in Requests : RequestStep(r)
        BY <3>2, RequestTyped DEF RequestTypeOK
      <3>. QED
        BY <1>1, <3>1, <3>2, OthersLeaveRequests
    <2>. QED
      BY <2>1, <2>2, <2>3, <2>4, <2>5
      DEF TypedInv, ServerTypeOK, ListenTypeOK, CloseTypeOK, SignalTypeOK, RequestTypeOK
  <1>2. CASE UNCHANGED serverVars
    <2>1. IInv'
      BY <1>0, <1>2, NextIInv DEF serverVars, vars
    <2>2. ListenTypeOK' /\ CloseTypeOK' /\ SignalTypeOK' /\ RequestTypeOK'
      BY <1>0, <1>2
      DEF serverVars, closeVars, signalVars, requestVars, ListenTypeOK, CloseTypeOK,
          SignalTypeOK, RequestTypeOK, CountExact, Counted
    <2>. QED
      BY <2>1, <2>2
      DEF TypedInv, ServerTypeOK, ListenTypeOK, CloseTypeOK, SignalTypeOK, RequestTypeOK
  <1>. QED
    BY <1>1, <1>2

(* Types and the exact counter hold in every state.                        *)
THEOREM ServerTyped == ServerSpec => []TypedInv
  BY InitTyped, NextTyped, PTL DEF ServerSpec

(* Every variable of listen(), close(), the fetch handler and the signals  *)
(* holds a value of its kind: the counter of requests, among them, never   *)
(* goes below 0.                                                           *)
THEOREM ServerTypeCorrect == ServerSpec => []ServerTypeOK
  <1>1. TypedInv => ServerTypeOK
    BY DEF TypedInv
  <1>. QED
    BY <1>1, ServerTyped, PTL

(* The step that closes the server finds no request counted, or the time   *)
(* for the drain is up.                                                    *)
LEMMA CloseBegins ==
  ASSUME TypedInv, ServerNext, closing # "closing", closing' = "closing"
  PROVE  drainExpired' \/ Drained
  <1>1. ASSUME NEW w, CloseCalled(w) PROVE drainExpired' \/ Drained
    BY <1>1 DEF CloseCalled
  <1>2. CASE EntryStops \/ Signal \/ FatalError
    <2>1. PICK c \in Callers : AppStop(c)
      BY <1>2, RolesAssumption DEF EntryStops, Signal, FatalError, BeginShutdown
    <2>. QED
      BY <1>1, <2>1, StopMayClose DEF closeVars
  <1>3. CASE CloseStep
    BY <1>1, <1>3 DEF CloseStep, OwnerCloses, DrainEnds, ServerCloses, ServerCloseFails
  <1>4. ASSUME NEW a \in StopIds, HookSettles(a) PROVE drainExpired' \/ Drained
    BY <1>1, <1>4 DEF HookSettles, OtherHookSettles, CloseHookSettles, CallNextHook, closeVars
  <1>5. CASE ListenStep \/ RegisterHook \/ Exits
    BY <1>5 DEF ListenStep, ListenStarts, StartRejects, ServeCalled, BindFails, Bound,
                RegisterHook, Exits, Alone, closeVars
  <1>6. CASE \E r \in Requests : RequestStep(r)
    BY <1>6 DEF RequestStep, RequestRejected, RequestBegins, HandlerEnds, RequestTimesOut,
                ClientGoes, ResponseSent, closeVars
  <1>7. CASE \E a \in StartIds : StartHookSettles(a)
    BY <1>7 DEF StartHookSettles, Alone, closeVars
  <1>8. CASE \E a \in StopIds : StopSettles(a)
    BY <1>8 DEF StopSettles, Alone, closeVars
  <1>9. CASE \E c \in Callers : CallReturns(c)
    BY <1>9 DEF CallReturns, Alone, closeVars
  <1>. QED
    BY <1>2, <1>3, <1>4, <1>5, <1>6, <1>7, <1>8, <1>9 DEF ServerNext

(* The server is told to close only when all it took has been answered or  *)
(* given up, or when the drain has run out of time: with any number of     *)
(* requests, timeouts and disconnects.                                     *)
THEOREM DrainWaits == ServerSpec => DrainWaitsForRequests
  <1>1. TypedInv /\ [ServerNext]_serverVars =>
          [closing # "closing" /\ closing' = "closing" =>
             drainExpired' \/ \A r \in Requests : ~req[r].counted]_serverVars
    BY CloseBegins, NoneCounted
  <1>. QED
    BY <1>1, ServerTyped, PTL DEF ServerSpec, DrainWaitsForRequests

-----------------------------------------------------------------------------
(* From here on signals and stop() come when listen() is done.             *)
Late == ~SignalsEarly

(* The steps of an app that does not listen yet.                           *)
LEMMA BeforeListening ==
  ASSUME Late, TypedInv, ListenInv, ServerNext, listening # "up"
  PROVE  /\ UNCHANGED <<stops, signalVars, draining, closing, drainExpired, closeWait>>
         /\ \/ ListenStep
            \/ RegisterHook
            \/ UNCHANGED <<listening, closeHook, server>> /\ \E a \in StartIds : StartStep(a)
            \/ UNCHANGED <<listening, closeHook, server>> /\ \E c \in Callers : CallEnds(c)
            \/ UNCHANGED <<listening, closeHook, server, vars>>
  <1>1. CASE ListenStep
    BY <1>1
    DEF ListenStep, ListenStarts, StartRejects, ServeCalled, BindFails, Bound, closeVars,
        vars, OnStop, StartRefused, StartJoin, StartBegin, StartAtOnce
  <1>2. CASE RegisterHook
    BY <1>2 DEF RegisterHook, Alone, OnStop, closeVars
  <1>3. CASE \E a \in StartIds : StartHookSettles(a)
    BY <1>3 DEF StartHookSettles, Alone, closeVars, StartStep, StartHookReturns, StartHookFails
  <1>4. CASE \E c \in Callers : CallReturns(c)
    BY <1>4 DEF CallReturns, Alone, closeVars, CallEnds, StartCallEnds, StopCallEnds
  <1>5. CASE \E r \in Requests : RequestStep(r)
    BY <1>5 DEF RequestStep, RequestRejected, RequestBegins, HandlerEnds, RequestTimesOut,
                ClientGoes, ResponseSent, closeVars, vars
  <1>6. ~(EntryStops \/ Signal \/ FatalError \/ Exits \/ CloseStep)
    BY DEF EntryStops, Signal, FatalError, BeginShutdown, Exits, CloseStep, OwnerCloses,
           DrainEnds, ServerCloses, ServerCloseFails, ListenInv, Late
  <1>7. ASSUME NEW a \in StopIds, StopSettles(a) \/ HookSettles(a) PROVE FALSE
    BY <1>7 DEF StopSettles, HookSettles, OtherHookSettles, CloseHookSettles, StopStep,
                StopTimesOut, StopRaceEnds, StopReleases, StopHookReturns, StopHookFails,
                ListenInv
  <1>. QED
    BY <1>1, <1>2, <1>3, <1>4, <1>5, <1>6, <1>7 DEF ServerNext

(* The steps of one that listens: the entry does not call start() again.   *)
LEMMA WhileListening ==
  ASSUME TypedInv, StartInv, ServerNext, listening = "up"
  PROVE  /\ UNCHANGED <<listening, closeHook, starts>>
         /\ ~started => ~started'
         /\ nStop' = nStop \/ nStop' = nStop + 1
  <1>1. CASE ListenStep
    BY <1>1 DEF ListenStep, ListenStarts, StartRejects, ServeCalled, BindFails, Bound
  <1>2. ASSUME NEW c \in Callers, AppStop(c)
        PROVE  UNCHANGED <<started, starts, nStop>>
    BY <1>2 DEF AppStop, StopIgnored, StopJoin, StopBegin, appVars
  <1>3. CASE EntryStops \/ Signal \/ FatalError
    BY <1>2, <1>3, RolesAssumption DEF EntryStops, Signal, FatalError, BeginShutdown
  <1>4. CASE RegisterHook
    BY <1>4 DEF RegisterHook, OnStop, Alone
  <1>5. ASSUME NEW a \in StartIds, StartHookSettles(a) PROVE FALSE
    BY <1>5 DEF StartHookSettles, StartStep, StartHookReturns, StartHookFails, StartInv
  <1>6. CASE \E a \in StopIds : StopSettles(a) \/ HookSettles(a)
    BY <1>6 DEF StopSettles, Alone, HookSettles, OtherHookSettles, CloseHookSettles, StopStep,
                StopTimesOut, StopRaceEnds, StopReleases, StopHookReturns, StopHookFails, appVars
  <1>7. CASE \E c \in Callers : CallReturns(c)
    BY <1>7 DEF CallReturns, Alone, CallEnds, StartCallEnds, StopCallEnds, appVars
  <1>8. CASE CloseStep \/ Exits
    BY <1>8 DEF CloseStep, OwnerCloses, DrainEnds, ServerCloses, ServerCloseFails, Exits, vars
  <1>9. CASE \E r \in Requests : RequestStep(r)
    BY <1>9 DEF RequestStep, RequestRejected, RequestBegins, HandlerEnds, RequestTimesOut,
                ClientGoes, ResponseSent, vars
  <1>. QED
    BY <1>1, <1>3, <1>4, <1>5, <1>6, <1>7, <1>8, <1>9 DEF ServerNext

(* What a step may do to the server and to close().                        *)
LEMMA CloseMoves ==
  ASSUME TypedInv, ServerNext
  PROVE  \/ UNCHANGED closeVars
         \/ \E w \in Closers : CloseCalled(w)
         \/ DrainEnds \/ ServerCloses \/ ServerCloseFails \/ Bound
         \/ \E a \in StopIds : CloseHookSettles(a)
  <1>1. CASE EntryStops \/ Signal \/ FatalError
    <2>1. PICK c \in Callers : AppStop(c)
      BY <1>1, RolesAssumption DEF EntryStops, Signal, FatalError, BeginShutdown
    <2>. QED
      BY <2>1, StopMayClose DEF Closers
  <1>2. CASE OwnerCloses
    BY <1>2 DEF OwnerCloses, Closers
  <1>3. ASSUME NEW a \in StopIds, OtherHookSettles(a)
        PROVE  UNCHANGED closeVars \/ CloseCalled(a)
    BY <1>3 DEF OtherHookSettles, CallNextHook
  <1>4. CASE ListenStarts \/ StartRejects \/ ServeCalled \/ BindFails \/ RegisterHook \/ Exits
    BY <1>4
    DEF ListenStarts, StartRejects, ServeCalled, BindFails, RegisterHook, Exits, Alone
  <1>5. CASE \E r \in Requests : RequestStep(r)
    BY <1>5 DEF RequestStep, RequestRejected, RequestBegins, HandlerEnds, RequestTimesOut,
                ClientGoes, ResponseSent
  <1>6. CASE \E a \in StartIds : StartHookSettles(a)
    BY <1>6 DEF StartHookSettles, Alone
  <1>7. CASE \E a \in StopIds : StopSettles(a)
    BY <1>7 DEF StopSettles, Alone
  <1>8. CASE \E c \in Callers : CallReturns(c)
    BY <1>8 DEF CallReturns, Alone
  <1>. QED
    BY <1>1, <1>2, <1>3, <1>4, <1>5, <1>6, <1>7, <1>8
    DEF ServerNext, ListenStep, CloseStep, HookSettles, Closers

(* A closed server stays closed.                                           *)
LEMMA StaysClosed ==
  ASSUME TypedInv, ListenInv, CloseInv, ServerNext, closed
  PROVE  closed'
  BY CloseMoves
  DEF closed, closeVars, CloseCalled, DrainEnds, ServerCloses, ServerCloseFails, Bound,
      CloseHookSettles, CloseInv, ListenInv

-----------------------------------------------------------------------------
(* The hooks that a stop is to run are numbered down to 1, and so are      *)
(* those that are left after the first of them.                            *)
LEMMA SnapshotCountsDown ==
  ASSUME TypeOK
  PROVE  /\ Snapshot \in Seq(Hooks) /\ Len(Snapshot) = nStop
         /\ CountsDown(Snapshot)
  <1>1. nStop \in Nat
    BY HooksAssumption DEF TypeOK
  <1>2. Snapshot \in Seq(Hooks) /\ Len(Snapshot) = nStop
    BY SnapshotType DEF TypeOK
  <1>. QED
    BY <1>1, <1>2 DEF CountsDown, Snapshot

(* The first of them is their number.                                      *)
LEMMA HeadIsNumber ==
  ASSUME NEW todo \in Seq(Hooks), todo # << >>, CountsDown(todo)
  PROVE  /\ Head(todo) = Len(todo)
         /\ CountsDown(Tail(todo)) /\ Len(Tail(todo)) = Len(todo) - 1
  <1>1. Len(todo) \in Nat /\ Len(todo) # 0
    BY EmptySeq
  <1>2. Len(Tail(todo)) = Len(todo) - 1 /\ \A i \in 1 .. Len(todo) - 1 : Tail(todo)[i] = todo[i + 1]
    OBVIOUS
  <1>. QED
    BY <1>1, <1>2 DEF CountsDown

(* An attempt that a step does not touch: what it knows of the server and  *)
(* the flag stays true.                                                    *)
LEMMA AttemptStill ==
  ASSUME Late, ServerInv, ServerNext, NEW a \in StopIds, stops'[a] = stops[a]
  PROVE  AttemptOK(a)'
  <1>1. CASE listening # "up"
    <2>1. stops'[a].run = "idle" /\ stops'[a].outer = "idle"
      BY <1>1 DEF ServerInv, ListenInv
    <2>. QED
      BY <2>1 DEF AttemptOK
  <1>2. CASE listening = "up"
    <2>1. UNCHANGED closeHook /\ (~started => ~started')
      BY <1>2, WhileListening DEF ServerInv
    <2>2. closed => closed'
      BY StaysClosed DEF ServerInv
    <2>3. AttemptOK(a)
      BY DEF ServerInv, AttemptInv
    <2>. QED
      BY <2>1, <2>2, <2>3 DEF AttemptOK, CountsDown
  <1>. QED
    BY <1>1, <1>2

(* A stop that begins when the app listens has close() among its hooks.    *)
LEMMA AttemptBegins ==
  ASSUME Late, ServerInv, ServerNext, listening = "up", NEW c \in Callers, StopBegin(c)
  PROVE  AttemptInv'
  <1>0. TypeOK
    BY DEF ServerInv, TypedInv, IInv
  <1>1. PICK a \in StopIds :
          stops' = [stops EXCEPT ![a] = [run   |-> IF nStop = 0 THEN "ok" ELSE "hook",
                                         outer |-> "racing",
                                         todo  |-> Snapshot]]
    BY DEF StopBegin
  <1>2. closeHook \in 1 .. nStop /\ UNCHANGED closeHook /\ nStop \in Nat
    BY WhileListening, HooksAssumption, <1>0 DEF ServerInv, ListenInv, TypeOK
  <1>3. stops'[a].run = "hook" /\ stops'[a].outer = "racing" /\ stops'[a].todo = Snapshot
    BY <1>0, <1>1, <1>2 DEF TypeOK
  <1>4. AttemptOK(a)'
    BY <1>0, <1>2, <1>3, SnapshotCountsDown DEF AttemptOK, CountsDown
  <1>5. ASSUME NEW b \in StopIds \ {a} PROVE AttemptOK(b)'
    BY <1>0, <1>1, <1>5, AttemptStill DEF TypeOK
  <1>. QED
    BY <1>4, <1>5 DEF AttemptInv

(* A stop hook that is not close(), or close() when it has resolved, gives *)
(* way to the next one.                                                    *)
LEMMA AttemptGoesOn ==
  ASSUME Late, ServerInv, ServerNext, NEW a \in StopIds, StopHookReturns(a),
         RunsClose(stops[a].todo) => closed
  PROVE  AttemptInv'
  <1>0. TypeOK /\ IInv
    BY DEF ServerInv, TypedInv, IInv
  <1>. DEFINE todo == stops[a].todo
  <1>1. /\ todo \in Seq(Hooks) /\ todo # << >>
        /\ stops[a].outer \in {"racing", "timedout"}
        /\ stops[a].run = "hook"
    BY <1>0 DEF StopHookReturns, TypeOK, StopAttempt, IInv, StopHooksInAttempt, StopHookRunning
  <1>2. listening = "up"
    BY <1>1 DEF ServerInv, ListenInv
  <1>3. UNCHANGED closeHook /\ closeHook \in Nat \ {0}
    BY <1>2, <1>0, WhileListening, HooksAssumption DEF ServerInv, ListenInv, TypeOK
  <1>4. CountsDown(todo) /\ (Len(todo) < closeHook => closed)
    BY <1>1 DEF ServerInv, AttemptInv, AttemptOK
  <1>5. /\ Head(todo) = Len(todo) /\ Len(todo) \in Nat
        /\ CountsDown(Tail(todo)) /\ Len(Tail(todo)) = Len(todo) - 1
    BY <1>1, <1>4, HeadIsNumber
  <1>6. Len(todo) - 1 < closeHook => closed
    <2>1. Head(todo) = closeHook => closed
      BY <1>1, <1>3 DEF RunsClose
    <2>. QED
      BY <1>3, <1>4, <1>5, <2>1
  <1>7. closed => closed'
    BY StaysClosed DEF ServerInv
  <1>8. /\ stops'[a].todo = Tail(todo)
        /\ stops'[a].outer = stops[a].outer
        /\ stops'[a].run = IF Len(todo) = 1 THEN "ok" ELSE "hook"
    BY <1>0 DEF StopHookReturns, TypeOK, StopAttempt
  <1>9. AttemptOK(a)'
    <2>1. (stops[a].run = "hook" => CountsDown(stops[a].todo))'
      BY <1>5, <1>8 DEF CountsDown
    <2>2. (stops[a].run = "hook" => (Len(stops[a].todo) < closeHook => closed))'
      BY <1>3, <1>5, <1>6, <1>7, <1>8
    <2>3. (stops[a].run = "ok" => closed)'
      <3>1. Len(todo) = 1 => closed
        BY <1>3, <1>5, <1>6
      <3>2. stops'[a].run = "ok" => Len(todo) = 1
        BY <1>8
      <3>. QED
        BY <3>1, <3>2, <1>7
    <2>4. (stops[a].outer \in {"stopped", "resolved"} => ~started)'
      BY <1>1, <1>8
    <2>. QED
      BY <2>1, <2>2, <2>3, <2>4 DEF AttemptOK
  <1>10. ASSUME NEW b \in StopIds \ {a} PROVE AttemptOK(b)'
    BY <1>0, <1>10, AttemptStill DEF StopHookReturns, TypeOK
  <1>. QED
    BY <1>9, <1>10 DEF AttemptInv

(* An attempt whose hooks fail, or that goes on to its end.                *)
LEMMA AttemptEnds ==
  ASSUME Late, ServerInv, ServerNext, NEW a \in StopIds, StopHookFails(a) \/ StopStep(a)
  PROVE  AttemptInv'
  <1>0. TypeOK /\ IInv
    BY DEF ServerInv, TypedInv, IInv
  <1>1. listening = "up"
    BY DEF ServerInv, ListenInv, StopHookFails, StopStep, StopTimesOut, StopRaceEnds, StopReleases
  <1>2. UNCHANGED closeHook /\ (~started => ~started')
    BY <1>1, WhileListening DEF ServerInv
  <1>3. closed => closed'
    BY StaysClosed DEF ServerInv
  <1>4. AttemptOK(a)
    BY DEF ServerInv, AttemptInv
  <1>5. /\ \/ stops'[a].run = stops[a].run /\ stops'[a].todo = stops[a].todo
           \/ stops'[a].run = "err"
        /\ stops'[a].outer \in {"stopped", "resolved"} => ~started'
    <2>1. CASE StopHookFails(a)
      <3>1. stops[a].outer \in {"racing", "timedout"}
        BY <1>0, <2>1 DEF StopHookFails, IInv, StopHooksInAttempt, StopHookRunning
      <3>. QED
        BY <1>0, <2>1, <3>1 DEF StopHookFails, TypeOK, StopAttempt
    <2>2. CASE StopTimesOut(a)
      BY <1>0, <2>2 DEF StopTimesOut, TypeOK, StopAttempt
    <2>3. CASE StopRaceEnds(a)
      BY <1>0, <2>3 DEF StopRaceEnds, TypeOK, StopAttempt
    <2>4. CASE StopReleases(a)
      <3>1. stops'[a].outer = "resolved" => stops[a].outer = "stopped"
        BY <1>0, <2>4 DEF StopReleases, TypeOK, StopAttempt
      <3>. QED
        BY <1>0, <1>2, <1>4, <2>4, <3>1 DEF StopReleases, TypeOK, StopAttempt, AttemptOK
    <2>. QED
      BY <2>1, <2>2, <2>3, <2>4 DEF StopStep
  <1>6. AttemptOK(a)'
    BY <1>2, <1>3, <1>4, <1>5 DEF AttemptOK, CountsDown
  <1>7. ASSUME NEW b \in StopIds \ {a} PROVE stops'[b] = stops[b]
    BY <1>0, <1>7 DEF StopHookFails, StopStep, StopTimesOut, StopRaceEnds, StopReleases, TypeOK
  <1>. QED
    BY <1>6, <1>7, AttemptStill DEF AttemptInv

(* Every step keeps what stop attempts know.                               *)
LEMMA AttemptNext ==
  ASSUME Late, ServerInv, ServerNext
  PROVE  AttemptInv'
  <1>0. ASSUME UNCHANGED stops PROVE AttemptInv'
    BY <1>0, AttemptStill DEF AttemptInv
  <1>1. CASE EntryStops \/ Signal \/ FatalError
    <2>1. listening = "up" /\ \E c \in Callers : AppStop(c)
      BY <1>1, RolesAssumption DEF EntryStops, Signal, FatalError, BeginShutdown, Late
    <2>2. PICK c \in Callers : AppStop(c)
      BY <2>1
    <2>3. StopBegin(c) \/ UNCHANGED stops
      BY <2>2 DEF AppStop, StopIgnored, StopJoin
    <2>. QED
      BY <1>0, <2>1, <2>3, AttemptBegins
  <1>2. ASSUME NEW a \in StopIds, OtherHookSettles(a) PROVE AttemptInv'
    BY <1>2, AttemptGoesOn, AttemptEnds DEF OtherHookSettles
  <1>3. ASSUME NEW a \in StopIds, CloseHookSettles(a) PROVE AttemptInv'
    <2>1. closeWait[a] = "resolved" => closed
      BY DEF ServerInv, CloseInv, Closers
    <2>. QED
      BY <1>3, <2>1, AttemptGoesOn, AttemptEnds DEF CloseHookSettles
  <1>4. ASSUME NEW a \in StopIds, StopSettles(a) PROVE AttemptInv'
    BY <1>4, AttemptEnds DEF StopSettles
  <1>5. CASE ListenStep \/ RegisterHook \/ CloseStep \/ Exits
    BY <1>0, <1>5
    DEF ListenStep, ListenStarts, StartRejects, ServeCalled, BindFails, Bound, RegisterHook,
        CloseStep, OwnerCloses, DrainEnds, ServerCloses, ServerCloseFails, Exits, vars,
        OnStop, StartRefused, StartJoin, StartBegin, StartAtOnce
  <1>6. CASE \E a \in StartIds : StartHookSettles(a)
    BY <1>0, <1>6 DEF StartHookSettles, StartStep, StartHookReturns, StartHookFails
  <1>7. CASE \E c \in Callers : CallReturns(c)
    BY <1>0, <1>7 DEF CallReturns, CallEnds, StartCallEnds, StopCallEnds
  <1>8. CASE \E r \in Requests : RequestStep(r)
    BY <1>0, <1>8 DEF RequestStep, RequestRejected, RequestBegins, HandlerEnds, RequestTimesOut,
                      ClientGoes, ResponseSent, vars
  <1>. QED
    BY <1>1, <1>2, <1>3, <1>4, <1>5, <1>6, <1>7, <1>8 DEF ServerNext, HookSettles

-----------------------------------------------------------------------------
(* Every step keeps what is known of a server that does not listen yet.    *)
LEMMA ListenNext ==
  ASSUME Late, ServerInv, ServerNext
  PROVE  ListenInv'
  <1>0. /\ TypedInv /\ ListenInv /\ StartInv /\ CloseInv
        /\ nStop \in Nat /\ closeHook \in Nat
    BY HooksAssumption DEF ServerInv, TypedInv, IInv, TypeOK, ServerTypeOK
  <1>1. CASE listening # "up" /\ ~Bound
    <2>1. listening' # "up" /\ UNCHANGED <<closeHook, server>>
      BY <1>0, <1>1, BeforeListening
      DEF ListenStep, ListenStarts, StartRejects, ServeCalled, BindFails, RegisterHook, Alone,
          closeVars
    <2>2. UNCHANGED <<stops, closing, shuttingDown>>
      BY <1>0, <1>1, BeforeListening DEF signalVars
    <2>. QED
      BY <1>0, <1>1, <2>1, <2>2 DEF ListenInv
  <1>2. CASE Bound
    BY <1>0, <1>2 DEF Bound, OnStop, ListenInv
  <1>3. CASE listening = "up"
    <2>1. /\ UNCHANGED <<listening, closeHook>>
          /\ nStop' = nStop \/ nStop' = nStop + 1
      BY <1>0, <1>3, WhileListening
    <2>2. closeHook \in 1 .. nStop'
      BY <1>0, <1>3, <2>1 DEF ListenInv
    <2>3. server' # "none"
      BY <1>0, <1>3, CloseMoves
      DEF closeVars, CloseCalled, DrainEnds, ServerCloses, ServerCloseFails, Bound,
          CloseHookSettles, ListenInv
    <2>. QED
      BY <1>3, <2>1, <2>2, <2>3 DEF ListenInv
  <1>. QED
    BY <1>1, <1>2, <1>3

(* Every step keeps what is known of the server and of close().            *)
LEMMA CloseNext ==
  ASSUME Late, ServerInv, ServerNext
  PROVE  CloseInv'
  <1>0. /\ TypedInv /\ ListenInv /\ CloseInv
        /\ req \in [Requests -> ServerRequest]
        /\ closeWait \in [Closers -> {"none", "pending", "resolved", "rejected"}]
    BY DEF ServerInv, TypedInv, ServerTypeOK
  <1>1. CASE UNCHANGED requestVars
    <2>1. CASE UNCHANGED closeVars
      BY <1>0, <1>1, <2>1 DEF requestVars, closeVars, CloseInv, closed
    <2>2. ASSUME NEW w \in Closers, CloseCalled(w), ListenInv', listening' = "up"
          PROVE  CloseInv'
      <3>1. CASE closed
        BY <1>0, <1>1, <2>2, <3>1 DEF requestVars, CloseCalled, CloseInv, closed
      <3>2. CASE ~closed /\ closeInFlight
        BY <1>0, <1>1, <2>2, <3>2 DEF requestVars, CloseCalled, CloseInv, closed
      <3>3. CASE ~closed /\ ~closeInFlight
        <4>1. server = "open" \/ server = "none"
          BY <1>0, <3>3 DEF TypedInv, ServerTypeOK, CloseInv, closed, closeInFlight
        <4>2. server' # "none" /\ server # "closed" /\ server # "closing"
          BY <2>2, <4>1 DEF ListenInv
        <4>3. Drained => \A r \in Requests : ~req[r].counted
          BY <1>0, NoneCounted
        <4>. QED
          BY <1>0, <1>1, <2>2, <3>3, <4>1, <4>2, <4>3
          DEF requestVars, CloseCalled, CloseInv, closed, closeInFlight
      <3>. QED
        BY <3>1, <3>2, <3>3
    <2>3. ASSUME NEW w \in Closers, CloseCalled(w) PROVE CloseInv'
      <3>1. ListenInv'
        BY ListenNext
      <3>2. CASE listening' = "up"
        BY <2>2, <2>3, <3>1, <3>2
      <3>3. CASE listening' # "up"
        <4>1. UNCHANGED closeVars
          <5>1. listening # "up"
            BY <1>0, <3>3, WhileListening DEF ServerInv
          <5>2. UNCHANGED <<draining, closing, drainExpired, closeWait>>
            BY <1>0, <5>1, BeforeListening
          <5>3. UNCHANGED server
            BY <1>0, <3>1, <3>3, <5>1 DEF ListenInv
          <5>. QED
            BY <5>2, <5>3 DEF closeVars
        <4>. QED
          BY <2>1, <4>1
      <3>. QED
        BY <3>2, <3>3
    <2>4. CASE DrainEnds
      <3>1. Drained => \A r \in Requests : ~req[r].counted
        BY <1>0, NoneCounted
      <3>. QED
        BY <1>0, <1>1, <2>4, <3>1 DEF requestVars, DrainEnds, CloseInv, closed
    <2>5. CASE ServerCloses
      BY <1>0, <1>1, <2>5 DEF requestVars, ServerCloses, CloseInv, closed, Settle
    <2>6. CASE ServerCloseFails
      <3>1. ~closed
        BY <1>0, <2>6 DEF ServerCloseFails, CloseInv, closed
      <3>. QED
        BY <1>0, <1>1, <2>6, <3>1 DEF requestVars, ServerCloseFails, CloseInv, closed, Settle
    <2>7. CASE Bound
      <3>1. ~closed /\ closing = "none"
        BY <1>0, <2>7 DEF Bound, ListenInv, closed
      <3>. QED
        BY <1>0, <1>1, <2>7, <3>1 DEF requestVars, Bound, CloseInv, closed
    <2>8. CASE \E a \in StopIds : CloseHookSettles(a)
      BY <1>0, <1>1, <2>8 DEF requestVars, CloseHookSettles, CloseInv, closed
    <2>. QED
      BY <1>0, <2>1, <2>3, <2>4, <2>5, <2>6, <2>7, <2>8, CloseMoves
  <1>2. ASSUME NEW r \in Requests, RequestStep(r) PROVE CloseInv'
    <2>1. UNCHANGED closeVars
      BY <1>2 DEF RequestStep, RequestRejected, RequestBegins, HandlerEnds, RequestTimesOut,
                  ClientGoes, ResponseSent
    <2>2. /\ req' \in [Requests -> ServerRequest]
          /\ \A q \in Requests \ {r} : req'[q] = req[q]
      BY <1>0, <1>2, RequestTyped
    <2>3. server # "open" => (req'[r].conn => req[r].conn) /\ (req'[r].counted => req[r].counted)
      BY <1>0, <1>2
      DEF RequestStep, RequestRejected, RequestBegins, HandlerEnds, RequestTimesOut,
          ClientGoes, ResponseSent, ServerRequest
    <2>4. server # "open" => \A q \in Requests :
            (req'[q].conn => req[q].conn) /\ (req'[q].counted => req[q].counted)
      BY <2>2, <2>3
    <2>. QED
      BY <1>0, <2>1, <2>4 DEF closeVars, CloseInv, closed
  <1>. QED
    BY <1>1, <1>2, OthersLeaveRequests

-----------------------------------------------------------------------------
(* Start attempts resolve with the flag, which nothing takes down before   *)
(* the server listens.                                                     *)
LEMMA StartsResolve ==
  ASSUME ServerInv, ServerNext, listening # "up", Late
  PROVE  /\ started => started'
         /\ \A a \in StartIds : starts'[a].pc = "resolved" => started'
  <1>0. TypeOK /\ ListenInv /\ TypedInv
    BY DEF ServerInv, TypedInv, IInv
  <1>1. \A a \in StartIds : starts[a].pc = "resolved" => started
    BY DEF ServerInv, StartInv
  <1>2. CASE UNCHANGED <<starts, started>>
    BY <1>1, <1>2
  <1>3. ASSUME NEW c \in Callers, StartRefused(c) \/ StartJoin(c) \/ StartBegin(c) \/ StartAtOnce(c)
        PROVE  /\ started => started'
               /\ \A a \in StartIds : starts'[a].pc = "resolved" => started'
    <2>1. CASE StartRefused(c) \/ StartJoin(c)
      BY <1>1, <2>1 DEF StartRefused, StartJoin, appVars
    <2>2. CASE StartBegin(c)
      BY <1>0, <1>1, <2>2 DEF StartBegin, TypeOK, StartAttempt
    <2>3. CASE StartAtOnce(c)
      BY <1>0, <1>1, <2>3 DEF StartAtOnce, TypeOK, StartAttempt
    <2>. QED
      BY <1>3, <2>1, <2>2, <2>3
  <1>4. ASSUME NEW a \in StartIds, StartStep(a)
        PROVE  /\ started => started'
               /\ \A b \in StartIds : starts'[b].pc = "resolved" => started'
    <2>1. CASE StartHookFails(a)
      BY <1>0, <1>1, <2>1 DEF StartHookFails, TypeOK, StartAttempt
    <2>2. CASE StartHookReturns(a)
      <3>1. started => started'
        BY <2>2 DEF StartHookReturns
      <3>2. starts'[a].pc = "resolved" => started'
        BY <1>0, <2>2 DEF StartHookReturns, TypeOK, StartAttempt
      <3>3. \A b \in StartIds \ {a} : starts'[b] = starts[b]
        BY <1>0, <2>2 DEF StartHookReturns, TypeOK, StartAttempt
      <3>. QED
        BY <1>1, <3>1, <3>2, <3>3
    <2>. QED
      BY <1>4, <2>1, <2>2 DEF StartStep
  <1>5. CASE ListenStep
    <2>1. StartRefused(Entry) \/ StartJoin(Entry) \/ StartBegin(Entry) \/ StartAtOnce(Entry)
            \/ UNCHANGED <<starts, started>>
      BY <1>5 DEF ListenStep, ListenStarts, StartRejects, ServeCalled, BindFails, Bound,
                  OnStop, vars
    <2>. QED
      BY <1>2, <1>3, <2>1, RolesAssumption
  <1>6. CASE RegisterHook \/ UNCHANGED vars \/ \E c \in Callers : CallEnds(c)
    BY <1>2, <1>6 DEF RegisterHook, OnStop, vars, CallEnds, StartCallEnds, StopCallEnds, appVars
  <1>. QED
    BY <1>0, <1>4, <1>5, <1>6, BeforeListening DEF vars

(* The entry's start() ends as the attempt does that it waited for.        *)
LEMMA EntryResolves ==
  ASSUME ServerInv, ServerNext, listening # "up", Late,
         listening' = "starting", calls'[Entry].out = "resolved"
  PROVE  started'
  <1>0. TypeOK /\ ListenInv /\ TypedInv
    BY DEF ServerInv, TypedInv, IInv
  <1>1. started => started'
    BY StartsResolve
  <1>2. CASE calls'[Entry] = calls[Entry] /\ listening = "starting"
    BY <1>1, <1>2 DEF ServerInv, StartInv
  <1>3. CASE ListenStep
    <2>1. CASE ListenStarts
      BY <1>0, <2>1, RolesAssumption
      DEF ListenStarts, StartRefused, StartJoin, StartBegin, StartAtOnce, Joins, Ends, TypeOK
    <2>2. CASE ~ListenStarts
      BY <1>3, <2>2 DEF ListenStep, StartRejects, ServeCalled, BindFails, Bound
    <2>. QED
      BY <2>1, <2>2
  <1>4. CASE RegisterHook
    BY <1>2, <1>4 DEF RegisterHook, Alone, OnStop
  <1>5. CASE UNCHANGED listening /\ \E a \in StartIds : StartStep(a)
    BY <1>2, <1>5 DEF StartStep, StartHookReturns, StartHookFails
  <1>6. CASE UNCHANGED <<listening, vars>>
    BY <1>2, <1>6 DEF vars
  <1>7. ASSUME UNCHANGED listening, NEW c \in Callers, CallEnds(c) PROVE started'
    <2>1. CASE c # Entry
      <3>1. calls'[Entry] = calls[Entry]
        BY <1>0, <1>7, <2>1, RolesAssumption
        DEF CallEnds, StartCallEnds, StopCallEnds, Ends, TypeOK
      <3>. QED
        BY <1>2, <1>7, <3>1
    <2>2. CASE c = Entry /\ StartCallEnds(c)
      <3>1. PICK a \in StartIds : starts[a].pc \in {"resolved", "rejected"} /\ Ends(c, starts[a].pc)
        BY <2>2 DEF StartCallEnds
      <3>2. starts[a].pc = "resolved"
        BY <1>0, <2>2, <3>1 DEF Ends, TypeOK
      <3>. QED
        BY <1>1, <3>2 DEF ServerInv, StartInv
    <2>3. CASE StopCallEnds(c)
      BY <1>0, <2>3 DEF StopCallEnds, ListenInv
    <2>. QED
      BY <1>7, <2>1, <2>2, <2>3 DEF CallEnds
  <1>. QED
    BY <1>0, <1>3, <1>4, <1>5, <1>6, <1>7, BeforeListening

(* Every step keeps what is known of the app that listen() starts.         *)
LEMMA StartNext ==
  ASSUME Late, ServerInv, ServerNext
  PROVE  StartInv'
  <1>0. /\ TypedInv /\ IInv /\ TypeOK /\ ListenInv /\ StartInv /\ CloseInv
    BY DEF ServerInv, TypedInv, IInv
  <1>1. CASE listening # "up" /\ ~Bound
    <2>1. listening' # "up"
      BY <1>0, <1>1, BeforeListening
      DEF ListenStep, ListenStarts, StartRejects, ServeCalled, BindFails, RegisterHook, Alone
    <2>2. listening' = "binding" => started'
      <3>1. listening' = "binding" => listening = "binding" \/ ServeCalled
        BY <1>0, <1>1, BeforeListening
        DEF ListenStep, ListenStarts, StartRejects, BindFails, RegisterHook, Alone
      <3>2. listening' = "binding" => started
        BY <1>0, <3>1 DEF ServeCalled, StartInv
      <3>. QED
        BY <1>1, <3>2, StartsResolve
    <2>. QED
      BY <1>1, <2>1, <2>2, StartsResolve, EntryResolves DEF StartInv
  <1>2. CASE Bound
    <2>1. started /\ UNCHANGED <<started, starts>> /\ listening' = "up"
      BY <1>0, <1>2 DEF Bound, OnStop, StartInv
    <2>2. \A a \in StartIds : starts[a].pc # "hook"
      BY <1>0, <2>1 DEF IInv, StartLock, StartHookRunning
    <2>. QED
      BY <2>1, <2>2 DEF StartInv
  <1>3. CASE listening = "up"
    <2>1. UNCHANGED <<listening, starts>>
      BY <1>0, <1>3, WhileListening
    <2>2. closed => closed'
      BY <1>0, StaysClosed
    <2>3. started /\ ~started' => closed
      <3>1. \A a \in StopIds : stops[a].run = "ok" => closed
        BY DEF ServerInv, AttemptInv, AttemptOK
      <3>2. started /\ ~started' => \E a \in StopIds : StopRaceEnds(a)
        <4>1. [Next]_vars
          BY StepIsStep
        <4>2. ASSUME NEW c \in Callers, CallStep(c) PROVE started => started'
          BY <4>2 DEF CallStep, StartRefused, StartJoin, StartBegin, StartAtOnce, StopIgnored,
                      StopJoin, StopBegin, CallEnds, StartCallEnds, StopCallEnds, appVars
        <4>3. ASSUME NEW a \in StartIds, StartStep(a) PROVE started => started'
          BY <4>3 DEF StartStep, StartHookReturns, StartHookFails
        <4>4. ASSUME NEW a \in StopIds, StopHookStep(a) \/ StopTimesOut(a) \/ StopReleases(a)
              PROVE  started => started'
          BY <4>4 DEF StopHookStep, StopHookReturns, StopHookFails, StopTimesOut, StopReleases,
                      appVars
        <4>5. CASE OnStart \/ OnStop \/ UNCHANGED vars
          BY <4>5 DEF OnStart, OnStop, vars
        <4>. QED
          BY <4>1, <4>2, <4>3, <4>4, <4>5 DEF Next, StopStep
      <3>3. \A a \in StopIds : StopRaceEnds(a) /\ ~started' => stops[a].run = "ok" \/ ~started
        BY DEF StopRaceEnds
      <3>. QED
        BY <3>1, <3>2, <3>3
    <2>4. ~started' => closed'
      BY <1>0, <1>3, <2>2, <2>3 DEF StartInv
    <2>. QED
      BY <1>0, <1>3, <2>1, <2>4 DEF StartInv
  <1>. QED
    BY <1>1, <1>2, <1>3

-----------------------------------------------------------------------------
(* Nobody but the handler of signals, and the promise it waits for, touches*)
(* the call that it makes.                                                 *)
LEMMA WhoCallsForSignals ==
  ASSUME ServerInv, ServerNext
  PROVE  \/ calls'[Signals] = calls[Signals]
         \/ Signal \/ FatalError
         \/ CallEnds(Signals) /\ UNCHANGED signalVars
  <1>0. calls \in [Callers -> Call] /\ RolesAssumption
    BY RolesAssumption DEF ServerInv, TypedInv, IInv, TypeOK
  <1>1. CASE EntryStops
    <2>1. StopIgnored(Entry) \/ StopJoin(Entry) \/ StopBegin(Entry)
      BY <1>1 DEF EntryStops, AppStop
    <2>. QED
      BY <1>0, <2>1 DEF StopIgnored, StopJoin, StopBegin, Joins, Ends, RolesAssumption
  <1>2. CASE ListenStep
    <2>1. CASE ListenStarts
      BY <1>0, <2>1
      DEF ListenStarts, StartRefused, StartJoin, StartBegin, StartAtOnce, Joins, Ends,
          RolesAssumption
    <2>2. CASE ~ListenStarts
      BY <1>2, <2>2 DEF ListenStep, StartRejects, ServeCalled, BindFails, Bound, OnStop, vars
    <2>. QED
      BY <2>1, <2>2
  <1>3. CASE RegisterHook \/ CloseStep \/ Exits
    BY <1>3 DEF RegisterHook, OnStop, CloseStep, OwnerCloses, DrainEnds, ServerCloses,
                ServerCloseFails, Exits, vars
  <1>4. ASSUME NEW c \in Callers, CallReturns(c)
        PROVE  calls'[Signals] = calls[Signals] \/ (CallEnds(Signals) /\ UNCHANGED signalVars)
    BY <1>0, <1>4
    DEF CallReturns, Alone, CallEnds, StartCallEnds, StopCallEnds, Ends, RolesAssumption
  <1>5. CASE \E a \in StartIds : StartHookSettles(a)
    BY <1>5 DEF StartHookSettles, StartStep, StartHookReturns, StartHookFails
  <1>6. CASE \E a \in StopIds : StopSettles(a) \/ HookSettles(a)
    BY <1>6 DEF StopSettles, HookSettles, OtherHookSettles, CloseHookSettles, StopStep,
                StopTimesOut, StopRaceEnds, StopReleases, StopHookReturns, StopHookFails
  <1>7. CASE \E r \in Requests : RequestStep(r)
    BY <1>7 DEF RequestStep, RequestRejected, RequestBegins, HandlerEnds, RequestTimesOut,
                ClientGoes, ResponseSent, vars
  <1>. QED
    BY <1>1, <1>2, <1>3, <1>4, <1>5, <1>6, <1>7 DEF ServerNext

(* Once the process is shutting down the server listens, and an app that   *)
(* has stopped stays so.                                                   *)
LEMMA StaysStopped ==
  ASSUME ServerInv, ServerNext, shuttingDown \/ listening = "up"
  PROVE  ~started => ~started'
  BY WhileListening DEF ServerInv, ListenInv

(* Every step keeps what the handler of signals knows.                     *)
LEMMA SignalNext ==
  ASSUME Late, ServerInv, ServerNext
  PROVE  SignalInv'
  <1>0. /\ calls \in [Callers -> Call] /\ RolesAssumption
        /\ SignalInv /\ exit = << >>
    BY RolesAssumption DEF ServerInv, TypedInv, IInv, TypeOK, ServerNext, Alive
  <1>1. CASE Signal \/ FatalError
    <2>1. /\ AppStop(Signals) /\ exit' = << >>
          /\ listening = "up"
      BY <1>0, <1>1 DEF Signal, FatalError, BeginShutdown, Late
    <2>2. CASE StopIgnored(Signals)
      <3>1. calls'[Signals] = [on |-> <<"none", NoAttempt>>, out |-> "resolved"]
        BY <1>0, <2>2 DEF StopIgnored, Ends, RolesAssumption
      <3>2. ~started'
        BY <2>2 DEF StopIgnored, Stoppable, appVars
      <3>. QED
        BY <2>1, <3>1, <3>2 DEF SignalInv, WaitingFor
    <2>3. CASE StopJoin(Signals) \/ StopBegin(Signals)
      <3>1. \E a : calls'[Signals] = [on |-> <<"stop", a>>, out |-> "none"]
        BY <1>0, <2>3 DEF StopJoin, StopBegin, Joins, RolesAssumption
      <3>. QED
        BY <2>1, <3>1 DEF SignalInv, WaitingFor
    <2>. QED
      BY <2>1, <2>2, <2>3 DEF AppStop
  <1>2. CASE CallEnds(Signals) /\ UNCHANGED signalVars
    <2>1. ~StartCallEnds(Signals)
      BY <1>0 DEF StartCallEnds, SignalInv
    <2>2. PICK a \in StopIds :
            /\ stops[a].outer \in {"resolved", "rejected"}
            /\ Ends(Signals, stops[a].outer)
            /\ UNCHANGED started
      BY <1>2, <2>1 DEF CallEnds, StopCallEnds, appVars
    <2>3. calls'[Signals] = [on |-> <<"none", NoAttempt>>, out |-> stops[a].outer]
      BY <1>0, <2>2 DEF Ends, RolesAssumption
    <2>4. stops[a].outer = "resolved" => ~started'
      BY <2>2 DEF ServerInv, AttemptInv, AttemptOK
    <2>. QED
      BY <1>0, <1>2, <2>3, <2>4 DEF SignalInv, WaitingFor, signalVars
  <1>3. CASE Exits
    <2>1. UNCHANGED <<calls, started, shuttingDown>> /\ shuttingDown
      BY <1>3 DEF Exits, vars
    <2>2. exit' = <<0>> => calls[Signals].out = "resolved"
      BY <1>3 DEF Exits, ExitStatus
    <2>3. CanCall(Signals)
      BY <1>3 DEF Exits
    <2>. QED
      BY <1>0, <2>1, <2>2, <2>3 DEF SignalInv, WaitingFor, CanCall
  <1>4. CASE calls'[Signals] = calls[Signals] /\ UNCHANGED signalVars
    BY <1>0, <1>4, StaysStopped DEF SignalInv, WaitingFor, CanCall, signalVars
  <1>. QED
    BY <1>1, <1>2, <1>3, <1>4, WhoCallsForSignals, WhoSignals

-----------------------------------------------------------------------------
(* The initial state satisfies the invariant.                              *)
LEMMA InitServer == ServerInit => ServerInv
  <1>. SUFFICES ASSUME ServerInit PROVE ServerInv
    OBVIOUS
  <1>1. TypedInv
    BY InitTyped
  <1>2. ListenInv /\ StartInv
    BY DEF ServerInit, Init, ListenInv, StartInv, IdleStart, IdleStop
  <1>3. CloseInv
    BY DEF ServerInit, CloseInv, closed, NoRequest
  <1>4. AttemptInv
    BY DEF ServerInit, Init, AttemptInv, AttemptOK, IdleStop
  <1>5. SignalInv
    BY RolesAssumption DEF ServerInit, Init, SignalInv, WaitingFor
  <1>. QED
    BY <1>1, <1>2, <1>3, <1>4, <1>5 DEF ServerInv

(* Every step of a server whose signals come late preserves it.            *)
LEMMA NextServer == Late /\ ServerInv /\ [ServerNext]_serverVars => ServerInv'
  <1>. SUFFICES ASSUME Late, ServerInv, [ServerNext]_serverVars PROVE ServerInv'
    OBVIOUS
  <1>1. TypedInv'
    BY NextTyped DEF ServerInv
  <1>2. CASE ServerNext
    BY <1>1, <1>2, ListenNext, StartNext, CloseNext, AttemptNext, SignalNext DEF ServerInv
  <1>3. CASE UNCHANGED serverVars
    <2>1. ListenInv' /\ StartInv' /\ CloseInv'
      BY <1>3
      DEF serverVars, vars, closeVars, requestVars, signalVars, ServerInv, ListenInv, StartInv,
          CloseInv, closed
    <2>2. AttemptInv'
      BY <1>3
      DEF serverVars, vars, closeVars, ServerInv, AttemptInv, AttemptOK, CountsDown, closed
    <2>3. SignalInv'
      BY <1>3 DEF serverVars, vars, signalVars, ServerInv, SignalInv, WaitingFor, CanCall
    <2>. QED
      BY <1>1, <2>1, <2>2, <2>3 DEF ServerInv
  <1>. QED
    BY <1>2, <1>3

(* The invariant holds of every server whose signals come late.            *)
THEOREM ServerInvariance == Late => (ServerSpec => []ServerInv)
  <1>. SUFFICES ASSUME Late PROVE ServerSpec => []ServerInv
    OBVIOUS
  <1>1. ServerInit => ServerInv
    BY InitServer
  <1>2. ServerInv /\ [ServerNext]_serverVars => ServerInv'
    BY NextServer
  <1>. QED
    BY <1>1, <1>2, PTL DEF ServerSpec

(* A hook that was registered before close() runs when the server is       *)
(* closed, and when no request is being answered but one whose client went *)
(* and which the drain did not wait for: whoever called close() first, and *)
(* however often stop() failed, timed out and was tried again.             *)
THEOREM HooksOutlive == Late => (ServerSpec => []HooksOutliveRequests)
  <1>. SUFFICES ASSUME Late PROVE ServerSpec => []HooksOutliveRequests
    OBVIOUS
  <1>1. ServerInv => HooksOutliveRequests
    <2>. SUFFICES ASSUME ServerInv, NEW a \in StopIds, stops[a].run = "hook",
                         Head(stops[a].todo) < closeHook
                  PROVE  /\ server = "closed"
                         /\ \A r \in Requests : req[r].counted => drainExpired /\ ~req[r].conn
      BY DEF HooksOutliveRequests
    <2>1. stops[a].todo \in Seq(Hooks) /\ stops[a].todo # << >>
      BY DEF ServerInv, TypedInv, IInv, TypeOK, StopAttempt, StopHooksInAttempt, StopHookRunning
    <2>2. /\ CountsDown(stops[a].todo)
          /\ Len(stops[a].todo) < closeHook => closed
      BY DEF ServerInv, AttemptInv, AttemptOK
    <2>3. closed
      BY <2>1, <2>2, HeadIsNumber
    <2>. QED
      BY <2>3 DEF ServerInv, CloseInv, closed
  <1>. QED
    BY <1>1, ServerInvariance, PTL

(* A process that a signal ended with 0 has stopped its app and closed its *)
(* server.                                                                 *)
THEOREM ExitZeroClean == Late => (ServerSpec => []ExitZeroIsClean)
  <1>. SUFFICES ASSUME Late PROVE ServerSpec => []ExitZeroIsClean
    OBVIOUS
  <1>1. ServerInv => ExitZeroIsClean
    BY DEF ServerInv, ListenInv, StartInv, SignalInv, ExitZeroIsClean, closed
  <1>. QED
    BY <1>1, ServerInvariance, PTL
=============================================================================
