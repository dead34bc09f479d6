----------------------------- MODULE Lifecycle -----------------------------
(***************************************************************************)
(* The lifecycle of an app: start(), stop() and the hooks that createApp   *)
(* (packages/core/lib/app.ts) runs for them.                               *)
(*                                                                         *)
(* A Node process runs one callback at a time, so an action is what the    *)
(* code does between two awaits.  Callers are the independent activities   *)
(* that call start() and stop(): the program's entry point, a signal       *)
(* handler, a test, listen().  Each call that gets as far as running hooks *)
(* makes an attempt: the promise held by startInFlight or stopInFlight,    *)
(* which later calls join while it is held there.                          *)
(*                                                                         *)
(* Attempts are drawn from the finite sets StartIds and StopIds.  An       *)
(* attempt that has settled and that nothing refers to any more is free to *)
(* stand for a new one, so behaviours are not bounded by these sets.       *)
(* Hooks are numbered in registration order.                               *)
(***************************************************************************)
EXTENDS Integers, Sequences

CONSTANTS
  Callers,      \* the activities that call start() and stop()
  StartIds,     \* identities of start attempts
  StopIds,      \* identities of stop attempts
  NoAttempt,    \* null: no promise is in flight
  InitStart,    \* how many hooks options.onStart holds
  InitStop,     \* how many hooks options.onStop holds
  MaxHooks      \* bound on the hooks of each kind that get registered

ASSUME NoAttemptAssumption == NoAttempt \notin StartIds \cup StopIds
ASSUME HooksAssumption ==
  /\ MaxHooks \in Nat
  /\ InitStart \in 0 .. MaxHooks
  /\ InitStop \in 0 .. MaxHooks

VARIABLES
  started,         \* the flag app.started reads
  startHookIndex,  \* how many start hooks are behind us
  startInFlight,   \* the start attempt that start() calls join
  stopInFlight,    \* the stop attempt that stop() calls join
  nStart,          \* startHooks.length
  nStop,           \* stopHooks.length
  starts,          \* start attempts
  stops,           \* stop attempts
  calls,           \* what each caller is waiting for, and how its last call ended
  ran              \* ghost: how often each start hook ran to its end

appVars == <<started, startHookIndex, startInFlight, stopInFlight, nStart, nStop>>
vars == <<started, startHookIndex, startInFlight, stopInFlight, nStart, nStop,
          starts, stops, calls, ran>>

Hooks == 1 .. MaxHooks

(***************************************************************************)
(* A start attempt: "hook" while the hook numbered `hook` has not settled. *)
(*                                                                         *)
(* A stop attempt is two promises.  `run` is runPromise, which runs the    *)
(* hooks in `todo`.  `outer` is stopInFlight's own: "racing" in            *)
(* Promise.race, then in its `finally` as "stopped" (the hooks were        *)
(* first and succeeded), "failed" (one of them threw) or "timedout".       *)
(***************************************************************************)
StartAttempt == [pc : {"idle", "hook", "resolved", "rejected"}, hook : 0 .. MaxHooks]

StopAttempt == [run   : {"idle", "hook", "ok", "err"},
                outer : {"idle", "racing", "stopped", "failed", "timedout",
                         "resolved", "rejected"},
                todo  : Seq(Hooks)]

IdleStart == [pc |-> "idle", hook |-> 0]
IdleStop == [run |-> "idle", outer |-> "idle", todo |-> << >>]

Call == [on : {"none"} \X {NoAttempt} \cup {"start"} \X StartIds \cup {"stop"} \X StopIds,
         out : {"none", "resolved", "rejected"}]

WaitingFor(c, kind, a) == calls[c].on = <<kind, a>>
CanCall(c) == calls[c].on = <<"none", NoAttempt>>
Joins(c, kind, a) == calls' = [calls EXCEPT ![c] = [on |-> <<kind, a>>, out |-> "none"]]
Ends(c, out) == calls' = [calls EXCEPT ![c] = [on |-> <<"none", NoAttempt>>, out |-> out]]

FreeStart(a) ==
  /\ starts[a].pc # "hook"
  /\ startInFlight # a
  /\ \A c \in Callers : ~WaitingFor(c, "start", a)

FreeStop(a) ==
  /\ stops[a].outer \in {"idle", "resolved", "rejected"}
  /\ stopInFlight # a
  /\ \A c \in Callers : ~WaitingFor(c, "stop", a)

Init ==
  /\ started = FALSE
  /\ startHookIndex = 0
  /\ startInFlight = NoAttempt
  /\ stopInFlight = NoAttempt
  /\ nStart = InitStart
  /\ nStop = InitStop
  /\ starts = [a \in StartIds |-> IdleStart]
  /\ stops = [a \in StopIds |-> IdleStop]
  /\ calls = [c \in Callers |-> [on |-> <<"none", NoAttempt>>, out |-> "none"]]
  /\ ran = [h \in Hooks |-> 0]

-----------------------------------------------------------------------------
(***************************************************************************)
(* The conditions the code tests.  Each Bug_ operator is the form one of   *)
(* them could take by a plausible mistake; no action uses it.              *)
(***************************************************************************)

Bug_StartNotSerialized == FALSE
StartPending == startInFlight # NoAttempt

StopPending == stopInFlight # NoAttempt

Bug_StopUnconditional == TRUE
Stoppable == started

(* `startHookIndex < startHooks.length`, the length as it is now.          *)
MoreStartHooks(i) == i < nStart

(* `await runPromise.catch(() => undefined)` in stop()'s `finally`.        *)
Bug_OrphansNotAwaited(a) == TRUE
Bug_AwaitOnlySuccess(a) == stops[a].run = "ok"
HooksSettled(a) == stops[a].run # "hook"

-----------------------------------------------------------------------------
(* Registration.                                                           *)

OnStart ==
  /\ nStart < MaxHooks
  /\ nStart' = nStart + 1
  /\ UNCHANGED <<started, startHookIndex, startInFlight, stopInFlight, nStop,
                 starts, stops, calls, ran>>

OnStop ==
  /\ nStop < MaxHooks
  /\ nStop' = nStop + 1
  /\ UNCHANGED <<started, startHookIndex, startInFlight, stopInFlight, nStart,
                 starts, stops, calls, ran>>

-----------------------------------------------------------------------------
(* start()                                                                 *)

(* ALREADY_STARTED.                                                        *)
StartRefused(c) ==
  /\ CanCall(c)
  /\ started
  /\ Ends(c, "rejected")
  /\ UNCHANGED <<appVars, starts, stops, ran>>

(* `if (startInFlight) return startInFlight`, whatever state that is in.   *)
StartJoin(c) ==
  /\ CanCall(c)
  /\ ~started
  /\ StartPending
  /\ Joins(c, "start", startInFlight)
  /\ UNCHANGED <<appVars, starts, stops, ran>>

(* A new attempt: the first pending hook is called in this very step and   *)
(* returns a promise or a value, either of which is awaited.               *)
StartBegin(c) ==
  /\ CanCall(c)
  /\ ~started
  /\ ~StartPending
  /\ MoreStartHooks(startHookIndex)
  /\ \E a \in StartIds :
       /\ FreeStart(a)
       /\ starts' = [starts EXCEPT ![a] = [pc |-> "hook", hook |-> startHookIndex + 1]]
       /\ startInFlight' = a
       /\ Joins(c, "start", a)
  /\ UNCHANGED <<started, startHookIndex, stopInFlight, nStart, nStop, stops, ran>>

(* The async closure runs to its end before it awaits anything: there is   *)
(* no pending hook, or the first pending hook throws instead of returning  *)
(* a promise.  Its `finally` clears startInFlight first, and the           *)
(* assignment of the closure's promise to startInFlight comes second.      *)
StartAtOnce(c) ==
  /\ CanCall(c)
  /\ ~started
  /\ ~StartPending
  /\ \E a \in StartIds :
       /\ FreeStart(a)
       /\ IF MoreStartHooks(startHookIndex)
            THEN /\ starts' = [starts EXCEPT ![a] = [pc |-> "rejected", hook |-> 0]]
                 /\ UNCHANGED started
            ELSE /\ starts' = [starts EXCEPT ![a] = [pc |-> "resolved", hook |-> 0]]
                 /\ started' = TRUE
       /\ startInFlight' = a
       /\ Joins(c, "start", a)
  /\ UNCHANGED <<startHookIndex, stopInFlight, nStart, nStop, stops, ran>>

(* The awaited start hook succeeds; the loop calls the next one or ends.   *)
StartHookReturns(a) ==
  /\ starts[a].pc = "hook"
  /\ ran' = [ran EXCEPT ![starts[a].hook] = @ + 1]
  /\ startHookIndex' = startHookIndex + 1
  /\ IF MoreStartHooks(startHookIndex + 1)
       THEN /\ starts' = [starts EXCEPT ![a].hook = startHookIndex + 2]
            /\ UNCHANGED <<started, startInFlight>>
       ELSE /\ starts' = [starts EXCEPT ![a] = [pc |-> "resolved", hook |-> 0]]
            /\ started' = TRUE
            /\ startInFlight' = NoAttempt
  /\ UNCHANGED <<stopInFlight, nStart, nStop, stops, calls>>

(* A start hook rejects, or a later one throws when the loop calls it: the *)
(* attempt rejects and startHookIndex stays at that hook.                  *)
StartHookFails(a) ==
  /\ starts[a].pc = "hook"
  /\ starts' = [starts EXCEPT ![a] = [pc |-> "rejected", hook |-> 0]]
  /\ startInFlight' = NoAttempt
  /\ UNCHANGED <<started, startHookIndex, stopInFlight, nStart, nStop, stops, calls, ran>>

-----------------------------------------------------------------------------
(* stop()                                                                  *)

StopIgnored(c) ==
  /\ CanCall(c)
  /\ ~Stoppable
  /\ Ends(c, "resolved")
  /\ UNCHANGED <<appVars, starts, stops, ran>>

StopJoin(c) ==
  /\ CanCall(c)
  /\ Stoppable
  /\ StopPending
  /\ Joins(c, "stop", stopInFlight)
  /\ UNCHANGED <<appVars, starts, stops, ran>>

(* stopHooks.toReversed(), taken now: hooks registered later are not run.  *)
Bug_RegistrationOrder == [i \in 1 .. nStop |-> i]
Snapshot == [i \in 1 .. nStop |-> nStop + 1 - i]

StopBegin(c) ==
  /\ CanCall(c)
  /\ Stoppable
  /\ ~StopPending
  /\ \E a \in StopIds :
       /\ FreeStop(a)
       /\ stops' = [stops EXCEPT ![a] = [run   |-> IF nStop = 0 THEN "ok" ELSE "hook",
                                         outer |-> "racing",
                                         todo  |-> Snapshot]]
       /\ stopInFlight' = a
       /\ Joins(c, "stop", a)
  /\ UNCHANGED <<started, startHookIndex, startInFlight, nStart, nStop, starts, ran>>

StopHookReturns(a) ==
  /\ stops[a].run = "hook"
  /\ stops' = [stops EXCEPT ![a].todo = Tail(@),
                            ![a].run = IF Len(stops[a].todo) = 1 THEN "ok" ELSE "hook"]
  /\ UNCHANGED <<appVars, starts, calls, ran>>

(* A stop hook rejects or throws: the rest of the hooks are not run.       *)
StopHookFails(a) ==
  /\ stops[a].run = "hook"
  /\ stops' = [stops EXCEPT ![a].run = "err", ![a].todo = << >>]
  /\ UNCHANGED <<appVars, starts, calls, ran>>

(* The timer rejects the race.  Once the hooks have settled the race is    *)
(* over before any timer can fire: timers run after the promise callbacks. *)
StopTimesOut(a) ==
  /\ stops[a].outer = "racing"
  /\ stops[a].run = "hook"
  /\ stops' = [stops EXCEPT ![a].outer = "timedout"]
  /\ UNCHANGED <<appVars, starts, calls, ran>>

(* The race follows the hooks: `started = false`, or into the `finally`    *)
(* with their error.                                                       *)
StopRaceEnds(a) ==
  /\ stops[a].outer = "racing"
  /\ \/ /\ stops[a].run = "ok"
        /\ started' = FALSE
        /\ stops' = [stops EXCEPT ![a].outer = "stopped"]
     \/ /\ stops[a].run = "err"
        /\ stops' = [stops EXCEPT ![a].outer = "failed"]
        /\ UNCHANGED started
  /\ UNCHANGED <<startHookIndex, startInFlight, stopInFlight, nStart, nStop,
                 starts, calls, ran>>

(* The end of the `finally`: runPromise has settled, the lock is released. *)
StopReleases(a) ==
  /\ stops[a].outer \in {"stopped", "failed", "timedout"}
  /\ HooksSettled(a)
  /\ stopInFlight' = NoAttempt
  /\ stops' = [stops EXCEPT ![a].outer =
                 IF @ = "stopped" THEN "resolved" ELSE "rejected"]
  /\ UNCHANGED <<started, startHookIndex, startInFlight, nStart, nStop,
                 starts, calls, ran>>

-----------------------------------------------------------------------------
(* A caller is resumed once the promise it holds has settled.              *)

StartCallEnds(c) ==
  \E a \in StartIds :
    /\ WaitingFor(c, "start", a)
    /\ starts[a].pc \in {"resolved", "rejected"}
    /\ Ends(c, starts[a].pc)
    /\ UNCHANGED <<appVars, starts, stops, ran>>

StopCallEnds(c) ==
  \E a \in StopIds :
    /\ WaitingFor(c, "stop", a)
    /\ stops[a].outer \in {"resolved", "rejected"}
    /\ Ends(c, stops[a].outer)
    /\ UNCHANGED <<appVars, starts, stops, ran>>

-----------------------------------------------------------------------------
StartStep(a) == StartHookReturns(a) \/ StartHookFails(a)
StopHookStep(a) == StopHookReturns(a) \/ StopHookFails(a)
StopStep(a) == StopTimesOut(a) \/ StopRaceEnds(a) \/ StopReleases(a)
CallEnds(c) == StartCallEnds(c) \/ StopCallEnds(c)

CallStep(c) ==
  \/ StartRefused(c) \/ StartJoin(c) \/ StartBegin(c) \/ StartAtOnce(c)
  \/ StopIgnored(c) \/ StopJoin(c) \/ StopBegin(c)
  \/ CallEnds(c)

Next ==
  \/ OnStart
  \/ OnStop
  \/ \E c \in Callers : CallStep(c)
  \/ \E a \in StartIds : StartStep(a)
  \/ \E a \in StopIds : StopHookStep(a) \/ StopStep(a)

Spec == Init /\ [][Next]_vars

(***************************************************************************)
(* What the event loop guarantees: a settled promise's callbacks run, and  *)
(* so does a timer that is due.  That a hook settles is the application's  *)
(* promise, and is assumed separately.                                     *)
(***************************************************************************)
EventLoopFairness ==
  /\ \A c \in Callers : WF_vars(CallEnds(c))
  /\ \A a \in StopIds : WF_vars(StopStep(a))

HookFairness ==
  /\ \A a \in StartIds : WF_vars(StartStep(a))
  /\ \A a \in StopIds : WF_vars(StopHookStep(a))

FairSpec == Spec /\ EventLoopFairness /\ HookFairness
HungHookSpec == Spec /\ EventLoopFairness

-----------------------------------------------------------------------------
(* Every variable holds a value of its kind.                               *)
TypeOK ==
  /\ started \in BOOLEAN
  /\ startHookIndex \in 0 .. MaxHooks
  /\ startInFlight \in StartIds \cup {NoAttempt}
  /\ stopInFlight \in StopIds \cup {NoAttempt}
  /\ nStart \in 0 .. MaxHooks
  /\ nStop \in 0 .. MaxHooks
  /\ starts \in [StartIds -> StartAttempt]
  /\ stops \in [StopIds -> StopAttempt]
  /\ calls \in [Callers -> Call]
  /\ ran \in [Hooks -> Nat]

StartHookRunning(a) == starts[a].pc = "hook"
StopHookRunning(a) == stops[a].run = "hook"

(* At most one hook of the app runs at any time: attempts of one kind are  *)
(* serialized, a retry after STOP_TIMEOUT waits for the orphaned hooks of  *)
(* the attempt that timed out, and no start hook runs while stop hooks do. *)
OneHookAtATime ==
  /\ \A a, b \in StartIds : StartHookRunning(a) /\ StartHookRunning(b) => a = b
  /\ \A a, b \in StopIds : StopHookRunning(a) /\ StopHookRunning(b) => a = b
  /\ \A a \in StartIds, b \in StopIds : ~(StartHookRunning(a) /\ StopHookRunning(b))

(* However many start() calls are made, joined, failed and retried, every  *)
(* start hook runs to its end at most once, and in registration order.     *)
StartHooksOnceInOrder ==
  \A h \in Hooks : ran[h] = IF h <= startHookIndex THEN 1 ELSE 0

(* Stop hooks release what start hooks acquired: one only runs in an app   *)
(* that has started and not yet become stopped, a timed-out stop included. *)
StopHooksOnlyWhileStarted ==
  \A a \in StopIds : StopHookRunning(a) => started

(* An app that turns started has run every start hook registered by then.  *)
StartedAfterEveryHook ==
  [][~started /\ started' => startHookIndex' = nStart]_vars

(* The phase an observer sees: it is the pending attempts that tell that   *)
(* the app is starting or stopping, the flag tells the rest.               *)
phaseOf ==
  IF \E a \in StartIds : StartHookRunning(a) THEN "starting"
  ELSE IF \E a \in StopIds : stops[a].outer \in {"racing", "timedout"} THEN "stopping"
  ELSE IF started THEN "up" ELSE "down"

Phases == INSTANCE LifecyclePhases
            WITH phase <- phaseOf, done <- startHookIndex, registered <- nStart

(* Whatever is called, joined, failed, timed out and retried, the app goes *)
(* through the phases of LifecyclePhases, and by its steps only.           *)
PhasesSpec == Phases!PhaseSpec

(* As long as hooks settle, nobody waits forever in start() or stop(): no  *)
(* interleaving of joins, timeouts and retries strands a caller.           *)
CallersReturn ==
  \A c \in Callers : ~CanCall(c) ~> CanCall(c)

-----------------------------------------------------------------------------
(* A caller whose start() failed and who calls it again, with no attempt   *)
(* pending, gets a new attempt that goes on with the hooks that are left   *)
(* (app.ts:235 "Resume after a partial failure so successful hooks are not *)
(* re-run").                                                               *)
StartResumes ==
  [][\A c \in Callers :
       /\ CanCall(c) /\ calls[c].out = "rejected" /\ calls'[c].on[1] = "start"
       /\ \A a \in StartIds : ~StartHookRunning(a)
       => \/ started'
          \/ \E a \in StartIds : starts'[a] # starts[a]]_vars

(* stop() rejects with STOP_TIMEOUT when its hooks exceed the timeout      *)
(* (docs/api-throws.md:15).                                                *)
StopTimeoutReported ==
  \A a \in StopIds : stops[a].outer = "timedout" ~> stops[a].outer = "rejected"
=============================================================================
