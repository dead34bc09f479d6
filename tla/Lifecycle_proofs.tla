-------------------------- MODULE Lifecycle_proofs --------------------------
(***************************************************************************)
(* Proofs about Lifecycle, for any number of callers, attempts and hooks.  *)
(*                                                                         *)
(* The inductive invariant says what makes the two in-flight variables     *)
(* locks: a start attempt that is running hooks is the one in              *)
(* startInFlight and the app is not started; a stop attempt that has not   *)
(* released is the one in stopInFlight, and until its race is over the app *)
(* is started.  Start hooks and stop hooks then exclude each other because *)
(* the flag they run under differs, which neither lock says by itself.     *)
(***************************************************************************)
EXTENDS Lifecycle, SequenceTheorems, TLAPS

StartLock ==
  \A a \in StartIds : StartHookRunning(a) =>
    /\ startInFlight = a
    /\ ~started
    /\ starts[a].hook = startHookIndex + 1
    /\ startHookIndex < nStart

StopLock ==
  \A a \in StopIds :
    stops[a].outer \in {"racing", "timedout", "stopped", "failed"} => stopInFlight = a

StopWhileStarted ==
  \A a \in StopIds : stops[a].outer \in {"racing", "timedout"} => started

StopHooksInAttempt ==
  \A a \in StopIds : StopHookRunning(a) =>
    stops[a].outer \in {"racing", "timedout"} /\ stops[a].todo # << >>

IInv ==
  /\ TypeOK
  /\ StartLock
  /\ StopLock
  /\ StopWhileStarted
  /\ StopHooksInAttempt
  /\ startHookIndex <= nStart
  /\ StartHooksOnceInOrder

-----------------------------------------------------------------------------
(* stop()'s snapshot of its hooks is a sequence of hooks, one per          *)
(* registered hook.                                                        *)
LEMMA SnapshotType ==
  ASSUME nStop \in 0 .. MaxHooks
  PROVE  /\ Snapshot \in Seq(Hooks)
         /\ Len(Snapshot) = nStop
         /\ nStop # 0 => Snapshot # << >>
BY HooksAssumption DEF Snapshot, Hooks

(* Joining and ending a call keep the callers' records well formed.        *)
LEMMA JoinsType ==
  ASSUME TypeOK, NEW c \in Callers,
         NEW p \in {"start"} \X StartIds \cup {"stop"} \X StopIds,
         calls' = [calls EXCEPT ![c] = [on |-> p, out |-> "none"]]
  PROVE  calls' \in [Callers -> Call]
BY DEF TypeOK, Call

(* A call that has ended is a call.                                        *)
LEMMA EndsType ==
  ASSUME TypeOK, NEW c \in Callers, NEW out \in {"resolved", "rejected"}, Ends(c, out)
  PROVE  calls' \in [Callers -> Call]
BY DEF TypeOK, Call, Ends

(* The initial state satisfies the inductive invariant.                    *)
LEMMA InitIInv == Init => IInv
<1> SUFFICES ASSUME Init PROVE IInv
  OBVIOUS
<1>1. TypeOK
  <2>0. started \in BOOLEAN
    BY DEF Init
  <2>1. /\ startHookIndex \in 0 .. MaxHooks
        /\ nStart \in 0 .. MaxHooks
        /\ nStop \in 0 .. MaxHooks
        /\ startInFlight \in StartIds \cup {NoAttempt}
        /\ stopInFlight \in StopIds \cup {NoAttempt}
    BY HooksAssumption DEF Init
  <2>5. ran \in [Hooks -> Nat]
    BY DEF Init, Hooks
  <2>2. starts \in [StartIds -> StartAttempt]
    BY HooksAssumption DEF Init, StartAttempt, IdleStart
  <2>3. stops \in [StopIds -> StopAttempt]
    <3>1. << >> \in Seq(Hooks)
      OBVIOUS
    <3> QED
      BY <3>1 DEF Init, StopAttempt, IdleStop
  <2>4. calls \in [Callers -> Call]
    BY DEF Init, Call
  <2> QED
    BY <2>0, <2>1, <2>2, <2>3, <2>4, <2>5 DEF TypeOK
<1>2. StartLock /\ StopLock /\ StopWhileStarted /\ StopHooksInAttempt
  BY DEF Init, StartLock, StopLock, StopWhileStarted, StopHooksInAttempt,
         StartHookRunning, StopHookRunning, IdleStart, IdleStop
<1>3. startHookIndex <= nStart /\ StartHooksOnceInOrder
  BY HooksAssumption DEF Init, StartHooksOnceInOrder, Hooks
<1> QED
  BY <1>1, <1>2, <1>3 DEF IInv

(* Steps that leave the attempts and the app alone.                        *)
LEMMA QuietIInv ==
  ASSUME IInv, UNCHANGED <<appVars, starts, stops, ran>>, calls' \in [Callers -> Call]
  PROVE  IInv'
BY DEF IInv, TypeOK, appVars, StartLock, StopLock, StopWhileStarted, StopHooksInAttempt,
       StartHookRunning, StopHookRunning, StartHooksOnceInOrder

(* A call is begun or ended: only the caller's record changes.             *)
LEMMA CallIInv ==
  ASSUME IInv, NEW c \in Callers,
         StartRefused(c) \/ StartJoin(c) \/ StopIgnored(c) \/ StopJoin(c) \/ CallEnds(c)
  PROVE  IInv'
<1>0. TypeOK
  BY DEF IInv
<1>1. CASE StartRefused(c)
  BY <1>0, <1>1, EndsType, QuietIInv DEF StartRefused
<1>2. CASE StartJoin(c)
  <2>1. <<"start", startInFlight>> \in {"start"} \X StartIds
    BY <1>0, <1>2 DEF StartJoin, StartPending, TypeOK
  <2> QED
    BY <1>0, <1>2, <2>1, JoinsType, QuietIInv DEF StartJoin, Joins
<1>3. CASE StopIgnored(c)
  BY <1>0, <1>3, EndsType, QuietIInv DEF StopIgnored
<1>4. CASE StopJoin(c)
  <2>1. <<"stop", stopInFlight>> \in {"stop"} \X StopIds
    BY <1>0, <1>4 DEF StopJoin, StopPending, TypeOK
  <2> QED
    BY <1>0, <1>4, <2>1, JoinsType, QuietIInv DEF StopJoin, Joins
<1>5. CASE StartCallEnds(c)
  BY <1>0, <1>5, EndsType, QuietIInv DEF StartCallEnds
<1>6. CASE StopCallEnds(c)
  BY <1>0, <1>6, EndsType, QuietIInv DEF StopCallEnds
<1> QED
  BY <1>1, <1>2, <1>3, <1>4, <1>5, <1>6 DEF CallEnds

(* start() makes an attempt that runs hooks: the app is not started and no *)
(* attempt holds the lock, so no other one runs hooks.                     *)
LEMMA StartBeginIInv ==
  ASSUME IInv, NEW c \in Callers, StartBegin(c)
  PROVE  IInv'
<1>0. TypeOK
  BY DEF IInv
<1>1. PICK a \in StartIds :
        /\ FreeStart(a)
        /\ starts' = [starts EXCEPT ![a] = [pc |-> "hook", hook |-> startHookIndex + 1]]
        /\ startInFlight' = a
        /\ Joins(c, "start", a)
  BY DEF StartBegin
<1>2. /\ ~started /\ startInFlight = NoAttempt /\ startHookIndex < nStart
      /\ UNCHANGED <<started, startHookIndex, stopInFlight, nStart, nStop, stops, ran>>
  BY DEF StartBegin, StartPending, MoreStartHooks
<1>3. \A b \in StartIds : ~StartHookRunning(b)
  BY <1>2, NoAttemptAssumption DEF IInv, StartLock
<1>4. TypeOK'
  <2>1. calls' \in [Callers -> Call]
    BY <1>0, <1>1, JoinsType DEF Joins
  <2>2. [pc |-> "hook", hook |-> startHookIndex + 1] \in StartAttempt
    BY <1>0, <1>2, HooksAssumption DEF TypeOK, StartAttempt
  <2> QED
    BY <1>0, <1>1, <1>2, <2>1, <2>2 DEF TypeOK
<1>5. StartLock'
  BY <1>0, <1>1, <1>2, <1>3 DEF StartLock, StartHookRunning, TypeOK
<1>6. StopLock' /\ StopWhileStarted' /\ StopHooksInAttempt'
  BY <1>2 DEF IInv, StopLock, StopWhileStarted, StopHooksInAttempt, StopHookRunning
<1>7. (startHookIndex <= nStart)' /\ StartHooksOnceInOrder'
  BY <1>2 DEF IInv, StartHooksOnceInOrder
<1> QED
  BY <1>4, <1>5, <1>6, <1>7 DEF IInv

(* An attempt that settles at once runs no hook; it may leave the app      *)
(* started, which no stop attempt's race can contradict.                   *)
LEMMA StartAtOnceIInv ==
  ASSUME IInv, NEW c \in Callers, StartAtOnce(c)
  PROVE  IInv'
<1>0. TypeOK
  BY DEF IInv
<1>1. PICK a \in StartIds :
        /\ FreeStart(a)
        /\ \E pc \in {"resolved", "rejected"} :
             starts' = [starts EXCEPT ![a] = [pc |-> pc, hook |-> 0]]
        /\ startInFlight' = a
        /\ Joins(c, "start", a)
  BY DEF StartAtOnce
<1>2. /\ ~started /\ startInFlight = NoAttempt /\ started' \in BOOLEAN
      /\ UNCHANGED <<startHookIndex, stopInFlight, nStart, nStop, stops, ran>>
  BY DEF StartAtOnce, StartPending, IInv, TypeOK
<1>3. \A b \in StartIds : ~StartHookRunning(b)
  BY <1>2, NoAttemptAssumption DEF IInv, StartLock
<1>4. TypeOK'
  <2>1. calls' \in [Callers -> Call]
    BY <1>0, <1>1, JoinsType DEF Joins
  <2>2. \A pc \in {"resolved", "rejected"} : [pc |-> pc, hook |-> 0] \in StartAttempt
    BY HooksAssumption DEF StartAttempt
  <2>3. starts' \in [StartIds -> StartAttempt]
    BY <1>0, <1>1, <2>2 DEF TypeOK
  <2> QED
    BY <1>0, <1>1, <1>2, <2>1, <2>3 DEF TypeOK
<1>5. \A b \in StartIds : ~StartHookRunning(b)'
  BY <1>0, <1>1, <1>3 DEF StartHookRunning, TypeOK
<1>6. StartLock'
  BY <1>5 DEF StartLock
<1>7. StopLock' /\ StopWhileStarted' /\ StopHooksInAttempt'
  BY <1>2 DEF IInv, StopLock, StopWhileStarted, StopHooksInAttempt, StopHookRunning
<1>8. (startHookIndex <= nStart)' /\ StartHooksOnceInOrder'
  BY <1>2 DEF IInv, StartHooksOnceInOrder
<1> QED
  BY <1>4, <1>6, <1>7, <1>8 DEF IInv

(* A start hook completes: the next one begins, or the app is started and  *)
(* the lock is released in the same step.                                  *)
LEMMA StartHookReturnsIInv ==
  ASSUME IInv, NEW a \in StartIds, StartHookReturns(a)
  PROVE  IInv'
<1>0. TypeOK /\ StartLock /\ StartHooksOnceInOrder
  BY DEF IInv
<1>1. /\ startInFlight = a /\ ~started
      /\ starts[a].hook = startHookIndex + 1
      /\ startHookIndex < nStart
  BY <1>0 DEF StartHookReturns, StartLock, StartHookRunning
<1>2. /\ startHookIndex' = startHookIndex + 1
      /\ ran' = [ran EXCEPT ![startHookIndex + 1] = @ + 1]
      /\ UNCHANGED <<stopInFlight, nStart, nStop, stops, calls>>
      /\ \/ /\ startHookIndex + 1 < nStart
            /\ starts' = [starts EXCEPT ![a].hook = startHookIndex + 2]
            /\ UNCHANGED <<started, startInFlight>>
         \/ /\ starts' = [starts EXCEPT ![a] = [pc |-> "resolved", hook |-> 0]]
            /\ started' = TRUE
            /\ startInFlight' = NoAttempt
  BY <1>1 DEF StartHookReturns, MoreStartHooks
<1>3. TypeOK'
  <2>1. starts' \in [StartIds -> StartAttempt]
    <3>1. [pc |-> "resolved", hook |-> 0] \in StartAttempt
      BY HooksAssumption DEF StartAttempt
    <3>2. CASE /\ startHookIndex + 1 < nStart
               /\ starts' = [starts EXCEPT ![a].hook = startHookIndex + 2]
      BY <1>0, <1>1, <3>2, HooksAssumption DEF TypeOK, StartAttempt
    <3> QED
      BY <1>0, <1>2, <3>1, <3>2 DEF TypeOK
  <2>2. startHookIndex' \in 0 .. MaxHooks /\ ran' \in [Hooks -> Nat]
    BY <1>0, <1>1, <1>2, HooksAssumption DEF TypeOK, Hooks
  <2> QED
    BY <1>0, <1>2, <2>1, <2>2 DEF TypeOK
<1>4. StartLock'
  BY <1>0, <1>1, <1>2 DEF StartLock, StartHookRunning, TypeOK, StartAttempt
<1>5. StopLock' /\ StopWhileStarted' /\ StopHooksInAttempt'
  BY <1>1, <1>2 DEF IInv, StopLock, StopWhileStarted, StopHooksInAttempt, StopHookRunning
<1>6. (startHookIndex <= nStart)'
  BY <1>0, <1>1, <1>2 DEF TypeOK
<1>7. StartHooksOnceInOrder'
  <2> SUFFICES ASSUME NEW h \in Hooks
               PROVE  ran'[h] = IF h <= startHookIndex' THEN 1 ELSE 0
    BY DEF StartHooksOnceInOrder
  <2>1. ran[h] = IF h <= startHookIndex THEN 1 ELSE 0
    BY <1>0 DEF StartHooksOnceInOrder
  <2> QED
    BY <1>0, <1>2, <2>1 DEF TypeOK, Hooks
<1> QED
  BY <1>3, <1>4, <1>5, <1>6, <1>7 DEF IInv

(* A start hook fails: the lock is released, the index stays.              *)
LEMMA StartHookFailsIInv ==
  ASSUME IInv, NEW a \in StartIds, StartHookFails(a)
  PROVE  IInv'
<1>0. TypeOK /\ StartLock
  BY DEF IInv
<1>1. /\ startInFlight = a
      /\ starts' = [starts EXCEPT ![a] = [pc |-> "rejected", hook |-> 0]]
      /\ startInFlight' = NoAttempt
      /\ UNCHANGED <<started, startHookIndex, stopInFlight, nStart, nStop, stops, calls, ran>>
  BY <1>0 DEF StartHookFails, StartLock, StartHookRunning
<1>2. TypeOK'
  <2>1. [pc |-> "rejected", hook |-> 0] \in StartAttempt
    BY HooksAssumption DEF StartAttempt
  <2> QED
    BY <1>0, <1>1, <2>1 DEF TypeOK
<1>3. StartLock'
  BY <1>0, <1>1 DEF StartLock, StartHookRunning, TypeOK
<1>4. StopLock' /\ StopWhileStarted' /\ StopHooksInAttempt'
  BY <1>1 DEF IInv, StopLock, StopWhileStarted, StopHooksInAttempt, StopHookRunning
<1>5. (startHookIndex <= nStart)' /\ StartHooksOnceInOrder'
  BY <1>1 DEF IInv, StartHooksOnceInOrder
<1> QED
  BY <1>2, <1>3, <1>4, <1>5 DEF IInv

(* stop() makes an attempt: the app is started and no attempt holds the    *)
(* lock, so no hook of either kind runs.                                   *)
LEMMA StopBeginIInv ==
  ASSUME IInv, NEW c \in Callers, StopBegin(c)
  PROVE  IInv'
<1>0. TypeOK
  BY DEF IInv
<1> DEFINE new == [run |-> IF nStop = 0 THEN "ok" ELSE "hook",
                   outer |-> "racing", todo |-> Snapshot]
<1>1. PICK a \in StopIds :
        /\ stops' = [stops EXCEPT ![a] = new]
        /\ stopInFlight' = a
        /\ Joins(c, "stop", a)
  BY DEF StopBegin
<1>2. /\ started /\ stopInFlight = NoAttempt
      /\ UNCHANGED <<started, startHookIndex, startInFlight, nStart, nStop, starts, ran>>
  BY DEF StopBegin, StopPending, Stoppable
<1>3. /\ new \in StopAttempt
      /\ new.run = "hook" => new.todo # << >>
      /\ new.outer = "racing"
  BY <1>0, SnapshotType DEF TypeOK, StopAttempt
<1> HIDE DEF new
<1>4. TypeOK'
  <2>1. calls' \in [Callers -> Call]
    BY <1>0, <1>1, JoinsType DEF Joins
  <2> QED
    BY <1>0, <1>1, <1>2, <1>3, <2>1 DEF TypeOK
<1>5. \A b \in StopIds : stops[b].outer \notin {"racing", "timedout", "stopped", "failed"}
  BY <1>2, NoAttemptAssumption DEF IInv, StopLock
<1>6. StopLock' /\ StopWhileStarted' /\ StopHooksInAttempt'
  BY <1>0, <1>1, <1>2, <1>3, <1>5
  DEF IInv, TypeOK, StopLock, StopWhileStarted, StopHooksInAttempt, StopHookRunning
<1>7. StartLock' /\ (startHookIndex <= nStart)' /\ StartHooksOnceInOrder'
  BY <1>2 DEF IInv, StartLock, StartHookRunning, StartHooksOnceInOrder
<1> QED
  BY <1>4, <1>6, <1>7 DEF IInv

(* Steps of a stop attempt that leave the app's own variables alone.       *)
LEMMA StopRunIInv ==
  ASSUME IInv, NEW a \in StopIds, StopHookStep(a) \/ StopTimesOut(a)
  PROVE  IInv'
<1>0. TypeOK /\ StopHooksInAttempt
  BY DEF IInv
<1>1. UNCHANGED <<appVars, starts, calls, ran>> /\ stops[a].run = "hook"
  BY DEF StopHookStep, StopHookReturns, StopHookFails, StopTimesOut
<1>2. /\ stops[a].todo \in Seq(Hooks) /\ stops[a].todo # << >>
      /\ Len(stops[a].todo) # 0
  BY <1>0, <1>1, EmptySeq DEF TypeOK, StopAttempt, StopHooksInAttempt, StopHookRunning
<1>3. stops[a] \in StopAttempt /\ stops[a].outer \in {"racing", "timedout"}
  BY <1>0, <1>1 DEF TypeOK, StopHooksInAttempt, StopHookRunning
<1>4. \E new \in StopAttempt :
        /\ stops' = [stops EXCEPT ![a] = new]
        /\ new.outer \in {"racing", "timedout"}
        /\ new.run = "hook" => new.todo # << >>
  <2>1. CASE StopHookReturns(a)
    <3>1. /\ Tail(stops[a].todo) \in Seq(Hooks)
          /\ Len(stops[a].todo) # 1 => Tail(stops[a].todo) # << >>
      <4> DEFINE t == stops[a].todo
      <4>1. t \in Seq(Hooks) /\ t # << >>
        BY <1>2
      <4> HIDE DEF t
      <4>2. Tail(t) \in Seq(Hooks) /\ Len(Tail(t)) = Len(t) - 1 /\ Len(t) \in Nat
        BY <4>1, HeadTailProperties, EmptySeq
      <4>3. Len(t) # 1 => Len(Tail(t)) # 0
        BY <4>2
      <4>4. Len(<< >>) = 0
        BY EmptySeq
      <4> QED
        BY <4>2, <4>3, <4>4 DEF t
    <3> DEFINE new == [stops[a] EXCEPT !.todo = Tail(stops[a].todo),
                                       !.run = IF Len(stops[a].todo) = 1 THEN "ok" ELSE "hook"]
    <3>2. stops' = [stops EXCEPT ![a] = new]
      BY <2>1 DEF StopHookReturns
    <3>3. /\ new \in StopAttempt /\ new.outer = stops[a].outer
          /\ new.run = "hook" => new.todo # << >>
      BY <1>3, <3>1 DEF StopAttempt
    <3> QED
      BY <1>3, <3>2, <3>3
  <2>2. CASE StopHookFails(a)
    <3> DEFINE new == [stops[a] EXCEPT !.run = "err", !.todo = << >>]
    <3>1. stops' = [stops EXCEPT ![a] = new]
      BY <2>2 DEF StopHookFails
    <3>2. new \in StopAttempt /\ new.outer = stops[a].outer /\ new.run = "err"
      BY <1>3, EmptySeq DEF StopAttempt
    <3> QED
      BY <1>3, <3>1, <3>2
  <2>3. CASE StopTimesOut(a)
    <3> DEFINE new == [stops[a] EXCEPT !.outer = "timedout"]
    <3>1. stops' = [stops EXCEPT ![a] = new]
      BY <2>3 DEF StopTimesOut
    <3>2. new \in StopAttempt /\ new.outer = "timedout" /\ new.todo = stops[a].todo
      BY <1>3 DEF StopAttempt
    <3> QED
      BY <1>2, <3>1, <3>2
  <2> QED
    BY <2>1, <2>2, <2>3 DEF StopHookStep
<1>5. PICK new \in StopAttempt :
        /\ stops' = [stops EXCEPT ![a] = new]
        /\ new.outer \in {"racing", "timedout"}
        /\ new.run = "hook" => new.todo # << >>
  BY <1>4
<1>6. TypeOK' /\ StopLock' /\ StopWhileStarted' /\ StopHooksInAttempt'
  <2>1. TypeOK'
    BY <1>0, <1>1, <1>5 DEF TypeOK, appVars
  <2>2. stopInFlight = a /\ started
    BY <1>3 DEF IInv, StopLock, StopWhileStarted
  <2> QED
    BY <1>0, <1>1, <1>5, <2>1, <2>2
    DEF IInv, TypeOK, appVars, StopLock, StopWhileStarted, StopHooksInAttempt, StopHookRunning
<1>7. StartLock' /\ (startHookIndex <= nStart)' /\ StartHooksOnceInOrder'
  BY <1>1 DEF IInv, appVars, StartLock, StartHookRunning, StartHooksOnceInOrder
<1> QED
  BY <1>6, <1>7 DEF IInv

(* The race of a stop attempt ends: its hooks have settled, so none runs.  *)
LEMMA StopRaceEndsIInv ==
  ASSUME IInv, NEW a \in StopIds, StopRaceEnds(a)
  PROVE  IInv'
<1>0. TypeOK
  BY DEF IInv
<1>1. /\ stops[a].outer = "racing" /\ stops[a].run # "hook"
      /\ UNCHANGED <<startHookIndex, startInFlight, stopInFlight, nStart, nStop,
                     starts, calls, ran>>
  BY DEF StopRaceEnds
<1>2. PICK o \in {"stopped", "failed"} :
        /\ stops' = [stops EXCEPT ![a].outer = o]
        /\ started' \in BOOLEAN
        /\ started' \in {started, FALSE}
  BY <1>0 DEF StopRaceEnds, TypeOK
<1>3. stopInFlight = a /\ started
  BY <1>1 DEF IInv, StopLock, StopWhileStarted
<1>4. \A b \in StartIds : ~StartHookRunning(b)
  BY <1>3 DEF IInv, StartLock
<1>5. \A b \in StopIds \ {a} : stops[b].outer \notin {"racing", "timedout", "stopped", "failed"}
  BY <1>3 DEF IInv, StopLock
<1>6. TypeOK'
  BY <1>0, <1>1, <1>2 DEF TypeOK, StopAttempt
<1>7. StartLock'
  BY <1>1, <1>4 DEF StartLock, StartHookRunning
<1>8. StopLock' /\ StopWhileStarted' /\ StopHooksInAttempt'
  BY <1>0, <1>1, <1>2, <1>3, <1>5
  DEF IInv, TypeOK, StopAttempt, StopLock, StopWhileStarted, StopHooksInAttempt,
      StopHookRunning
<1>9. (startHookIndex <= nStart)' /\ StartHooksOnceInOrder'
  BY <1>1 DEF IInv, StartHooksOnceInOrder
<1> QED
  BY <1>6, <1>7, <1>8, <1>9 DEF IInv

(* A stop attempt releases the lock, after its hooks have settled.         *)
LEMMA StopReleasesIInv ==
  ASSUME IInv, NEW a \in StopIds, StopReleases(a)
  PROVE  IInv'
<1>0. TypeOK
  BY DEF IInv
<1>1. /\ stops[a].outer \in {"stopped", "failed", "timedout"} /\ stops[a].run # "hook"
      /\ UNCHANGED <<started, startHookIndex, startInFlight, nStart, nStop,
                     starts, calls, ran>>
      /\ stopInFlight' = NoAttempt
  BY DEF StopReleases, HooksSettled
<1>2. PICK o \in {"resolved", "rejected"} : stops' = [stops EXCEPT ![a].outer = o]
  BY DEF StopReleases
<1>3. \A b \in StopIds \ {a} : stops[b].outer \notin {"racing", "timedout", "stopped", "failed"}
  BY <1>1 DEF IInv, StopLock
<1>4. TypeOK'
  BY <1>0, <1>1, <1>2 DEF TypeOK, StopAttempt
<1>5. StopLock' /\ StopWhileStarted' /\ StopHooksInAttempt'
  BY <1>0, <1>1, <1>2, <1>3
  DEF IInv, TypeOK, StopAttempt, StopLock, StopWhileStarted, StopHooksInAttempt,
      StopHookRunning
<1>6. StartLock' /\ (startHookIndex <= nStart)' /\ StartHooksOnceInOrder'
  BY <1>1 DEF IInv, StartLock, StartHookRunning, StartHooksOnceInOrder
<1> QED
  BY <1>4, <1>5, <1>6 DEF IInv

(* Registering a hook only lengthens a list.                               *)
LEMMA RegisterIInv ==
  ASSUME IInv, OnStart \/ OnStop
  PROVE  IInv'
<1>1. /\ UNCHANGED <<started, startHookIndex, startInFlight, stopInFlight,
                     starts, stops, calls, ran>>
      /\ nStart' \in 0 .. MaxHooks /\ nStart <= nStart'
      /\ nStop' \in 0 .. MaxHooks
  BY HooksAssumption DEF OnStart, OnStop, IInv, TypeOK
<1>2. TypeOK'
  BY <1>1 DEF IInv, TypeOK
<1>3. StartLock'
  BY <1>1, HooksAssumption DEF IInv, TypeOK, StartLock, StartHookRunning
<1>4. StopLock' /\ StopWhileStarted' /\ StopHooksInAttempt' /\ StartHooksOnceInOrder'
  BY <1>1 DEF IInv, StopLock, StopWhileStarted, StopHooksInAttempt, StopHookRunning,
              StartHooksOnceInOrder
<1>5. (startHookIndex <= nStart)'
  BY <1>1, HooksAssumption DEF IInv, TypeOK
<1> QED
  BY <1>2, <1>3, <1>4, <1>5 DEF IInv

(* Every step preserves the inductive invariant.                           *)
LEMMA NextIInv == IInv /\ [Next]_vars => IInv'
<1> SUFFICES ASSUME IInv, [Next]_vars PROVE IInv'
  OBVIOUS
<1>1. CASE OnStart \/ OnStop
  BY <1>1, RegisterIInv
<1>2. ASSUME NEW c \in Callers, CallStep(c) PROVE IInv'
  BY <1>2, CallIInv, StartBeginIInv, StartAtOnceIInv, StopBeginIInv DEF CallStep
<1>3. ASSUME NEW a \in StartIds, StartStep(a) PROVE IInv'
  BY <1>3, StartHookReturnsIInv, StartHookFailsIInv DEF StartStep
<1>4. ASSUME NEW a \in StopIds, StopHookStep(a) \/ StopStep(a) PROVE IInv'
  BY <1>4, StopRunIInv, StopRaceEndsIInv, StopReleasesIInv DEF StopStep
<1>5. CASE UNCHANGED vars
  <2>1. calls' \in [Callers -> Call] /\ UNCHANGED <<appVars, starts, stops, ran>>
    BY <1>5 DEF vars, appVars, IInv, TypeOK
  <2> QED
    BY <2>1, QuietIInv
<1> QED
  BY <1>1, <1>2, <1>3, <1>4, <1>5 DEF Next

(* The invariant that makes the lifecycle correct holds in every state.    *)
THEOREM Invariance == Spec => []IInv
BY InitIInv, NextIInv, PTL DEF Spec

-----------------------------------------------------------------------------
(* Every variable of createApp's closure, every attempt and every caller   *)
(* holds a value of its kind in every state.                               *)
THEOREM TypeCorrect == Spec => []TypeOK
<1>1. IInv => TypeOK
  BY DEF IInv
<1> QED
  BY <1>1, Invariance, PTL

(* No two hooks of the app ever run at the same time, across concurrent    *)
(* starts, stops that time out and the retries that follow them.           *)
THEOREM HooksExclude == Spec => []OneHookAtATime
<1>1. ASSUME IInv PROVE OneHookAtATime
  <2>1. \A a, b \in StartIds : StartHookRunning(a) /\ StartHookRunning(b) => a = b
    BY <1>1 DEF IInv, StartLock
  <2>2. \A a, b \in StopIds : StopHookRunning(a) /\ StopHookRunning(b) => a = b
    BY <1>1 DEF IInv, StopLock, StopHooksInAttempt
  <2>3. \A a \in StartIds, b \in StopIds : ~(StartHookRunning(a) /\ StopHookRunning(b))
    BY <1>1 DEF IInv, StartLock, StopWhileStarted, StopHooksInAttempt
  <2> QED
    BY <2>1, <2>2, <2>3 DEF OneHookAtATime
<1> QED
  BY <1>1, Invariance, PTL

(* A start hook that succeeded is never run again, and hooks succeed in    *)
(* registration order.                                                     *)
THEOREM StartHooksRunOnce == Spec => []StartHooksOnceInOrder
<1>1. IInv => StartHooksOnceInOrder
  BY DEF IInv
<1> QED
  BY <1>1, Invariance, PTL

(* A stop hook only runs in an app that is started.                        *)
THEOREM StopHooksAfterStart == Spec => []StopHooksOnlyWhileStarted
<1>1. IInv => StopHooksOnlyWhileStarted
  BY DEF IInv, StopHooksOnlyWhileStarted, StopWhileStarted, StopHooksInAttempt
<1> QED
  BY <1>1, Invariance, PTL

-----------------------------------------------------------------------------
(* The loop of start() is over exactly when the index is the list's length.*)
LEMMA NoMoreStartHooks ==
  ASSUME IInv
  PROVE  /\ ~MoreStartHooks(startHookIndex) => startHookIndex = nStart
         /\ startHookIndex < nStart /\ ~MoreStartHooks(startHookIndex + 1)
              => startHookIndex + 1 = nStart
<1>1. startHookIndex \in Int /\ nStart \in Int /\ startHookIndex <= nStart
  BY HooksAssumption DEF IInv, TypeOK
<1> QED
  BY <1>1 DEF MoreStartHooks

(* When the steps that begin or end an attempt take the flag up.           *)
LEMMA StartedStep ==
  ASSUME IInv, [Next]_vars, ~started, started'
  PROVE  startHookIndex' = nStart
<1>1. CASE \E c \in Callers : StartAtOnce(c)
  <2>1. ~MoreStartHooks(startHookIndex) /\ UNCHANGED startHookIndex
    BY <1>1 DEF StartAtOnce
  <2> QED
    BY <2>1, NoMoreStartHooks
<1>2. CASE \E a \in StartIds : StartHookReturns(a)
  <2>1. PICK a \in StartIds : StartHookReturns(a)
    BY <1>2
  <2>2. startHookIndex < nStart
    BY <2>1 DEF IInv, StartLock, StartHookRunning, StartHookReturns
  <2> QED
    <3>1. ~MoreStartHooks(startHookIndex + 1) /\ startHookIndex' = startHookIndex + 1
      BY <2>1 DEF StartHookReturns
    <3> QED
      BY <2>2, <3>1, NoMoreStartHooks
<1>3. CASE UNCHANGED started \/ ~started'
  BY <1>3
<1>4. ASSUME NEW c \in Callers, CallStep(c), ~StartAtOnce(c) PROVE UNCHANGED started
  BY <1>4 DEF CallStep, StartRefused, StartJoin, StartBegin, StopIgnored, StopJoin,
              StopBegin, CallEnds, StartCallEnds, StopCallEnds, appVars
<1>5. ASSUME NEW a \in StartIds, StartHookFails(a) PROVE UNCHANGED started
  BY <1>5 DEF StartHookFails
<1>6. ASSUME NEW a \in StopIds, StopHookStep(a) \/ StopStep(a)
      PROVE  UNCHANGED started \/ ~started'
  BY <1>6 DEF StopHookStep, StopStep, StopHookReturns, StopHookFails, StopTimesOut,
              StopRaceEnds, StopReleases, appVars
<1>7. CASE OnStart \/ OnStop
  BY <1>7 DEF OnStart, OnStop
<1>8. CASE UNCHANGED vars
  BY <1>8 DEF vars
<1> QED
  BY <1>1, <1>2, <1>3, <1>4, <1>5, <1>6, <1>7, <1>8 DEF Next, StartStep

(* The app only ever turns started when no registered start hook is left.  *)
THEOREM StartsComplete == Spec => StartedAfterEveryHook
<1>1. IInv /\ [Next]_vars => [~started /\ started' => startHookIndex' = nStart]_vars
  BY StartedStep
<1> QED
  BY <1>1, Invariance, PTL DEF Spec, StartedAfterEveryHook

-----------------------------------------------------------------------------
(* The refinement: every step of Lifecycle is a step of LifecyclePhases or *)
(* leaves the phase alone.                                                 *)

StopAttemptOpen(a) == stops[a].outer \in {"racing", "timedout"}

(* The phase, from what the inductive invariant says of the attempts.      *)
LEMMA PhaseIs ==
  ASSUME IInv
  PROVE  /\ \A a \in StartIds : StartHookRunning(a) => phaseOf = "starting"
         /\ \A a \in StopIds : StopAttemptOpen(a) => phaseOf = "stopping"
         /\ (\A a \in StartIds : ~StartHookRunning(a)) /\ (\A a \in StopIds : ~StopAttemptOpen(a))
              => phaseOf = IF started THEN "up" ELSE "down"
BY DEF IInv, StartLock, StopWhileStarted, phaseOf, StopAttemptOpen

(* Steps that begin, end or leave alone the attempts that the phase tells. *)
LEMMA PhaseStep ==
  ASSUME IInv, IInv', [Next]_vars
  PROVE  [Phases!Next]_(Phases!phaseVars)
<1> USE DEF Phases!phaseVars
<1>0. TypeOK /\ TypeOK'
  BY DEF IInv
<1>a. ASSUME UNCHANGED <<started, startHookIndex, nStart, starts, stops>>
      PROVE  UNCHANGED Phases!phaseVars
  BY <1>a DEF phaseOf, StartHookRunning
<1>1. CASE OnStart
  <2>1. UNCHANGED phaseOf
    BY <1>1 DEF OnStart, phaseOf, StartHookRunning
  <2> QED
    BY <1>1, <2>1 DEF OnStart, Phases!Next, Phases!Register
<1>2. CASE OnStop
  BY <1>2, <1>a DEF OnStop
<1>3. ASSUME NEW c \in Callers, CallStep(c) PROVE [Phases!Next]_(Phases!phaseVars)
  <2>1. CASE StartBegin(c)
    <3>1. ~started /\ startInFlight = NoAttempt /\ startHookIndex < nStart
          /\ UNCHANGED <<startHookIndex, nStart>>
      BY <2>1 DEF StartBegin, StartPending, MoreStartHooks
    <3>2. phaseOf = "down"
      BY <3>1, PhaseIs, NoAttemptAssumption
      DEF IInv, StartLock, StopWhileStarted, StopAttemptOpen
    <3>3. \E a \in StartIds : StartHookRunning(a)'
      BY <1>0, <2>1 DEF StartBegin, TypeOK, StartHookRunning
    <3>4. phaseOf' = "starting"
      BY <3>3 DEF phaseOf
    <3> QED
      BY <3>1, <3>2, <3>4 DEF Phases!Next, Phases!BeginStart
  <2>2. CASE StartAtOnce(c)
    <3>1. ~started /\ startInFlight = NoAttempt /\ UNCHANGED <<startHookIndex, nStart, stops>>
          /\ startHookIndex <= nStart
      BY <2>2 DEF StartAtOnce, StartPending, IInv
    <3>2. \A b \in StartIds : ~StartHookRunning(b)
      BY <3>1, NoAttemptAssumption DEF IInv, StartLock
    <3>3. \A b \in StopIds : ~StopAttemptOpen(b) /\ ~StopAttemptOpen(b)'
      BY <3>1 DEF IInv, StopWhileStarted, StopAttemptOpen
    <3>4. \A b \in StartIds : ~StartHookRunning(b)'
      BY <1>0, <2>2, <3>2 DEF StartAtOnce, StartHookRunning, TypeOK
    <3>5. phaseOf = "down" /\ phaseOf' = IF started' THEN "up" ELSE "down"
      BY <3>1, <3>2, <3>3, <3>4 DEF phaseOf, StopAttemptOpen
    <3>6. CASE started'
      <4>1. startHookIndex = nStart
        <5>1. ~MoreStartHooks(startHookIndex)
          BY <2>2, <3>1, <3>6 DEF StartAtOnce
        <5> QED
          BY <5>1, NoMoreStartHooks
      <4> QED
        BY <3>1, <3>5, <3>6, <4>1 DEF Phases!Next, Phases!StartWithoutHooks
    <3>7. CASE ~started'
      BY <3>1, <3>5, <3>7
    <3> QED
      BY <3>6, <3>7
  <2>3. CASE StopBegin(c)
    <3>1. started /\ stopInFlight = NoAttempt /\ UNCHANGED <<started, startHookIndex, nStart, starts>>
      BY <2>3 DEF StopBegin, StopPending, Stoppable
    <3>2. phaseOf = "up"
      BY <3>1, PhaseIs, NoAttemptAssumption
      DEF IInv, StartLock, StopLock, StopAttemptOpen
    <3>3. \E a \in StopIds : StopAttemptOpen(a)'
      BY <1>0, <2>3 DEF StopBegin, TypeOK, StopAttemptOpen
    <3>4. \A a \in StartIds : ~StartHookRunning(a)'
      BY <3>1 DEF IInv, StartLock, StartHookRunning
    <3>5. phaseOf' = "stopping"
      BY <3>3, <3>4 DEF phaseOf, StopAttemptOpen
    <3> QED
      BY <3>1, <3>2, <3>5 DEF Phases!Next, Phases!BeginStop
  <2>4. CASE ~(StartBegin(c) \/ StartAtOnce(c) \/ StopBegin(c))
    <3>1. UNCHANGED <<started, startHookIndex, nStart, starts, stops>>
      BY <1>3, <2>4 DEF CallStep, StartRefused, StartJoin, StopIgnored, StopJoin,
                        CallEnds, StartCallEnds, StopCallEnds, appVars
    <3> QED
      BY <3>1, <1>a
  <2> QED
    BY <2>1, <2>2, <2>3, <2>4
<1>4. ASSUME NEW a \in StartIds, StartHookReturns(a) PROVE Phases!Next
  <2>1. /\ startHookIndex < nStart /\ ~started
        /\ phaseOf = "starting"
        /\ startInFlight = a
        /\ startHookIndex' = startHookIndex + 1
        /\ UNCHANGED <<nStart, stops>>
    BY <1>4, PhaseIs DEF IInv, StartLock, StartHookReturns, StartHookRunning
  <2>2. CASE startHookIndex + 1 < nStart
    <3>1. StartHookRunning(a)'
      BY <1>0, <1>4, <2>2
      DEF StartHookReturns, StartHookRunning, TypeOK, StartAttempt, MoreStartHooks
    <3>2. phaseOf' = "starting"
      BY <3>1 DEF phaseOf
    <3> QED
      BY <1>0, <2>1, <2>2, <3>2 DEF TypeOK, Phases!Next, Phases!CompleteHook
  <2>3. CASE ~(startHookIndex + 1 < nStart)
    <3>1. /\ startHookIndex + 1 = nStart
          /\ starts' = [starts EXCEPT ![a] = [pc |-> "resolved", hook |-> 0]]
          /\ started'
      BY <1>0, <1>4, <2>1, <2>3 DEF StartHookReturns, MoreStartHooks, TypeOK
    <3>2. \A b \in StartIds : ~StartHookRunning(b)'
      BY <1>0, <2>1, <3>1 DEF IInv, StartLock, StartHookRunning, TypeOK
    <3>3. \A b \in StopIds : ~StopAttemptOpen(b)'
      BY <2>1 DEF IInv, StopWhileStarted, StopAttemptOpen
    <3>4. phaseOf' = "up"
      BY <3>1, <3>2, <3>3 DEF phaseOf, StopAttemptOpen
    <3> QED
      BY <2>1, <3>1, <3>4 DEF Phases!Next, Phases!CompleteHook
  <2> QED
    BY <2>2, <2>3
<1>5. ASSUME NEW a \in StartIds, StartHookFails(a) PROVE Phases!Next
  <2>1. /\ ~started /\ phaseOf = "starting" /\ startInFlight = a
        /\ UNCHANGED <<started, startHookIndex, nStart, stops>>
    BY <1>5, PhaseIs DEF IInv, StartLock, StartHookFails, StartHookRunning
  <2>2. \A b \in StartIds : ~StartHookRunning(b)'
    BY <1>0, <1>5, <2>1 DEF StartHookFails, IInv, StartLock, StartHookRunning, TypeOK
  <2>3. \A b \in StopIds : ~StopAttemptOpen(b)'
    BY <2>1 DEF IInv, StopWhileStarted, StopAttemptOpen
  <2>4. phaseOf' = "down"
    BY <2>1, <2>2, <2>3 DEF phaseOf, StopAttemptOpen
  <2> QED
    BY <2>1, <2>4 DEF Phases!Next, Phases!FailStart
<1>6. ASSUME NEW a \in StopIds, StopHookStep(a) \/ StopTimesOut(a)
      PROVE  UNCHANGED Phases!phaseVars
  <2>1. UNCHANGED <<started, startHookIndex, nStart, starts>> /\ StopHookRunning(a)
    BY <1>6 DEF StopHookStep, StopHookReturns, StopHookFails, StopTimesOut, appVars,
                StopHookRunning
  <2>2. StopAttemptOpen(a)
    BY <2>1 DEF IInv, StopHooksInAttempt, StopAttemptOpen
  <2>3. StopAttemptOpen(a)'
    BY <1>0, <1>6, <2>2
    DEF StopHookStep, StopHookReturns, StopHookFails, StopTimesOut, StopAttemptOpen,
        TypeOK, StopAttempt
  <2>4. \A b \in StartIds : ~StartHookRunning(b) /\ ~StartHookRunning(b)'
    BY <2>1, <2>2 DEF IInv, StartLock, StopWhileStarted, StopAttemptOpen, StartHookRunning
  <2>5. phaseOf = "stopping" /\ phaseOf' = "stopping"
    BY <2>2, <2>3, <2>4 DEF phaseOf, StopAttemptOpen
  <2> QED
    BY <2>1, <2>5
<1>7. ASSUME NEW a \in StopIds, StopRaceEnds(a) \/ StopReleases(a)
      PROVE  [Phases!Next]_(Phases!phaseVars)
  <2>1. /\ UNCHANGED <<startHookIndex, nStart, starts>>
        /\ stops[a].outer \in {"racing", "stopped", "failed", "timedout"}
    BY <1>7 DEF StopRaceEnds, StopReleases
  <2>2. \A b \in StopIds \ {a} : stops[b].outer \notin {"racing", "timedout", "stopped", "failed"}
    BY <2>1 DEF IInv, StopLock
  <2>3. \A b \in StopIds : ~StopAttemptOpen(b)'
    <3>1. PICK o \in {"stopped", "failed", "resolved", "rejected"} :
            stops' = [stops EXCEPT ![a].outer = o]
      BY <1>7 DEF StopRaceEnds, StopReleases
    <3> QED
      BY <1>0, <2>2, <3>1 DEF StopAttemptOpen, TypeOK, StopAttempt
  <2>4. CASE StopAttemptOpen(a)
    <3>1. \A b \in StartIds : ~StartHookRunning(b) /\ ~StartHookRunning(b)'
      BY <2>1, <2>4 DEF IInv, StartLock, StopWhileStarted, StopAttemptOpen, StartHookRunning
    <3>2. phaseOf = "stopping" /\ phaseOf' \in {"up", "down"}
      BY <2>3, <2>4, <3>1 DEF phaseOf, StopAttemptOpen
    <3> QED
      BY <2>1, <3>2 DEF Phases!Next, Phases!EndStop
  <2>5. CASE ~StopAttemptOpen(a)
    <3>1. UNCHANGED started
      BY <1>7, <2>5 DEF StopRaceEnds, StopReleases, StopAttemptOpen
    <3>2. \A b \in StopIds : ~StopAttemptOpen(b)
      BY <2>2, <2>5 DEF StopAttemptOpen
    <3>3. UNCHANGED phaseOf
      BY <2>1, <2>3, <3>1, <3>2 DEF phaseOf, StopAttemptOpen, StartHookRunning
    <3> QED
      BY <2>1, <3>3
  <2> QED
    BY <2>4, <2>5
<1>8. CASE UNCHANGED vars
  BY <1>8, <1>a DEF vars
<1> QED
  BY <1>1, <1>2, <1>3, <1>4, <1>5, <1>6, <1>7, <1>8
  DEF Next, StartStep, StopStep

(* Lifecycle implements LifecyclePhases.                                   *)
THEOREM Refinement == Spec => PhasesSpec
<1>1. Init => Phases!Init
  BY HooksAssumption
  DEF Init, Phases!Init, phaseOf, StartHookRunning, IdleStart, IdleStop
<1>2. IInv /\ IInv' /\ [Next]_vars => [Phases!Next]_(Phases!phaseVars)
  BY PhaseStep
<1> QED
  BY <1>1, <1>2, Invariance, PTL DEF Spec, PhasesSpec, Phases!PhaseSpec

=============================================================================
