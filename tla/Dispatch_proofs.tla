--------------------------- MODULE Dispatch_proofs ---------------------------
(***************************************************************************)
(* Proofs about Dispatch, for any stacks, statuses and errors.             *)
(*                                                                         *)
(* LayerInv says what `index` means: the layers up to it have been called, *)
(* once each, whatever their pc is now.  That is what makes `i <= index`   *)
(* the right test for a repeated next(), also of layers that have long     *)
(* ended.  AuthInv follows a request inwards: past a layer that requires   *)
(* a principal there is one, and one that requires none looks into a       *)
(* request, and may turn it away, only for the token it brings.            *)
(***************************************************************************)
EXTENDS Dispatch, SequenceTheorems, TLAPS

Positions == {"idle", "called", "deciding", "running", "waiting", "returned", "threw"}

ErrorSound(e) == e \in Error /\ (~e.app => e.status = 500)

LayerInv ==
  /\ stack \in Stacks
  /\ index \in 1 .. Last
  /\ layer \in [Layers -> Layer]
  /\ \A i \in Layers : layer[i].pc = "idle" <=> i > index
  /\ \A i \in Layers : ErrorSound(layer[i].error)
  /\ ran \in [Layers -> Nat]
  /\ LayersOnceInOrder

CtxInv ==
  /\ security \in Security
  /\ request \in Request
  /\ MaybeOne(response, Nat)
  /\ auth \in BOOLEAN
  /\ headers \subseteq Layers
  /\ DOMAIN recorded = Layers /\ \A i \in Layers : MaybeOne(recorded[i], Record)
  /\ MaybeOne(handling, Error)
  /\ MaybeOne(answer, [status : Nat, headers : SUBSET Layers])
  /\ floated \in BOOLEAN

Optional == {"bearerAuthOptional", "bearerAuthIgnore"}

AuthInv ==
  /\ \A i \in 1 .. Len(stack) :
       stack[i] \in {"bearerAuth", "authorize"} /\ i < index => auth
  /\ \A i \in 1 .. Len(stack) :
       stack[i] = "authorize" /\ layer[i].pc = "deciding" => auth
  /\ \A i \in 1 .. Len(stack) :
       stack[i] \in Optional /\ i = index /\ layer[i].pc # "called" => request.token

IInv == LayerInv /\ CtxInv /\ AuthInv

-----------------------------------------------------------------------------
(* Values that are there or not.                                           *)
LEMMA NoneIsMaybe == ASSUME NEW S PROVE MaybeOne(<< >>, S)
  BY DEF MaybeOne

(* One value of S is a maybe of S.                                         *)
LEMMA SomeIsMaybe == ASSUME NEW S, NEW x \in S PROVE MaybeOne(<<x>>, S)
  BY DEF MaybeOne

(* The value of a maybe of S that is there lies in S.                      *)
LEMMA MaybeValue ==
  ASSUME NEW S, NEW v, MaybeOne(v, S), v # << >>
  PROVE  v[1] \in S
  <1>1. v \in Seq(S) /\ Len(v) \in Nat /\ Len(v) <= 1
    BY DEF MaybeOne
  <1>2. Len(v) # 0
    BY <1>1, EmptySeq
  <1>. QED
    BY <1>1, <1>2

(* The layers of a stack.                                                  *)
LEMMA StackType ==
  ASSUME stack \in Stacks
  PROVE  /\ Len(stack) \in Nat /\ Len(stack) <= MaxLayers
         /\ Last \in 1 .. MaxLayers + 1
         /\ 1 .. Last \subseteq Layers /\ 1 .. Len(stack) \subseteq Layers
         /\ \A i \in 1 .. Len(stack) : i + 1 \in 1 .. Last /\ stack[i] \in Kinds
         /\ \A i \in 1 .. Last : Kind(i) # "terminal" => i \in 1 .. Len(stack) /\ Kind(i) = stack[i]
  <1>1. stack \in Seq(Kinds) /\ Len(stack) <= MaxLayers /\ MaxLayers \in Nat
    BY OperationsAssumption DEF Stacks
  <1>2. Len(stack) \in Nat
    BY <1>1
  <1>. QED
    BY <1>1, <1>2 DEF Last, Layers, Kind

(* A layer calls the next one for the first time.                          *)
LEMMA CallKeeps ==
  ASSUME LayerInv, NEW i \in 1 .. Len(stack), NEW pc \in Positions \ {"idle"},
         layer[i].pc # "idle", CallNext(i, pc), UNCHANGED stack
  PROVE  LayerInv' /\ index = i /\ index' = i + 1
  <1>1. /\ Len(stack) \in Nat /\ i \in Layers /\ i + 1 \in Layers /\ i + 1 \in 1 .. Last
        /\ i # i + 1
    BY StackType, OperationsAssumption DEF LayerInv, Layers
  <1>2. index = i /\ index' = i + 1
    BY <1>1 DEF CallNext, NextCalled, LayerInv, Last
  <1>3. Called(Kind(i + 1)) \in Layer /\ Called(Kind(i + 1)).pc # "idle" /\ ErrorSound(Called(Kind(i + 1)).error)
    BY DEF Called, Layer, ErrorSound, Error, Other
  <1>. DEFINE here == [layer[i] EXCEPT !.pc = pc]
  <1>4. /\ layer' \in [Layers -> Layer]
        /\ \A k \in Layers : layer'[k].pc = "idle" <=> k > index'
        /\ \A k \in Layers : ErrorSound(layer'[k].error)
    <2>1. layer[i] \in Layer /\ ErrorSound(layer[i].error)
      BY <1>1 DEF LayerInv
    <2>2. here \in Layer /\ here.pc # "idle" /\ ErrorSound(here.error)
      BY <2>1 DEF Layer, Positions
    <2>3. layer' = [layer EXCEPT ![i] = here, ![i + 1] = Called(Kind(i + 1))]
      BY DEF CallNext
    <2>. HIDE DEF here
    <2>4. /\ layer' \in [Layers -> Layer]
          /\ \A k \in Layers : layer'[k] = IF k = i + 1 THEN Called(Kind(i + 1))
                                            ELSE IF k = i THEN here ELSE layer[k]
      BY <1>1, <1>3, <2>2, <2>3 DEF LayerInv
    <2>5. \A k \in Layers : k \in Int
      BY OperationsAssumption DEF Layers
    <2>. QED
      BY <1>1, <1>2, <1>3, <2>2, <2>4, <2>5 DEF LayerInv
  <1>5. ran' \in [Layers -> Nat] /\ LayersOnceInOrder'
    BY <1>1, <1>2 DEF CallNext, LayerInv, LayersOnceInOrder, Layers
  <1>. QED
    BY <1>1, <1>2, <1>4, <1>5 DEF LayerInv, Last

(* A layer that has been called goes on by itself.                         *)
LEMMA SetKeeps ==
  ASSUME LayerInv, NEW i \in 1 .. Last, NEW pc \in Positions \ {"idle"}, NEW e,
         ErrorSound(e), layer[i].pc # "idle", Set(i, pc, e),
         UNCHANGED <<stack, index, ran>>
  PROVE  LayerInv'
  <1>1. i \in Layers
    BY StackType DEF LayerInv
  <1>2. [pc |-> pc, error |-> e] \in Layer
    BY DEF Layer, Positions, ErrorSound
  <1>3. /\ layer' \in [Layers -> Layer]
        /\ \A k \in Layers : layer'[k].pc = "idle" <=> k > index
        /\ \A k \in Layers : ErrorSound(layer'[k].error)
    BY <1>1, <1>2 DEF Set, LayerInv
  <1>. QED
    BY <1>3 DEF LayerInv, LayersOnceInOrder, Last

(* A step that touches no layer keeps what is said of them.                *)
LEMMA StillKeeps ==
  ASSUME LayerInv, UNCHANGED <<stack, index, ran, layer>>
  PROVE  LayerInv'
  BY DEF LayerInv, LayersOnceInOrder, Last

(* Errors that layers end with.                                            *)
LEMMA ErrorsSound ==
  /\ ErrorSound(Other) /\ ErrorSound(NotFound)
  /\ \A e \in Errors : ErrorSound(e)
  BY AnswersAssumption DEF ErrorSound, Other, NotFound, Error

-----------------------------------------------------------------------------
(* A step inwards: layer i calls the next one.                             *)
LEMMA MoveIInv ==
  ASSUME IInv, NEW i \in 1 .. Last, NEW pc \in {"waiting", "running"},
         layer[i].pc # "idle", Kind(i) # "terminal", CallNext(i, pc),
         UNCHANGED <<stack, security, request, response, recorded, handling, answer>>,
         headers' \subseteq Layers, auth' \in BOOLEAN, floated' \in BOOLEAN,
         auth => auth', Kind(i) \in {"bearerAuth", "authorize"} => auth'
  PROVE  IInv'
  <1>1. i \in 1 .. Len(stack) /\ Kind(i) = stack[i] /\ i \in Layers /\ i + 1 \in Layers
    BY StackType DEF IInv, LayerInv
  <1>2. LayerInv' /\ index = i /\ index' = i + 1
    BY <1>1, CallKeeps DEF IInv, Positions
  <1>3. CtxInv'
    BY DEF IInv, CtxInv
  <1>4. ASSUME NEW k \in 1 .. Len(stack), stack[k] \in {"bearerAuth", "authorize"}, k < index'
        PROVE  auth'
    BY <1>1, <1>2, <1>4 DEF IInv, AuthInv
  <1>5. ASSUME NEW k \in 1 .. Len(stack), stack[k] = "authorize", layer'[k].pc = "deciding"
        PROVE  auth'
    <2>1. layer[k].pc = "deciding"
      <3>1. k \in Layers
        BY StackType DEF IInv, LayerInv
      <3>2. Called(Kind(i + 1)).pc # "deciding"
        BY DEF Called
      <3>3. layer'[k].pc = IF k = i + 1 THEN Called(Kind(i + 1)).pc
                           ELSE IF k = i THEN pc ELSE layer[k].pc
        BY <1>1, <3>1 DEF CallNext, IInv, LayerInv, Layer
      <3>. QED
        BY <1>5, <3>2, <3>3
    <2>. QED
      BY <1>5, <2>1 DEF IInv, AuthInv
  <1>6. ASSUME NEW k \in 1 .. Len(stack), stack[k] \in Optional, k = index', layer'[k].pc # "called"
        PROVE  FALSE
    <2>1. k = i + 1 /\ Kind(k) = stack[k]
      BY <1>1, <1>2, <1>6, StackType DEF Kind, Last, IInv, LayerInv
    <2>2. Called(Kind(k)).pc = "called"
      BY <1>6, <2>1 DEF Called, Optional
    <2>3. layer'[k] = Called(Kind(k))
      BY <1>1, <2>1 DEF CallNext, IInv, LayerInv
    <2>. QED
      BY <1>6, <2>2, <2>3
  <1>. QED
    BY <1>2, <1>3, <1>4, <1>5, <1>6 DEF IInv, AuthInv

(* Layer i goes on, waits or ends.                                         *)
LEMMA StayIInv ==
  ASSUME IInv, NEW i \in 1 .. Last, NEW pc \in Positions \ {"idle"}, NEW e,
         ErrorSound(e), layer[i].pc # "idle", Set(i, pc, e),
         UNCHANGED <<stack, security, request, index, ran, auth, handling, answer, floated>>,
         headers' \subseteq Layers, MaybeOne(response', Nat),
         DOMAIN recorded' = Layers, \A k \in Layers : MaybeOne(recorded'[k], Record),
         pc = "deciding" /\ Kind(i) = "authorize" => auth,
         Kind(i) \in Optional /\ layer[i].pc = "called" => request.token
  PROVE  IInv'
  <1>1. LayerInv'
    BY SetKeeps DEF IInv
  <1>2. CtxInv'
    BY DEF IInv, CtxInv
  <1>3. ASSUME NEW k \in 1 .. Len(stack), stack[k] = "authorize", layer'[k].pc = "deciding"
        PROVE  auth
    <2>1. k \in Layers /\ i \in Layers
      BY StackType DEF IInv, LayerInv
    <2>2. layer'[k].pc = IF k = i THEN pc ELSE layer[k].pc
      BY <2>1 DEF Set, IInv, LayerInv
    <2>3. k # i => auth
      BY <1>3, <2>2 DEF IInv, AuthInv
    <2>4. k = i => Kind(i) = "authorize"
      BY <1>3, StackType DEF Kind, Last, IInv, LayerInv
    <2>. QED
      BY <1>3, <2>2, <2>3, <2>4
  <1>4. ASSUME NEW k \in 1 .. Len(stack), stack[k] \in Optional, k = index, layer'[k].pc # "called"
        PROVE  request.token
    <2>1. k \in Layers /\ i \in Layers
      BY StackType DEF IInv, LayerInv
    <2>2. CASE k = i
      <3>1. Kind(i) = stack[k]
        BY <2>2, StackType DEF Kind, Last, IInv, LayerInv
      <3>. QED
        BY <1>4, <2>2, <3>1 DEF IInv, AuthInv
    <2>3. CASE k # i
      <3>1. layer'[k] = layer[k]
        BY <2>1, <2>3 DEF Set, IInv, LayerInv
      <3>. QED
        BY <1>4, <3>1 DEF IInv, AuthInv
    <2>. QED
      BY <2>2, <2>3
  <1>. QED
    BY <1>1, <1>2, <1>3, <1>4 DEF IInv, AuthInv

(* Layers stay as they are.                                                *)
LEMMA StillIInv ==
  ASSUME IInv, UNCHANGED <<stack, security, request, index, layer, ran, headers, recorded, floated>>,
         auth' \in BOOLEAN, auth => auth', MaybeOne(response', Nat), MaybeOne(handling', Error),
         MaybeOne(answer', [status : Nat, headers : SUBSET Layers])
  PROVE  IInv'
  <1>1. LayerInv'
    BY StillKeeps DEF IInv
  <1>. QED
    BY <1>1 DEF IInv, CtxInv, AuthInv

-----------------------------------------------------------------------------
(* The initial state has called the first layer only.                      *)
LEMMA InitIInv == Init => IInv
  <1>. SUFFICES ASSUME Init PROVE IInv
    OBVIOUS
  <1>1. stack \in Stacks /\ Len(stack) \in Nat /\ Last \in Nat /\ 1 \in 1 .. Last /\ 1 \in Layers
    BY StackType, OperationsAssumption DEF Init, Layers, Stacks
  <1>2. /\ Called(Kind(1)) \in Layer /\ Called(Kind(1)).pc \in {"called", "running"}
        /\ ErrorSound(Called(Kind(1)).error)
        /\ Idle \in Layer /\ Idle.pc = "idle" /\ ErrorSound(Idle.error)
    BY DEF Called, Layer, ErrorSound, Error, Other, Idle
  <1>3. \A i \in Layers : i \in Nat /\ i >= 1
    BY OperationsAssumption DEF Layers
  <1>4. LayerInv
    BY <1>1, <1>2, <1>3 DEF Init, LayerInv, LayersOnceInOrder
  <1>5. CtxInv
    BY NoneIsMaybe, OperationsAssumption DEF Init, CtxInv
  <1>6. AuthInv
    <2>1. \A i \in 1 .. Len(stack) : i \in Layers /\ ~(i < index)
      BY <1>1, StackType DEF Init
    <2>2. \A i \in Layers : layer[i].pc # "deciding"
      BY <1>2 DEF Init
    <2>3. ASSUME NEW i \in 1 .. Len(stack), stack[i] \in Optional, i = index
          PROVE  layer[i].pc = "called"
      <3>1. i = 1 /\ Kind(1) = stack[1]
        BY <1>1, <2>3 DEF Init, Kind, Last
      <3>2. Called(Kind(1)).pc = "called"
        BY <2>3, <3>1 DEF Called, Optional
      <3>. QED
        BY <1>1, <3>1, <3>2 DEF Init
    <2>. QED
      BY <2>1, <2>2, <2>3 DEF AuthInv
  <1>. QED
    BY <1>4, <1>5, <1>6 DEF IInv

(* ctx.respond and return.                                                 *)
LEMMA ShortCircuitIInv ==
  ASSUME IInv, NEW i \in 1 .. Last, layer[i].pc # "idle", NEW status \in Nat,
         headers' \subseteq Layers, ShortCircuit(i, status),
         Kind(i) \in Optional /\ layer[i].pc = "called" => request.token
  PROVE  IInv'
  <1>1. MaybeOne(response', Nat)
    BY SomeIsMaybe DEF ShortCircuit
  <1>. QED
    BY <1>1, StayIInv, ErrorsSound
    DEF ShortCircuit, Returns, OwnStep, configVars, answerVars, Positions, IInv, CtxInv

(* A framework layer that has been called.                                 *)
LEMMA FrameworkIInv ==
  ASSUME IInv, NEW i \in 1 .. Last, Framework(i)
  PROVE  IInv'
  <1>1. layer[i].pc # "idle" /\ i \in Layers
    BY StackType DEF Framework, IInv, LayerInv
  <1>2. headers \subseteq Layers /\ headers \cup {i} \subseteq Layers /\ auth \in BOOLEAN
        /\ floated \in BOOLEAN /\ MaybeOne(response, Nat)
        /\ DOMAIN recorded = Layers /\ \A k \in Layers : MaybeOne(recorded[k], Record)
    BY <1>1 DEF IInv, CtxInv
  <1>3. CASE CallLogger(i)
    BY <1>1, <1>2, <1>3, MoveIInv DEF CallLogger, Loggers, NextOnly, ctxVars, configVars, answerVars
  <1>4. CASE CallHeaders(i)
    <2>1. CASE Kind(i) = "cors" /\ request.options
      BY <1>1, <1>2, <1>4, <2>1, ShortCircuitIInv DEF CallHeaders, Optional
    <2>2. CASE ~(Kind(i) = "cors" /\ request.options)
      BY <1>1, <1>2, <1>4, <2>2, MoveIInv DEF CallHeaders, NextOnly, configVars, answerVars
    <2>. QED
      BY <2>1, <2>2
  <1>5. CASE CallBearerAuth(i)
    <2>1. CASE request.token
      BY <1>1, <1>2, <1>5, <2>1, StayIInv, ErrorsSound
      DEF CallBearerAuth, BearerAuth, OwnStep, configVars, answerVars, Positions
    <2>2. CASE ~request.token /\ Kind(i) = "bearerAuth"
      BY <1>1, <1>2, <1>5, <2>2, ShortCircuitIInv DEF CallBearerAuth, BearerAuth, Optional
    <2>3. CASE ~request.token /\ Kind(i) # "bearerAuth"
      BY <1>1, <1>2, <1>5, <2>3, MoveIInv
      DEF CallBearerAuth, BearerAuth, NextOnly, configVars, answerVars
    <2>. QED
      BY <2>1, <2>2, <2>3
  <1>6. CASE CallAuthorize(i)
    <2>1. CASE auth
      BY <1>1, <1>2, <1>6, <2>1, StayIInv, ErrorsSound
      DEF CallAuthorize, Optional, OwnStep, configVars, answerVars, Positions
    <2>2. CASE ~auth
      BY <1>1, <1>2, <1>6, <2>2, ShortCircuitIInv DEF CallAuthorize, Optional
    <2>. QED
      BY <2>1, <2>2
  <1>7. CASE CallTerminal(i)
    <2>1. PICK pc \in {"returned", "threw", "running"}, e \in {Other, NotFound} : Set(i, pc, e)
      BY <1>7 DEF CallTerminal, Returns, Throws
    <2>. QED
      BY <1>1, <1>2, <1>7, <2>1, StayIInv, ErrorsSound
      DEF CallTerminal, Optional, OwnStep, ctxVars, configVars, answerVars, Positions
  <1>. QED
    BY <1>3, <1>4, <1>5, <1>6, <1>7 DEF Framework

(* What a logging layer records.                                           *)
LEMMA RecordedType ==
  ASSUME IInv, NEW inner \in Layer, inner.pc \in {"returned", "threw"}
  PROVE  MaybeOne(Recorded(inner), Record)
  <1>. DEFINE rec == [status    |-> resolveStatus(inner),
                      failed    |-> SpanFails(inner),
                      threw     |-> inner.pc = "threw",
                      responded |-> response # << >>]
  <1>1. response # << >> => response[1] \in Nat
    BY MaybeValue DEF IInv, CtxInv
  <1>2. inner.error.status \in Nat
    BY DEF Layer, Error
  <1>3. resolveStatus(inner) \in Nat
    <2>1. CASE response # << >>
      BY <1>1, <2>1 DEF resolveStatus
    <2>2. CASE response = << >> /\ inner.pc = "threw"
      BY <1>2, <2>2 DEF resolveStatus
    <2>3. CASE response = << >> /\ inner.pc = "returned"
      BY <2>3 DEF resolveStatus
    <2>. QED
      BY <2>1, <2>2, <2>3
  <1>4. SpanFails(inner) \in BOOLEAN
    <2>1. CASE inner.pc = "threw"
      <3>1. (inner.error.status >= 500) \in BOOLEAN
        BY <1>2
      <3>. QED
        BY <2>1, <3>1, Zenon DEF SpanFails
    <2>2. CASE inner.pc # "threw"
      <3>1. (response # << >> /\ response[1] >= 500) \in BOOLEAN
        BY <1>1
      <3>. QED
        BY <2>2, <3>1, Zenon DEF SpanFails
    <2>. QED
      BY <2>1, <2>2
  <1>5. rec \in Record
    BY <1>3, <1>4 DEF Record
  <1>. QED
    BY <1>5, SomeIsMaybe DEF Recorded

(* What a framework layer awaited has settled.                             *)
LEMMA ResumesIInv ==
  ASSUME IInv, NEW i \in 1 .. Last, Resumes(i)
  PROVE  IInv'
  <1>1. layer[i].pc \notin {"idle", "called"} /\ i \in Layers
    BY StackType DEF Resumes, Verified, Decided, Resume, IInv, LayerInv
  <1>2. headers \subseteq Layers /\ auth \in BOOLEAN
        /\ floated \in BOOLEAN /\ MaybeOne(response, Nat)
        /\ DOMAIN recorded = Layers /\ \A k \in Layers : MaybeOne(recorded[k], Record)
    BY <1>1 DEF IInv, CtxInv
  <1>3. CASE Verified(i)
    <2>1. CASE auth' = TRUE /\ CallNext(i, "waiting") /\ UNCHANGED response /\ NextOnly
      BY <1>1, <1>2, <1>3, <2>1, MoveIInv DEF Verified, BearerAuth, NextOnly, configVars, answerVars
    <2>2. CASE ShortCircuit(i, 401)
      BY <1>1, <1>2, <1>3, <2>2, ShortCircuitIInv DEF Verified
    <2>3. CASE ~Rejects(i) /\ CallNext(i, "waiting") /\ UNCHANGED <<response, auth>> /\ NextOnly
      <3>1. Kind(i) = "bearerAuthIgnore"
        BY <1>3, <2>3, StackType DEF Verified, Rejects, BearerAuth, IInv, LayerInv
      <3>. QED
        BY <1>1, <1>2, <1>3, <2>3, <3>1, MoveIInv DEF Verified, NextOnly, configVars, answerVars
    <2>4. ASSUME NEW e \in Errors, Throws(i, e), UNCHANGED <<response, auth>>, OwnStep
          PROVE  IInv'
      BY <1>1, <1>2, <1>3, <2>4, StayIInv, ErrorsSound
      DEF Verified, Throws, OwnStep, configVars, answerVars, Positions
    <2>. QED
      BY <1>3, <2>1, <2>2, <2>3, <2>4 DEF Verified
  <1>4. CASE Decided(i)
    <2>0. auth
      BY <1>1, <1>4, StackType DEF Decided, IInv, LayerInv, AuthInv
    <2>1. CASE CallNext(i, "waiting") /\ UNCHANGED <<response, auth>> /\ NextOnly
      BY <1>1, <1>2, <1>4, <2>0, <2>1, MoveIInv DEF Decided, NextOnly, configVars, answerVars
    <2>2. CASE ShortCircuit(i, 403)
      BY <1>1, <1>2, <1>4, <2>2, ShortCircuitIInv DEF Decided
    <2>3. ASSUME NEW e \in Errors, Throws(i, e), UNCHANGED <<response, auth>>, OwnStep
          PROVE  IInv'
      BY <1>1, <1>2, <1>4, <2>3, StayIInv, ErrorsSound
      DEF Decided, Throws, OwnStep, configVars, answerVars, Positions
    <2>. QED
      BY <1>4, <2>1, <2>2, <2>3 DEF Decided
  <1>5. CASE Resume(i)
    <2>1. Kind(i) # "terminal"
      BY <1>5 DEF Resume
    <2>2. i + 1 \in Layers /\ layer[i + 1] \in Layer /\ ErrorSound(layer[i + 1].error)
      BY <2>1, StackType DEF IInv, LayerInv
    <2>3. PICK pc \in Positions \ {"idle"}, e \in {Other, layer[i + 1].error} :
                 ErrorSound(e) /\ Set(i, pc, e) /\ pc # "deciding"
      <3>1. CASE layer' = [layer EXCEPT ![i] = layer[i + 1]]
        <4>1. layer[i + 1] = [pc |-> layer[i + 1].pc, error |-> layer[i + 1].error]
          BY <2>2 DEF Layer
        <4>2. layer[i + 1].pc \in {"returned", "threw"}
          BY <1>5 DEF Resume, Settled
        <4>. QED
          BY <2>2, <3>1, <4>1, <4>2 DEF Set, Positions
      <3>. QED
        BY <1>5, <3>1, ErrorsSound DEF Resume, Throws, Positions
    <2>4. DOMAIN recorded' = Layers /\ \A k \in Layers : MaybeOne(recorded'[k], Record)
      <3>1. MaybeOne(Recorded(layer[i + 1]), Record)
        BY <1>5, <2>2, RecordedType DEF Resume, Settled
      <3>2. recorded' = recorded \/ recorded' = [recorded EXCEPT ![i] = Recorded(layer[i + 1])]
        BY <1>5 DEF Resume
      <3>3. CASE recorded' = recorded
        BY <1>2, <3>3
      <3>4. CASE recorded' = [recorded EXCEPT ![i] = Recorded(layer[i + 1])]
        <4>1. DOMAIN recorded' = Layers
          BY <1>2, <3>4
        <4>2. \A k \in Layers : recorded'[k] = IF k = i THEN Recorded(layer[i + 1]) ELSE recorded[k]
          BY <1>2, <3>4
        <4>. QED
          BY <1>2, <3>1, <4>1, <4>2
      <3>. QED
        BY <3>2, <3>3, <3>4
    <2>. QED
      BY <1>1, <1>2, <1>5, <2>3, <2>4, StayIInv DEF Resume, configVars, ctxVars, answerVars
  <1>. QED
    BY <1>3, <1>4, <1>5 DEF Resumes

(* User middlewares and the handler.                                       *)
LEMMA RunningIInv ==
  ASSUME IInv, NEW i \in 1 .. Last,
         Ends(i) \/ UserNext(i) \/ UserAwaits(i) \/ UserAuthenticates(i) \/ Responds(i)
  PROVE  IInv'
  <1>1. layer[i].pc \notin {"idle", "called"} /\ i \in Layers
    BY StackType
    DEF Ends, UserEnds, HandlerReturns, HandlerFails, UserNext, UserAwaits, UserAuthenticates,
        Responds, UserRuns, HandlerRuns, IInv, LayerInv
  <1>2. headers \subseteq Layers /\ auth \in BOOLEAN
        /\ floated \in BOOLEAN /\ MaybeOne(response, Nat)
        /\ DOMAIN recorded = Layers /\ \A k \in Layers : MaybeOne(recorded[k], Record)
    BY <1>1 DEF IInv, CtxInv
  <1>3. CASE UserEnds(i) \/ UserAwaits(i)
    <2>0. ErrorSound(layer[i + 1].error)
      BY <1>3, StackType DEF UserEnds, UserAwaits, UserRuns, IInv, LayerInv
    <2>1. PICK pc \in {"returned", "threw", "waiting"}, e \in Errors \cup {Other, layer[i + 1].error} :
                 Set(i, pc, e)
      BY <1>3 DEF UserEnds, UserAwaits, Returns, Throws
    <2>2. OwnStep /\ UNCHANGED ctxVars
      BY <1>3 DEF UserEnds, UserAwaits
    <2>. QED
      BY <1>1, <1>2, <2>0, <2>1, <2>2, StayIInv, ErrorsSound
      DEF OwnStep, ctxVars, configVars, answerVars, Positions
  <1>4. CASE UserNext(i)
    <2>1. PICK pc \in {"waiting", "running"} : CallNext(i, pc) /\ floated' = (floated \/ pc = "running")
      BY <1>4 DEF UserNext
    <2>. QED
      BY <1>1, <1>2, <1>4, <2>1, MoveIInv DEF UserNext, UserRuns, ctxVars, configVars, answerVars
  <1>5. CASE HandlerReturns(i)
    <2>1. MaybeOne(response', Nat)
      BY <1>2, <1>5, SomeIsMaybe DEF HandlerReturns
    <2>. QED
      BY <1>1, <1>2, <1>5, <2>1, StayIInv, ErrorsSound
      DEF HandlerReturns, Returns, OwnStep, configVars, answerVars, Positions
  <1>6. CASE HandlerFails(i)
    <2>1. PICK pc \in {"returned", "threw"}, e \in Errors \cup {Other} : Set(i, pc, e)
      BY <1>6 DEF HandlerFails, Returns, Throws
    <2>. QED
      BY <1>1, <1>2, <1>6, <2>1, StayIInv, ErrorsSound
      DEF HandlerFails, OwnStep, ctxVars, configVars, answerVars, Positions
  <1>7. CASE Responds(i)
    <2>1. MaybeOne(response', Nat)
      BY <1>7, SomeIsMaybe, AnswersAssumption DEF Responds
    <2>. QED
      BY <1>7, <2>1, StillIInv DEF Responds, OwnStep, configVars, answerVars, IInv, CtxInv
  <1>8. CASE UserAuthenticates(i)
    BY <1>8, StillIInv DEF UserAuthenticates, OwnStep, configVars, answerVars, IInv, CtxInv
  <1>. QED
    BY <1>3, <1>4, <1>5, <1>6, <1>7, <1>8 DEF Ends

(* dispatch() ends.                                                        *)
LEMMA AnsweringIInv ==
  ASSUME IInv, Answering
  PROVE  IInv'
  <1>0. /\ 1 \in Layers /\ ErrorSound(layer[1].error)
        /\ \A e : ErrorSound(e) => DefaultStatus(e) \in Nat
        /\ headers \subseteq Layers
    BY StackType, OperationsAssumption DEF IInv, LayerInv, CtxInv, Layers, ErrorSound, DefaultStatus, Error
  <1>1. ASSUME NEW status \in Nat, Answers(status)
        PROVE  /\ MaybeOne(answer', [status : Nat, headers : SUBSET Layers])
               /\ answer'[1].status = status
    <2>1. [status |-> status, headers |-> headers] \in [status : Nat, headers : SUBSET Layers]
      BY <1>0
    <2>. QED
      BY <1>1, <2>1, SomeIsMaybe DEF Answers, Finalized
  <1>2. CASE PipelineReturns
    <2>1. (IF response # << >> THEN response[1] ELSE 204) \in Nat
      BY MaybeValue DEF IInv, CtxInv
    <2>. QED
      BY <1>1, <1>2, <2>1, StillIInv DEF PipelineReturns, configVars, ctxVars, IInv, CtxInv
  <1>3. CASE PipelineThrows
    <2>1. CASE request.custom
      <3>1. MaybeOne(handling', Error)
        BY <1>0, <1>3, <2>1, SomeIsMaybe DEF PipelineThrows, ErrorSound
      <3>. QED
        BY <1>3, <2>1, <3>1, StillIInv DEF PipelineThrows, configVars, IInv, CtxInv
    <2>2. CASE ~request.custom
      <3>1. DefaultStatus(layer[1].error) \in Nat /\ Answers(DefaultStatus(layer[1].error))
        BY <1>0, <1>3, <2>2 DEF PipelineThrows
      <3>2. MaybeOne(response', Nat)
        BY <1>1, <1>3, <2>2, <3>1, SomeIsMaybe DEF PipelineThrows
      <3>. QED
        BY <1>1, <1>3, <2>2, <3>1, <3>2, StillIInv DEF PipelineThrows, configVars, IInv, CtxInv
    <2>. QED
      BY <2>1, <2>2
  <1>4. CASE ErrorHandled
    <2>1. PICK status \in Nat : Answers(status)
      BY <1>0, <1>4, ErrorsSound, AnswersAssumption DEF ErrorHandled
    <2>2. MaybeOne(response', Nat)
      BY <1>1, <1>4, <2>1, SomeIsMaybe DEF ErrorHandled
    <2>. QED
      BY <1>1, <1>4, <2>1, <2>2, StillIInv DEF ErrorHandled, configVars, IInv, CtxInv
  <1>. QED
    BY <1>2, <1>3, <1>4 DEF Answering

(* Every step keeps the invariant.                                         *)
LEMMA NextIInv == IInv /\ [Next]_vars => IInv'
  <1>. SUFFICES ASSUME IInv, [Next]_vars PROVE IInv'
    OBVIOUS
  <1>1. ASSUME NEW i \in 1 .. Last, Framework(i) PROVE IInv'
    BY <1>1, FrameworkIInv
  <1>2. ASSUME NEW i \in 1 .. Last,
               \/ Resumes(i) \/ Ends(i)
               \/ UserNext(i) \/ UserAwaits(i) \/ UserAuthenticates(i) \/ Responds(i)
        PROVE IInv'
    BY <1>2, ResumesIInv, RunningIInv
  <1>3. CASE Answering
    BY <1>3, AnsweringIInv
  <1>4. CASE UNCHANGED vars
    BY <1>4, StillIInv DEF vars, IInv, CtxInv
  <1>. QED
    BY <1>1, <1>2, <1>3, <1>4 DEF Next

(* The inductive invariant holds in every reachable state.                 *)
THEOREM Invariance == Spec => []IInv
  BY InitIInv, NextIInv, PTL DEF Spec

-----------------------------------------------------------------------------
(* Every variable of a dispatch holds a value of its kind, and the layers  *)
(* called are those up to `index`.                                         *)
THEOREM TypeCorrect == Spec => []TypeOK
  <1>1. IInv => TypeOK
    BY DEF IInv, LayerInv, CtxInv, TypeOK
  <1>. QED
    BY <1>1, Invariance, PTL

(* In a stack of any length, whatever its middlewares do with next(), no   *)
(* layer runs twice and none before those around it.                       *)
THEOREM LayersRunOnce == Spec => []LayersOnceInOrder
  <1>1. IInv => LayersOnceInOrder
    BY DEF IInv, LayerInv
  <1>. QED
    BY <1>1, Invariance, PTL

(* Where the document infers the security of an operation, it says what    *)
(* the layers do, in a stack of any length: a handler documented as        *)
(* secured only runs for a principal, and one that is not is open to who   *)
(* brings no token.                                                        *)
THEOREM SecuredHandlers == Spec => []SecurityAsDocumented
  <1>1. ASSUME IInv PROVE SecurityAsDocumented
    <2>. SUFFICES ASSUME security = [meta |-> "inferred", tagged |-> FALSE]
                  PROVE  /\ Secured /\ layer[Last].pc = "running" => auth
                         /\ ~Secured /\ ~request.token => ~TurnedAway
      BY DEF SecurityAsDocumented
    <2>0. Secured <=> Requires
      BY DEF Secured
    <2>1. Len(stack) \in Nat /\ Last \in Layers
      BY <1>1, StackType DEF IInv, LayerInv, Layers
    <2>2. ASSUME Secured, layer[Last].pc = "running" PROVE auth
      <3>1. PICK i \in 1 .. Len(stack) : stack[i] \in {"bearerAuth", "authorize"}
        BY <2>0, <2>2 DEF Requires
      <3>2. ~(Last > index)
        BY <1>1, <2>1, <2>2 DEF IInv, LayerInv
      <3>3. i < index
        BY <1>1, <2>1, <3>2 DEF IInv, LayerInv, Last
      <3>. QED
        BY <1>1, <3>1, <3>3 DEF IInv, AuthInv
    <2>3. ASSUME ~Secured, TurnedAway PROVE request.token
      <3>1. Kind(index) # "terminal" /\ index \in 1 .. Last /\ layer[index].pc # "called"
        BY <1>1, <2>3 DEF TurnedAway, BearerAuth, IInv, LayerInv
      <3>2. index \in 1 .. Len(stack) /\ Kind(index) = stack[index]
        BY <1>1, <3>1, StackType DEF IInv, LayerInv
      <3>3. stack[index] \in Optional
        BY <2>0, <2>3, <3>2 DEF Requires, TurnedAway, BearerAuth, Optional
      <3>. QED
        BY <1>1, <3>1, <3>2, <3>3 DEF IInv, AuthInv
    <2>. QED
      BY <2>2, <2>3
  <1>. QED
    BY <1>1, Invariance, PTL

-----------------------------------------------------------------------------
(***************************************************************************)
(* What leaves dispatch().  As long as no middleware has called next()     *)
(* without awaiting it, a layer that does not wait has nothing that runs   *)
(* inside of it (FlowInv): so when the outermost one has ended all have,   *)
(* and no header or response comes too late.  RecordInv follows what a     *)
(* logging layer has recorded outwards, through layers that end as the one *)
(* inside of them did, to the answer.                                      *)
(***************************************************************************)
Ended == {"returned", "threw"}

FlowInv ==
  /\ ~floated => \A i, j \in 1 .. Last :
       i < j /\ j <= index /\ layer[i].pc # "waiting" => layer[j].pc \in Ended
  /\ \A i \in 1 .. Len(stack) :
       i < index /\ stack[i] # "user" => layer[i].pc \in Ended \cup {"waiting"}
  /\ answer # << >> \/ handling # << >> => layer[1].pc \in Ended
  /\ handling # << >> => request.custom

HeaderInv ==
  /\ \A i \in 1 .. Last :
       Kind(i) \in {"headers", "cors"} /\ i <= index /\ layer[i].pc # "called" => i \in headers
  /\ answer # << >> /\ ~floated => answer[1].headers = headers

PassedOn(i) == \A j \in 1 .. i - 1 : stack[j] \notin {"user", "otelHttpMetrics"}

RecordSound(i) ==
  LET r == recorded[i][1]
  IN  /\ layer[i].pc \in Ended
      /\ r.threw <=> layer[i].pc = "threw"
      /\ r.failed <=> IF r.threw THEN layer[i].error.status >= 500
                      ELSE r.responded /\ r.status >= 500
      /\ r.threw /\ ~r.responded => r.status = layer[i].error.status

RecordSent(i) ==
  LET r == recorded[i][1]
  IN  /\ \A j \in 1 .. i : layer[j].pc # "waiting" => layer[j] = layer[i]
      /\ answer = << >> => /\ r.responded <=> response # << >>
                           /\ r.responded => r.status = response[1]
      /\ answer # << >> => answer[1].status = IF r.threw THEN layer[i].error.status
                                              ELSE IF r.responded THEN r.status ELSE 204

RecordInv ==
  ~floated /\ ~request.custom =>
    \A i \in 1 .. Len(stack) :
      stack[i] \in Loggers /\ PassedOn(i) /\ recorded[i] # << >> => RecordSound(i) /\ RecordSent(i)

EndInv == FlowInv /\ HeaderInv /\ RecordInv

(* The three kinds of step that a layer takes: inwards, by itself, and     *)
(* outwards, which is Resume.                                              *)
Active == {"called", "deciding", "running"}

WritesHeaders(i) ==
  /\ headers \subseteq headers'
  /\ Kind(i) \in {"headers", "cors"} => i \in headers'

Moves(i, pc) ==
  /\ layer[i].pc \in Active
  /\ CallNext(i, pc)
  /\ pc = "running" => Kind(i) = "user" /\ floated'
  /\ floated => floated'
  /\ WritesHeaders(i)
  /\ UNCHANGED <<stack, security, request, response, recorded, handling, answer>>

Stays(i, pc, e) ==
  /\ layer[i].pc \in Active
  /\ Set(i, pc, e)
  /\ pc = "waiting" => Kind(i) = "user" /\ i < index /\ layer[i + 1].pc \notin Ended
  /\ WritesHeaders(i)
  /\ UNCHANGED <<stack, security, request, index, recorded, handling, answer, floated>>

(* A framework layer that has been called moves inwards or stays.          *)
LEMMA FrameworkForm ==
  ASSUME IInv, NEW i \in 1 .. Last, Framework(i)
  PROVE  \/ i \in 1 .. Len(stack) /\ Moves(i, "waiting")
         \/ \E pc \in {"deciding", "running", "returned", "threw"}, e \in Error : Stays(i, pc, e)
  <1>0. /\ layer[i].pc = "called" /\ Other \in Error /\ NotFound \in Error
        /\ Kind(i) # "terminal" => i \in 1 .. Len(stack)
    BY StackType DEF Framework, Other, NotFound, Error, IInv, LayerInv
  <1>1. CASE CallLogger(i)
    BY <1>0, <1>1 DEF CallLogger, Loggers, NextOnly, ctxVars, configVars, answerVars, Moves,
                      Active, WritesHeaders
  <1>2. CASE CallHeaders(i)
    <2>1. CASE Kind(i) = "cors" /\ request.options
      <3>1. Stays(i, "returned", Other)
        BY <1>0, <1>2, <2>1 DEF CallHeaders, ShortCircuit, Returns, OwnStep, configVars,
                                answerVars, Stays, Active, WritesHeaders
      <3>. QED
        BY <1>0, <3>1
    <2>2. CASE ~(Kind(i) = "cors" /\ request.options)
      BY <1>0, <1>2, <2>2 DEF CallHeaders, NextOnly, configVars, answerVars, Moves, Active,
                              WritesHeaders
    <2>. QED
      BY <2>1, <2>2
  <1>3. CASE CallBearerAuth(i)
    <2>1. CASE request.token
      <3>1. Stays(i, "deciding", Other)
        BY <1>0, <1>3, <2>1 DEF CallBearerAuth, BearerAuth, OwnStep, configVars, answerVars,
                                Stays, Active, WritesHeaders
      <3>. QED
        BY <1>0, <3>1
    <2>2. CASE ~request.token /\ Kind(i) = "bearerAuth"
      <3>1. Stays(i, "returned", Other)
        BY <1>0, <1>3, <2>2 DEF CallBearerAuth, ShortCircuit, Returns, OwnStep, configVars,
                                answerVars, Stays, Active, WritesHeaders
      <3>. QED
        BY <1>0, <3>1
    <2>3. CASE ~request.token /\ Kind(i) # "bearerAuth"
      BY <1>0, <1>3, <2>3 DEF CallBearerAuth, BearerAuth, NextOnly, configVars, answerVars,
                              Moves, Active, WritesHeaders
    <2>. QED
      BY <2>1, <2>2, <2>3
  <1>4. CASE CallAuthorize(i)
    <2>1. PICK pc \in {"deciding", "returned"} : Set(i, pc, Other)
      BY <1>4 DEF CallAuthorize, ShortCircuit, Returns
    <2>2. Stays(i, pc, Other)
      BY <1>0, <1>4, <2>1 DEF CallAuthorize, ShortCircuit, OwnStep, configVars, answerVars,
                              Stays, Active, WritesHeaders
    <2>. QED
      BY <1>0, <2>2
  <1>5. CASE CallTerminal(i)
    <2>1. PICK pc \in {"returned", "threw", "running"}, e \in {Other, NotFound} : Set(i, pc, e)
      BY <1>5 DEF CallTerminal, Returns, Throws
    <2>2. Stays(i, pc, e)
      BY <1>0, <1>5, <2>1 DEF CallTerminal, OwnStep, ctxVars, configVars, answerVars,
                              Stays, Active, WritesHeaders
    <2>. QED
      BY <1>0, <2>2
  <1>. QED
    BY <1>1, <1>2, <1>3, <1>4, <1>5 DEF Framework

(* So does one whose verify() or policy has settled.                       *)
LEMMA DecisionForm ==
  ASSUME IInv, NEW i \in 1 .. Last, Verified(i) \/ Decided(i)
  PROVE  \/ i \in 1 .. Len(stack) /\ Moves(i, "waiting")
         \/ \E pc \in {"returned", "threw"}, e \in Error : Stays(i, pc, e)
  <1>0. /\ layer[i].pc = "deciding" /\ Other \in Error /\ Errors \subseteq Error
        /\ i \in 1 .. Len(stack) /\ Kind(i) \notin {"headers", "cors"}
    BY StackType, AnswersAssumption
    DEF Verified, Decided, BearerAuth, Other, Error, IInv, LayerInv
  <1>1. CASE CallNext(i, "waiting") /\ NextOnly
    <2>0. ~UNCHANGED index
      BY <1>0, <1>1 DEF CallNext, NextCalled, IInv, LayerInv
    <2>1. UNCHANGED <<headers, response>>
      BY <2>0 DEF Verified, Decided, ShortCircuit, OwnStep
    <2>2. Moves(i, "waiting")
      BY <1>0, <1>1, <2>1 DEF NextOnly, configVars, answerVars, Moves, Active, WritesHeaders
    <2>. QED
      BY <1>0, <2>2
  <1>2. ASSUME NEW pc \in Ended, NEW e \in Error, Set(i, pc, e), OwnStep
        PROVE  Stays(i, pc, e)
    BY <1>0, <1>2 DEF Verified, Decided, OwnStep, configVars, answerVars, Stays, Active, Ended,
                      WritesHeaders
  <1>3. CASE ~(CallNext(i, "waiting") /\ NextOnly)
    <2>1. PICK pc \in Ended, e \in Errors \cup {Other} : Set(i, pc, e) /\ OwnStep
      BY <1>3 DEF Verified, Decided, ShortCircuit, Returns, Throws, Ended
    <2>. QED
      BY <1>0, <1>2, <2>1 DEF Ended
  <1>. QED
    BY <1>1, <1>3

(* And one that runs, unless it only responds.                             *)
LEMMA RunningForm ==
  ASSUME IInv, NEW i \in 1 .. Last, Ends(i) \/ UserNext(i) \/ UserAwaits(i)
  PROVE  \/ i \in 1 .. Len(stack) /\ \E pc \in {"waiting", "running"} : Moves(i, pc)
         \/ \E pc \in {"waiting", "returned", "threw"}, e \in Error : Stays(i, pc, e)
  <1>0. /\ layer[i].pc = "running" /\ Other \in Error /\ Errors \subseteq Error
        /\ Kind(i) \in {"user", "terminal"} /\ i \in Int
        /\ Kind(i) # "terminal" => /\ i \in 1 .. Len(stack)
                                   /\ i + 1 \in Layers
                                   /\ layer[i + 1].error \in Error
    <2>1. \A k \in Layers : layer[k].error \in Error
      BY DEF IInv, LayerInv, ErrorSound
    <2>. QED
      BY <2>1, StackType, AnswersAssumption
      DEF Ends, UserEnds, HandlerReturns, HandlerFails, UserNext, UserAwaits, UserRuns,
          HandlerRuns, Other, Error, IInv, LayerInv
  <1>1. CASE UserNext(i)
    <2>1. PICK pc \in {"waiting", "running"} : CallNext(i, pc) /\ floated' = (floated \/ pc = "running")
      BY <1>1 DEF UserNext
    <2>2. Moves(i, pc)
      BY <1>0, <1>1, <2>1 DEF UserNext, UserRuns, ctxVars, configVars, answerVars, Moves,
                              Active, WritesHeaders
    <2>. QED
      BY <1>0, <1>1, <2>2 DEF UserNext, UserRuns
  <1>2. CASE UserAwaits(i)
    <2>1. Kind(i) = "user" /\ i < index /\ layer[i + 1].pc \notin Ended
      BY <1>0, <1>2 DEF UserAwaits, UserRuns, NextCalled, Settled, Ended, IInv, LayerInv, Last
    <2>2. Stays(i, "waiting", Other)
      BY <1>0, <1>2, <2>1 DEF UserAwaits, OwnStep, ctxVars, configVars, answerVars, Stays,
                              Active, WritesHeaders
    <2>. QED
      BY <1>0, <2>2
  <1>3. CASE Ends(i)
    <2>1. PICK pc \in Ended, e \in Error : Set(i, pc, e)
      BY <1>0, <1>3 DEF Ends, UserEnds, UserRuns, HandlerReturns, HandlerFails, Returns, Throws, Ended
    <2>2. Stays(i, pc, e)
      BY <1>0, <1>3, <2>1 DEF Ends, UserEnds, HandlerReturns, HandlerFails, OwnStep, ctxVars,
                              configVars, answerVars, Stays, Active, Ended, WritesHeaders
    <2>. QED
      BY <2>2 DEF Ended
  <1>. QED
    BY <1>1, <1>2, <1>3

-----------------------------------------------------------------------------
(* Nothing acts inside a layer that does not wait: a layer that acts has   *)
(* only waiting ones around it, and dispatch() has not gone on.            *)
LEMMA OuterWait ==
  ASSUME IInv, FlowInv, ~floated, NEW k \in 1 .. Last, layer[k].pc \in Active
  PROVE  /\ \A i \in 1 .. Last : i < k => layer[i].pc = "waiting"
         /\ answer = << >> /\ handling = << >>
  <1>1. k \in Layers /\ 1 \in 1 .. Last /\ k <= index /\ layer[k].pc \notin Ended
    BY StackType DEF IInv, LayerInv, Active, Ended, Layers
  <1>2. \A i \in 1 .. Last : i < k => layer[i].pc = "waiting"
    BY <1>1 DEF FlowInv
  <1>3. layer[1].pc \notin Ended
    BY <1>1, <1>2 DEF Ended
  <1>. QED
    BY <1>2, <1>3 DEF FlowInv

(* Once a logging layer has ended, and those around it pass on what they   *)
(* are given, no layer acts any more.                                      *)
LEMMA EndedQuiet ==
  ASSUME IInv, FlowInv, ~floated, NEW i \in 1 .. Len(stack), PassedOn(i),
         stack[i] # "user", layer[i].pc \in Ended, NEW k \in 1 .. Last
  PROVE  layer[k].pc \notin Active
  <1>. SUFFICES ASSUME layer[k].pc \in Active PROVE FALSE
    OBVIOUS
  <1>1. i \in 1 .. Last /\ i \in Layers /\ k \in Layers /\ Len(stack) \in Nat
    BY StackType DEF Last, IInv, LayerInv
  <1>2. i <= index /\ i \in Int /\ k \in Int
    BY <1>1 DEF IInv, LayerInv, Ended
  <1>3. ~(i < k)
    BY <1>1, OuterWait DEF Ended
  <1>4. k # i
    BY DEF Active, Ended
  <1>5. k < i /\ k \in 1 .. Len(stack) /\ stack[k] # "user"
    BY <1>1, <1>2, <1>3, <1>4 DEF PassedOn
  <1>. QED
    BY <1>1, <1>2, <1>5 DEF FlowInv, Active, Ended, IInv, LayerInv

(* What a step inwards or a step by itself leaves is all that RecordInv    *)
(* is about: there is nothing recorded by a layer that nobody overrules.   *)
LEMMA ActiveRecordInv ==
  ASSUME IInv, FlowInv, RecordInv, NEW k \in 1 .. Last, layer[k].pc \in Active,
         UNCHANGED <<stack, security, request, recorded>>, floated => floated'
  PROVE  RecordInv'
  <1>. SUFFICES ASSUME ~floated', ~request.custom, NEW i \in 1 .. Len(stack),
                       stack[i] \in Loggers, PassedOn(i), recorded[i] # << >>
                PROVE  FALSE
    BY DEF RecordInv, PassedOn
  <1>1. layer[i].pc \in Ended /\ ~floated /\ stack[i] # "user"
    BY DEF RecordInv, RecordSound, Loggers
  <1>. QED
    BY <1>1, EndedQuiet

(* A step inwards.                                                         *)
LEMMA MovesEndInv ==
  ASSUME IInv, EndInv, NEW k \in 1 .. Len(stack), NEW pc \in {"waiting", "running"},
         Moves(k, pc)
  PROVE  EndInv'
  <1>1. /\ k \in Layers /\ k + 1 \in Layers /\ k \in 1 .. Last /\ k \in Int
        /\ Len(stack) \in Nat /\ 1 .. Last \subseteq Layers /\ Kind(k) = stack[k]
        /\ 1 .. Len(stack) \subseteq 1 .. Last
    BY StackType DEF Last, Kind, IInv, LayerInv
  <1>2. /\ layer[k].pc \in Active /\ UNCHANGED <<stack, security, request, handling, answer, recorded>>
        /\ Last' = Last
    BY DEF Moves, Last
  <1>3. index = k /\ index' = k + 1
    BY <1>1, <1>2, CallKeeps DEF Moves, IInv, LayerInv, Positions, Active
  <1>4. \A i \in Layers : layer'[i].pc = IF i = k + 1 THEN Called(Kind(k + 1)).pc
                                         ELSE IF i = k THEN pc ELSE layer[i].pc
    BY <1>1 DEF Moves, CallNext, IInv, LayerInv, Layer
  <1>5. ~floated' => ~floated /\ pc = "waiting"
    BY DEF Moves
  <1>6. FlowInv'
    <2>1. ASSUME ~floated', NEW i \in 1 .. Last, NEW j \in 1 .. Last,
                 i < j, j <= k + 1, layer'[i].pc # "waiting"
          PROVE  FALSE
      <3>1. i < k
        BY <1>1, <1>4, <1>5, <2>1
      <3>. QED
        BY <1>1, <1>2, <1>4, <1>5, <2>1, <3>1, OuterWait DEF EndInv
    <2>2. ASSUME NEW i \in 1 .. Len(stack), i < k + 1, stack[i] # "user"
          PROVE  layer'[i].pc \in Ended \cup {"waiting"}
      <3>1. CASE i = k
        BY <1>1, <1>4, <2>2, <3>1 DEF Moves
      <3>2. CASE i # k
        BY <1>1, <1>3, <1>4, <2>2, <3>2 DEF EndInv, FlowInv
      <3>. QED
        BY <3>1, <3>2
    <2>3. layer[1].pc \in Ended => layer'[1].pc \in Ended
      BY <1>1, <1>2, <1>4 DEF Active, Ended
    <2>. QED
      BY <1>2, <1>3, <2>1, <2>2, <2>3 DEF EndInv, FlowInv
  <1>7. HeaderInv'
    <2>1. ASSUME NEW i \in 1 .. Last, Kind(i) \in {"headers", "cors"}, i <= k + 1,
                 layer'[i].pc # "called"
          PROVE  i \in headers'
      <3>1. i # k + 1
        BY <1>1, <1>4, <2>1 DEF Called
      <3>2. CASE i = k
        BY <2>1, <3>2 DEF Moves, WritesHeaders
      <3>3. CASE i < k
        BY <1>1, <1>3, <1>4, <2>1, <3>1, <3>3 DEF Moves, WritesHeaders, EndInv, HeaderInv
      <3>. QED
        BY <1>1, <3>1, <3>2, <3>3, <2>1
    <2>2. ~floated' => answer = << >>
      BY <1>1, <1>2, <1>5, OuterWait DEF EndInv
    <2>. QED
      BY <1>2, <1>3, <2>1, <2>2 DEF HeaderInv, Kind
  <1>8. RecordInv'
    BY <1>1, <1>2, <1>5, ActiveRecordInv DEF EndInv
  <1>. QED
    BY <1>6, <1>7, <1>8 DEF EndInv

(* A step of a layer by itself.                                            *)
LEMMA StaysEndInv ==
  ASSUME IInv, EndInv, NEW k \in 1 .. Last,
         NEW pc \in {"deciding", "running", "waiting", "returned", "threw"}, NEW e,
         Stays(k, pc, e)
  PROVE  EndInv'
  <1>1. /\ k \in Layers /\ k \in Int /\ index \in Int
        /\ Len(stack) \in Nat /\ 1 .. Last \subseteq Layers /\ 1 \in Layers
        /\ 1 .. Len(stack) \subseteq 1 .. Last
    BY StackType DEF Last, IInv, LayerInv, Layers
  <1>2. /\ layer[k].pc \in Active
        /\ UNCHANGED <<stack, security, request, handling, answer, recorded, index, floated>>
        /\ Last' = Last
    BY DEF Stays, Last
  <1>3. k <= index
    BY <1>1, <1>2 DEF IInv, LayerInv, Active
  <1>4. \A i \in Layers : layer'[i].pc = IF i = k THEN pc ELSE layer[i].pc
    BY <1>1 DEF Stays, Set, IInv, LayerInv, Layer
  <1>5. FlowInv'
    <2>1. ASSUME ~floated, NEW i \in 1 .. Last, NEW j \in 1 .. Last,
                 i < j, j <= index, layer'[i].pc # "waiting"
          PROVE  layer'[j].pc \in Ended
      <3>1. layer[i].pc # "waiting"
        BY <1>1, <1>2, <1>4, <2>1 DEF Active
      <3>2. layer[j].pc \in Ended
        BY <2>1, <3>1 DEF EndInv, FlowInv
      <3>. QED
        BY <1>1, <1>2, <1>4, <3>2 DEF Active, Ended
    <2>2. ASSUME NEW i \in 1 .. Len(stack), i < index, stack[i] # "user"
          PROVE  layer'[i].pc \in Ended \cup {"waiting"}
      <3>1. layer[i].pc \in Ended \cup {"waiting"}
        BY <2>2 DEF EndInv, FlowInv
      <3>2. i # k /\ i \in Layers
        BY <1>1, <1>2, <3>1 DEF Active, Ended
      <3>. QED
        BY <1>4, <3>1, <3>2
    <2>3. layer[1].pc \in Ended => layer'[1].pc \in Ended
      BY <1>1, <1>2, <1>4 DEF Active, Ended
    <2>. QED
      BY <1>2, <2>1, <2>2, <2>3 DEF EndInv, FlowInv
  <1>6. HeaderInv'
    <2>1. ASSUME NEW i \in 1 .. Last, Kind(i) \in {"headers", "cors"}, i <= index,
                 layer'[i].pc # "called"
          PROVE  i \in headers'
      BY <1>1, <1>4, <2>1 DEF Stays, WritesHeaders, EndInv, HeaderInv
    <2>2. ~floated => answer = << >>
      BY <1>2, OuterWait DEF EndInv
    <2>. QED
      BY <1>2, <2>1, <2>2 DEF HeaderInv, Kind
  <1>7. RecordInv'
    BY <1>2, ActiveRecordInv DEF EndInv
  <1>. QED
    BY <1>5, <1>6, <1>7 DEF EndInv

(* ctx.respond, and ctx.auth set.                                          *)
LEMMA RespondsEndInv ==
  ASSUME IInv, EndInv, NEW k \in 1 .. Last, Responds(k) \/ UserAuthenticates(k)
  PROVE  EndInv'
  <1>1. /\ layer[k].pc \in Active
        /\ UNCHANGED <<stack, security, request, handling, answer, recorded, index, floated, layer, headers>>
        /\ Last' = Last
    BY DEF Responds, UserAuthenticates, UserRuns, OwnStep, configVars, answerVars, Last, Active
  <1>2. FlowInv' /\ HeaderInv'
    BY <1>1 DEF EndInv, FlowInv, HeaderInv, Kind
  <1>3. RecordInv'
    BY <1>1, ActiveRecordInv DEF EndInv
  <1>. QED
    BY <1>2, <1>3 DEF EndInv

(* A step outwards: what has ended inside of layer k ends it too, unless   *)
(* it is a user middleware or the `attributes` callback throws.            *)
LEMMA ResumeForm ==
  ASSUME IInv, NEW k \in 1 .. Last, Resume(k)
  PROVE  /\ k \in 1 .. Len(stack) /\ k + 1 \in 1 .. Last /\ Kind(k) = stack[k]
         /\ layer[k].pc = "waiting" /\ layer[k + 1].pc \in Ended /\ k + 1 <= index
         /\ UNCHANGED <<stack, security, request, index, response, headers, handling, answer, floated>>
         /\ \A i \in Layers : i # k => layer'[i] = layer[i] /\ recorded'[i] = recorded[i]
         /\ stack[k] \notin {"user", "otelHttpMetrics"} => layer'[k] = layer[k + 1]
         /\ stack[k] # "user" => layer'[k].pc \in Ended
         /\ stack[k] \in Loggers =>
              \/ layer'[k] = layer[k + 1] /\ recorded'[k] = Recorded(layer[k + 1])
              \/ recorded'[k] = recorded[k]
  <1>1. /\ k \in 1 .. Len(stack) /\ k + 1 \in 1 .. Last /\ Kind(k) = stack[k] /\ k \in Layers
        /\ k + 1 \in Layers /\ layer[k].pc = "waiting"
    BY StackType DEF Resume, IInv, LayerInv
  <1>2. layer[k + 1].pc \in Ended
    BY DEF Resume, Settled, Ended
  <1>3. k + 1 <= index
    BY <1>1, <1>2 DEF Ended, IInv, LayerInv, Layers
  <1>4. UNCHANGED <<stack, security, request, index, response, headers, handling, answer, floated>>
    BY DEF Resume, configVars, ctxVars, answerVars
  <1>5. /\ \A i \in Layers : i # k => layer'[i] = layer[i] /\ recorded'[i] = recorded[i]
        /\ stack[k] \notin {"user", "otelHttpMetrics"} => layer'[k] = layer[k + 1]
        /\ stack[k] # "user" => layer'[k].pc \in Ended
        /\ stack[k] \in Loggers =>
             \/ layer'[k] = layer[k + 1] /\ recorded'[k] = Recorded(layer[k + 1])
             \/ recorded'[k] = recorded[k]
    <2>0. layer \in [Layers -> Layer] /\ DOMAIN recorded = Layers
      BY DEF IInv, LayerInv, CtxInv
    <2>1. CASE /\ layer' = [layer EXCEPT ![k] = layer[k + 1]]
               /\ recorded' = IF Kind(k) \in Loggers
                                THEN [recorded EXCEPT ![k] = Recorded(layer[k + 1])]
                                ELSE recorded
      BY <1>1, <1>2, <2>0, <2>1
    <2>2. CASE Kind(k) = "user" /\ Set(k, "running", Other) /\ UNCHANGED recorded
      BY <1>1, <2>0, <2>2 DEF Set
    <2>3. CASE Kind(k) = "otelHttpMetrics" /\ Throws(k, Other) /\ UNCHANGED recorded
      BY <1>1, <2>0, <2>3 DEF Throws, Set, Ended
    <2>. QED
      BY <2>1, <2>2, <2>3 DEF Resume
  <1>. QED
    BY <1>1, <1>2, <1>3, <1>4, <1>5

(* What it has recorded is how the layer inside of it has ended.           *)
LEMMA RecordedSays ==
  ASSUME NEW inner, inner.pc \in Ended, NEW r, r = Recorded(inner)[1]
  PROVE  /\ r.threw <=> inner.pc = "threw"
         /\ r.responded <=> response # << >>
         /\ r.failed <=> SpanFails(inner)
         /\ r.responded => r.status = response[1]
         /\ r.threw /\ ~r.responded => r.status = inner.error.status
  <1>1. /\ r.threw = (inner.pc = "threw") /\ r.responded = (response # << >>)
        /\ r.failed = SpanFails(inner) /\ r.status = resolveStatus(inner)
    BY DEF Recorded
  <1>2. CASE response # << >>
    BY <1>1, <1>2 DEF resolveStatus
  <1>3. CASE response = << >> /\ inner.pc = "threw"
    BY <1>1, <1>3 DEF resolveStatus
  <1>4. CASE response = << >> /\ inner.pc = "returned"
    BY <1>1, <1>4
  <1>. QED
    BY <1>2, <1>3, <1>4 DEF Ended

(* The step outwards keeps EndInv.                                         *)
LEMMA ResumeEndInv ==
  ASSUME IInv, EndInv, NEW k \in 1 .. Last, Resume(k)
  PROVE  EndInv'
  <1>1. /\ k \in 1 .. Len(stack) /\ k + 1 \in 1 .. Last /\ Kind(k) = stack[k]
        /\ layer[k].pc = "waiting" /\ layer[k + 1].pc \in Ended /\ k + 1 <= index
        /\ UNCHANGED <<stack, security, request, index, response, headers, handling, answer, floated>>
        /\ \A i \in Layers : i # k => layer'[i] = layer[i] /\ recorded'[i] = recorded[i]
        /\ Last' = Last
    BY ResumeForm DEF Last
  <1>2. /\ k \in Layers /\ k \in Int /\ index \in Int /\ Len(stack) \in Nat
        /\ 1 .. Last \subseteq Layers /\ 1 .. Len(stack) \subseteq 1 .. Last
    BY StackType DEF Last, IInv, LayerInv
  <1>3. ASSUME ~floated, NEW i \in 1 .. Last, i < k
        PROVE  layer[i].pc = "waiting"
    BY <1>1, <1>2, <1>3 DEF EndInv, FlowInv, Ended
  <1>4. layer[1].pc \in Ended => layer'[1].pc \in Ended
    BY <1>1, <1>2 DEF Ended, Layers
  <1>5. FlowInv'
    <2>1. ASSUME ~floated, NEW i \in 1 .. Last, NEW j \in 1 .. Last,
                 i < j, j <= index, layer'[i].pc # "waiting"
          PROVE  layer'[j].pc \in Ended
      <3>1. CASE i = k
        <4>1. layer[j].pc \in Ended
          <5>1. CASE j = k + 1
            BY <1>1, <5>1
          <5>2. CASE k + 1 < j
            BY <1>1, <2>1, <5>2 DEF EndInv, FlowInv, Ended
          <5>. QED
            BY <1>2, <2>1, <3>1, <5>1, <5>2
        <4>. QED
          BY <1>1, <1>2, <2>1, <3>1, <4>1
      <3>2. CASE i # k
        <4>1. layer[i].pc # "waiting"
          BY <1>1, <1>2, <2>1, <3>2
        <4>2. layer[j].pc \in Ended
          BY <2>1, <4>1 DEF EndInv, FlowInv
        <4>. QED
          BY <1>1, <1>2, <4>2 DEF Ended
      <3>. QED
        BY <3>1, <3>2
    <2>2. ASSUME NEW i \in 1 .. Len(stack), i < index, stack[i] # "user"
          PROVE  layer'[i].pc \in Ended \cup {"waiting"}
      <3>1. CASE i = k
        BY <2>2, <3>1, ResumeForm
      <3>2. CASE i # k
        BY <1>1, <1>2, <2>2, <3>2 DEF EndInv, FlowInv
      <3>. QED
        BY <3>1, <3>2
    <2>. QED
      BY <1>1, <1>4, <2>1, <2>2 DEF EndInv, FlowInv
  <1>6. HeaderInv'
    <2>1. ASSUME NEW i \in 1 .. Last, Kind(i) \in {"headers", "cors"}, i <= index,
                 layer'[i].pc # "called"
          PROVE  i \in headers
      BY <1>1, <1>2, <2>1 DEF EndInv, HeaderInv
    <2>. QED
      BY <1>1, <2>1 DEF EndInv, HeaderInv, Kind
  <1>7. ASSUME ~floated, ~request.custom, NEW i \in 1 .. Len(stack), stack[i] \in Loggers,
               PassedOn(i), recorded'[i] # << >>
        PROVE  RecordSound(i)' /\ RecordSent(i)'
    <2>0. i \in 1 .. Last /\ i \in Layers /\ i \in Int
      BY <1>2
    <2>1. CASE i = k /\ layer'[k] = layer[k + 1] /\ recorded'[k] = Recorded(layer[k + 1])
      <3>. DEFINE r == recorded'[k][1]
      <3>1. /\ r.threw <=> layer'[k].pc = "threw"
            /\ r.responded <=> response # << >>
            /\ r.failed <=> SpanFails(layer'[k])
            /\ r.responded => r.status = response[1]
            /\ r.threw /\ ~r.responded => r.status = layer'[k].error.status
        BY <1>1, <2>1, RecordedSays
      <3>2. layer'[k].pc \in Ended
        BY <1>1, <2>1
      <3>3. answer = << >>
        <4>1. layer[1].pc = "waiting"
          BY <1>1, <1>2, <1>3, <1>7
        <4>. QED
          BY <4>1 DEF EndInv, FlowInv, Ended
      <3>4. \A j \in 1 .. k : layer'[j].pc # "waiting" => layer'[j] = layer'[k]
        BY <1>1, <1>2, <1>3, <1>7
      <3>5. r.failed <=> IF r.threw THEN layer'[k].error.status >= 500
                        ELSE r.responded /\ r.status >= 500
        <4>1. CASE r.threw
          BY <3>1, <4>1 DEF SpanFails
        <4>2. CASE ~r.threw
          BY <3>1, <4>2 DEF SpanFails
        <4>. QED
          BY <4>1, <4>2
      <3>6. RecordSound(k)'
        BY <3>1, <3>2, <3>5 DEF RecordSound
      <3>7. RecordSent(k)'
        BY <1>1, <3>1, <3>3, <3>4 DEF RecordSent
      <3>. QED
        BY <2>1, <3>6, <3>7
    <2>2. CASE i # k
      <3>1. recorded'[i] = recorded[i] /\ layer'[i] = layer[i]
        BY <1>1, <2>0, <2>2
      <3>2. RecordSound(i) /\ RecordSent(i)
        BY <1>7, <3>1 DEF EndInv, RecordInv
      <3>3. layer[i].pc \in Ended
        BY <3>2 DEF RecordSound
      <3>4. k < i
        BY <1>2, <1>3, <1>7, <2>0, <2>2, <1>1, <3>3 DEF EndInv, FlowInv, Ended
      <3>5. layer'[k] = layer[k + 1]
        BY <1>7, <1>2, <3>4, ResumeForm DEF PassedOn
      <3>6. layer'[k] = layer[i]
        <4>1. k + 1 \in 1 .. i
          BY <1>2, <2>0, <3>4
        <4>. QED
          BY <1>1, <3>2, <3>5, <4>1 DEF RecordSent, Ended
      <3>7. \A j \in 1 .. i : layer'[j].pc # "waiting" => layer'[j] = layer'[i]
        BY <1>1, <1>2, <2>0, <3>1, <3>2, <3>6 DEF RecordSent
      <3>8. RecordSound(i)'
        BY <3>1, <3>2 DEF RecordSound
      <3>9. RecordSent(i)'
        BY <1>1, <3>1, <3>2, <3>7 DEF RecordSent
      <3>. QED
        BY <3>8, <3>9
    <2>3. CASE i = k /\ recorded'[k] = recorded[k]
      BY <1>1, <1>7, <2>3 DEF EndInv, RecordInv, RecordSound, Ended
    <2>. QED
      BY <1>7, <2>1, <2>2, <2>3, ResumeForm
  <1>8. RecordInv'
    <2>. SUFFICES ASSUME ~floated, ~request.custom, NEW i \in 1 .. Len(stack),
                         stack[i] \in Loggers, PassedOn(i), recorded'[i] # << >>
                  PROVE  RecordSound(i)' /\ RecordSent(i)'
      BY <1>1 DEF RecordInv, PassedOn
    <2>. QED
      BY <1>7
  <1>. QED
    BY <1>5, <1>6, <1>8 DEF EndInv

(* The end of dispatch().                                                  *)
LEMMA AnsweringEndInv ==
  ASSUME IInv, EndInv, Answering
  PROVE  EndInv'
  <1>1. UNCHANGED <<stack, security, request, index, layer, headers, recorded, floated>> /\ Last' = Last
        /\ answer = << >>
    BY DEF Answering, PipelineReturns, PipelineThrows, ErrorHandled, configVars, ctxVars, Last
  <1>2. layer[1].pc \in Ended /\ (handling' # << >> => request.custom)
    BY DEF Answering, PipelineReturns, PipelineThrows, ErrorHandled, EndInv, FlowInv, Ended
  <1>3. FlowInv'
    BY <1>1, <1>2 DEF EndInv, FlowInv
  <1>4. answer' # << >> => answer'[1].headers = headers
    <2>1. CASE answer' = << >>
      BY <2>1
    <2>2. CASE answer' # << >>
      <3>1. PICK status : Answers(status)
        BY <1>1, <2>2 DEF Answering, PipelineReturns, PipelineThrows, ErrorHandled
      <3>. QED
        BY <3>1 DEF Answers, Finalized
    <2>. QED
      BY <2>1, <2>2
  <1>5. HeaderInv'
    BY <1>1, <1>4 DEF EndInv, HeaderInv, Kind
  <1>6. ASSUME ~floated, ~request.custom, NEW i \in 1 .. Len(stack), stack[i] \in Loggers,
               PassedOn(i), recorded[i] # << >>
        PROVE  RecordSound(i)' /\ RecordSent(i)'
    <2>0. RecordSound(i) /\ RecordSent(i)
      BY <1>6 DEF EndInv, RecordInv
    <2>1. RecordSound(i)'
      BY <1>1, <2>0 DEF RecordSound
    <2>2. layer[1] = layer[i]
      <3>1. 1 \in 1 .. i
        BY <1>6, StackType DEF IInv, LayerInv
      <3>. QED
        BY <1>2, <2>0, <3>1 DEF RecordSent, Ended
    <2>3. CASE PipelineReturns
      <3>1. answer'[1].status = IF response # << >> THEN response[1] ELSE 204
        BY <2>3 DEF PipelineReturns, Answers
      <3>2. ~recorded[i][1].threw
        BY <2>0, <2>2, <2>3 DEF PipelineReturns, RecordSound
      <3>3. answer' # << >>
        BY <2>3 DEF PipelineReturns, Answers
      <3>. QED
        BY <1>1, <2>0, <2>1, <3>1, <3>2, <3>3 DEF RecordSent
    <2>4. CASE PipelineThrows
      <3>1. answer' # << >> /\ answer'[1].status = DefaultStatus(layer[1].error)
        <4>1. Answers(DefaultStatus(layer[1].error))
          BY <1>6, <2>4 DEF PipelineThrows
        <4>. QED
          BY <4>1 DEF Answers
      <3>2. DefaultStatus(layer[1].error) = layer[i].error.status
        <4>1. 1 \in Layers
          BY StackType DEF IInv, LayerInv, Layers
        <4>. QED
          BY <2>2, <4>1 DEF IInv, LayerInv, ErrorSound, DefaultStatus
      <3>3. recorded[i][1].threw
        BY <2>0, <2>2, <2>4 DEF PipelineThrows, RecordSound
      <3>. QED
        BY <1>1, <2>0, <2>1, <3>1, <3>2, <3>3 DEF RecordSent
    <2>5. CASE ErrorHandled
      BY <1>6, <2>5 DEF ErrorHandled, EndInv, FlowInv
    <2>. QED
      BY <2>3, <2>4, <2>5 DEF Answering
  <1>7. RecordInv'
    <2>. SUFFICES ASSUME ~floated, ~request.custom, NEW i \in 1 .. Len(stack),
                         stack[i] \in Loggers, PassedOn(i), recorded[i] # << >>
                  PROVE  RecordSound(i)' /\ RecordSent(i)'
      BY <1>1 DEF RecordInv, PassedOn
    <2>. QED
      BY <1>6
  <1>. QED
    BY <1>3, <1>5, <1>7 DEF EndInv

(* Nothing has ended, been recorded or answered at first.                  *)
LEMMA InitEndInv == Init => EndInv
  <1>. SUFFICES ASSUME Init PROVE EndInv
    OBVIOUS
  <1>1. IInv
    BY InitIInv
  <1>2. /\ 1 \in Layers /\ 1 \in 1 .. Last /\ Len(stack) \in Nat
        /\ 1 .. Len(stack) \subseteq Layers /\ index = 1
    BY <1>1, StackType DEF IInv, LayerInv, Layers, Init
  <1>3. FlowInv
    BY <1>2 DEF FlowInv, Init
  <1>4. HeaderInv
    BY <1>2 DEF HeaderInv, Init, Called
  <1>5. RecordInv
    BY <1>2 DEF RecordInv, Init
  <1>. QED
    BY <1>3, <1>4, <1>5 DEF EndInv

(* EndInv holds in every reachable state.                                  *)
THEOREM EndInvariance == Spec => []EndInv
  <1>1. ASSUME IInv, EndInv, [Next]_vars
        PROVE  EndInv'
    <2>1. ASSUME NEW i \in 1 .. Len(stack), NEW pc \in {"waiting", "running"}, Moves(i, pc)
          PROVE  EndInv'
      BY <1>1, <2>1, MovesEndInv
    <2>2. ASSUME NEW i \in 1 .. Last, NEW e,
                 NEW pc \in {"deciding", "running", "waiting", "returned", "threw"}, Stays(i, pc, e)
          PROVE  EndInv'
      BY <1>1, <2>2, StaysEndInv
    <2>3. ASSUME NEW i \in 1 .. Last, Framework(i)
          PROVE  EndInv'
      BY <1>1, <2>1, <2>2, <2>3, FrameworkForm
    <2>4. ASSUME NEW i \in 1 .. Last, Verified(i) \/ Decided(i)
          PROVE  EndInv'
      BY <1>1, <2>1, <2>2, <2>4, DecisionForm
    <2>5. ASSUME NEW i \in 1 .. Last, Ends(i) \/ UserNext(i) \/ UserAwaits(i)
          PROVE  EndInv'
      BY <1>1, <2>1, <2>2, <2>5, RunningForm
    <2>6. ASSUME NEW i \in 1 .. Last, Resume(i)
          PROVE  EndInv'
      BY <1>1, <2>6, ResumeEndInv
    <2>7. ASSUME NEW i \in 1 .. Last, Responds(i) \/ UserAuthenticates(i)
          PROVE  EndInv'
      BY <1>1, <2>7, RespondsEndInv
    <2>8. CASE Answering
      BY <1>1, <2>8, AnsweringEndInv
    <2>9. CASE UNCHANGED vars
      BY <1>1, <2>9
      DEF vars, EndInv, FlowInv, HeaderInv, RecordInv, RecordSound, RecordSent, PassedOn, Kind, Last
    <2>. QED
      BY <1>1, <2>3, <2>4, <2>5, <2>6, <2>7, <2>8, <2>9 DEF Next, Resumes
  <1>. QED
    BY <1>1, InitEndInv, Invariance, PTL DEF Spec

(* What a middleware has written to ctx.responseHeaders is on the answer,  *)
(* whether the pipeline was cut short, has failed or has been handled by   *)
(* an error handler.                                                       *)
THEOREM HeadersKept == Spec => []HeadersOnAnswer
  <1>1. ASSUME IInv, EndInv PROVE HeadersOnAnswer
    <2>. SUFFICES ASSUME answer # << >>, ~floated, NEW i \in 1 .. Last,
                         Kind(i) \in {"headers", "cors"}, i <= index
                  PROVE  i \in answer[1].headers
      BY DEF HeadersOnAnswer
    <2>1. layer[i].pc \in Ended
      <3>1. layer[1].pc \in Ended /\ 1 \in 1 .. Last
        BY <1>1, StackType DEF EndInv, FlowInv, IInv, LayerInv
      <3>2. i = 1 \/ 1 < i
        BY <3>1
      <3>. QED
        BY <1>1, <3>1, <3>2 DEF EndInv, FlowInv, Ended
    <2>. QED
      BY <1>1, <2>1 DEF EndInv, HeaderInv, Ended
  <1>. QED
    BY <1>1, Invariance, EndInvariance, PTL

(* What is logged, measured and traced of a request agrees with what is    *)
(* sent.                                                                   *)
THEOREM RecordsTrue == Spec => []RecordsAgree
  <1>1. ASSUME IInv, EndInv PROVE RecordsAgree
    <2>1. ASSUME NEW i \in 1 .. Len(stack), stack[i] \in Loggers, Outermost(i),
                 recorded[i] # << >>, answer # << >>
          PROVE  /\ RecordSound(i)
                 /\ answer[1].status = IF recorded[i][1].threw THEN layer[i].error.status
                                       ELSE IF recorded[i][1].responded
                                              THEN recorded[i][1].status ELSE 204
      BY <1>1, <2>1 DEF Outermost, EndInv, RecordInv, PassedOn, RecordSent
    <2>2. ASSUME NEW i \in 1 .. Len(stack), stack[i] \in {"accessLog", "otelHttpMetrics"},
                 Outermost(i), recorded[i] # << >>, answer # << >>,
                 recorded[i][1].threw # recorded[i][1].responded
          PROVE  recorded[i][1].status = answer[1].status
      <3>1. /\ RecordSound(i)
            /\ answer[1].status = IF recorded[i][1].threw THEN layer[i].error.status
                                  ELSE IF recorded[i][1].responded
                                         THEN recorded[i][1].status ELSE 204
        BY <2>1, <2>2 DEF Loggers
      <3>2. CASE recorded[i][1].threw
        <4>1. ~recorded[i][1].responded
          <5>1. recorded[i][1] \in Record
            BY <1>1, <2>2, MaybeValue, StackType DEF IInv, LayerInv, CtxInv
          <5>2. recorded[i][1].threw \in BOOLEAN /\ recorded[i][1].responded \in BOOLEAN
            BY <5>1 DEF Record
          <5>. QED
            BY <2>2, <3>2, <5>2, Zenon
        <4>. QED
          BY <3>1, <3>2, <4>1 DEF RecordSound
      <3>3. CASE ~recorded[i][1].threw
        <4>1. recorded[i][1] \in Record
          BY <1>1, <2>2, MaybeValue, StackType DEF IInv, LayerInv, CtxInv
        <4>2. recorded[i][1].threw \in BOOLEAN /\ recorded[i][1].responded \in BOOLEAN
          BY <4>1 DEF Record
        <4>3. recorded[i][1].responded
          BY <2>2, <3>3, <4>2, Zenon
        <4>. QED
          BY <3>1, <3>3, <4>3
      <3>. QED
        BY <3>2, <3>3
    <2>3. ASSUME NEW i \in 1 .. Len(stack), stack[i] = "otelHttp", Outermost(i),
                 recorded[i] # << >>, answer # << >>
          PROVE  recorded[i][1].failed <=> answer[1].status >= 500
      <3>1. /\ RecordSound(i)
            /\ answer[1].status = IF recorded[i][1].threw THEN layer[i].error.status
                                  ELSE IF recorded[i][1].responded
                                         THEN recorded[i][1].status ELSE 204
        BY <2>1, <2>3 DEF Loggers
      <3>2. recorded[i][1].failed <=> IF recorded[i][1].threw THEN layer[i].error.status >= 500
                                     ELSE recorded[i][1].responded /\ recorded[i][1].status >= 500
        BY <3>1 DEF RecordSound
      <3>3. CASE recorded[i][1].threw
        BY <3>1, <3>2, <3>3
      <3>4. CASE ~recorded[i][1].threw /\ recorded[i][1].responded
        BY <3>1, <3>2, <3>4
      <3>5. CASE ~recorded[i][1].threw /\ ~recorded[i][1].responded
        <4>1. answer[1].status = 204
          BY <3>1, <3>5
        <4>2. ~(answer[1].status >= 500)
          BY <4>1
        <4>. QED
          BY <3>2, <3>5, <4>2
      <3>. QED
        BY <3>3, <3>4, <3>5
    <2>. QED
      BY <2>2, <2>3 DEF RecordsAgree, LogAgrees, SpanTellsFailure
  <1>. QED
    BY <1>1, Invariance, EndInvariance, PTL

=============================================================================
