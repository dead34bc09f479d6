------------------------------ MODULE Exchange ------------------------------
(***************************************************************************)
(* One HTTP exchange: createFetchHandler (packages/http/lib/               *)
(* fetch-handler.ts) races its work, which reads the body (body-read.ts,   *)
(* body-parse.ts, body-multipart.ts) and dispatches the request, with the  *)
(* timeout signal (timeout.ts), and the handler may answer with an event   *)
(* stream (sse.ts).                                                        *)
(*                                                                         *)
(* An action is what one callback of node and the promise callbacks after  *)
(* it do, so nothing comes between the abort of a signal and what awaited  *)
(* it.  The client, the streams of the platform and the handler are        *)
(* external.  Bytes are counted, events are not told apart, and an error   *)
(* is the status it is answered with.  dispatch() itself is Dispatch.      *)
(***************************************************************************)
EXTENDS Integers

CONSTANTS
  MaxBytes,         \* options.maxBodyBytes, or multipart.maxBytes
  ChunkSizes,       \* sizes of the pieces that a body arrives in
  MaxTotal,         \* bound on the length of a body
  MaxQueue          \* a queue of so many events stands for any longer one

ASSUME SizesAssumption ==
  /\ MaxBytes \in Nat
  /\ ChunkSizes \subseteq Nat \ {0}
  /\ MaxTotal \in Nat
  /\ MaxQueue \in Nat \ {0}

VARIABLES
  timeout,     \* requestTimeoutMs > 0
  kind,        \* how the body is read, "none" for GET and HEAD
  declared,    \* content-length, 0 if there is none
  client,      \* "there" or "gone"
  aborted,     \* the signal that the work has been given has been aborted
  armed,       \* the timer runs, and the client's signal is listened to
  body,        \* the stream of the request
  locked,      \* readBytesLimited holds a reader of it
  listeners,   \* abort listeners that it has added to the signal
  total,       \* its variable of that name
  work,        \* how far the closure `work` has come
  failure,     \* the error that it is going to reject with
  answer,      \* what the fetch handler has returned, if it has
  stream       \* the event stream of the handler, if it has made one

requestVars == <<timeout, kind, declared>>
signalVars == <<aborted, armed>>
bodyVars == <<body, locked, listeners, total>>
workVars == <<work, failure, answer>>
vars == <<timeout, kind, declared, client, aborted, armed, body, locked, listeners,
          total, work, failure, answer, stream>>

Errors == {"400", "408", "413", "500"}
Answers == {"none", "ok", "stream"} \cup Errors

(***************************************************************************)
(* `next` is the promise of iterator.next() that the loop of               *)
(* streamFromIterable awaits: "pending", or settled with an event, an      *)
(* event that cannot be encoded, the end or an error.  When the loop is    *)
(* over the producer has been "left" at its yield or has "finished".  The  *)
(* platform's stream is "closing" once close() has been called, until its  *)
(* queue is empty.                                                         *)
(***************************************************************************)
Settled == {"event", "unencodable", "end", "error"}
Stream == [next      : {"none", "pending", "left", "finished"} \cup Settled,
           state     : {"none", "open", "closing", "closed", "errored"},
           queue     : 0 .. MaxQueue,
           cancelled : BOOLEAN]
NoStream == [next |-> "none", state |-> "none", queue |-> 0, cancelled |-> FALSE]

Init ==
  /\ timeout \in BOOLEAN
  /\ kind \in {"none", "raw", "json", "multipart"}
  /\ declared \in 0 .. MaxTotal
  /\ kind = "none" => declared = 0
  /\ client = "there"
  /\ aborted = FALSE
  /\ armed = FALSE
  /\ body = IF kind = "none" THEN "none" ELSE "open"
  /\ locked = FALSE
  /\ listeners = 0
  /\ total = 0
  /\ work = "new"
  /\ failure = "none"
  /\ answer = "none"
  /\ stream = NoStream

-----------------------------------------------------------------------------
(* What the code tests and does, most of it after the form a mistake might *)
(* give it.                                                                *)

Bug_AtTheLimit(n) == n >= MaxBytes
TooLarge(n) == n > MaxBytes

(* The `finally` of readPromise removes the listener.                      *)
Bug_ListenerKept == listeners
Unlistened == listeners - 1

(* reader.cancel() in the catch of readBytesLimited.                       *)
Bug_LeftOpen == body
Cancelled == "cancelled"

(* timeout.clear() in the `finally` of the fetch handler.                  *)
Cleared == FALSE

(* Promise.race([work, whenAborted(...)]).                                 *)
Bug_NotRaced == FALSE
Raced == timeout

(* iterator.return() in cancel().                                          *)
Bug_NotReturned == FALSE
Returned == stream.cancelled

-----------------------------------------------------------------------------
(* The work is over, and is the answer unless the timeout has been first.  *)
Settle(outcome) ==
  /\ work' = "done"
  /\ answer' = IF answer = "none" THEN outcome ELSE answer
  /\ armed' = Cleared

(* The signal of the work is aborted: the race is lost, and so is that of  *)
(* a pending read, whose catch cancels the stream.                         *)
Abort ==
  /\ aborted' = TRUE
  /\ IF Raced /\ answer = "none"
       THEN answer' = "408" /\ armed' = Cleared
       ELSE UNCHANGED <<answer, armed>>
  /\ IF work = "read"
       THEN /\ work' = "cancel"
            /\ failure' = "408"
            /\ body' = Cancelled
            /\ listeners' = 0
       ELSE UNCHANGED <<work, failure, body, listeners>>
  /\ UNCHANGED <<requestVars, client, locked, total, stream>>

-----------------------------------------------------------------------------
(* The fetch handler is called.  The client may have gone before.          *)
Begin ==
  /\ work = "new"
  /\ answer' = CASE aborted /\ (timeout \/ kind # "none") -> "408"
                 [] aborted /\ ~timeout /\ kind = "none"  -> "none"
                 [] ~aborted /\ TooLarge(declared)               -> "413"
                 [] ~aborted /\ ~TooLarge(declared)              -> "none"
  /\ armed' = (timeout /\ answer' = "none")
  /\ CASE kind = "none" ->
            work' = "dispatch" /\ UNCHANGED <<locked, listeners>>
       [] kind # "none" /\ answer' # "none" ->
            work' = "done" /\ UNCHANGED <<locked, listeners>>
       [] kind # "none" /\ answer' = "none" ->
            work' = "read" /\ locked' = TRUE /\ listeners' = 1
  /\ UNCHANGED <<requestVars, client, aborted, body, total, failure, stream>>

(* A piece of the body: the next read is begun, or there is too much.      *)
ChunkRead(n) ==
  /\ work = "read" /\ client = "there"
  /\ total + n <= IF declared = 0 THEN MaxTotal ELSE declared
  /\ total' = total + n
  /\ IF TooLarge(total')
       THEN /\ work' = "cancel"
            /\ failure' = "413"
            /\ body' = Cancelled
            /\ listeners' = Unlistened
       ELSE /\ listeners' = Unlistened + 1
            /\ UNCHANGED <<work, failure, body>>
  /\ UNCHANGED <<requestVars, client, signalVars, locked, answer, stream>>

(* The body is complete: it is dispatched, or found malformed, or given to *)
(* the parser of multipart bodies.                                         *)
BodyEnds ==
  /\ work = "read" /\ client = "there"
  /\ declared \in {0, total}
  /\ body' = "ended"
  /\ locked' = FALSE
  /\ listeners' = Unlistened
  /\ \/ /\ kind \in {"raw", "json"}
        /\ work' = "dispatch"
        /\ UNCHANGED <<answer, armed>>
     \/ /\ kind = "json"
        /\ Settle("400")
     \/ /\ kind = "multipart"
        /\ work' = "parse"
        /\ UNCHANGED <<answer, armed>>
  /\ UNCHANGED <<requestVars, client, aborted, total, failure, stream>>

(* The connection is lost within the body.                                 *)
BodyFails ==
  /\ client = "gone"
  /\ body = "open" \/ (body = "errored" /\ work = "read")
  /\ body' = "errored"
  /\ IF work = "read"
       THEN /\ locked' = FALSE
            /\ listeners' = Unlistened
            /\ Settle("500")
       ELSE UNCHANGED <<locked, listeners, work, answer, armed>>
  /\ UNCHANGED <<requestVars, client, aborted, total, failure, stream>>

(* `await reader.cancel()` is over: release the lock and rethrow.          *)
CancelSettles ==
  /\ work = "cancel"
  /\ locked' = FALSE
  /\ Settle(failure)
  /\ UNCHANGED <<requestVars, client, aborted, body, listeners, total, failure, stream>>

(* formData(), and the parts within their limits; the signal is looked at  *)
(* before each part.                                                       *)
ParseEnds ==
  /\ work = "parse"
  /\ \/ \E e \in {"400", "413"} : Settle(e)
     \/ aborted /\ Settle("408")
     \/ work' = "dispatch" /\ UNCHANGED <<answer, armed>>
  /\ UNCHANGED <<requestVars, client, aborted, bodyVars, failure, stream>>

(* dispatch() returns a response with or without an event stream; the loop *)
(* that fills the stream runs from its creation on.                        *)
HandlerResponds ==
  /\ work = "dispatch"
  /\ Settle("ok")
  /\ UNCHANGED <<requestVars, client, aborted, bodyVars, failure, stream>>

HandlerStreams ==
  /\ work = "dispatch"
  /\ Settle("stream")
  /\ stream' = [next |-> "pending", state |-> "open", queue |-> 0, cancelled |-> FALSE]
  /\ UNCHANGED <<requestVars, client, aborted, bodyVars, failure>>

-----------------------------------------------------------------------------
(* The timer, and the client's going away, which aborts request.signal.    *)

TimerFires ==
  /\ armed /\ ~aborted
  /\ Abort

ClientGoes ==
  /\ client = "there"
  /\ answer \in {"none", "stream"}
  /\ client' = "gone"
  /\ UNCHANGED <<requestVars, signalVars, bodyVars, workVars, stream>>

ClientAborts ==
  /\ client = "gone" /\ ~aborted
  /\ IF work = "new"
       THEN /\ aborted' = TRUE
            /\ UNCHANGED <<requestVars, client, armed, bodyVars, workVars, stream>>
       ELSE /\ timeout => armed
            /\ Abort

-----------------------------------------------------------------------------
(* The event stream.                                                       *)

StreamOnly == UNCHANGED <<requestVars, client, signalVars, bodyVars, workVars>>

ProducerSettles ==
  /\ stream.next = "pending"
  /\ \E v \in Settled : stream' = [stream EXCEPT !.next = v]
  /\ StreamOnly

(* The loop goes on: an event is encoded and queued and the next one asked *)
(* for, if the stream is still wanted; else the loop is left, after        *)
(* close() or error() if it was.                                           *)
LoopResumes ==
  /\ stream.next \in Settled
  /\ stream' =
       CASE stream.cancelled ->
              [stream EXCEPT !.next = IF @ \in {"end", "error"} THEN "finished" ELSE "left"]
         [] ~stream.cancelled /\ stream.next = "event" ->
              [stream EXCEPT !.next = "pending",
                             !.queue = IF @ < MaxQueue THEN @ + 1 ELSE @]
         [] ~stream.cancelled /\ stream.next = "end" ->
              [stream EXCEPT !.next = "finished",
                             !.state = IF stream.queue = 0 THEN "closed" ELSE "closing"]
         [] ~stream.cancelled /\ stream.next \in {"unencodable", "error"} ->
              [stream EXCEPT !.next = IF @ = "error" THEN "finished" ELSE "left",
                             !.state = "errored", !.queue = 0]
  /\ StreamOnly

(* The adapter sends an event.                                             *)
EventSent ==
  /\ answer = "stream" /\ client = "there"
  /\ stream.queue > 0
  /\ stream' = [stream EXCEPT
                  !.queue = @ - 1,
                  !.state = IF @ = "closing" /\ stream.queue = 1 THEN "closed" ELSE @]
  /\ StreamOnly

(* The adapter cancels the stream of a client that has gone.               *)
StreamCancelled ==
  /\ answer = "stream" /\ client = "gone"
  /\ stream.state \in {"open", "closing"}
  /\ stream' = [stream EXCEPT !.state = "closed", !.queue = 0, !.cancelled = TRUE]
  /\ StreamOnly

(* return() lets a generator run its `finally`, when the event that it was *)
(* working on has settled.                                                 *)
ProducerReturns ==
  /\ Returned
  /\ stream.next = "left"
  /\ stream' = [stream EXCEPT !.next = "finished"]
  /\ StreamOnly

-----------------------------------------------------------------------------
Next ==
  \/ Begin
  \/ \E n \in ChunkSizes : ChunkRead(n)
  \/ BodyEnds \/ BodyFails \/ CancelSettles \/ ParseEnds
  \/ HandlerResponds \/ HandlerStreams
  \/ TimerFires \/ ClientGoes \/ ClientAborts
  \/ ProducerSettles \/ LoopResumes \/ EventSent \/ StreamCancelled \/ ProducerReturns

Spec == Init /\ [][Next]_vars

(* The platform fires timers and events and cancels streams, and events    *)
(* that a producer is asked for come.  Clients and handlers may take for   *)
(* ever.                                                                   *)
FairSpec ==
  /\ Spec
  /\ WF_vars(Begin)
  /\ WF_vars(TimerFires)
  /\ WF_vars(ClientAborts)
  /\ WF_vars(ProducerSettles)
  /\ WF_vars(LoopResumes)
  /\ WF_vars(StreamCancelled)
  /\ WF_vars(ProducerReturns)

-----------------------------------------------------------------------------
(* Every variable holds a value of its kind, and at most one listener is   *)
(* left on the signal at any time.                                         *)
TypeOK ==
  /\ timeout \in BOOLEAN
  /\ kind \in {"none", "raw", "json", "multipart"}
  /\ declared \in 0 .. MaxTotal
  /\ client \in {"there", "gone"}
  /\ aborted \in BOOLEAN
  /\ armed \in BOOLEAN
  /\ body \in {"none", "open", "ended", "errored", "cancelled"}
  /\ locked \in BOOLEAN
  /\ listeners \in 0 .. 1
  /\ total \in 0 .. MaxTotal
  /\ work \in {"new", "read", "cancel", "parse", "dispatch", "done"}
  /\ failure \in {"none", "408", "413"}
  /\ answer \in Answers
  /\ stream \in Stream

(* A body that is handed on is whole and within the limit: neither the     *)
(* end that cancel() gives to a pending read nor an abort between two      *)
(* pieces is taken for the end of the body.                                *)
BodyWhole ==
  work \in {"parse", "dispatch"} /\ kind # "none" => body = "ended" /\ total <= MaxBytes

(* Only a body over the limit, by its header or by its bytes, or a part of *)
(* a multipart body, is refused as too large.                              *)
RefusedOnlyOver ==
  answer = "413" /\ kind # "multipart" => declared > MaxBytes \/ total > MaxBytes

(* Both: what becomes of a body is decided by the whole of it, in whatever *)
(* order its pieces, its end, an abort and a failure come.                 *)
BodyJudgedWhole == BodyWhole /\ RefusedOnlyOver

(* "Oversized / aborted body reads cancel the stream reader before         *)
(* releasing the lock" (docs/reliability-notes.md:32), and leave no        *)
(* listener on the signal, however abort, end and failure of the body race.*)
ReadingLeavesNothing ==
  [][locked /\ ~locked' => body' # "open" /\ listeners' = 0]_vars

(* The request timeout bounds the answer, not the stream that is answered  *)
(* with: once there is an answer, neither it nor the signal changes, so a  *)
(* producer that watches the signal goes on.                               *)
AnswerSettlesSignal ==
  [][answer # "none" /\ timeout => answer' = answer /\ aborted' = aborted]_vars

(* With a request timeout every request is answered, though its body stays *)
(* incomplete, a cancel() does not settle or the handler hangs.            *)
AlwaysAnswered == timeout => <>(answer # "none")

(* The producer of a stream that is being sent is released when the client *)
(* goes; excepted is one whose event could not be encoded.                 *)
ProducerReleased ==
  (answer = "stream" /\ client = "gone")
    ~> (stream.next = "finished" \/ stream.state = "errored")

-----------------------------------------------------------------------------
(* "When the client disconnects, the stream `cancel`s and calls            *)
(* `AsyncIterator.return()` so generators can stop"                        *)
(* (packages/http/lib/sse.ts:100).                                          *)
DisconnectStopsProducer ==
  client = "gone" ~> stream.next \in {"none", "left", "finished"}
=============================================================================
