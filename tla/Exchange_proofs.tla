--------------------------- MODULE Exchange_proofs ---------------------------
(***************************************************************************)
(* Proofs about Exchange, for bodies, pieces and limits of any size.       *)
(*                                                                         *)
(* ReaderInv says who owns the body: the reader is locked exactly while a  *)
(* read or a cancel() is awaited, there is a listener exactly during a     *)
(* read, and what is awaited with it has not been answered as something    *)
(* else.  SignalInv says that the timer only runs while there is no        *)
(* answer.                                                                 *)
(***************************************************************************)
EXTENDS Exchange, TLAPS

ReaderInv ==
  /\ locked <=> work \in {"read", "cancel"}
  /\ listeners = IF work = "read" THEN 1 ELSE 0
  /\ work \in {"read", "cancel"} => kind # "none"
  /\ work = "parse" => kind = "multipart"
  /\ work = "cancel" => failure # "none" /\ body # "open"
  /\ work \in {"new", "read"} => total <= MaxBytes
  /\ work \in {"new", "read"} /\ kind # "none" => body \in {"open", "errored"}
  /\ failure = "413" => total > MaxBytes

SignalInv ==
  /\ armed => timeout /\ answer = "none" /\ ~aborted
  /\ work = "new" => ~armed /\ answer = "none"
  /\ timeout /\ answer = "none" /\ work # "new" => armed

IInv == TypeOK /\ ReaderInv /\ SignalInv /\ BodyWhole /\ RefusedOnlyOver

-----------------------------------------------------------------------------
(* Nothing has been done yet.                                              *)
LEMMA InitIInv == Init => IInv
  <1>. SUFFICES ASSUME Init PROVE IInv
    OBVIOUS
  <1>1. NoStream \in Stream
    BY SizesAssumption DEF NoStream, Stream
  <1>2. TypeOK
    <2>1. stream \in Stream
      BY <1>1 DEF Init
    <2>2. locked \in BOOLEAN /\ armed \in BOOLEAN /\ aborted \in BOOLEAN
      BY DEF Init
    <2>3. body \in {"none", "open"}
      BY DEF Init
    <2>4. total \in 0 .. MaxTotal /\ listeners \in 0 .. 1
      BY SizesAssumption DEF Init
    <2>. QED
      BY <2>1, <2>2, <2>3, <2>4 DEF Init, TypeOK, Answers
  <1>3. ReaderInv
    BY SizesAssumption DEF Init, ReaderInv
  <1>4. SignalInv
    BY DEF Init, SignalInv
  <1>5. BodyWhole /\ RefusedOnlyOver
    BY DEF Init, BodyWhole, RefusedOnlyOver
  <1>. QED
    BY <1>2, <1>3, <1>4, <1>5 DEF IInv

(* The fetch handler is called.                                            *)
LEMMA BeginIInv == ASSUME IInv, Begin PROVE IInv'
  <1>1. /\ UNCHANGED <<timeout, kind, declared, client, aborted, body, total, failure, stream>>
        /\ work = "new" /\ ~locked /\ listeners = 0 /\ answer = "none"
    BY DEF Begin, requestVars, IInv, TypeOK, ReaderInv, SignalInv
  <1>2. /\ answer' \in {"none", "408", "413"}
        /\ answer' = "413" => declared > MaxBytes
        /\ aborted /\ timeout => answer' # "none"
    BY DEF Begin, TooLarge, IInv, TypeOK
  <1>3. \/ work' = "dispatch" /\ kind = "none" /\ locked' = FALSE /\ listeners' = 0
        \/ work' = "done" /\ locked' = FALSE /\ listeners' = 0
        \/ work' = "read" /\ kind # "none" /\ locked' = TRUE /\ listeners' = 1
    BY <1>1 DEF Begin, IInv, TypeOK
  <1>4. armed' \in BOOLEAN /\ armed' = (timeout /\ answer' = "none")
    BY DEF Begin
  <1>5. TypeOK'
    <2>1. locked' \in BOOLEAN
      BY DEF Begin, IInv, TypeOK
    <2>. QED
      BY <1>1, <1>2, <1>3, <1>4, <2>1 DEF IInv, TypeOK, Answers, Errors
  <1>6. ReaderInv'
    BY <1>1, <1>3, SizesAssumption DEF IInv, TypeOK, ReaderInv
  <1>7. SignalInv'
    BY <1>1, <1>2, <1>3, <1>4 DEF IInv, TypeOK, SignalInv
  <1>8. BodyWhole' /\ RefusedOnlyOver'
    BY <1>1, <1>2, <1>3 DEF BodyWhole, RefusedOnlyOver
  <1>. QED
    BY <1>5, <1>6, <1>7, <1>8 DEF IInv

(* The signal is aborted, by the timer or because the client has gone.     *)
LEMMA AbortIInv ==
  ASSUME IInv, Abort, ~aborted, work # "new", timeout => armed
  PROVE  IInv'
  <1>1. UNCHANGED <<timeout, kind, declared, client, locked, total, stream>> /\ aborted' = TRUE
    BY DEF Abort, requestVars
  <1>2. /\ answer' \in {answer, "408"}
        /\ armed' = FALSE
        /\ timeout => answer' # "none"
    BY DEF Abort, Raced, Cleared, IInv, TypeOK, SignalInv
  <1>3. \/ /\ work = "read" /\ work' = "cancel" /\ failure' = "408"
           /\ body' = "cancelled" /\ listeners' = 0
        \/ work # "read" /\ UNCHANGED <<work, failure, body, listeners>>
    BY DEF Abort, Cancelled
  <1>4. TypeOK'
    <2>1. armed' \in BOOLEAN /\ aborted' \in BOOLEAN
      BY DEF Abort, Cleared, IInv, TypeOK
    <2>. QED
      BY <1>1, <1>2, <1>3, <2>1 DEF IInv, TypeOK, Answers, Errors
  <1>5. ReaderInv'
    <2>1. CASE work = "read"
      BY <1>1, <1>3, <2>1 DEF IInv, ReaderInv
    <2>2. CASE work # "read"
      BY <1>1, <1>3, <2>2 DEF IInv, ReaderInv
    <2>. QED
      BY <2>1, <2>2
  <1>6. SignalInv'
    BY <1>1, <1>2, <1>3 DEF SignalInv
  <1>7. BodyWhole' /\ RefusedOnlyOver'
    BY <1>1, <1>2, <1>3 DEF IInv, BodyWhole, RefusedOnlyOver
  <1>. QED
    BY <1>4, <1>5, <1>6, <1>7 DEF IInv

(* The work is over, and has left nothing of its reading.                  *)
LEMMA SettleIInv ==
  ASSUME IInv, NEW outcome \in Answers \ {"none"}, Settle(outcome), work # "new",
         outcome = "413" /\ kind # "multipart" => declared > MaxBytes \/ total > MaxBytes,
         ~locked', locked' \in BOOLEAN, listeners' = 0,
         body' \in {"none", "open", "ended", "errored", "cancelled"},
         UNCHANGED <<timeout, kind, declared, client, aborted, total, failure>>,
         stream' \in Stream
  PROVE  IInv'
  <1>1. /\ work' = "done"
        /\ answer' \in Answers \ {"none"}
        /\ answer' \in {answer, outcome}
        /\ armed' = FALSE
    BY DEF Settle, Cleared, IInv, TypeOK
  <1>2. TypeOK'
    <2>1. armed' \in BOOLEAN
      BY DEF Settle, Cleared
    <2>. QED
      BY <1>1, <2>1 DEF IInv, TypeOK
  <1>3. ReaderInv'
    BY <1>1 DEF IInv, ReaderInv
  <1>4. SignalInv'
    BY <1>1 DEF SignalInv
  <1>5. BodyWhole' /\ RefusedOnlyOver'
    BY <1>1 DEF IInv, BodyWhole, RefusedOnlyOver
  <1>. QED
    BY <1>2, <1>3, <1>4, <1>5 DEF IInv

(* A piece of the body.                                                    *)
LEMMA ChunkIInv ==
  ASSUME IInv, NEW n \in ChunkSizes, ChunkRead(n)
  PROVE  IInv'
  <1>1. TypeOK'
    BY SizesAssumption DEF ChunkRead, TooLarge, Cancelled, Unlistened, requestVars, signalVars, IInv, TypeOK, Answers, Errors, ReaderInv
  <1>2. ReaderInv'
    BY SizesAssumption DEF ChunkRead, TooLarge, Cancelled, Unlistened, requestVars, signalVars, IInv, TypeOK, ReaderInv, SignalInv
  <1>3. SignalInv'
    BY SizesAssumption DEF ChunkRead, TooLarge, Cancelled, Unlistened, requestVars, signalVars, IInv, TypeOK, SignalInv
  <1>4. BodyWhole' /\ RefusedOnlyOver'
    BY SizesAssumption DEF ChunkRead, TooLarge, Cancelled, Unlistened, requestVars, signalVars, IInv, TypeOK, ReaderInv, BodyWhole, RefusedOnlyOver
  <1>. QED
    BY <1>1, <1>2, <1>3, <1>4 DEF IInv

(* The body or its parsing is over, and it is handed on.                   *)
LEMMA HandedOnIInv ==
  ASSUME IInv, NEW w \in {"parse", "dispatch"}, work' = w, work \in {"read", "parse"},
         body' = "ended", ~locked', locked' \in BOOLEAN, listeners' = 0, total <= MaxBytes,
         w = "parse" => kind = "multipart",
         UNCHANGED <<requestVars, client, aborted, armed, total, failure, answer, stream>>
  PROVE  IInv'
  <1>1. TypeOK'
    BY DEF IInv, TypeOK, requestVars
  <1>2. ReaderInv'
    BY DEF IInv, ReaderInv, requestVars
  <1>3. SignalInv'
    BY DEF IInv, SignalInv, requestVars
  <1>4. BodyWhole' /\ RefusedOnlyOver'
    BY DEF IInv, BodyWhole, RefusedOnlyOver, requestVars
  <1>. QED
    BY <1>1, <1>2, <1>3, <1>4 DEF IInv

(* The reading ends with the body, with the connection or with cancel().   *)
LEMMA ReadingEndsIInv ==
  ASSUME IInv, BodyEnds \/ BodyFails \/ CancelSettles
  PROVE  IInv'
  <1>1. CASE BodyEnds
    <2>1. /\ body' = "ended" /\ locked' = FALSE /\ listeners' = 0
          /\ work = "read" /\ total <= MaxBytes /\ stream' \in Stream
          /\ UNCHANGED <<requestVars, client, aborted, total, failure, stream>>
      BY <1>1 DEF BodyEnds, Unlistened, IInv, TypeOK, ReaderInv
    <2>2. \/ work' = "dispatch" /\ UNCHANGED <<answer, armed>>
          \/ work' = "parse" /\ kind = "multipart" /\ UNCHANGED <<answer, armed>>
          \/ Settle("400")
      BY <1>1 DEF BodyEnds
    <2>3. "400" \in Answers \ {"none"}
      BY DEF Answers, Errors
    <2>. QED
      BY <2>1, <2>2, <2>3, SettleIInv, HandedOnIInv DEF requestVars
  <1>2. CASE BodyFails /\ work = "read"
    <2>1. /\ body' = "errored" /\ locked' = FALSE /\ listeners' = 0
          /\ Settle("500") /\ stream' \in Stream
          /\ UNCHANGED <<requestVars, client, aborted, total, failure>>
      BY <1>2 DEF BodyFails, Unlistened, IInv, TypeOK, ReaderInv
    <2>2. "500" \in Answers \ {"none"}
      BY DEF Answers, Errors
    <2>. QED
      BY <1>2, <2>1, <2>2, SettleIInv DEF requestVars
  <1>3. CASE BodyFails /\ work # "read"
    <2>1. /\ body = "open" /\ body' = "errored"
          /\ UNCHANGED <<timeout, kind, declared, client, aborted, armed, locked, listeners,
                         total, work, failure, answer, stream>>
      BY <1>3 DEF BodyFails, requestVars
    <2>2. TypeOK'
      BY <2>1 DEF IInv, TypeOK
    <2>3. ReaderInv'
      BY <2>1 DEF IInv, ReaderInv
    <2>4. SignalInv' /\ BodyWhole' /\ RefusedOnlyOver'
      BY <2>1 DEF IInv, SignalInv, BodyWhole, RefusedOnlyOver
    <2>. QED
      BY <2>2, <2>3, <2>4 DEF IInv
  <1>4. CASE CancelSettles
    <2>1. /\ work = "cancel" /\ Settle(failure) /\ locked' = FALSE /\ stream' \in Stream
          /\ UNCHANGED <<requestVars, client, aborted, body, listeners, total, failure>>
      BY <1>4 DEF CancelSettles, IInv, TypeOK
    <2>2. /\ listeners' = 0
          /\ failure \in Answers \ {"none"}
          /\ failure = "413" => total > MaxBytes
          /\ body' \in {"none", "open", "ended", "errored", "cancelled"}
      BY <2>1 DEF IInv, TypeOK, ReaderInv, Answers, Errors
    <2>. QED
      BY <2>1, <2>2, SettleIInv DEF requestVars
  <1>. QED
    BY <1>1, <1>2, <1>3, <1>4

(* The parts of the body have been found good, or not.                     *)
LEMMA ParseIInv ==
  ASSUME IInv, ParseEnds
  PROVE  IInv'
  <1>1. /\ work = "parse" /\ kind = "multipart" /\ ~locked /\ listeners = 0 /\ stream' \in Stream
        /\ body = "ended" /\ total <= MaxBytes
        /\ UNCHANGED <<requestVars, client, aborted, bodyVars, failure, stream>>
    BY DEF ParseEnds, IInv, TypeOK, ReaderInv, BodyWhole
  <1>2. CASE work' = "dispatch" /\ UNCHANGED <<answer, armed>>
    BY <1>1, <1>2, HandedOnIInv DEF bodyVars, IInv, TypeOK
  <1>3. ASSUME NEW e \in {"400", "408", "413"}, Settle(e) PROVE IInv'
    <2>1. e \in Answers \ {"none"}
      BY DEF Answers, Errors
    <2>2. /\ locked' \in BOOLEAN /\ ~locked' /\ listeners' = 0
          /\ body' \in {"none", "open", "ended", "errored", "cancelled"}
          /\ UNCHANGED <<timeout, kind, declared, client, aborted, total, failure>>
          /\ work # "new"
          /\ e = "413" /\ kind # "multipart" => declared > MaxBytes \/ total > MaxBytes
      BY <1>1 DEF requestVars, bodyVars, IInv, TypeOK
    <2>. QED
      BY <1>1, <1>3, <2>1, <2>2, SettleIInv
  <1>. QED
    BY <1>2, <1>3 DEF ParseEnds

(* The handler answers.                                                    *)
LEMMA HandlerIInv ==
  ASSUME IInv, HandlerResponds \/ HandlerStreams
  PROVE  IInv'
  <1>1. stream' \in Stream
    <2>1. CASE HandlerResponds
      BY <2>1 DEF HandlerResponds, IInv, TypeOK
    <2>2. CASE HandlerStreams
      BY <2>2, SizesAssumption DEF HandlerStreams, Stream
    <2>. QED
      BY <2>1, <2>2
  <1>2. Settle("ok") \/ Settle("stream")
    BY DEF HandlerResponds, HandlerStreams
  <1>3. /\ UNCHANGED <<requestVars, client, aborted, bodyVars, failure>>
        /\ work = "dispatch" /\ ~locked /\ listeners = 0
    BY DEF HandlerResponds, HandlerStreams, IInv, ReaderInv
  <1>4. "ok" \in Answers \ {"none"} /\ "stream" \in Answers \ {"none"}
    BY DEF Answers
  <1>. QED
    BY <1>1, <1>2, <1>3, <1>4, SettleIInv DEF requestVars, bodyVars, IInv, TypeOK

(* A step of the stream leaves the rest alone.                             *)
LEMMA StreamIInv ==
  ASSUME IInv, StreamOnly, stream' \in Stream
  PROVE  IInv'
  BY DEF StreamOnly, requestVars, signalVars, bodyVars, workVars, IInv, TypeOK,
         ReaderInv, SignalInv, BodyWhole, RefusedOnlyOver

(* The stream of events keeps its type.                                    *)
LEMMA StreamType ==
  ASSUME stream \in Stream,
         ProducerSettles \/ LoopResumes \/ EventSent \/ StreamCancelled \/ ProducerReturns
  PROVE  stream' \in Stream
  <1>0. /\ MaxQueue \in Nat \ {0} /\ 0 \in 0 .. MaxQueue /\ TRUE \in BOOLEAN
        /\ stream.queue \in 0 .. MaxQueue /\ stream.state \in {"none", "open", "closing", "closed", "errored"}
    BY SizesAssumption DEF Stream
  <1>1. CASE ProducerSettles
    BY <1>1 DEF ProducerSettles, Stream, Settled
  <1>2. CASE LoopResumes
    <2>1. CASE stream.cancelled
      BY <1>2, <2>1 DEF LoopResumes, Stream, Settled
    <2>2. CASE ~stream.cancelled /\ stream.next = "event"
      <3>. DEFINE q == IF stream.queue < MaxQueue THEN stream.queue + 1 ELSE stream.queue
      <3>1. q \in 0 .. MaxQueue
        BY <1>0
      <3>2. stream' = [stream EXCEPT !.next = "pending", !.queue = q]
        BY <1>2, <2>2 DEF LoopResumes
      <3>. HIDE DEF q
      <3>. QED
        BY <3>1, <3>2 DEF Stream
    <2>3. CASE ~stream.cancelled /\ stream.next = "end"
      BY <1>2, <2>3 DEF LoopResumes, Stream, Settled
    <2>4. CASE ~stream.cancelled /\ stream.next \in {"unencodable", "error"}
      <3>. DEFINE n == IF stream.next = "error" THEN "finished" ELSE "left"
      <3>1. n \in {"finished", "left"}
        OBVIOUS
      <3>2. stream' = [stream EXCEPT !.next = n, !.state = "errored", !.queue = 0]
        BY <1>2, <2>4 DEF LoopResumes
      <3>. HIDE DEF n
      <3>. QED
        BY <1>0, <3>1, <3>2 DEF Stream
    <2>. QED
      BY <1>2, <2>1, <2>2, <2>3, <2>4 DEF LoopResumes, Settled
  <1>3. CASE EventSent
    <2>. DEFINE q == stream.queue - 1
                s == IF stream.state = "closing" /\ stream.queue = 1 THEN "closed" ELSE stream.state
    <2>1. q \in 0 .. MaxQueue
      BY <1>0, <1>3 DEF EventSent
    <2>2. s \in {"none", "open", "closing", "closed", "errored"}
      BY <1>0
    <2>3. stream' = [stream EXCEPT !.queue = q, !.state = s]
      BY <1>3 DEF EventSent
    <2>. HIDE DEF q, s
    <2>. QED
      BY <2>1, <2>2, <2>3 DEF Stream
  <1>4. CASE StreamCancelled
    BY <1>0, <1>4 DEF StreamCancelled, Stream
  <1>5. CASE ProducerReturns
    BY <1>5 DEF ProducerReturns, Stream
  <1>. QED
    BY <1>1, <1>2, <1>3, <1>4, <1>5

(* Every step keeps the invariant.                                         *)
LEMMA NextIInv == IInv /\ [Next]_vars => IInv'
  <1>. SUFFICES ASSUME IInv, [Next]_vars PROVE IInv'
    OBVIOUS
  <1>1. CASE Begin
    BY <1>1, BeginIInv
  <1>2. ASSUME NEW n \in ChunkSizes, ChunkRead(n) PROVE IInv'
    BY <1>2, ChunkIInv
  <1>3. CASE BodyEnds \/ BodyFails \/ CancelSettles
    BY <1>3, ReadingEndsIInv
  <1>3a. CASE ParseEnds
    BY <1>3a, ParseIInv
  <1>4. CASE HandlerResponds \/ HandlerStreams
    BY <1>4, HandlerIInv
  <1>5. CASE TimerFires
    BY <1>5, AbortIInv DEF TimerFires, IInv, SignalInv
  <1>6. CASE ClientGoes
    BY <1>6
    DEF ClientGoes, requestVars, signalVars, bodyVars, workVars, IInv, TypeOK,
        ReaderInv, SignalInv, BodyWhole, RefusedOnlyOver
  <1>7. CASE ClientAborts
    <2>1. CASE work = "new"
      BY <1>7, <2>1
      DEF ClientAborts, requestVars, bodyVars, workVars, IInv, TypeOK,
          ReaderInv, SignalInv, BodyWhole, RefusedOnlyOver
    <2>2. CASE work # "new"
      BY <1>7, <2>2, AbortIInv DEF ClientAborts
    <2>. QED
      BY <2>1, <2>2
  <1>8. CASE ProducerSettles \/ LoopResumes \/ EventSent \/ StreamCancelled \/ ProducerReturns
    <2>1. StreamOnly
      BY <1>8 DEF ProducerSettles, LoopResumes, EventSent, StreamCancelled, ProducerReturns
    <2>. QED
      BY <1>8, <2>1, StreamType, StreamIInv DEF IInv, TypeOK
  <1>9. CASE UNCHANGED vars
    BY <1>9 DEF vars, IInv, TypeOK, ReaderInv, SignalInv, BodyWhole, RefusedOnlyOver
  <1>. QED
    BY <1>1, <1>2, <1>3, <1>3a, <1>4, <1>5, <1>6, <1>7, <1>8, <1>9 DEF Next

(* The inductive invariant holds in every reachable state.                 *)
THEOREM Invariance == Spec => []IInv
  BY InitIInv, NextIInv, PTL DEF Spec

-----------------------------------------------------------------------------
(* Every variable of an exchange holds a value of its kind, and readings   *)
(* never leave more than one listener on the signal.                       *)
THEOREM TypeCorrect == Spec => []TypeOK
  <1>1. IInv => TypeOK
    BY DEF IInv
  <1>. QED
    BY <1>1, Invariance, PTL

(* A body is handed on only when it is whole and within the limit.         *)
THEOREM BodiesWhole == Spec => []BodyWhole
  <1>1. IInv => BodyWhole
    BY DEF IInv
  <1>. QED
    BY <1>1, Invariance, PTL

(* A body is refused as too large only when it is.                         *)
THEOREM RefusalsJustified == Spec => []RefusedOnlyOver
  <1>1. IInv => RefusedOnlyOver
    BY DEF IInv
  <1>. QED
    BY <1>1, Invariance, PTL

(* What becomes of a body is decided by the whole of it.                   *)
THEOREM BodiesJudged == Spec => []BodyJudgedWhole
  BY BodiesWhole, RefusalsJustified, PTL DEF BodyJudgedWhole

(* The reader's lock is only released on a stream that has ended, failed   *)
(* or been cancelled, and no listener is left then.                        *)
THEOREM LockReleasedClean == Spec => ReadingLeavesNothing
  <1>1. ASSUME IInv, IInv', [Next]_vars
        PROVE  [locked /\ ~locked' => body' # "open" /\ listeners' = 0]_vars
    <2>. SUFFICES ASSUME Next, locked, ~locked'
                  PROVE  body' # "open" /\ listeners' = 0
      BY <1>1
    <2>1. listeners' = 0
      BY <1>1 DEF IInv, ReaderInv
    <2>2. BodyEnds \/ BodyFails \/ CancelSettles
      BY <1>1
      DEF Next, Begin, ChunkRead, ParseEnds, HandlerResponds, HandlerStreams, TimerFires,
          ClientGoes, ClientAborts, Abort, StreamOnly, bodyVars, ProducerSettles,
          LoopResumes, EventSent, StreamCancelled, ProducerReturns
    <2>. QED
      BY <1>1, <2>1, <2>2 DEF BodyEnds, BodyFails, CancelSettles, IInv, ReaderInv
  <1>. QED
    BY <1>1, Invariance, PTL DEF Spec, ReadingLeavesNothing

(* With a request timeout, neither the answer nor the signal changes once  *)
(* there is an answer.                                                     *)
THEOREM AnswersFinal == Spec => AnswerSettlesSignal
  <1>1. ASSUME IInv, [Next]_vars
        PROVE  [answer # "none" /\ timeout => answer' = answer /\ aborted' = aborted]_vars
    <2>. SUFFICES ASSUME Next, answer # "none", timeout
                  PROVE  answer' = answer /\ aborted' = aborted
      BY <1>1
    <2>1. work # "new" /\ ~armed
      BY <1>1 DEF IInv, SignalInv
    <2>. QED
      BY <2>1
      DEF Next, Begin, ChunkRead, BodyEnds, BodyFails, CancelSettles, ParseEnds, Settle,
          HandlerResponds, HandlerStreams, TimerFires, ClientGoes, ClientAborts,
          StreamOnly, signalVars, workVars, ProducerSettles, LoopResumes, EventSent,
          StreamCancelled, ProducerReturns
  <1>. QED
    BY <1>1, Invariance, PTL DEF Spec, AnswerSettlesSignal
=============================================================================
