--------------------------- MODULE ClientResponse ---------------------------
(***************************************************************************)
(* A response of the Promise client's stream(): src/src/client-response.ts.*)
(* One fiber drives the read (ReadSession's batches); collectors, callback *)
(* subscriptions and Web streams consume it; cancel(), an abort signal,    *)
(* the reader's own cancel and failures end it, from wherever it is.       *)
(*                                                                         *)
(* What is read is counted in units.  A batch ends at a boundary unless it *)
(* is partial; `meta` is the boundary that offset, cursor and the flags of *)
(* the response describe.                                                  *)
(***************************************************************************)
EXTENDS Integers, Sequences

CONSTANTS
  Views,         \* the consuming calls tried
  MaxBatches,    \* bound: batches of the read
  MaxUnits       \* bound: units in a batch

ASSUME ResponseAssumption ==
  /\ MaxBatches \in Nat /\ MaxUnits \in Nat
  /\ Views \subseteq {"collect", "collectText", "subscribe", "subscribeText", "web", "webText",
                      "webJson"}

VARIABLES
  consumed, terminal, active, aborted,   \* state of the response, its AbortController
  meta,                                  \* state.metadata
  view,                                  \* the consuming call
  scope, verdict, completed,             \* the read's scope, finish's argument, `closed`
  fiber, batches, fetched, rest, carried, batch,   \* the fiber of consume
  queue, acked, settled,                 \* the queue of a Web stream, acks and `done`
  gen, taken, left, returning,           \* its async generator
  pull, stream, canceller,               \* its ReadableStream and the reader's cancel()
  handed, failed                         \* history: units received; a failure happened

response == <<consumed, terminal, active, aborted, meta, view>>
closing == <<scope, verdict, completed>>
reading == <<batches, fetched, rest, carried>>
driver == <<fiber, reading, batch>>
handover == <<queue, acked, settled>>
web == <<gen, taken, left, returning, pull, stream, canceller>>
history == <<handed, failed>>
vars == <<response, closing, driver, handover, web, history>>

Web == {"web", "webText", "webJson"}
Text == {"collectText", "subscribeText", "webText"}
Json == {"webJson", "subscribe", "collect"}    \* views with a JSON form
NoBatch == [items |-> <<>>, offset |-> 0, ready |-> TRUE, partial |-> FALSE]
Between == -1               \* no page is being read chunk by chunk

Init ==
  /\ consumed = FALSE /\ terminal = FALSE /\ active = FALSE /\ aborted = FALSE
  /\ meta = 0 /\ view = "none"
  /\ scope = "open" /\ verdict = "ok" /\ completed = "open"
  /\ fiber = "acquiring" /\ batches = 0 /\ fetched = 0 /\ rest = Between /\ carried = 0 /\ batch = NoBatch
  /\ queue = <<>> /\ acked = 0 /\ settled = "open"
  /\ gen = "none" /\ taken = 0 /\ left = <<>> /\ returning = FALSE
  /\ pull = [at |-> "none", item |-> 0, last |-> FALSE] /\ stream = "none" /\ canceller = "none"
  /\ handed = 0 /\ failed = FALSE
-----------------------------------------------------------------------------
(* finish: whoever comes first closes the scope; `closed` settles after.   *)

Finish(how) ==
  IF terminal THEN UNCHANGED <<terminal, scope, verdict>>
              ELSE terminal' = TRUE /\ scope' = "closing" /\ verdict' = how

ScopeClosed ==
  /\ scope = "closing"
  /\ scope' = "closed" /\ completed' = verdict
  /\ UNCHANGED <<response, verdict, driver, handover, web, history>>

FinishNow_Always == TRUE                       \* mutant
FinishNow == ~active

\* cancel(): the driving fiber is interrupted; without one, finish.
CancelRead ==
  IF terminal THEN UNCHANGED <<aborted, terminal, scope, verdict>>
  ELSE /\ aborted' = TRUE
       /\ IF FinishNow THEN Finish("ok") ELSE UNCHANGED <<terminal, scope, verdict>>

\* response.cancel(), the unsubscribe function, or the abort signal.
Cancel ==
  /\ ~terminal /\ ~aborted
  /\ CancelRead
  /\ UNCHANGED <<consumed, active, meta, view, completed, driver, handover, web, history>>

\* acquireInitial: without it there is no response to consume.
Acquired ==
  /\ fiber = "acquiring" /\ ~aborted
  /\ fiber' = "none"
  /\ UNCHANGED <<response, closing, reading, batch, handover, web, history>>

AcquireFails ==
  /\ fiber = "acquiring"
  /\ fiber' = "gone" /\ failed' = (failed \/ ~aborted)
  /\ Finish("error")
  /\ UNCHANGED <<consumed, active, aborted, meta, view, completed, reading, batch, handover, web,
                 handed>>
-----------------------------------------------------------------------------
(* The consuming call.                                                     *)

MayClaim == fiber # "acquiring" /\ fiber # "gone" /\ ~consumed

\* consume(): run refuses a signal that is already aborted.
Launched == IF aborted THEN "interrupted" ELSE "running"

Claim(v) ==
  /\ MayClaim
  /\ consumed' = TRUE
  /\ IF aborted THEN UNCHANGED <<active, view, fiber, gen, stream>>
     ELSE /\ view' = v
          /\ IF v \in Web
             THEN gen' = "fresh" /\ stream' = "readable" /\ UNCHANGED <<active, fiber>>
             ELSE active' = TRUE /\ fiber' = Launched /\ UNCHANGED <<gen, stream>>
  /\ UNCHANGED <<terminal, aborted, meta, closing, reading, batch, handover,
                 taken, left, returning, pull, canceller, history>>

\* A JSON view of a stream of another content type.
ClaimWrongType ==
  /\ MayClaim /\ ~aborted /\ Views \cap Json # {}
  /\ consumed' = TRUE /\ failed' = TRUE
  /\ Finish("error")
  /\ UNCHANGED <<active, aborted, meta, view, completed, driver, handover, web, handed>>
-----------------------------------------------------------------------------
(* The fiber.  A text view holds back units until no character is split.   *)

\* What a batch of n units makes the view deliver.
ItemsOf(n, ready) ==
  IF view \notin Text THEN [i \in 1..n |-> 1]
  ELSE IF ready /\ carried + n > 0 THEN <<carried + n>> ELSE <<>>

\* A batch of n units; `offset` is the end of the page it belongs to.
Read(n, ready, partial, more) ==
  /\ fiber = "running" /\ ~aborted /\ batches < MaxBatches
  /\ ready \/ view \in Text
  /\ batches' = batches + 1 /\ fetched' = fetched + n
  /\ batch' = [items |-> ItemsOf(n, ready), offset |-> fetched + n + more, ready |-> ready,
               partial |-> partial]
  /\ carried' = IF view \in Text /\ ~ready THEN carried + n ELSE 0
  /\ fiber' = "deliver"
  /\ UNCHANGED <<response, closing, handover, web, history>>

\* A whole page, or what an SSE control event ended.
ReadPage(n, ready) == rest = Between /\ Read(n, ready, FALSE, 0) /\ UNCHANGED rest

\* Chunk by chunk (incremental): every chunk, then the boundary.
ReadChunk(n, ready) ==
  /\ view \in {"web", "webText"} /\ n > 0
  /\ \/ rest = Between /\ \E more \in 0 .. MaxUnits - n : rest' = more
     \/ rest >= n /\ rest' = rest - n
  /\ Read(n, ready, TRUE, rest')

ReadBoundary(ready) == rest = 0 /\ rest' = Between /\ Read(0, ready, FALSE, 0)

Total(items) == IF view \in Text THEN (IF items = <<>> THEN 0 ELSE items[1]) ELSE Len(items)

Acknowledged == batch.ready /\ ~batch.partial

\* deliver(batch) succeeded: the boundary is acknowledged.
Acknowledge ==
  /\ meta' = IF Acknowledged THEN batch.offset ELSE meta
  /\ fiber' = "running" /\ batch' = NoBatch
  /\ UNCHANGED <<consumed, terminal, active, aborted, view, reading>>

\* A collector stores, a callback is called and awaited.
Delivered ==
  /\ fiber = "deliver" /\ ~aborted /\ view \notin Web
  /\ handed' = handed + Total(batch.items)
  /\ Acknowledge
  /\ UNCHANGED <<closing, handover, web, failed>>

\* A Web stream's items go into the queue with an ack, numbered like the batch.
Offer ==
  /\ fiber = "deliver" /\ ~aborted /\ view \in Web /\ batch.items # <<>>
  /\ queue' = Append(queue, [items |-> batch.items, number |-> batches]) /\ fiber' = "acking"
  /\ UNCHANGED <<response, closing, reading, batch, acked, settled, web, history>>

AckReceived ==
  /\ ~aborted
  /\ (fiber = "acking" /\ acked = batches) \/ (fiber = "deliver" /\ view \in Web /\ batch.items = <<>>)
  /\ Acknowledge
  /\ UNCHANGED <<closing, handover, web, history>>

\* The read, the decoding of a batch, or a callback fails.
ReadFails ==
  /\ fiber \in {"running", "deliver"} /\ ~aborted
  /\ fiber' = "failure" /\ failed' = TRUE
  /\ UNCHANGED <<response, closing, reading, batch, handover, web, handed>>

ReadEnds ==
  /\ fiber = "running" /\ ~aborted /\ rest = Between
  /\ fiber' = "success"
  /\ UNCHANGED <<response, closing, reading, batch, handover, web, history>>

Interrupted ==
  /\ aborted /\ fiber \in {"running", "deliver", "acking"}
  /\ fiber' = "interrupted"
  /\ UNCHANGED <<response, closing, reading, batch, handover, web, history>>

Verdict_AbortFails == IF fiber = "success" THEN "ok" ELSE "error"   \* mutant
Verdict == IF fiber = "failure" THEN "error" ELSE "ok"

\* consume after run: finish, then the caller's promise settles.
RunSettled ==
  /\ fiber \in {"success", "failure", "interrupted"}
  /\ Finish(Verdict)
  /\ fiber' = [success |-> "finished", failure |-> "rejected", interrupted |-> "rejected"][fiber]
  /\ UNCHANGED <<consumed, active, aborted, meta, view, completed, reading, batch,
                 handover, web, history>>

SettledAs_Nothing == "undefined"                \* mutant
SettledAs_Pending == IF fiber = "finished" THEN "ok" ELSE "open"      \* mutant
SettledAs == IF fiber = "finished" THEN "ok" ELSE "error"

ConsumeSettled ==
  /\ fiber \in {"finished", "rejected"} /\ completed # "open"
  /\ settled' = SettledAs
  /\ fiber' = "gone"
  /\ UNCHANGED <<response, closing, reading, batch, queue, acked, web, history>>
-----------------------------------------------------------------------------
(* The async generator of a Web stream and the stream's pull.              *)

NotPulling == [at |-> "none", item |-> 0, last |-> FALSE]
Awaiting == [at |-> "next", item |-> 0, last |-> FALSE]

GenLeaves(how) == gen' = how /\ left' = <<>>

\* The next item of the message is yielded, unless the read was aborted.
Yield(items) ==
  IF aborted THEN GenLeaves("throw") /\ pull' = Awaiting
  ELSE /\ gen' = "yielded" /\ left' = Tail(items)
       /\ pull' = [at |-> "value", item |-> Head(items), last |-> Len(items) = 1]

\* pull calls next(): the first one launches the read, a later one resumes
\* the loop over the message, acknowledges it at its end and waits.
Pull ==
  /\ stream = "readable" /\ pull.at = "none"
  /\ \/ /\ gen = "fresh"
        /\ gen' = "waiting" /\ pull' = Awaiting /\ active' = TRUE /\ fiber' = Launched
        /\ UNCHANGED <<acked, left>>
     \/ /\ gen = "yielded" /\ left # <<>>
        /\ Yield(left)
        /\ UNCHANGED <<active, fiber, acked>>
     \/ /\ gen = "yielded" /\ left = <<>>
        /\ gen' = "waiting" /\ pull' = Awaiting /\ acked' = taken
        /\ UNCHANGED <<active, fiber, left>>
  /\ UNCHANGED <<consumed, terminal, aborted, meta, view, closing, reading, batch, queue, settled,
                 taken, returning, stream, canceller, history>>

GenTakes ==
  /\ gen = "waiting" /\ queue # <<>>
  /\ queue' = Tail(queue) /\ taken' = Head(queue).number
  /\ Yield(Head(queue).items)
  /\ UNCHANGED <<response, closing, driver, acked, settled, returning, stream, canceller, history>>

GenEnds ==
  /\ gen = "waiting" /\ settled # "open"
  /\ GenLeaves(IF settled = "ok" THEN "return" ELSE "throw")
  /\ UNCHANGED <<response, closing, driver, handover, taken, returning, pull, stream, canceller,
                 history>>

\* iterator.return() resumes a suspended generator in its finally block.
GenReturns ==
  /\ returning /\ gen = "yielded"
  /\ GenLeaves("return")
  /\ UNCHANGED <<response, closing, driver, handover, taken, returning, pull, stream, canceller,
                 history>>

\* finally: cancel(), then join the read.
GenFinally ==
  /\ gen \in {"return", "throw"}
  /\ CancelRead
  /\ gen' = [return |-> "joinReturn", throw |-> "joinThrow"][gen]
  /\ UNCHANGED <<consumed, active, meta, view, completed, driver, handover, taken, left, returning,
                 pull, stream, canceller, history>>

GenDone ==
  /\ gen \in {"joinReturn", "joinThrow"} /\ completed # "open"
  /\ gen' = "ended"
  /\ pull' = IF pull.at # "next" THEN pull
             ELSE [NotPulling EXCEPT !.at = IF gen = "joinReturn" /\ completed = "ok" THEN "close"
                                                                                 ELSE "error"]
  /\ UNCHANGED <<response, closing, driver, handover, taken, left, returning, stream, canceller,
                 history>>

PullRefused_Never == FALSE                      \* mutant: enqueued after an abort
PullRefused == aborted

AckFrom_First == TRUE                           \* mutant: acknowledged with any item
AckFrom == pull.last

\* pull resumes with what next() returned.
PullSettled ==
  /\ pull.at \in {"value", "close", "error"}
  /\ LET kept == stream = "readable" IN
     IF pull.at = "value" /\ ~PullRefused
     THEN /\ handed' = IF kept THEN handed + pull.item ELSE handed
          /\ acked' = IF kept /\ AckFrom THEN taken ELSE acked
          /\ UNCHANGED stream
     ELSE /\ stream' = IF ~kept THEN stream ELSE IF pull.at = "close" THEN "closed" ELSE "errored"
          /\ UNCHANGED <<handed, acked>>
  /\ pull' = NotPulling
  /\ UNCHANGED <<response, closing, driver, queue, settled, gen, taken, left, returning, canceller,
                 failed>>

\* The reader cancels (or its loop is left): cancel(), return(), join.
ReaderCancel ==
  /\ stream = "readable"
  /\ stream' = "closed" /\ canceller' = "return"
  /\ CancelRead
  /\ IF gen = "fresh" THEN gen' = "ended" /\ UNCHANGED returning
                                          ELSE returning' = TRUE /\ UNCHANGED gen
  /\ UNCHANGED <<consumed, active, meta, view, completed, driver, handover, taken, left, pull, history>>

CancelSettled ==
  /\ canceller = "return" /\ gen = "ended" /\ completed # "open"
  /\ canceller' = "done"
  /\ UNCHANGED <<response, closing, driver, handover, gen, taken, left, returning, pull, stream,
                 history>>
-----------------------------------------------------------------------------

Consumer == (\E v \in Views : Claim(v)) \/ ClaimWrongType \/ Pull \/ ReaderCancel \/ Cancel
Reading ==
  \/ \E n \in 0..MaxUnits, ready \in BOOLEAN : ReadPage(n, ready) \/ ReadChunk(n, ready)
  \/ \E ready \in BOOLEAN : ReadBoundary(ready)
  \/ ReadFails \/ ReadEnds \/ Acquired \/ AcquireFails
Fiber == Delivered \/ Offer \/ AckReceived \/ Interrupted \/ RunSettled \/ ConsumeSettled
Generator == GenTakes \/ GenEnds \/ GenReturns \/ GenFinally \/ GenDone

Next ==
  Consumer \/ Reading \/ Fiber \/ Generator \/ ScopeClosed \/ PullSettled \/ CancelSettled

Spec == Init /\ [][Next]_vars

(* Fibers and promise continuations run on and closing a scope ends; the   *)
(* stream may stay silent, and nobody has to consume or cancel.            *)
FairSpec ==
  /\ Spec
  /\ WF_vars(AcquireFails /\ aborted) /\ WF_vars(Fiber) /\ WF_vars(Generator)
  /\ WF_vars(ScopeClosed) /\ WF_vars(PullSettled) /\ WF_vars(CancelSettled)
-----------------------------------------------------------------------------
(* Properties                                                              *)

(* The variables have their types. *)
ResponseTypeOK ==
  /\ consumed \in BOOLEAN /\ terminal \in BOOLEAN /\ active \in BOOLEAN /\ aborted \in BOOLEAN
  /\ meta \in Nat /\ view \in Views \cup {"none"}
  /\ scope \in {"open", "closing", "closed"} /\ verdict \in {"ok", "error"}
  /\ completed \in {"open", "ok", "error"}
  /\ fiber \in {"acquiring", "none", "running", "deliver", "acking", "success", "failure", "interrupted",
                "finished", "rejected", "gone"}
  /\ batches \in Nat /\ fetched \in Nat /\ rest \in Nat \cup {Between} /\ carried \in Nat
  /\ batch \in [items : Seq(Nat), offset : Nat, ready : BOOLEAN, partial : BOOLEAN]
  /\ queue \in Seq([items : Seq(Nat), number : Nat]) /\ acked \in Nat /\ settled \in {"open", "ok", "error"}
  /\ gen \in {"none", "fresh", "waiting", "yielded", "return", "throw", "joinReturn", "joinThrow",
              "ended"}
  /\ taken \in Nat /\ left \in Seq(Nat) /\ returning \in BOOLEAN
  /\ pull \in [at : {"none", "next", "value", "close", "error"}, item : Nat, last : BOOLEAN]
  /\ stream \in {"none", "readable", "closed", "errored"}
  /\ canceller \in {"none", "return", "done"}
  /\ handed \in Nat /\ failed \in BOOLEAN

(* The offset, cursor and flags a response shows never cover a unit its    *)
(* consumer has not received: "acknowledge only fully delivered            *)
(* boundaries" (src/README.md:42), for every kind of consumption and       *)
(* characters split over batches.                                          *)
MetadataIsDelivered == meta <= handed

(* After a cancellation nothing is handed over or acknowledged any more:   *)
(* "late completion cannot acknowledge or restart work" (src/README.md:44).*)
NothingAfterCancel ==
  [][aborted => handed' = handed /\ meta' = meta /\ (fiber = "none" => fiber' # "running")]_vars

(* `closed` joins cleanup: when it settles, the scope is closed and no     *)
(* fiber of the read runs, now or later.                                   *)
ClosedJoinsCleanup ==
  completed # "open" =>
    scope = "closed" /\ fiber \notin {"running", "deliver", "acking", "success", "failure"}

(* `closed` rejects for failures of the read, the decoding or a callback,  *)
(* and resolves for the end of the stream and for deliberate cancellation. *)
ClosedTellsFailures == completed # "open" => (completed = "error" <=> failed)

(* What ends a response settles everything that waits on it: `closed`, the *)
(* pulls of a Web stream and its reader's cancel().                        *)
EndSettlesAll ==
  aborted \/ terminal \/ fiber = "failure" ~>
    completed # "open" /\ pull.at = "none" /\ canceller # "return"
=============================================================================
