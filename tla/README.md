# A TLA+ model of the durable streams client

This directory models the client library in `src/src/` (Effect/TypeScript): the
native idempotent producer, ordinary appends, read sessions, and of the Promise
API the responses and the producer. TLC checks the models on small instances,
and TLAPS proves the main safety properties of the producer, the appends, the
read sessions, the event parser and the Promise API for all values of the
constants. Paths and line numbers below are relative to the repository and refer
to the commit the models were read from.

To check: `tlc -config <run>.cfg <module>` for each run in `PROJECT.json`, and
`tlapm ProducerProofs.tla` (also `SequenceProofs.tla`, `DeliveryProofs.tla`,
`OrdinaryProofs.tla`, `ReadProofs.tla`, `ResponseProofs.tla`, `AsyncProofs.tla`,
`FramingProofs.tla`).

## 1. The system

A stream is an append-only log behind HTTP. The client writes to it (create,
append, close, delete), reads it (catch-up, long-poll, SSE) and offers the same
twice: as Effects (the native API) and as Promises (the facade).

| Component | Source | State it keeps | Operations | Status |
|---|---|---|---|---|
| Idempotent producer | `producer.ts` | mode, pending entries, timer generation, two semaphores, epoch, next sequence, `sequences`, `through`, failures, task queue, claim, close request | append, sink, flush, detach, restart, close; workers; linger fiber; finalizer | partly: not facade branches, encoding failures, content-type splits |
| Producer request | `producer-request.ts` | none | one request, classified by status and headers | modelled |
| Ordinary append | `append.ts` | a Ref to the current burst; per burst: active and buffered entries, leases, scope | append; burst fiber; appendSource | partly: not `appendSource`, `batching: false`, encoding failures |
| Transport and retry | `transport.ts`, `retry.ts`, `request.ts` | scope and body flag of an attempt | sendMutation, sendReadRequest | partly: which failures are retried and how often; no delays, no header resolution |
| Read session | `read.ts` | offset checkpoint, position, transport mode, short-connection count, consumption claim | bytes/text/JSON/batch views, page loop, reconnect, fallback | partly: not "now" offsets and cursors |
| SSE parsing | `sse.ts` | partial line, CR flag, event name and data | chunks of text | partly: framing; not control JSON and base64 |
| Text decoding, payloads | `encoding.ts` | missing bytes of a character | decode, complete; encode | partly: the decoder; not JSON framing and schema coding |
| Promise responses | `client-response.ts` | consumption claim, abort controller, metadata, terminal state, queue and generator of a Web stream | body/text/json, Web streams, subscriptions, cancel | partly: not the header accessors and iteration over a Web stream |
| Promise producer | `async-await.ts` | ingress chain and counter, close and detach flags | append, flush, detach, close, restart, abort | partly: not the one-request operations, `writable()`, `onError` and the typed client |
| Client runtime | `client-runtime.ts` | scopes, pending runs, abort signals | run, closeScope | partly: as its callers use it |
| Lifecycle | `lifecycle.ts`, `index.ts` | none between calls | create, connect, head, close, delete | not modelled: one request, one mapping |
| Data declarations | `errors.ts`, `client-errors.ts`, `model.ts`, `protocol.ts`, `headers.ts` | none | none | not modelled: no behaviour |

How they interact: every mutation goes through `sendMutation`. Producer requests
pass `producer: true`, which switches its retries off (`transport.ts:321`): the
producer recovers by protocol (claims, gaps) and not by repetition. Ordinary
appends are repeated there. The facade's producer drives the native coordinator
through `context.facade`, and the facade's responses drive a read session.

What is hard:

- *Producer*: several batches are in flight and their answers come in any order;
  a claim by another writer fences all of them; a request without an answer may
  still arrive; the fiber of an arbitrary caller blocks in the queue with the
  admission mutex; `mode` is shared by close, detach, restart and the finalizer;
  finalization settles receipts outside the normal path.
- *Ordinary append*: joins, leases and interruptions interleave with a fiber that
  promotes, sends and settles; the caller's look at `active` is not atomic with
  its cancellation; the scope of one burst closes while the next may begin.
- *Reads*: the checkpoint must lie where nothing is lost when decoding, a
  connection or the consumer stops halfway.
- *Facade*: abort, cancel, first consumption and termination race each other.

What makes each correct: the producer delivers in order, without a hole, at most
once, acknowledges only what is stored, and closes after everything. Ordinary
append acknowledges only what is stored, in joining order; it never loses a
waiter and leaves no request behind a call that returned. A read session
delivers the log from its offset, and its checkpoint never passes a value that
was not delivered. A response is consumed once and terminates once. The full
list of hazards, with lines and covering properties, is in `PROJECT.json`.

## 2. Modules

    AppendLog            what a producer promises (abstract)
    Producer             the coordinator, its requests, the server, the network
      ProducerProperties   the properties
        ProducerRefinement   Producer implements AppendLog
          MCProducer           instances for TLC
        ProducerProofs       types, and that a flush is complete, for all constants
          SequenceProofs       sequence numbers and admission
            DeliveryProofs       what the log holds, that Producer implements
                                 AppendLog, and that its workers never all wait
    OrdinaryAppend       bursts, calls, the server, and the properties
      MCOrdinary           instances for TLC
      OrdinaryProofs       invariants, for all constants
    StreamReader         what a resumable reader promises (abstract)
    ReadSession          sessions of one application over a growing stream
      MCReader             instances for TLC
      ReadProofs           invariants and refinement, for all constants
    EventFraming         the event parser, and a reference reading of the text
      MCFraming            instances for TLC
      FramingProofs        the parser reads what the reference reads
    ClientResponse       one Promise response and its consumer
      MCResponse           instances for TLC
      ResponseProofs       invariants, for all constants
    AsyncProducer        the Promise producer over the coordinator
      MCAsync              instances for TLC
      AsyncProofs          types, order, flushes and gaps, for all constants

### Producer

Every admitted value is an entry with a number in admission order. Pending
entries are `emitted+1 .. id`, so a batch is an interval of numbers; it is named
by its last one, and `from[b]` is its first. The close request is slot 0 beside
the batches. The state follows the `let`s of `makeProducer`
(`producer.ts:115-156`):

| Model | Code |
|---|---|
| `mode`, `id`, `emitted`, `timer`, `mutex`, `lifecycle` | `mode`, `id`, `pending`, the linger fiber, the two semaphores |
| `epoch`, `nextSeq`, `tuple`, `sequences`, `through`, `failure` | the same; `tuple[b]` is `batch.tuple`; `sequences[q]` the batch whose deferred is stored at `q`; `failure` the lowest failed sequence |
| `claimed`, `claiming`, `claim` | `state.claimed`, `claiming`, the claim deferred |
| `phase[b]` | where a batch is: `offer` (its emitter blocks in `Queue.offer`), `queued`, taken by a worker (`claimwait`, `sent`, `replied`, `gapwait`), then its exit; `dead` when its worker was interrupted |
| `req`, `reply`, `waitFor` | the request of the send loop, its answer, the batch a gap waits for |
| `receipt`, `firstFailure`, `offset` | receipts, `firstFailure`, `lastSuccessfulOffset` |
| `closeBody`, `closeRequest`, `closeResult` | the same |
| `pc`, `result`, `mark`, `fed` | position and outcome of a calling fiber, its watermark, entries fed by a sink |
| `sEpoch`, `sLast`, `sClosed`, `log`, `strays` | the server's producer record, the stream, requests whose client gave up |

An action runs from one suspension of a fiber to the next (a semaphore, queue,
deferred or request): between two suspensions Effect runs a fiber without
interleaving another that touches this state. `Call` collects the steps of
append, sink, flush, detach, restart and close, `Worker` those of the send loop,
`Fiber` linger and finalizer. `Serve`, `ServeStray`, `Fault` and `ForeignClaim`
are the server, the network and another writer. They are external, and modelled
after the answers `producer-request.ts` classifies: deduplication of a known
(epoch, sequence), a gap with the expected sequence, fencing with the current
epoch, closed.

`AppendLog` says the same without batches, requests or fibers: admit, store the
values that are missing up to some value, settle, close; others may write in
between. An entry of its stream is the set of our values it holds.
Some code is there without a variable of its own. `emit` interrupts and joins the
linger fiber before it goes on (`producer.ts:299-302`), so that fiber never wakes
up in a later generation and the early return of line 394 is not modelled. The finalizer's
`Queue.shutdown` (419) resumes whoever blocks in the offer, with nothing queued:
`Offered` lets the emitter go on then, as well as race `stopped`. Epochs above
`MAX_SAFE_INTEGER` are rounded, so that `NextEpoch` is no increment there and the
guard of line 203 matters.

`ProducerRefinement` maps each batch of the server's log to the set of its
values, and checks that each step of Producer is a step of AppendLog or stutters.

### OrdinaryAppend

Appends are numbered in the order they join, so the code's arrays `active` and
`buffer` are sets. A burst has the number of the append that started it;
`current` is the Ref. The fiber (`runOrdinaryBurst`, `append.ts:80-145`) is
`ready`, in `send` or `cleanup` (the race was lost to a cancellation and the
aborted request is awaited), `stopping` or `ended`. `Settle` is the
`Ref.modify` of lines 91-127 as a whole; `StopEnd` is its `onExit`. A call is
`await`, then `release`; or, interrupted, `cancelled` (it has completed
`cancelled` and logged, `append.ts:205-206`), then `drain` or `release` after
its look at `active` (line 207); `closing` awaits `Scope.close`. `owner[e]` says
whether `entry.executionContext` is still there, `group[e]` is its content type
and context. `net[b]` and `attempts[b]` are the request of a burst in
`sendMutation`'s retry loop; a request let go of, or believed to have failed,
joins `strays` and may still be stored. Which answers `sendMutation` repeats
(`transport.ts:276-303`) is the network's choice in `Fault`: a failure that is
repeated, or a rejection, before or after the server stored the batch (a success
without the protocol's status or headers is one of the latter).

### ReadSession

The log is a sequence of units (bytes, or JSON messages). A unit `w > 0` starts
a character of `w` units, `0` continues one, so a page can end inside a
character; a `0` that continues none is a byte that is no UTF-8. An offset is the number of units before it. A session is one
`allocateRead`; the application opens one after the other, each from the offset
it saved (`saved`), and may stop or save at any time.

| Model | Code |
|---|---|
| `position`, `longPoll`, `sse`, `fallback`, `shorts` | `state` of the view (`read.ts:97-106`) |
| `checkpoint`, `start` | the `offset` Ref; the connection's offset |
| `initial`, `boundary`, `parts`, `collected` | `initial.response`; headers or control of the page at hand; what of it is still to hand over; whether a body that is read whole has been |
| `pending`, `served` | `pending` of an event connection; how far the server has sent on it |
| `needed` | `state.pending` of the text decoder (`encoding.ts:180`) |
| `phase` | `idle` (allocated), `page` (a request is due), `http`, `sse` (a response is read), `delay` (`waitForSseReconnect`), and the ends |
| `given`, `at` | history: the units handed over; the last one after which the decoder was complete |

`EndPage` and `EndControl` are the drains after a page and after a control event
(lines 299-326, 195-213), `EventsEnd` the one after the connection (217-241).
A transport error of an event connection is an end like any other (line 150); one
of a page fails the session. `StreamReader` has three variables (log, how much
was handed over, saved offset) and four steps; `ReadSession` has them under the
same names.

### EventFraming

`Read` is the loop over the characters of a chunk and `EndLine` the function
`line()`; the parser's record is `state` (`sse.ts:14`). A character is a break, a
colon, a space or a word that stands for its letters. `EventsOf(text)` reads the whole
text at once, without state: a line is what stands between a position and the
break before it, an event the lines between two blank ones, and its data the
values of those that say so, in the order of their positions.

### ClientResponse

One response from `acquireInitial` on. `fiber` is the run started by `consume`:
`running` (waiting for a batch), `deliver`, `acking` (a Web stream's batch waits
for its acknowledgement), then how the run ended and how `consume` did. `gen` is
the async generator of a Web stream, `pull` the pending pull, `stream` the
ReadableStream and `canceller` its reader's `cancel()`. `scope` and `completed`
are the read's scope and `closed`. A batch is a number of units; `meta` is the
boundary the metadata shows, `handed` what the consumer has received. For a text
view `carried` units are held back while a character is split. An action is what
runs until the next await; promise continuations are actions of their own.

### AsyncProducer

`waits` and `stage` are the counter `waiting` and the promise chain `ingress`
(`async-await.ts:705-740`); `coord` is the acquisition. The coordinator is here
what `Producer` models, with the branches `context.facade` selects: `restart`
does not shut admission, `flush` does not fail for a failed batch, `admit` does
not race `stopped`. A batch is a record with its tuple and state, which is
smaller than in `Producer`: `autoClaim` is off and a request is answered or
refused, not both. `mark[c]` is the watermark a waiting call has. `Abort` is the
signal, whose finalizer is one step; `listening` is whether its listener is still
registered, which `detach` and `close` end also when there is no coordinator yet.
A batch that waits for an earlier one (`on`) passes on a failure of that one
(`Awaited`, `producer.ts:240`) and is sent again after a success.

## 3. Runs

| Run | What happens in it | What it shows |
|---|---|---|
| `pipeline` | an append, a sink of two and a flush; two workers, two entries a batch; one fault, one foreign claim | ExactlyOnce (with the recorded offset), FlushComplete, ReorderingIsHarmless, refinement of AppendLog |
| `closing` | an append, a sink, two closes (one interruptible), the initial claim, linger; one worker and a queue of one, so that emitters block; one fault; finalizer; fairness | CloseIsLast, TupleNamesOneBody (batches beside a close that is retried), AdmissionStaysShut, CallsReturn |
| `claim` | three one-entry batches, two restarts and a detach; `autoClaim` against a server at epoch 3, the largest epoch 4 | LogIsPrefix, NeverStuck, TupleNamesOneBody (claims and restarts up to the last safe epoch) |
| `ordinary` | three appends of two contexts, the second and third interruptible; one retry; one fault; fairness | the seven safety properties and the types of OrdinaryAppend, EveryAppendReturns |
| `reader` | two sessions over three units, malformed text among them; text in each live mode, messages over events, batches that stop at the tail or not; one retry, two short connections to the fallback, one long one | order, checkpoint, text, end, liveness, refinement of StreamReader |
| `response` | seven kinds of consumption; three batches of up to two units; cancel, abort, failure anywhere | metadata, cleanup, verdict, nothing after a cancellation, everything settles |
| `async` | three appends, a close, a detach, a restart; one fault or abort | order of calls, flush leaves nothing, calls are harmless, calls return |
| `framing` | all texts of up to seven characters in chunks of one or two; two connections | the parser agrees with the reference |
| `restart_reopens`, `refence`, `interrupted_offer`, `finalized_flush` | see findings | each finds its property violated |

Why these bounds:

- Producer: two workers and two batches suffice for overtaking, gaps and double
  fencing; a third entry makes a batch of two beside one of one, so an off-by-one
  in an interval is visible. One fault distinguishes "lost before" from "lost
  after being stored" and lets a stray arrive late. For the close, two calls give
  a retry after an unknown outcome. `closing` has `maxInFlight` 1: the emitter of
  the second batch blocks in the offer while the first is queued, and interruption
  and the finalizer find it there. The two restarts of `claim` come before and
  after the claim, or both at the largest epoch. `MaxSafe` stands for
  `Number.MAX_SAFE_INTEGER` and is small so that it is reached.
- Bursts: three appends are one active and two behind it, the least for a
  promotion that must respect order and contexts, and for a second burst that
  overlaps the end of the first.
- Reader: three units hold a split character beside a whole one, or one page
  after another; two sessions are one resumption. With two short connections to
  the fallback, one can come before and one after something was delivered, and a
  long one between them resets the count.
- Response: three batches are one acknowledged, one waiting and one to come; two
  units a batch make a page of several chunks, and a message of several items.
- Async: three appends are a chained, a direct and a late one, in two batches.
  A second close multiplies the states beyond what a run may take beside detach
  and restart; without the restart, `Closes = {c1, c2}` passes too (some 100 000
  states). For any number of calls there are the theorems.
- Framing: seven characters hold an event with name, data and blank line, with
  CR LF cut between chunks anywhere, and the start of a second event.

Every counter's bound is a constant with that name. Deadlock is checked in the
runs of `Producer` and `OrdinaryAppend`: a system in which all calls are done may
stutter, no other may stop. It is not in the others, where an application may
simply stop: a reader without another session, a response nobody consumes. There
the liveness properties say what may not get stuck.

Each pair of run and property has a mutant in `PROJECT.json`: a definition of the
module changed as a plausible bug would (definitions marked `mutant`), with which
the property fails under the same configuration.

### Fairness

`FairSpec` in `Producer` and `OrdinaryAppend` has weak fairness for each calling
fiber that has begun, each worker or burst fiber, linger and finalizer, and for
the server's answer to a request on the wire. Effect's scheduler resumes every
fiber whose wait is over, and an HTTP attempt ends with an answer or a failure.
Nobody has to call, to interrupt, to fail, to claim or to close the scope, and a
stray may never arrive. Server fairness is an assumption: the client sets no
deadline, so without an answer a producer batch waits for ever, as in the code.
`ordinary` bounds the retries and the faults; with the default of unlimited
retries an append is only certain to return if faults end. The safety properties
of `closing` and `ordinary` are checked on the same behaviours.

`ReadSession` assumes that a reading fiber runs on and that a connected server
answers and sends what it has, its control events included. Nobody has to append,
close, stop, save, open or consume; short connections need not ever stop coming
(the fallback is what ends them), long ones are bounded by `MaxLongDrops`, as a
server that always drops a connection without progress starves any reader. In
`ClientResponse` fibers and promise continuations run on and closing a scope
ends, but the stream may stay silent and nobody has to consume, pull or cancel.
In `AsyncProducer` promises and fibers run on, each begun call is fair, and
requests are answered.

## 4. Findings

Four runs end in a violation; each is a disagreement between the code and a
sentence of `src/README.md`, quoted in `PROJECT.json`.

1. `restart_reopens`: a restart that its own guard refuses, because a close shut
   admission before, still passes through the `ensuring` that sets
   `closing` back to `open` (`producer.ts:479-483`). The run with the property
   but without restart, `closing`, passes. The same writes of `mode` may follow
   the finalizer's: with a restart, the finalizer and no close
   (`Closes = {}`, `CanStop = TRUE` in the configuration), AdmissionStaysShut
   fails too, and the append admitted then is neither delivered nor interrupted.
2. `refence`: two batches fenced by one foreign claim both claim
   (epoch + 1, 0) (`producer.ts:201-213`); the server takes the second for a
   duplicate of the first, and it is acknowledged without being stored.
   `pipeline` shows that without `autoClaim`, and `claim` that without another
   writer, delivery is exactly once. There is more to it: each of the two sets the
   next sequence back to 1, so that the batches after them share sequences, and a
   later one takes the other's place in `sequences`. With the constants of
   `refence`, but one sink of seven values instead of the appends (`SinkLength`
   and `MaxEntries` 7, `MaxSafe` 9), TLC reaches in 37 steps a state that violates
   `NeverStuck`: both workers wait, one for the batch that `sequences` names now,
   which is in the queue behind it, and one for the other. Without another writer
   this cannot happen (`WorkersNeverStuck` below).
3. `interrupted_offer`: the blocked offer is the only interruptible part of
   `emit` and runs in the fiber of whoever filled the batch; interrupting that
   caller fails the values of others (`producer.ts:317-324`).
4. `finalized_flush`: the finalizer interrupts unresolved receipts without
   recording a failure (`producer.ts:418-425`); a flush awaiting them may report
   success.

## 5. Proofs

All theorems hold for every value of the constants that satisfies the named
assumptions `CallsAssumption` and `OptionsAssumption` (Producer),
`OrdinaryAssumption` (OrdinaryAppend), `ReadAssumption` (ReadSession),
`ResponseAssumption` (ClientResponse), `AsyncAssumption` (AsyncProducer) or
`FramingAssumption` (EventFraming): the kinds of calls are disjoint, options
are positive, bounds are natural, words are no separators, a group of appends is determined by its content
type and context, and modes and views are among those there are.

- `ProducerProofs!TypeCorrect` (`Spec => []TypeOK`). The types alone are not
  inductive. An emitter blocked in its offer settles "the batch in phase offer",
  so the invariant adds `HolderOffers` (whoever holds the mutex for an offer has
  such a batch) and `AdmittedHasId`. There is one lemma per action and one about
  each operator the actions share.
- `ProducerProofs!FlushCompleteUntilFinalized`
  (`Spec => [](scope # "closed" => FlushComplete)`) and, from it,
  `FlushIsComplete` (`CanStop = FALSE => (Spec => []FlushComplete)`). The last step
  of the finalizer is the only one that breaks the property: it interrupts
  receipts that no failure was recorded for, and `finalized_flush` is the
  counterexample after it. Above the types, `FlushInv` says that a batch under way
  has a first entry, that a failed receipt is at or above `firstFailure`, that
  watermarks are admitted, and that a result is final. A flush that ends well saw
  every receipt below its mark settled and no failure there, and receipts do not
  change again. The invariant speaks of the time before the finalizer is done,
  its interruptions of the workers included, and the scope is never reopened.
- `SequenceProofs`: `TuplesNameOneBody`, `TuplesOnlyMoveForward` (of
  TuplesMoveForward, which no run repeats: TupleNamesOneBody says what it is for)
  and `AdmissionIsShut`. `SequenceInv` is built in layers, each inductive with those
  before it: batches are disjoint intervals of the admitted entries and what is
  pending was put in none (`BatchInv`); until the claim has succeeded only its
  own batch has been sent (`ClaimInv`); a close that has its tuple follows an
  admission that is shut and a drain that is over (`PlaceInv`, `CloseInv`); what
  a server has seen of an epoch was given out by whoever owns it (`EpochInv`);
  and every tuple in use, in a request or still on its way, lies below
  (epoch, next sequence), different for different bodies (`NameInv`).
- `DeliveryProofs`: `NothingStoredTwice`, `DeliveredExactlyOnce`,
  `CloseEndsStream`, `LogHasNoHoles` and `OvertakingFailsNothing`. A batch in the
  log will never be sent again, or its next request carries the tuple it was
  stored under (`OnceInv`); the server stands
  at or after every tuple of this producer's log, and an accepted answer, or a
  duplicate's, belongs to a logged batch (`LogInv`); a close was sent when nothing
  was left to send, and a batch after it can only have failed (`LastInv`).

  The hypotheses are there because the theorems fail without them.
  `OneClaimant` (`autoClaim` is off, or no other writer claims the id) and
  `OneLifecycle` (one producer is not both restarted and closed) exclude
  `refence` and `restart_reopens`; with `Restarts` and `Closes` both nonempty and
  one fault TLC also finds TupleNamesOneBody, ExactlyOnce and CloseIsLast violated.
  `OwnEpochs` (the server knows nothing of the id and nobody claims it, or the
  producer is not restarted and the server's epoch is not 0) excludes an epoch
  that another writer has used: a producer that is restarted, or created, into
  the epoch the server already holds sends (epoch, 0), which the server takes for
  a duplicate and acknowledges without storing it. `NothingStoredTwice` needs no
  hypothesis.

  `LogHasNoHoles` rests on `RowInv`, which ties three orders together: batches
  follow each other without a gap in the admitted entries (`Chained`), their
  tuples follow each other in the same order (`InRow`), and an epoch begins with
  a batch that has everything before it stored (`StartsWhole`). So whatever the
  server accepts next has its predecessors in the log. What is hard is to show
  the second where tuples are given out late: until the claim has succeeded,
  its batch is the very first and every other one is held (`FirstRow`), so that
  the release numbers them all in their order; a restart numbers from 0 again
  only after a flush that found nothing failed, that is, everything stored
  (`RestartLogged`). `NoHoles` excludes what TLC refutes: with `autoClaim`, an
  interrupted emitter or a stopped worker can drop a batch that is held for the
  claim and has no tuple yet, and the batches held behind it move up; a batch
  that has its tuple leaves a gap which the server refuses. A worker that the
  finalizer has interrupted takes no other batch (`Dead` in `Take`), which the
  proof needs too: otherwise it could send what came behind its own batch.

  `OvertakingFailsNothing` (ReorderingIsHarmless) rests on `HarmlessInv`: what a
  worker hears in a calm run is a success, a fence it passes by claiming, or a gap
  that begins below its own sequence (`Heard`), and each sequence between
  `through` and the next one belongs to a batch still in the map (`Known`), so
  that the loop over the missing sequences finds whom to wait for. `Known` has to
  survive the release of the held batches, which fills exactly the next sequences
  (`HeldCovers`, an injection between sets of one size), and the bounds of that
  loop: there are never more sequences than batches (`Room`), which also keeps
  them safe integers. `Heard` needs that a first batch carries sequence 0
  (`FirstZero`) and that with `autoClaim` the server has the epoch before any
  other batch is sent (`Upto`). Hypotheses: the producer can pass the epoch the
  server holds (`Passable`: without `autoClaim` it is not above 0, and with it
  there is a next one) and, as before, `OneClaimant`; and it is not restarted.
  With one restart, two workers and no fault TLC finds an append that fails: a
  restart begins its epoch without a claim, so the second request of the epoch
  may overtake the first, and the server rejects a sequence other than 0 in an
  epoch it does not know. The first epoch is claimed by one request (`autoClaim`)
  or unknown to the server as the whole id is, which it answers with a gap.
- `DeliveryProofs!ProducerImplementsLog` (ImplementsAppendLog), under the
  hypotheses of `LogHasNoHoles`; without `OneClaimant` or `OneLifecycle`, TLC
  refutes it under the constants of `refence` and of `restart_reopens`. A step
  admits a value, settles receipts or reaches the server, never two of these
  (`OneThing`), and each is mapped on its own. A batch the server takes brings
  exactly the values missing up to its last one (`BatchMaps`): those below it
  are in the log because the batch that ends before it is there (`Filled`), and
  its own are not, as batches are apart. A request of the close, the stray one of
  a call that was interrupted included, finds everything acknowledged
  (`CloseAfterAll`) and so stored, even after the finalizer.
- `DeliveryProofs!WorkersNeverStuck`: while the scope is live and some batch is
  under way, a batch has a step to take (`NeverStuck`). It is the part of
  CallsReturn that is a safety property; that the step is then taken is fairness.
  A worker keeps its place while it awaits the claim or an earlier batch, so the
  proof has to find one that awaits nothing. The queue is first in, first out,
  hence what workers hold is ahead of what is queued or offered (`QueueOrder`,
  `OfferLast`). Within an epoch sequences follow the batches (`NamesInOrder`),
  also over the release of the held ones, and `sequences` names each batch under
  its own sequence (`MapNames`), so a worker in the gap loop waits for an earlier
  batch (`WaitsBack`). And an open claim is under way in the very first batch,
  which is queued or with a worker and waits for no claim (`ClaimUnderWay`,
  `FirstLeads`). The least batch that is with a worker can therefore go on; if
  there is none, the head of the queue can be taken. Hypotheses: `OneLifecycle`
  and `OneClaimant`; the deadlock of finding 2 refutes it without the second.
- `OrdinaryProofs`: `OrdinaryTypeCorrect`, `SingleRequest`,
  `CallsOutliveRequests`, `NobodyForgotten`, `RequestsKeepContexts`,
  `FailureIsFinal`, `StoredInOrder` and `OverlapHarmless`. The
  invariant makes four places agree on an append: the Ref names the one burst
  whose fiber lives (`CurrentLives`); members of a burst joined it and are
  unsettled (`Membership`), and every unsettled append is a member (`Kept`); a
  burst without a fiber is empty (`Emptied`); who is in a request under way waits
  for it (`Attended`), because whoever left without an outcome has said so
  (`Announced`) and `sendOrdinaryBatch` looks for that. That a lease count never
  falls below zero needs the count to be the number of holders (`Counted`).
  Contexts need that a batch agrees with its first member, that one under way has
  lost none (`Owned`), and that a lost context implies cancellation (`Said`).
  That the least of a set of appends exists is derived from the well-foundedness
  of the naturals, as `First` is a CHOOSE.
  - Order. Appends join in their order (`JoinOrder`), a batch lies before its
    buffer (`Queue`), and while the fiber lives nobody of its burst has failed
    (`Unbroken`): so a success settles the next in line, and a failure everyone
    behind it (`PrefixInv`).
  - Storage. A batch reaches the wire only when everything that joined before it
    is in it or has an outcome (`Ahead`, which follows from the order), and a
    receipt is never reopened: it stays true of a request its client has let go
    of. What joined before a stored append has therefore failed or is stored no
    later (`LogOrder`).
  - Overlap. Without a failed request, who waits to be sent has left no trace at
    the server or on the wire, and what has left one left it once (`OnceInv`).
    Without an interruption either, a lease count of one at a release means that
    nobody else of the burst is waiting, so that the last lease finds the fiber
    gone (`Undisturbed`); this needs `Counted` again, and that a fiber that will
    send has something to send (`Filled`).

- `ReadProofs`: `ReadTypeCorrect`, `InOrder`, `CheckpointSafe`, `ExactEnd`,
  `FallbackFinal` (of FallbackIsFinal, which no run repeats), `TextNeverGarbled`
  and `SessionImplementsReader`. The invariant `ReadInv` ties what was handed over to where the session stands. `given` counts up from `start`
  (`GivenAt`), so "how far" is a number, `Reached`. The rest of a page follows it
  without a gap and ends at the page's boundary (`PartsFollow`); held-back event
  data starts where a control event would resume and ends at `served`
  (`EventsFollow`); a request is sent from where delivery stands
  (`RequestFollows`). The checkpoint needs that `at` and what was reached differ
  only while the decoder lacks something (`DecoderCovers`): then, and only then,
  the offset is not advanced. With `EventsAllowed`, an event connection implies
  neither fallback nor a reached limit. For the refinement each action maps to
  one step of `StreamReader` or stutters; that a resumption may go back needs that
  the saved offset was delivered (`SavedIsDelivered`).
  For text, `TextInv` adds what the decoder stands for: what `needed` counts is
  the rest of the one character that reaches beyond the last unit given
  (`DecoderInStep`), and the saved offset and the checkpoint lie between two
  characters (`OffsetsBetween`), because the offset moves only where the decoder
  lacks nothing.

- `ResponseProofs`: `ResponseTypes`, `MetadataDelivered`, `ClosedJoins`,
  `ClosedTells` and `AbortIsFinal`. Two invariants meet. `EndInv` says how a
  response ends: the scope follows `terminal`, no fiber drives the read without
  `active` (`ActiveRuns`, on which `cancel` relies), none runs or will run after
  the end (`EndedStays`), and the verdict is an error exactly when something
  failed (`FailureTold`). `HandInv` accounts for every unit fetched: it is handed
  over, in the batch on its way, held back by a text view (`UnderWay`), or in the
  one message of a Web stream, which is `Queued`, `Pulled` item by item or
  `Through` and acknowledged (`HandedOver`). An acknowledgement finds the message
  through, so what it shows was received. That a stream which refuses an item has
  ended the response (`StreamEnds`) is where the first invariant is needed.
- `AsyncProofs`: `CallOrder`, `AsyncTypeCorrect`, `FlushLeaves` and
  `CallsHarmless`.
  - Order. Tuples (epoch, sequence) grow from batch to batch (`Sorted`), as
    emission takes the current one (`Numbered`) and a restart only moves to a
    later epoch. The server stands at or after the tuple of everything it has
    stored (`Stored`), so what it accepts next was emitted later. Appends are
    admitted in call order because one in the chain is in `waits`, and so no
    later one is admitted directly (`AdmitInv`).
  - Types. That `known` is only used in its domain needs a count (`CountInv`):
    no more batches than entries, no entry before its append, no more sequences
    than batches and one close; the close takes its sequence once because
    whoever is inside holds the semaphore (`UnderLifecycle`). `Complete` and
    `AwaitEarlier` choose a least element, whose existence is derived from the
    well-foundedness of the naturals.
  - Flush. A loop is only left when nothing waits, is pending or is in flight
    (`Quiet`), and then every append that is through is refused or an entry with
    an outcome (`Through`, `Unready`, `StoppedAborted`). A call of close is
    `closed` from its start, so that nothing ends the quiet before its request
    (`CloseQuiet`); this is why the stored close leaves nothing behind.
  - Gaps. As long as nothing failed and no epoch was left, sequences count the
    batches, what the server stored is a prefix of them and every batch above
    `through` is known (`Clean`). So the sequence a gap names lies below the batch's
    own, each one between belongs to a batch that is open or settled well, and
    what a batch waits for is a batch there is, which did not fail (`CleanBatch`).
    The hypothesis `faults = 0 /\ epoch = 0` is that of the property: a lost or
    rejected request does fail appends, and restart starts the sequences anew
    (once the epoch has changed, the property says nothing).

- `FramingProofs!FramingIsExact` (`Spec => []EventsAreFramed`). The parser works
  character by character and the reference by positions; `Reached(t, out)` says
  what the parser's state is after the text `t`: the unfinished line is what
  follows the last break, event and data are those of the lines since the last
  blank one, and `out` are the events of the chunk so far. One
  more character takes the parser from `Reached` of a text to that of the longer
  one (`ReadOne`), because a longer text has the same lines, blocks and values
  below its new end (`MoreEnds`, `MoreBlock`, `MoreValues`), and an end of line
  adds its own at the end (`InOrderLast`). That this carries over a whole chunk,
  and that the recursive function of `ReadAll` exists, would be inductions over
  the chunk; both are shown at the least position where they would fail
  (`LeastExists`), as the induction rules themselves take operators the provers
  here cannot instantiate.

Every safety invariant and action property that a passing run checks is stated by
a theorem, for the conditions given above. Only model-checked: liveness and
everything about fairness (out of the prover's reach). DeliveryOwnedByProducer
is not provable: the run `interrupted_offer` violates it.

## 6. Not modelled

- Payload encoding and its failures, before admission in both writers; a batch
  of the producer is not split at a change of content type, and an entry counts
  one byte.
- Delays: linger, back-off, Retry-After and the SSE reconnect delay are steps
  that may come at any time. Forking the linger fiber is one step with the
  admission that needs it.
- `batching: false` appends share nothing; `appendSource` sends one streaming
  request per call.
- Reads: cursors are passed on unread, "now" is an offset the server resolves,
  malformed JSON fails like a body; JSON of control events and base64.
- Promise API: `writable()`, `onError` delivery, the typed client, the owner that
  closes everything of `makeEffectClient`, and the accessors of a response. In
  `AsyncProducer` an abort is one step and leaves no request behind that may
  still be stored; `Producer` has both for the native API.
- create, connect, head, close and delete of a stream: one request and a mapping
  each. Data declarations. Tests and packaging.
- `src/tools/` and the lint and diff checks: some 12200 of the 17500 lines of
  implementation in the repository. They are syntax-tree rules that run once,
  alone, and share nothing with the client, so a model of them would say nothing
  about it. The share of lines the models cover is measured against the whole and
  stays small for that reason.

## 7. Plan

1. `appendSource`, with the race of the request against its source and the
   consumed-body rule of the retry loop, as a module of its own.
2. `writable()` over the promise of `AppendLog`; the owner of `makeEffectClient`
   with pending runs and scopes.
