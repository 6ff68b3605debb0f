------------------------------ MODULE Producer ------------------------------
(***************************************************************************)
(* The native idempotent producer (src/src/producer.ts, and the response   *)
(* classification of src/src/producer-request.ts), together with the       *)
(* stream server it talks to and the fibers that call it.                  *)
(*                                                                         *)
(* Every admitted value is an entry with an id 1, 2, ... in admission      *)
(* order.  Pending entries are always the ids emitted+1 .. id, so a batch  *)
(* is an interval of ids; it is named by its last id, and from[b] is its   *)
(* first one.  Batch names therefore grow in emission order, which is the  *)
(* order of the code's task queue and of its `batches` set.                *)
(*                                                                         *)
(* The request of the final close is kept in slot 0 beside the batches, so *)
(* that the server and the network treat every request alike.  A request   *)
(* whose client has given up on it stays in `strays`: it may still reach   *)
(* the server later, or never.                                             *)
(***************************************************************************)
EXTENDS Integers, FiniteSets, Sequences

CONSTANTS
  Appends, Sinks, Flushes, Detaches, Restarts, Closes, \* calls, one fiber each
  Free, Timer,        \* a semaphore nobody holds; the linger fiber
  SinkLength,         \* values in the stream a sink consumes
  Interruptible,      \* the calls whose fiber may be interrupted
  MaxEntries,         \* bound: admitted entries
  MaxBatchBytes,      \* options.maxBatchBytes, in entries of one byte each
  MaxInFlight,        \* options.maxInFlight: workers, and queue capacity
  AutoClaim,          \* options.autoClaim
  MaxSafe,            \* Number.MAX_SAFE_INTEGER
  ServerEpoch,        \* epoch the server holds for the producer id at first, or -1
  MaxFaults,          \* bound: lost requests, lost replies, rejections
  MaxForeign,         \* bound: claims by another writer of the producer id
  CanStop             \* whether the producer's scope may be closed

Calls == Appends \cup Sinks \cup Flushes \cup Detaches \cup Restarts \cup Closes

ASSUME CallsAssumption ==
  /\ Free \notin Calls /\ Timer \notin Calls /\ Free # Timer
  /\ Appends \cap Sinks = {} /\ Restarts \cap Closes = {}
  /\ (Appends \cup Sinks) \cap (Flushes \cup Detaches \cup Restarts \cup Closes) = {}
  /\ Flushes \cap (Detaches \cup Restarts \cup Closes) = {}
  /\ Detaches \cap (Restarts \cup Closes) = {}
ASSUME OptionsAssumption ==
  /\ MaxEntries \in Nat \ {0} /\ MaxBatchBytes \in Nat \ {0}
  /\ MaxInFlight \in Nat \ {0} /\ MaxSafe \in Nat /\ SinkLength \in Nat
  /\ ServerEpoch \in Int /\ ServerEpoch >= -1
  /\ MaxFaults \in Nat /\ MaxForeign \in Nat
  /\ AutoClaim \in BOOLEAN /\ CanStop \in BOOLEAN

VARIABLES
  mode, id, emitted, timer, mutex, lifecycle,          \* admission
  epoch, nextSeq, tuple, sequences, through, failure,  \* sequencing
  claimed, claiming, claim,                            \* initial claim
  from, first, phase, req, reply, waitFor,             \* batches and requests
  receipt, firstFailure, offset,                       \* settled entries
  closeBody, closeRequest, closeResult,                \* final close
  pc, result, mark, fed,                               \* calling fibers
  sEpoch, sLast, sClosed, log, strays,                 \* server and network
  faults, foreign, scope                               \* environment

admission == <<mode, id, emitted, timer, mutex, lifecycle>>
sequencing == <<epoch, nextSeq, tuple, sequences, through, failure>>
claims == <<claimed, claiming, claim>>
requests == <<from, first, phase, req, reply, waitFor>>
settled == <<receipt, firstFailure, offset>>
closing == <<closeBody, closeRequest, closeResult>>
calls == <<pc, result, mark, fed>>
server == <<sEpoch, sLast, sClosed, log>>
environment == <<faults, foreign, scope>>

vars == <<admission, sequencing, claims, requests, settled, closing, calls,
          server, strays, environment>>

Ids == 1..MaxEntries
Slots == 0..MaxEntries      \* slot 0 is the request of the final close
Seqs == 0..MaxEntries
Tuple == [epoch : Nat \cup {-1}, seq : Nat \cup {-1}]
NoTuple == [epoch |-> -1, seq |-> -1]
NoFailure == [seq |-> -1, out |-> "none"]
Foreign == -1               \* a log entry of another writer
Failures == {"fail", "int"} \* an error; an interruption cause
Outcomes == {"ok"} \cup Failures
\* "offer": its emitter is blocked in Queue.offer and holds the mutex.
\* "claimwait", "sent", "replied", "gapwait": a worker has taken it.
Working == {"claimwait", "sent", "replied", "gapwait"}
Phases == {"none", "offer", "queued", "dead"} \cup Working \cup Outcomes
Locations == {"new", "entry", "offer", "await", "mark", "flush", "emit", "drain",
              "request", "reply", "done"}

Kinds == {"none", "ok", "dup", "fenced", "gap", "closed", "rejected"}
Answer == [kind : Kinds, num : Nat, offset : Nat, closed : BOOLEAN]
NoAnswer == [kind |-> "none", num |-> 0, offset |-> 0, closed |-> FALSE]

Init ==
  /\ mode = "open" /\ id = 0 /\ emitted = 0 /\ timer = FALSE
  /\ mutex = Free /\ lifecycle = Free
  /\ epoch = 0 /\ nextSeq = 0 /\ tuple = [b \in Ids |-> NoTuple]
  /\ sequences = [q \in Seqs |-> 0] /\ through = -1
  /\ failure = NoFailure
  /\ claimed = ~AutoClaim /\ claiming = FALSE /\ claim = "open"
  /\ from = [b \in Ids |-> 0] /\ first = [b \in Ids |-> FALSE]
  /\ phase = [s \in Slots |-> "none"] /\ req = [s \in Slots |-> NoTuple]
  /\ reply = [s \in Slots |-> NoAnswer] /\ waitFor = [b \in Ids |-> 0]
  /\ receipt = [e \in Ids |-> "open"] /\ firstFailure = 0 /\ offset = 0
  /\ closeBody = Free /\ closeRequest = NoTuple /\ closeResult = FALSE
  /\ pc = [c \in Calls |-> IF c \in Flushes THEN "flush" ELSE "new"]
  /\ result = [c \in Calls |-> "none"]
  /\ mark = [c \in Calls |-> 0] /\ fed = [c \in Calls |-> 0]
  /\ sEpoch = ServerEpoch /\ sLast = (IF ServerEpoch = -1 THEN -1 ELSE 0)
  /\ sClosed = NoTuple /\ log = <<>>
  /\ strays = {}
  /\ faults = 0 /\ foreign = 0 /\ scope = "live"

-----------------------------------------------------------------------------
(* Helpers of the coordinator. *)

Entries_PastEnd(b) == from[b]..(b + 1)               \* mutant
Entries(b) == from[b]..b
Outstanding == {e \in 1..id : receipt[e] = "open"}
Queued == {b \in Ids : phase[b] = "queued"}
InWork_Leak == {b \in Ids : phase[b] \in Working \cup {"ok"}} \* mutant: no release
InWork == {b \in Ids : phase[b] \in Working}
Dead == {b \in Ids : phase[b] = "dead"}
Held == {b \in Ids : phase[b] \in {"offer", "queued", "claimwait"} /\ tuple[b] = NoTuple}
\* Numbers above MAX_SAFE_INTEGER are rounded: there e + 1 is e again.
NextEpoch(e) == IF e > MaxSafe THEN e ELSE e + 1
EpochLeft_Always(e) == TRUE                          \* mutant: no end of epochs
EpochLeft(e) == e < MaxSafe
\* recordOffset: the largest offset confirmed so far.
RecordedOffset(s) == IF reply[s].offset > offset THEN reply[s].offset ELSE offset
\* A queue that was shut down blocks nobody (and delivers nothing).
QueueFull == scope # "closed" /\ Cardinality(Queued) >= MaxInFlight

\* reserve: the next sequence number of the epoch, for one batch ...
Reserve(b) ==
  /\ tuple' = [tuple EXCEPT ![b] = [epoch |-> epoch, seq |-> nextSeq]]
  /\ sequences' = [sequences EXCEPT ![nextSeq] = b]
  /\ nextSeq' = nextSeq + 1

\* ... and, once the claim has succeeded, for every held batch in order.
SeqOfHeld_Reversed(b) == nextSeq + Cardinality({c \in Held : c > b}) \* mutant
SeqOfHeld(b) == nextSeq + Cardinality({c \in Held : c < b})
SequencesWithHeld ==
  [q \in Seqs |-> IF \E b \in Held : SeqOfHeld(b) = q
                  THEN CHOOSE b \in Held : SeqOfHeld(b) = q
                  ELSE sequences[q]]
ReserveHeld ==
  /\ tuple' = [b \in Ids |-> IF b \in Held
                             THEN [epoch |-> epoch, seq |-> SeqOfHeld(b)]
                             ELSE tuple[b]]
  /\ nextSeq' = nextSeq + Cardinality(Held)

\* Settle the batch, remember the earliest failure, and move `through` over
\* the sequences whose batch is done; seqs is the sequence map to work on.
DoneThrough(b, seqs) ==
  {t \in through..MaxEntries :
     \A q \in (through + 1)..t :
        seqs[q] # 0 /\ (seqs[q] = b \/ phase[seqs[q]] \in Outcomes)}
Complete(b, out, seqs) ==
  /\ phase' = [phase EXCEPT ![b] = out]
  /\ receipt' = [e \in Ids |-> IF e \in Entries(b) /\ receipt[e] = "open"
                               THEN out ELSE receipt[e]]
  /\ firstFailure' = IF out \in Failures /\ (firstFailure = 0 \/ from[b] < firstFailure)
                     THEN from[b] ELSE firstFailure
  /\ failure' = IF /\ out \in Failures /\ tuple[b] # NoTuple
                   /\ failure = NoFailure \/ tuple[b].seq < failure.seq
                THEN [seq |-> tuple[b].seq, out |-> out] ELSE failure
  /\ through' \in {t \in DoneThrough(b, seqs) : \A u \in DoneThrough(b, seqs) : u <= t}
  /\ sequences' = [q \in Seqs |-> IF through < q /\ q <= through' THEN 0 ELSE seqs[q]]

\* The worker's epilogue: the first claim releases (or fails) the held batches.
Finish(b, out) ==
  /\ IF first[b]
     THEN claim' = out /\ claimed' = (claimed \/ out = "ok")
     ELSE UNCHANGED <<claim, claimed>>
  /\ IF first[b] /\ out = "ok"
     THEN ReserveHeld /\ Complete(b, out, SequencesWithHeld)
     ELSE UNCHANGED <<tuple, nextSeq>> /\ Complete(b, out, sequences)

\* Take the pending entries up to `last` as one batch and offer it; `by` keeps
\* the mutex, blocked in the offer, while the queue is full.
Emit(last, by) ==
  LET isFirst == ~claimed /\ ~claiming
  IN /\ from' = [from EXCEPT ![last] = emitted + 1]
     /\ emitted' = last
     /\ timer' = FALSE
     /\ first' = [first EXCEPT ![last] = isFirst]
     /\ claiming' = (claiming \/ isFirst)
     /\ IF claimed \/ isFirst THEN Reserve(last)
                              ELSE UNCHANGED <<tuple, sequences, nextSeq>>
     /\ phase' = [phase EXCEPT ![last] = IF QueueFull THEN "offer" ELSE "queued"]
     /\ mutex' = IF QueueFull THEN by ELSE mutex
NothingEmitted ==
  UNCHANGED <<from, emitted, timer, first, claiming, tuple, sequences, nextSeq,
              phase, mutex>>

Goto(c, l) == pc' = [pc EXCEPT ![c] = l]

Return_Reopens(c, r) ==                              \* mutant: close reopens too
  /\ pc' = [pc EXCEPT ![c] = "done"]
  /\ result' = [result EXCEPT ![c] = r]
  /\ lifecycle' = IF lifecycle = c THEN Free ELSE lifecycle
  /\ mode' = IF c \in Restarts \cup Closes /\ mode = "closing" THEN "open" ELSE mode
\* A call ends.  The `ensuring` around restart reopens a closing producer on
\* every exit of restart, its own guard failure included.
Return(c, r) ==
  /\ pc' = [pc EXCEPT ![c] = "done"]
  /\ result' = [result EXCEPT ![c] = r]
  /\ lifecycle' = IF lifecycle = c THEN Free ELSE lifecycle
  /\ mode' = IF c \in Restarts /\ mode = "closing" THEN "open" ELSE mode

-----------------------------------------------------------------------------
(* Admission: append, and the elements of a sink.                          *)

\* append / Sink.forEach: the first mode check, before the value is encoded.
BeginAppend(c) ==
  /\ c \in Appends \cup Sinks /\ pc[c] = "new"
  /\ c \in Sinks => firstFailure = 0 /\ fed[c] < SinkLength
  /\ IF mode = "open"
     THEN Goto(c, "entry") /\ UNCHANGED <<result, mode, lifecycle>>
     ELSE Return(c, "closed")
  /\ UNCHANGED <<id, emitted, timer, mutex, sequencing, claims, requests, settled,
                 closing, mark, fed, server, strays, environment>>

\* Under the mutex: check the mode again, take the next id, and either emit at
\* the byte threshold or see that the linger timer runs.
Admit(c) ==
  /\ c \in Appends \cup Sinks /\ pc[c] = "entry" /\ mutex = Free
  /\ \/ /\ mode # "open"
        /\ Return(c, "closed") /\ NothingEmitted
        /\ UNCHANGED <<id, fed, mark>>
     \/ /\ mode = "open" /\ id < MaxEntries
        /\ id' = id + 1
        /\ mark' = [mark EXCEPT ![c] = id + 1]
        /\ fed' = [fed EXCEPT ![c] = @ + 1]
        /\ IF id + 1 - emitted >= MaxBatchBytes
           THEN Emit(id + 1, c)
           ELSE /\ timer' = (scope = "live")
                /\ UNCHANGED <<from, emitted, first, claiming, tuple, sequences,
                               nextSeq, phase, mutex>>
        /\ Goto(c, IF mutex' = c THEN "offer" ELSE IF c \in Sinks THEN "new" ELSE "await")
        /\ UNCHANGED <<result, mode, lifecycle>>
  /\ UNCHANGED <<epoch, through, failure, claimed, claim, req, reply, waitFor,
                 settled, closing, server, strays, environment>>

\* append returns with its receipt.
Receive(c) ==
  /\ c \in Appends /\ pc[c] = "await" /\ receipt[mark[c]] # "open"
  /\ Return(c, receipt[mark[c]])
  /\ UNCHANGED <<id, emitted, timer, mutex, sequencing, claims, requests, settled,
                 closing, mark, fed, server, strays, environment>>

\* A sink stops at the first failure, or flushes at the end of its source.
EndSource(c) ==
  /\ c \in Sinks /\ pc[c] = "new"
  /\ \/ firstFailure # 0 /\ fed[c] < SinkLength /\ Return(c, "fail")
     \/ fed[c] = SinkLength /\ Goto(c, "flush") /\ UNCHANGED <<result, mode, lifecycle>>
  /\ UNCHANGED <<id, emitted, timer, mutex, sequencing, claims, requests, settled,
                 closing, mark, fed, server, strays, environment>>

\* The linger fiber wakes up and gets the mutex.  An emission by someone else
\* interrupts and joins it before it goes on, so that no fiber of an earlier
\* generation is left to wake up; the generation is not modelled.
Linger ==
  /\ timer /\ mutex = Free
  /\ Emit(id, Timer)
  /\ UNCHANGED <<mode, id, lifecycle, epoch, through, failure, claimed, claim, req,
                 reply, waitFor, settled, closing, calls, server, strays, environment>>

\* The blocked offer goes through, or ends without effect because the finalizer
\* has shut the queue down: either way the emitter releases the mutex and goes on.
Offered ==
  /\ \/ /\ mutex # Free /\ ~QueueFull
        /\ \E b \in Ids : phase[b] = "offer" /\ phase' = [phase EXCEPT ![b] = "queued"]
     \/ mutex \in Calls /\ scope = "closed" /\ UNCHANGED phase
  /\ mutex' = Free
  /\ pc' = IF mutex = Timer THEN pc
           ELSE [pc EXCEPT ![mutex] = IF @ = "emit" THEN "drain"
                                      ELSE IF mutex \in Sinks THEN "new" ELSE "await"]
  /\ UNCHANGED <<mode, id, emitted, timer, lifecycle, sequencing, claims, from, first,
                 req, reply, waitFor, settled, closing, result, mark, fed, server,
                 strays, environment>>

-----------------------------------------------------------------------------
(* flush, alone or inside sink, detach, restart and close.                 *)

Watermark_Next == id + 1                             \* mutant
Watermark == id
\* Snapshot the watermark and emit under the mutex.  The snapshot of receipts
\* is every outstanding id up to the watermark: later ids are larger.
Flush(c) ==
  /\ pc[c] = "flush" /\ mutex = Free
  /\ mark' = [mark EXCEPT ![c] = Watermark]
  /\ IF emitted < id THEN Emit(id, c) ELSE NothingEmitted
  /\ Goto(c, IF mutex' = c THEN "emit" ELSE "drain")
  /\ UNCHANGED <<mode, id, lifecycle, epoch, through, failure, claimed, claim, req,
                 reply, waitFor, settled, closing, result, fed, server, strays,
                 environment>>

Drained(c) == pc[c] = "drain" /\ \A e \in Outstanding : e > mark[c]
FlushFails_Below(c) == firstFailure # 0 /\ firstFailure < mark[c] \* mutant
FlushFails(c) == firstFailure # 0 /\ firstFailure <= mark[c]

\* The end of a flush or of a detach or sink, whose last step is a flush, and
\* of a restart or close whose flush fails.
EndFlush(c) ==
  /\ Drained(c)
  /\ FlushFails(c) \/ c \notin Restarts \cup Closes
  /\ Return(c, IF FlushFails(c) THEN "fail" ELSE "ok")
  /\ UNCHANGED <<id, emitted, timer, mutex, sequencing, claims, requests, settled,
                 closing, mark, fed, server, strays, environment>>

BeginDetach(c) ==
  /\ c \in Detaches /\ pc[c] = "new" /\ lifecycle = Free
  /\ IF mode = "stopped"
     THEN Return(c, "closed")
     ELSE mode' = "detached" /\ lifecycle' = c /\ Goto(c, "flush") /\ UNCHANGED result
  /\ UNCHANGED <<id, emitted, timer, mutex, sequencing, claims, requests, settled,
                 closing, mark, fed, server, strays, environment>>

BeginRestart(c) ==
  /\ c \in Restarts /\ pc[c] = "new" /\ lifecycle = Free
  /\ IF mode # "open"
     THEN Return(c, "closed")
     ELSE lifecycle' = c /\ Goto(c, "mark") /\ UNCHANGED <<mode, result>>
  /\ UNCHANGED <<id, emitted, timer, mutex, sequencing, claims, requests, settled,
                 closing, mark, fed, server, strays, environment>>

\* restart (and, the first time, close with its body) shuts admission.
ShutAdmission(c) ==
  /\ c \in Restarts \cup Closes /\ pc[c] = "mark" /\ mutex = Free
  /\ mode' = "closing"
  /\ closeBody' = IF c \in Closes THEN c ELSE closeBody
  /\ Goto(c, IF c \in Closes /\ closeRequest # NoTuple THEN "request" ELSE "flush")
  /\ UNCHANGED <<id, emitted, timer, mutex, lifecycle, sequencing, claims, requests,
                 settled, closeRequest, closeResult, result, mark, fed, server,
                 strays, environment>>

FinishRestart(c) ==
  /\ c \in Restarts /\ Drained(c) /\ ~FlushFails(c)
  /\ IF ~EpochLeft(epoch)
     THEN Return(c, "fail")
          /\ UNCHANGED <<epoch, nextSeq, closeRequest, through, failure, sequences>>
     ELSE /\ epoch' = NextEpoch(epoch) /\ nextSeq' = 0
          /\ closeRequest' = IF closeResult THEN closeRequest ELSE NoTuple
          /\ through' = -1 /\ failure' = NoFailure
          /\ sequences' = [q \in Seqs |-> 0]
          /\ mode' = "open" /\ lifecycle' = Free
          /\ pc' = [pc EXCEPT ![c] = "done"]
          /\ result' = [result EXCEPT ![c] = "ok"]
  /\ UNCHANGED <<id, emitted, timer, mutex, tuple, claims, requests, settled,
                 closeBody, closeResult, mark, fed, server, strays, environment>>

\* close: cached result; closed producer; body captured once, request kept.
BeginClose(c) ==
  /\ c \in Closes /\ pc[c] = "new" /\ lifecycle = Free
  /\ IF closeResult THEN Return(c, "ok")
     ELSE IF mode \in {"stopped", "detached"} THEN Return(c, "closed")
     ELSE /\ lifecycle' = c
          /\ Goto(c, IF closeBody = Free THEN "mark"
                     ELSE IF closeRequest = NoTuple THEN "flush" ELSE "request")
          /\ UNCHANGED <<mode, result>>
  /\ UNCHANGED <<id, emitted, timer, mutex, sequencing, claims, requests, settled,
                 closing, mark, fed, server, strays, environment>>

\* After its flush close takes the next tuple without reserving it, and sends
\* in a fiber of the producer's scope: a closing scope interrupts it at once.
SendClose(c) ==
  /\ c \in Closes
  /\ \/ pc[c] = "request"
     \/ Drained(c) /\ ~FlushFails(c)
  /\ closeRequest' = IF closeRequest = NoTuple THEN [epoch |-> epoch, seq |-> nextSeq]
                                               ELSE closeRequest
  /\ IF scope = "live"
     THEN /\ phase' = [phase EXCEPT ![0] = "sent"]
          /\ req' = [req EXCEPT ![0] = closeRequest']
          /\ Goto(c, "reply") /\ UNCHANGED <<result, mode, lifecycle>>
     ELSE Return(c, "int") /\ UNCHANGED <<phase, req>>
  /\ UNCHANGED <<id, emitted, timer, mutex, sequencing, claims, from, first, reply,
                 waitFor, settled, closeBody, closeResult, mark, fed, server, strays,
                 environment>>

\* 200, or 204 for a duplicate; anything else is no success.
Success_AnyAnswer == {"ok", "dup", "rejected"}       \* mutant
Success == {"ok", "dup"}

\* The answer to the close request.
CloseAnswered(c) ==
  /\ c \in Closes /\ pc[c] = "reply" /\ phase[0] = "replied"
  /\ IF reply[0].kind \in Success /\ reply[0].closed
     THEN /\ nextSeq' = nextSeq + 1 /\ closeResult' = TRUE
          /\ offset' = RecordedOffset(0)
          /\ phase' = [phase EXCEPT ![0] = "none"]
          /\ Return(c, "ok")
          /\ UNCHANGED <<epoch, closeRequest, req>>
     ELSE IF reply[0].kind = "fenced" /\ AutoClaim /\ EpochLeft(reply[0].num)
     THEN /\ epoch' = NextEpoch(reply[0].num) /\ nextSeq' = 0
          /\ closeRequest' = [epoch |-> epoch', seq |-> 0]
          /\ req' = [req EXCEPT ![0] = closeRequest']
          /\ phase' = [phase EXCEPT ![0] = "sent"]
          /\ UNCHANGED <<closeResult, offset, pc, result, lifecycle, mode>>
     ELSE /\ phase' = [phase EXCEPT ![0] = "none"]
          /\ Return(c, "fail")
          /\ UNCHANGED <<epoch, nextSeq, closeRequest, closeResult, offset, req>>
  /\ UNCHANGED <<id, emitted, timer, mutex, tuple, sequences, through, failure, claims,
                 from, first, reply, waitFor, receipt, firstFailure, closeBody, mark,
                 fed, server, strays, environment>>

-----------------------------------------------------------------------------
(* The workers.  A worker is the batch it has taken: there are MaxInFlight   *)
(* of them, each in take, claim wait, request and epilogue by turns.         *)

NotFinished ==
  UNCHANGED <<claim, claimed, tuple, nextSeq, receipt, firstFailure, failure,
              through, sequences>>

\* Send the batch under its tuple, reserved now if it has none yet (which the
\* release of held batches leaves none to do, so only the first branch needs
\* to fail a sequence out of range).
Start(b) ==
  LET t == IF tuple[b] = NoTuple THEN [epoch |-> epoch, seq |-> nextSeq] ELSE tuple[b]
  IN IF t.seq > MaxSafe /\ tuple[b] # NoTuple
     THEN Finish(b, "fail") /\ UNCHANGED req
     ELSE /\ IF tuple[b] = NoTuple THEN Reserve(b)
                                   ELSE UNCHANGED <<tuple, sequences, nextSeq>>
          /\ req' = [req EXCEPT ![b] = t]
          /\ phase' = [phase EXCEPT ![b] = "sent"]
          /\ UNCHANGED <<claim, claimed, receipt, firstFailure, failure, through>>

\* Queue.take: the oldest batch, by a worker that is idle: not one that the
\* finalizer has interrupted.
Take(b) ==
  /\ phase[b] = "queued" /\ \A c \in Queued : b <= c
  /\ scope # "closed" /\ Cardinality(InWork \cup Dead) < MaxInFlight
  /\ IF claimed \/ first[b]
     THEN Start(b)
     ELSE /\ phase' = [phase EXCEPT ![b] = "claimwait"]
          /\ NotFinished /\ UNCHANGED req
  /\ UNCHANGED <<admission, epoch, claiming, from, first, reply, waitFor, offset,
                 closing, calls, server, strays, environment>>

\* The initial claim is settled: go on, or fail with its failure.
Claimed(b) ==
  /\ phase[b] = "claimwait" /\ claim # "open"
  /\ IF claim = "ok" THEN Start(b) ELSE Finish(b, claim) /\ UNCHANGED req
  /\ UNCHANGED <<admission, epoch, claiming, from, first, reply, waitFor, offset,
                 closing, calls, server, strays, environment>>

Replied(b, kinds) == phase[b] = "replied" /\ reply[b].kind \in kinds

Delivered(b) ==
  /\ Replied(b, Success)
  /\ Finish(b, "ok")
  /\ offset' = RecordedOffset(b)
  /\ UNCHANGED <<admission, epoch, claiming, from, first, req, reply, waitFor,
                 closing, calls, server, strays, environment>>

\* Every other status, a lost answer and a closed stream: no retry.
Rejected(b) ==
  /\ Replied(b, {"closed", "rejected"})
  /\ Finish(b, "fail")
  /\ UNCHANGED <<admission, epoch, claiming, from, first, req, reply, waitFor,
                 offset, closing, calls, server, strays, environment>>

\* The sequence after a batch that claims an epoch.
AfterClaim_Close == 0                                \* mutant: as after a close
AfterClaim == 1

\* 403: claim the next epoch with this batch as its first, when allowed.
Fenced(b) ==
  /\ Replied(b, {"fenced"})
  /\ IF AutoClaim /\ EpochLeft(reply[b].num)
     THEN /\ epoch' = NextEpoch(reply[b].num) /\ nextSeq' = AfterClaim
          /\ req' = [req EXCEPT ![b] = [epoch |-> epoch', seq |-> 0]]
          /\ phase' = [phase EXCEPT ![b] = "sent"]
          /\ UNCHANGED <<claim, claimed, tuple, receipt, firstFailure, failure,
                         through, sequences>>
     ELSE Finish(b, "fail") /\ UNCHANGED <<epoch, req>>
  /\ UNCHANGED <<admission, claiming, from, first, reply, waitFor, offset, closing,
                 calls, server, strays, environment>>

\* sequences.get; 0 stands for undefined.
Get(q) == IF q \in Seqs THEN sequences[q] ELSE 0

\* A sequence the batch has to wait for: one below its own.
Missing_Own(b, q) == q <= req[b].seq                 \* mutant: waits for itself
Missing(b, q) == q < req[b].seq

\* The loop over the missing sequences, from p on: skip those already done,
\* wait for the next one, or send again once all of them are done.
AwaitFrom(b, p) ==
  LET q == IF p <= through THEN through + 1 ELSE p
  IN IF ~Missing(b, q)
     THEN /\ phase' = [phase EXCEPT ![b] = "sent"]
          /\ NotFinished /\ UNCHANGED waitFor
     ELSE IF Get(q) = 0
     THEN Finish(b, "fail") /\ UNCHANGED waitFor
     ELSE /\ phase' = [phase EXCEPT ![b] = "gapwait"]
          /\ waitFor' = [waitFor EXCEPT ![b] = Get(q)]
          /\ NotFinished

LocalGap_Short(b) == reply[b].num + 1 < req[b].seq /\ req[b].epoch = epoch \* mutant
LocalGap(b) == reply[b].num < req[b].seq /\ req[b].epoch = epoch

\* 409 with a gap: fail if the gap is not one of ours or an earlier sequence
\* has failed, else wait for the earlier batches.
Gap(b) ==
  /\ Replied(b, {"gap"})
  /\ IF ~LocalGap(b)
     THEN Finish(b, "fail") /\ UNCHANGED waitFor
     ELSE IF failure # NoFailure /\ failure.seq < req[b].seq
     THEN Finish(b, failure.out) /\ UNCHANGED waitFor
     ELSE AwaitFrom(b, reply[b].num)
  /\ UNCHANGED <<admission, epoch, claiming, from, first, req, reply, offset,
                 closing, calls, server, strays, environment>>

\* The awaited batch is done: its failure is ours too.
GapFilled(b) ==
  /\ phase[b] = "gapwait" /\ phase[waitFor[b]] \in Outcomes
  /\ IF phase[waitFor[b]] = "ok"
     THEN AwaitFrom(b, tuple[waitFor[b]].seq + 1)
     ELSE Finish(b, phase[waitFor[b]]) /\ UNCHANGED waitFor
  /\ UNCHANGED <<admission, epoch, claiming, from, first, req, reply, offset,
                 closing, calls, server, strays, environment>>

-----------------------------------------------------------------------------
(* The server and the network (external).                                  *)

\* A new epoch starts at sequence 0; within an epoch sequences are accepted
\* in order, once, and never after the stream is closed.
Accepts(t) ==
  /\ sClosed = NoTuple
  /\ \/ t.epoch > sEpoch /\ t.seq = 0
     \/ t.epoch = sEpoch /\ t.seq = sLast + 1

Accept(s, t) ==
  /\ Accepts(t)
  /\ sEpoch' = t.epoch /\ sLast' = t.seq
  /\ sClosed' = IF s = 0 THEN t ELSE sClosed
  /\ log' = Append(log, s)

\* What the server may answer to a request it does not accept.
Refusals(t) ==
  LET is(kind, num) == [kind |-> kind, num |-> num, offset |-> 0,
                        closed |-> sClosed # NoTuple]
  IN IF sClosed # NoTuple
     THEN {IF t = sClosed THEN [is("dup", 0) EXCEPT !.offset = Len(log)] ELSE is("closed", 0)}
     ELSE IF t.epoch < sEpoch THEN {is("fenced", sEpoch)}
     ELSE IF t.epoch > sEpoch THEN {is("gap", 0)} \cup
                                   (IF sEpoch = -1 THEN {} ELSE {is("rejected", 0)})
     ELSE IF t.seq <= sLast THEN {is("dup", 0)}
     ELSE {is("gap", sLast + 1)}

Serve(s) ==
  /\ phase[s] = "sent"
  /\ \/ /\ Accept(s, req[s])
        /\ reply' = [reply EXCEPT ![s] = [kind |-> "ok", num |-> 0,
                                          offset |-> Len(log) + 1, closed |-> s = 0]]
     \/ /\ ~Accepts(req[s])
        /\ \E r \in Refusals(req[s]) : reply' = [reply EXCEPT ![s] = r]
        /\ UNCHANGED server
  /\ phase' = [phase EXCEPT ![s] = "replied"]
  /\ UNCHANGED <<admission, sequencing, claims, from, first, req, waitFor, settled,
                 closing, calls, strays, environment>>

\* A request that was given up on arrives after all; nobody hears the answer.
ServeStray ==
  /\ \E r \in strays : /\ strays' = strays \ {r}
                       /\ \/ Accept(r.slot, r.req)
                          \/ ~Accepts(r.req) /\ UNCHANGED server
  /\ UNCHANGED <<admission, sequencing, claims, requests, settled, closing, calls,
                 environment>>

Abandoned(s) == IF phase[s] = "sent" THEN strays \cup {[slot |-> s, req |-> req[s]]}
                                     ELSE strays

\* The transport fails before or after the server saw the request, or the
\* server rejects it (413, 429, 5xx): in each case the client sees a failure.
Fault(s) ==
  /\ faults < MaxFaults /\ faults' = faults + 1
  /\ phase[s] = "sent" \/ (phase[s] = "replied" /\ reply[s].kind # "rejected")
  /\ phase' = [phase EXCEPT ![s] = "replied"]
  /\ reply' = [reply EXCEPT ![s] = [NoAnswer EXCEPT !.kind = "rejected"]]
  /\ strays' = Abandoned(s)
  /\ UNCHANGED <<admission, sequencing, claims, from, first, req, waitFor, settled,
                 closing, calls, server, foreign, scope>>

\* Another writer claims the producer id.
ForeignClaim ==
  /\ foreign < MaxForeign /\ foreign' = foreign + 1 /\ sClosed = NoTuple
  /\ sEpoch' = (IF sEpoch = -1 THEN 1 ELSE sEpoch + 1) /\ sLast' = 0
  /\ log' = Append(log, Foreign)
  /\ UNCHANGED <<admission, sequencing, claims, requests, settled, closing, calls,
                 sClosed, strays, faults, scope>>

-----------------------------------------------------------------------------
(* Interruption of calls, and the finalizer of the producer's scope.       *)

\* A call is interrupted.  At the offer its batch fails with the interruption;
\* in append, once admitted, only the wait for the receipt ends.
Interrupt(c) ==
  /\ c \in Interruptible
  /\ \/ /\ pc[c] \in {"entry", "await", "mark", "flush", "drain"}
        /\ UNCHANGED <<phase, receipt, firstFailure, failure, through, sequences,
                       mutex, strays>>
     \/ /\ pc[c] \in {"offer", "emit"} /\ mutex = c
        /\ \E b \in Ids : phase[b] = "offer" /\ Complete(b, "int", sequences)
        /\ mutex' = Free /\ UNCHANGED strays
     \/ /\ pc[c] = "reply" /\ strays' = Abandoned(0)
        /\ phase' = [phase EXCEPT ![0] = "none"]
        /\ UNCHANGED <<receipt, firstFailure, failure, through, sequences, mutex>>
  /\ Return(c, "int")
  /\ UNCHANGED <<id, emitted, timer, epoch, nextSeq, tuple, claims, from, first, req,
                 reply, waitFor, offset, closing, mark, fed, server, environment>>

\* The finalizer stops admission, then closes the scope of the fibers ...
StopBegin ==
  /\ CanStop /\ scope = "live" /\ scope' = "closing" /\ mode' = "stopped"
  /\ UNCHANGED <<id, emitted, timer, mutex, lifecycle, sequencing, claims, requests,
                 settled, closing, calls, server, strays, faults, foreign>>

\* ... which interrupts each worker, aborting its request,
WorkerStopped(b) ==
  /\ scope = "closing" /\ phase[b] \in Working
  /\ phase' = [phase EXCEPT ![b] = "dead"]
  /\ strays' = Abandoned(b)
  /\ UNCHANGED <<admission, sequencing, claims, from, first, req, reply, waitFor,
                 settled, closing, calls, server, environment>>

\* the linger fiber, sleeping or in its offer,
LingerStopped ==
  /\ scope = "closing"
  /\ \/ timer /\ timer' = FALSE
        /\ UNCHANGED <<mutex, phase, receipt, firstFailure, failure, through, sequences>>
     \/ /\ mutex = Timer /\ mutex' = Free /\ UNCHANGED timer
        /\ \E b \in Ids : phase[b] = "offer" /\ Complete(b, "int", sequences)
  /\ UNCHANGED <<mode, id, emitted, lifecycle, epoch, nextSeq, tuple, claims, from,
                 first, req, reply, waitFor, offset, closing, calls, server, strays,
                 environment>>

\* and the fiber that sends the close.
CloseStopped(c) ==
  /\ scope = "closing" /\ c \in Closes /\ pc[c] = "reply"
  /\ phase' = [phase EXCEPT ![0] = "none"]
  /\ strays' = Abandoned(0)
  /\ Return(c, "int")
  /\ UNCHANGED <<id, emitted, timer, mutex, sequencing, claims, from, first, req,
                 reply, waitFor, settled, closing, mark, fed, server, environment>>

\* Once they are gone, unresolved receipts are interrupted and state is dropped.
StopEnd ==
  /\ scope = "closing" /\ ~timer /\ mutex # Timer
  /\ InWork = {} /\ phase[0] = "none"
  /\ scope' = "closed"
  /\ receipt' = [e \in Ids |-> IF e \in Outstanding THEN "int" ELSE receipt[e]]
  /\ emitted' = id
  /\ phase' = [s \in Slots |-> IF phase[s] \in {"offer", "queued"} THEN "dead" ELSE phase[s]]
  /\ sequences' = [q \in Seqs |-> 0]
  /\ UNCHANGED <<mode, id, timer, mutex, lifecycle, epoch, nextSeq, tuple, through,
                 failure, claims, from, first, req, reply, waitFor, firstFailure,
                 offset, closing, calls, server, strays, faults, foreign>>

Raced == {"entry", "offer", "flush", "emit", "drain"}
\* The calls raced against `stopped` end: append until it is admitted, every
\* flush, and close at any point.
Stopped(c) ==
  /\ scope = "closed"
  /\ \/ pc[c] \in Raced
     \/ c \in Closes /\ pc[c] \in {"mark", "request"}
  /\ Return(c, "int")
  /\ mutex' = IF mutex = c THEN Free ELSE mutex
  /\ UNCHANGED <<id, emitted, timer, sequencing, claims, requests, settled, closing,
                 mark, fed, server, strays, environment>>

-----------------------------------------------------------------------------

Call(c) ==
  \/ BeginAppend(c) \/ Admit(c) \/ Receive(c) \/ EndSource(c)
  \/ Flush(c) \/ EndFlush(c) \/ BeginDetach(c)
  \/ BeginRestart(c) \/ ShutAdmission(c) \/ FinishRestart(c)
  \/ BeginClose(c) \/ SendClose(c) \/ CloseAnswered(c)
  \/ CloseStopped(c) \/ Stopped(c)

Worker(b) ==
  \/ Take(b) \/ Claimed(b) \/ Delivered(b) \/ Rejected(b) \/ Fenced(b)
  \/ Gap(b) \/ GapFilled(b) \/ WorkerStopped(b)

Fiber == Linger \/ Offered \/ LingerStopped \/ StopEnd

Quiescent ==
  /\ \A c \in Calls : pc[c] = "done"
  /\ ~timer /\ mutex = Free /\ scope # "closing"
  /\ \A s \in Slots : phase[s] \in {"none", "dead"} \cup Outcomes
Terminated == Quiescent /\ UNCHANGED vars

Next ==
  \/ \E c \in Calls : Call(c)
  \/ \E b \in Ids : Worker(b)
  \/ Fiber
  \/ \E s \in Slots : Serve(s)
  \/ ServeStray
  \/ \E s \in Slots : Fault(s)
  \/ ForeignClaim
  \/ \E c \in Calls : Interrupt(c)
  \/ StopBegin
  \/ Terminated

Spec == Init /\ [][Next]_vars

\* Every fiber that can run is scheduled, and every request on the wire is
\* eventually answered (or fails); interruptions, faults and stray arrivals
\* may never happen.
Fairness ==
  /\ \A c \in Calls : WF_vars(Call(c))
  /\ \A b \in Ids : WF_vars(Worker(b))
  /\ WF_vars(Fiber)
  /\ \A s \in Slots : WF_vars(Serve(s))
FairSpec == Spec /\ Fairness
=============================================================================
