---------------------------- MODULE AsyncProducer ----------------------------
(***************************************************************************)
(* The Promise producer: IdempotentProducer of src/src/async-await.ts with *)
(* the parts of the coordinator (src/src/producer.ts) that behave          *)
(* differently when context.facade is set.  append is synchronous and      *)
(* returns nothing; flush, detach, close and restart are calls that wait.  *)
(* An append made while the coordinator is acquired goes through the       *)
(* promise chain `ingress`, any other is admitted at once.                 *)
(*                                                                         *)
(* Appends are numbered in the order they are called.  A batch has the     *)
(* number of its emission; entry p of the coordinator is append            *)
(* admitted[p].  autoClaim is off: a fenced batch fails.                   *)
(***************************************************************************)
EXTENDS Integers, Sequences, FiniteSets

CONSTANTS
  Flushes, Detaches, Closes, Restarts,  \* calls
  Free,                                 \* no call
  BatchSize, MaxInFlight,               \* maxBatchBytes, in entries; maxInFlight
  MaxAppends,                           \* bound: appends
  MaxFaults                             \* bound: failed requests, or an abort

Calls == Flushes \cup Detaches \cup Closes \cup Restarts
Appends == 1..MaxAppends

ASSUME AsyncAssumption ==
  /\ BatchSize \in Nat \ {0} /\ MaxInFlight \in Nat \ {0}
  /\ MaxAppends \in Nat /\ MaxFaults \in Nat
  /\ Free \notin Calls

VARIABLES
  made, stage, waits,                   \* the facade: appends, ingress, waiting
  coord, mode, admitted, emitted, epoch, nextSeq, known, through, failSeq,
  batches, refused,                     \* the coordinator and its batches
  lifecycle, released, listening, closeReq, closeResult,
  closed, finalBody, pc, mark, result,  \* the facade's calls
  sEpoch, sLast, sClosed, log,          \* the server
  faults, aborted

ingress == <<made, stage, waits>>
sequencing == <<epoch, nextSeq, known, through, failSeq>>
entries == <<admitted, emitted, refused>>
closing == <<lifecycle, released, listening, closeReq, closeResult>>
calls == <<closed, finalBody, pc, mark, result>>
server == <<sEpoch, sLast, sClosed, log>>
environment == <<faults, aborted>>
vars == <<ingress, coord, mode, entries, batches, sequencing, closing, calls, server, environment>>

NoRequest == [epoch |-> -1, seq |-> -1]
Settled == {"ok", "fail", "lost"}
Working == {"sent", "stored", "gap", "refused", "gapwait"}

Init ==
  /\ made = 0 /\ stage = [i \in Appends |-> "new"] /\ waits = {}
  /\ coord = "none" /\ mode = "open" /\ admitted = <<>> /\ emitted = 0 /\ refused = {}
  /\ batches = <<>> /\ epoch = 0 /\ nextSeq = 0
  /\ known = [q \in 0..MaxAppends |-> 0] /\ through = -1 /\ failSeq = -1
  /\ lifecycle = Free /\ released = FALSE /\ listening = TRUE
  /\ closeReq = NoRequest /\ closeResult = FALSE
  /\ closed = FALSE /\ finalBody = "unset"
  /\ pc = [c \in Calls |-> "new"] /\ mark = [c \in Calls |-> 0]
  /\ result = [c \in Calls |-> "none"]
  /\ sEpoch = 0 /\ sLast = -1 /\ sClosed = NoRequest /\ log = <<>>
  /\ faults = 0 /\ aborted = FALSE

-----------------------------------------------------------------------------
(* Admission and emission.                                                 *)

\* Entries up to p have their outcome; after an abort none stays open.
ResolvedTo(p) ==
  \/ mode = "stopped"
  \/ emitted >= p /\ \A b \in 1..Len(batches) :
                        batches[b].first <= p => batches[b].state \in Settled

InFlight_Active == {b \in 1..Len(batches) : batches[b].state \in Working}   \* mutant: as native
InFlight == {b \in 1..Len(batches) : batches[b].state \notin Settled}

\* A batch of the entries that are pending once adm is admitted.
Emit(adm) ==
  IF emitted = Len(adm)
  THEN UNCHANGED <<emitted, batches, nextSeq, known>>
  ELSE /\ emitted' = Len(adm) /\ nextSeq' = nextSeq + 1
       /\ batches' = Append(batches, [first |-> emitted + 1, last |-> Len(adm), epoch |-> epoch,
                                      seq |-> nextSeq, state |-> "queued", want |-> 0, on |-> 0])
       /\ known' = [known EXCEPT ![nextSeq] = Len(batches) + 1]

Admit(i) ==
  /\ IF mode = "open" /\ ~aborted
     THEN /\ admitted' = Append(admitted, i)
          /\ IF Len(admitted) + 1 - emitted >= BatchSize
             THEN Emit(admitted')
             ELSE UNCHANGED <<emitted, batches, nextSeq, known>>
          /\ UNCHANGED refused
     ELSE /\ refused' = refused \cup {i}
          /\ UNCHANGED <<admitted, emitted, batches, nextSeq, known>>
  /\ stage' = [stage EXCEPT ![i] = "admitted"]

\* acquire: the coordinator is there at once, unless its fiber yields.
Acquired == IF coord # "none" THEN {coord} ELSE IF aborted THEN {"failed"} ELSE {"starting", "ready"}

Direct_Always == coord' = "ready"                  \* mutant: overtakes the chain
Direct == coord' = "ready" /\ waits = {}

AppendCall ==
  /\ ~closed /\ made < MaxAppends
  /\ made' = made + 1 /\ coord' \in Acquired
  /\ IF Direct
     THEN Admit(made') /\ UNCHANGED waits
     ELSE /\ waits' = waits \cup {made'} /\ stage' = [stage EXCEPT ![made'] = "chained"]
          /\ UNCHANGED <<entries, batches, nextSeq, known>>
  /\ UNCHANGED <<mode, epoch, through, failSeq, closing, calls, server, environment>>

Started ==
  /\ coord = "starting" /\ coord' = IF aborted THEN "failed" ELSE "ready"
  /\ UNCHANGED <<ingress, mode, entries, batches, sequencing, closing, calls, server, environment>>

\* The chain: an append is admitted when all before it are through.
Ingress(i) ==
  /\ \A j \in 1..(i - 1) : stage[j] = "settled"
  /\ \/ stage[i] = "chained" /\ coord = "ready" /\ Admit(i) /\ UNCHANGED waits
     \/ /\ stage[i] = "chained" /\ coord = "failed"
        /\ stage' = [stage EXCEPT ![i] = "admitted"] /\ refused' = refused \cup {i}
        /\ UNCHANGED <<waits, admitted, emitted, batches, nextSeq, known>>
     \/ /\ stage[i] = "admitted"
        /\ stage' = [stage EXCEPT ![i] = "settled"] /\ waits' = waits \ {i}
        /\ UNCHANGED <<entries, batches, nextSeq, known>>
  /\ UNCHANGED <<made, coord, mode, epoch, through, failSeq, closing, calls, server, environment>>

Linger ==
  /\ emitted < Len(admitted) /\ mode # "stopped" /\ ~released
  /\ Emit(admitted)
  /\ UNCHANGED <<ingress, coord, mode, admitted, refused, epoch, through, failSeq, closing, calls,
                 server, environment>>

-----------------------------------------------------------------------------
(* Workers.                                                                *)

\* An entry settles with its batch; what the gaps of later ones read.
Complete(b, outcome) ==
  LET q == batches[b].seq
      done(s) == s \in DOMAIN known /\ known[s] # 0
                 /\ (known[s] = b \/ batches[known[s]].state \in Settled)
      reached == CHOOSE t \in through..MaxAppends :
                   (\A s \in (through + 1)..t : done(s)) /\ ~done(t + 1)
  IN /\ batches' = [batches EXCEPT ![b].state = outcome]
     /\ failSeq' = IF outcome = "fail" /\ (failSeq = -1 \/ q < failSeq) THEN q ELSE failSeq
     /\ through' = reached
     /\ known' = [s \in DOMAIN known |-> IF s \in (through + 1)..reached THEN 0 ELSE known[s]]

Take(b) ==
  /\ mode # "stopped" /\ ~released
  /\ batches[b].state = "queued" /\ \A a \in 1..(b - 1) : batches[a].state # "queued"
  /\ Cardinality({a \in InFlight : batches[a].state \in Working}) < MaxInFlight
  /\ batches' = [batches EXCEPT ![b].state = "sent"]
  /\ UNCHANGED sequencing

Earlier_Self(b) == batches[b].want .. batches[b].seq    \* mutant: off by one
Earlier(b) == batches[b].want .. batches[b].seq - 1

\* Wait for the first earlier batch that is open; then send again.
AwaitEarlier(b) ==
  LET open == {s \in Earlier(b) :
                 s > through /\ (known[s] = 0 \/ batches[known[s]].state \notin Settled)}
      s == CHOOSE t \in open : \A u \in open : t <= u
  IN IF open = {} THEN batches' = [batches EXCEPT ![b].state = "sent"] /\ UNCHANGED sequencing
     ELSE IF known[s] = 0 THEN Complete(b, "fail") /\ UNCHANGED <<epoch, nextSeq>>
     ELSE /\ batches' = [batches EXCEPT ![b].state = "gapwait", ![b].want = s + 1,
                                        ![b].on = known[s]]
          /\ UNCHANGED sequencing

\* mutant: a later batch that was overtaken is given up
GapIsFatal_Always(b) == TRUE
GapIsFatal(b) ==
  \/ batches[b].want >= batches[b].seq \/ batches[b].epoch # epoch
  \/ failSeq # -1 /\ failSeq < batches[b].seq

\* How the batch it waits for has ended: a failure is passed on.
Awaited(b) == batches[batches[b].on].state

Reply(b) ==
  /\ mode # "stopped" /\ ~released
  /\ \/ /\ batches[b].state \in {"stored", "refused"}
        /\ Complete(b, IF batches[b].state = "stored" THEN "ok" ELSE "fail")
        /\ UNCHANGED <<epoch, nextSeq>>
     \/ /\ batches[b].state = "gap" /\ GapIsFatal(b)
        /\ Complete(b, "fail") /\ UNCHANGED <<epoch, nextSeq>>
     \/ batches[b].state = "gap" /\ ~GapIsFatal(b) /\ AwaitEarlier(b)
     \/ batches[b].state = "gapwait" /\ Awaited(b) = "ok" /\ AwaitEarlier(b)
     \/ /\ batches[b].state = "gapwait" /\ Awaited(b) = "fail"
        /\ Complete(b, "fail") /\ UNCHANGED <<epoch, nextSeq>>

Worker ==
  /\ \E b \in 1..Len(batches) : Take(b) \/ Reply(b)
  /\ UNCHANGED <<ingress, coord, mode, entries, closing, calls, server, environment>>
-----------------------------------------------------------------------------
(* flush: drains until nothing is waiting, pending or in flight; detach,   *)
(* close and restart begin with it.                                        *)

Go(c, where) == pc' = [pc EXCEPT ![c] = where]
End(c, r) == pc' = [pc EXCEPT ![c] = "done"] /\ result' = [result EXCEPT ![c] = r]

Watch(c, upTo) == mark' = [mark EXCEPT ![c] = upTo]

StartFlush(c) == Go(c, "ingress") /\ Watch(c, made) /\ UNCHANGED result

\* How a call goes on once its flush resolved, or was rejected.
Flushed(c) == IF c \in Flushes THEN End(c, "ok")
              ELSE Go(c, IF c \in Detaches THEN "release" ELSE "acquire") /\ UNCHANGED result
FlushRejected(c) == IF c \in Detaches THEN Go(c, "release") /\ UNCHANGED result ELSE End(c, "fail")

\* close keeps the body of its first call, and none when detach came first.
FirstBody(c) == IF finalBody # "unset" THEN finalBody ELSE IF closed THEN "none" ELSE "body"

StartClosed(c) == closed \/ c \in Detaches \cup Closes

Begin(c) ==
  /\ pc[c] = "new"
  /\ IF c \in Detaches /\ closed
     THEN End(c, "ok") /\ UNCHANGED <<mark, closed, finalBody>>
     ELSE /\ StartFlush(c) /\ closed' = StartClosed(c)
          /\ finalBody' = IF c \in Closes THEN FirstBody(c) ELSE finalBody
  /\ UNCHANGED <<ingress, coord, mode, entries, batches, sequencing, closing, server, environment>>

\* The coordinator's flush: emit, then wait for every entry admitted so far.
Watermark_Next == Len(admitted) + 1                \* mutant: off by one
Watermark == Len(admitted)
Drain(c) == Emit(admitted) /\ Watch(c, Watermark)

Again == waits # {} \/ (coord = "ready" /\ mode # "stopped" /\ (emitted < Len(admitted) \/ InFlight # {}))

Looped(c) == IF Again THEN StartFlush(c)
             ELSE Flushed(c) /\ Watch(c, 0)

IngressDone(c) ==
  /\ pc[c] = "ingress" /\ \A j \in 1..mark[c] : stage[j] = "settled"
  /\ IF coord # "ready" THEN Looped(c) /\ UNCHANGED <<emitted, batches, nextSeq, known>>
     ELSE IF aborted
     THEN FlushRejected(c) /\ Watch(c, 0) /\ UNCHANGED <<emitted, batches, nextSeq, known>>
     ELSE Drain(c) /\ Go(c, "drain") /\ UNCHANGED result
  /\ UNCHANGED <<ingress, coord, mode, admitted, refused, epoch, through, failSeq, closing, closed,
                 finalBody, server, environment>>

Drained(c) ==
  /\ pc[c] = "drain" /\ ~aborted /\ ResolvedTo(mark[c])
  /\ Looped(c)
  /\ UNCHANGED <<ingress, coord, mode, entries, batches, sequencing, closing, closed, finalBody,
                 server, environment>>

-----------------------------------------------------------------------------
(* close and restart in the coordinator, under its lifecycle semaphore.    *)

Acquire(c) ==
  /\ pc[c] = "acquire" /\ coord = "none" /\ coord' \in Acquired
  /\ UNCHANGED <<ingress, mode, entries, batches, sequencing, closing, calls, server, environment>>

Unacquired(c) ==
  /\ pc[c] = "acquire" /\ coord = "failed" /\ End(c, "fail")
  /\ UNCHANGED <<ingress, coord, mode, entries, batches, sequencing, closing, closed, finalBody,
                 mark, server, environment>>

Enter(c) ==
  /\ pc[c] = "acquire" /\ coord = "ready" /\ ~aborted /\ lifecycle = Free
  /\ IF c \in Closes /\ closeResult
     THEN /\ Go(c, "release") /\ result' = [result EXCEPT ![c] = "ok"]
          /\ UNCHANGED <<lifecycle, mark, mode, emitted, batches, nextSeq, known>>
     ELSE /\ lifecycle' = c /\ mode' = IF c \in Closes THEN "closing" ELSE mode
          /\ UNCHANGED result
          /\ IF c \in Closes /\ closeReq # NoRequest
             THEN Go(c, "sending") /\ UNCHANGED <<mark, emitted, batches, nextSeq, known>>
             ELSE Drain(c) /\ Go(c, "inner")
  /\ UNCHANGED <<ingress, coord, admitted, refused, epoch, through, failSeq, released, listening,
                 closeReq, closeResult, closed, finalBody, server, environment>>

\* close makes its request, once; restart moves to the next epoch.
InnerDrained(c) ==
  /\ pc[c] = "inner" /\ ~aborted /\ ResolvedTo(mark[c]) /\ Watch(c, 0)
  /\ IF c \in Closes
     THEN /\ closeReq' = [epoch |-> epoch, seq |-> nextSeq] /\ Go(c, "sending")
          /\ UNCHANGED <<sequencing, lifecycle, result>>
     ELSE /\ epoch' = epoch + 1 /\ nextSeq' = 0 /\ through' = -1 /\ failSeq' = -1
          /\ known' = [q \in DOMAIN known |-> 0]
          /\ closeReq' = IF closeResult THEN closeReq ELSE NoRequest
          /\ lifecycle' = Free /\ End(c, "ok")
  /\ UNCHANGED <<ingress, coord, mode, entries, batches, released, listening, closeResult, closed, finalBody,
                 server, environment>>

CloseAnswered(c) ==
  /\ pc[c] = "answered" /\ ~aborted
  /\ IF result[c] = "ok" THEN nextSeq' = nextSeq + 1 /\ closeResult' = TRUE
     ELSE UNCHANGED <<nextSeq, closeResult>>
  /\ lifecycle' = Free /\ Go(c, "release")
  /\ UNCHANGED <<ingress, coord, mode, entries, batches, epoch, known, through, failSeq, released,
                 listening, closeReq, closed, finalBody, mark, result, server, environment>>

\* close and detach end in it, however they went: releaseWorkers, if there is
\* a coordinator yet, and no longer listening to the signal.
Release(c) ==
  /\ pc[c] = "release"
  /\ released' = (released \/ coord = "ready") /\ listening' = FALSE
  /\ End(c, IF c \in Detaches THEN "ok" ELSE result[c])
  /\ UNCHANGED <<ingress, coord, mode, entries, batches, sequencing, lifecycle, closeReq, closeResult,
                 closed, finalBody, mark, server, environment>>

\* A run with an aborted signal is rejected.
Rejected(c) ==
  /\ aborted
  /\ \/ pc[c] = "drain" /\ FlushRejected(c)
     \/ /\ pc[c] \in {"inner", "sending", "answered"} \/ (pc[c] = "acquire" /\ coord = "ready")
        /\ IF c \in Closes THEN Go(c, "release") /\ result' = [result EXCEPT ![c] = "fail"]
           ELSE End(c, "fail")
  /\ Watch(c, 0)
  /\ lifecycle' = IF lifecycle = c THEN Free ELSE lifecycle
  /\ UNCHANGED <<ingress, coord, mode, entries, batches, sequencing, released, listening, closeReq, closeResult,
                 closed, finalBody, server, environment>>

\* The signal closes the coordinator's scope while it still listens: its
\* finalizer stops the workers and settles what is open.
Abort ==
  /\ ~aborted /\ aborted' = TRUE /\ faults < MaxFaults /\ faults' = faults + 1
  /\ IF ~listening \/ coord # "ready" THEN UNCHANGED <<mode, batches, known>>
     ELSE /\ mode' = "stopped" /\ known' = [q \in DOMAIN known |-> 0]
          /\ batches' = [b \in 1..Len(batches) |->
                           IF batches[b].state \in Settled THEN batches[b]
                           ELSE [batches[b] EXCEPT !.state = "lost", !.want = 0, !.on = 0]]
  /\ UNCHANGED <<ingress, coord, entries, epoch, nextSeq, through, failSeq, closing, calls, server>>

Call(c) ==
  \/ IngressDone(c) \/ Drained(c) \/ Acquire(c) \/ Unacquired(c) \/ Enter(c) \/ InnerDrained(c)
  \/ CloseAnswered(c) \/ Release(c) \/ Rejected(c)

-----------------------------------------------------------------------------
(* The server and the network.                                             *)

Accepts(t) == /\ sClosed = NoRequest
              /\ \/ t.epoch > sEpoch /\ t.seq = 0
                 \/ t.epoch = sEpoch /\ t.seq = sLast + 1

Store(s, t) ==
  /\ sEpoch' = t.epoch /\ sLast' = t.seq /\ log' = Append(log, s)
  /\ sClosed' = IF s = 0 THEN t ELSE sClosed

\* What the server answers to a request it does not accept.
Refusals(t) ==
  LET rejection == [state |-> "refused", want |-> -1]
      gap(n) == [state |-> "gap", want |-> n]
  IN IF sClosed # NoRequest \/ t.epoch < sEpoch THEN {rejection}
     ELSE IF t.epoch = sEpoch THEN {gap(sLast + 1)}
     ELSE {gap(0)} \cup (IF sLast = -1 THEN {} ELSE {rejection})

Serve(b) ==
  LET t == [epoch |-> batches[b].epoch, seq |-> batches[b].seq] IN
  /\ batches[b].state = "sent" /\ mode # "stopped" /\ ~released
  /\ IF Accepts(t)
     THEN Store(b, t) /\ batches' = [batches EXCEPT ![b].state = "stored"]
     ELSE /\ \E r \in Refusals(t) :
               batches' = [batches EXCEPT ![b].state = r.state, ![b].want = r.want]
          /\ UNCHANGED server
  /\ UNCHANGED <<ingress, coord, mode, entries, sequencing, closing, calls, environment>>

ServeClose(c) ==
  /\ pc[c] = "sending" /\ ~aborted /\ Go(c, "answered")
  /\ IF Accepts(closeReq) THEN Store(0, closeReq) ELSE UNCHANGED server
  /\ result' = [result EXCEPT ![c] = IF Accepts(closeReq) \/ sClosed = closeReq THEN "ok" ELSE "fail"]
  /\ UNCHANGED <<ingress, coord, mode, entries, batches, sequencing, closing, closed, finalBody,
                 mark, environment>>

\* A request is lost, rejected, or its answer is lost.
Fault ==
  /\ faults < MaxFaults /\ faults' = faults + 1
  /\ \/ /\ \E b \in 1..Len(batches) : /\ batches[b].state \in {"sent", "stored"}
                                       /\ batches' = [batches EXCEPT ![b].state = "refused"]
        /\ UNCHANGED <<pc, result>>
     \/ /\ \E c \in Closes : /\ pc[c] \in {"sending", "answered"} /\ Go(c, "answered")
                             /\ result' = [result EXCEPT ![c] = "fail"]
        /\ UNCHANGED batches
  /\ UNCHANGED <<ingress, coord, mode, entries, sequencing, closing, closed, finalBody, mark,
                 server, aborted>>

-----------------------------------------------------------------------------
Answering == \/ \E b \in 1..Len(batches) : Serve(b)
             \/ \E c \in Closes : ServeClose(c)
Client == Started \/ Worker \/ Linger \/ \E i \in Appends : Ingress(i)

Next ==
  \/ AppendCall \/ Client \/ Answering \/ Fault \/ Abort
  \/ \E c \in Calls : Begin(c) \/ Call(c)

Spec == Init /\ [][Next]_vars

(* Promises and fibers run on, and requests are answered; nobody has to    *)
(* call, to abort or to fail.                                              *)
FairSpec ==
  /\ Spec /\ WF_vars(Started) /\ WF_vars(Worker) /\ WF_vars(Answering)
  /\ WF_vars(\E i \in Appends : Ingress(i))
  /\ \A c \in Calls : WF_vars(Call(c))

-----------------------------------------------------------------------------
(* Properties.                                                             *)

(* Every variable stays in its range. *)
AsyncTypeOK ==
  /\ made \in 0..MaxAppends /\ waits \subseteq Appends
  /\ stage \in [Appends -> {"new", "chained", "admitted", "settled"}]
  /\ coord \in {"none", "starting", "ready", "failed"} /\ mode \in {"open", "closing", "stopped"}
  /\ admitted \in Seq(Appends) /\ emitted \in 0..Len(admitted) /\ refused \subseteq Appends
  /\ batches \in Seq([first : Nat, last : Nat, epoch : Nat, seq : Nat, want : Int, on : Nat,
                      state : Settled \cup Working \cup {"queued"}])
  /\ epoch \in Nat /\ nextSeq \in Nat /\ through \in Int /\ failSeq \in Int
  /\ known \in [0..MaxAppends -> 0..Len(batches)]
  /\ lifecycle \in Calls \cup {Free} /\ closeResult \in BOOLEAN
  /\ released \in BOOLEAN /\ listening \in BOOLEAN
  /\ closeReq \in [epoch : Int, seq : Int] /\ sClosed \in [epoch : Int, seq : Int]
  /\ closed \in BOOLEAN /\ finalBody \in {"unset", "none", "body"}
  /\ pc \in [Calls -> {"new", "ingress", "drain", "acquire", "inner", "sending", "answered",
                       "release", "done"}]
  /\ mark \in [Calls -> 0..made]
  /\ result \in [Calls -> {"none", "ok", "fail"}]
  /\ sEpoch \in Nat /\ sLast \in Int /\ log \in Seq(0..Len(batches))
  /\ faults \in Nat /\ aborted \in BOOLEAN

(* The append with its outcome: refused, or its entry is settled.          *)
Ended(i) ==
  i \in refused \/ \E p \in 1..Len(admitted) : admitted[p] = i /\ ResolvedTo(p)

(* What is stored is stored in the order the appends were called, whether  *)
(* they were admitted at once or through the chain, batches overtook each  *)
(* other or an epoch was restarted; and nothing follows the close.         *)
LogInCallOrder ==
  /\ \A i, j \in 1..Len(log) : i < j => log[i] # 0 /\ (log[j] # 0 => log[i] < log[j])
  /\ \A p, q \in 1..Len(admitted) : p < q => admitted[p] < admitted[q]

Flushing == {"ingress", "drain"}

(* A flush that resolves, and a close that is stored, leave no append      *)
(* behind: all that were called before that moment have their outcome, those *)
(* called while the flush was draining included.                           *)
FlushLeavesNothing ==
  [][ /\ \A c \in Calls : pc[c] \in Flushing /\ pc'[c] \notin Flushing /\ ~aborted
                           => \A i \in 1..made : Ended(i)
      /\ sClosed' # sClosed => \A i \in 1..made : Ended(i)]_vars

(* Pipelining, repeated and mixed calls of flush, detach and close fail    *)
(* nothing: without a failed request, an abort or a restart no append      *)
(* fails, and none is refused once append has returned.                    *)
CallsAreHarmless ==
  faults = 0 /\ epoch = 0 =>
     refused = {} /\ \A b \in 1..Len(batches) : batches[b].state # "fail"

(* Every call returns: workers are not released while a batch needs one.   *)
AsyncCallsReturn == []<>(\A c \in Calls : pc[c] \in {"new", "done"})
=============================================================================
