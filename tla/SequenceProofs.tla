--------------------------- MODULE SequenceProofs ---------------------------
(***************************************************************************)
(* No two bodies are ever sent under the same (epoch, sequence) pair, and  *)
(* the pair only moves forward, for every workload, fault, interruption    *)
(* and finalization, except in the two settings that runs refute: another  *)
(* writer of the producer id met with autoClaim, and restart used together *)
(* with close.                                                             *)
(*                                                                         *)
(* The invariant is proved in layers, each with the help of those before   *)
(* it: batches are disjoint intervals of the admitted entries (BatchInv);  *)
(* a close that has its tuple has nothing left to wait for (CloseInv);     *)
(* until the claim has succeeded only its own batch has a tuple (ClaimInv);*)
(* every tuple given out lies below the next one (NameInv).                *)
(***************************************************************************)
EXTENDS ProducerProofs

-----------------------------------------------------------------------------
(* What a worker's step does to its batch, whichever action it is. *)

InFlight == {"sent", "replied", "gapwait"}

WorkerKeeps ==
  UNCHANGED <<admission, claiming, from, first, closing, calls, server, environment>>
\* The batch goes to another phase, and nothing else happens to it.
Moved(b, l) ==
  /\ phase' = [phase EXCEPT ![b] = l]
  /\ \/ l = "claimwait" /\ phase[b] = "queued" /\ ~claimed /\ ~first[b]
     \/ /\ l \in {"sent", "gapwait"}
        /\ phase[b] = "gapwait" \/ Replied(b, {"gap"})
     \/ l = "dead" /\ phase[b] \in Working /\ scope = "closing"
  /\ strays' = IF l = "dead" THEN Abandoned(b) ELSE strays
  /\ UNCHANGED <<epoch, nextSeq, tuple, claimed, claim, req, reply, settled>>
\* It is sent for the first time.
Started(b) ==
  /\ phase[b] \in {"queued", "claimwait"}
  /\ claimed \/ first[b] \/ claim = "ok"
  /\ phase' = [phase EXCEPT ![b] = "sent"]
  /\ \/ /\ tuple[b] # NoTuple /\ UNCHANGED <<tuple, nextSeq>>
        /\ req' = [req EXCEPT ![b] = tuple[b]]
     \/ /\ tuple[b] = NoTuple /\ Reserve(b)
        /\ req' = [req EXCEPT ![b] = [epoch |-> epoch, seq |-> nextSeq]]
  /\ UNCHANGED <<epoch, claimed, claim, reply, settled, strays>>
\* It is settled.
Settled(b, out) ==
  /\ phase[b] \in Working \cup {"queued"}
  /\ Finish(b, out)
  /\ \/ out = "ok" /\ Replied(b, Success) /\ offset' = RecordedOffset(b)
     \/ out \in Failures /\ offset' = offset
  /\ UNCHANGED <<epoch, req, reply, strays>>
\* It is sent again as the first of the next epoch.
Reclaimed(b) ==
  /\ Replied(b, {"fenced"}) /\ AutoClaim
  /\ epoch' = reply[b].num + 1 /\ nextSeq' = 1
  /\ req' = [req EXCEPT ![b] = [epoch |-> epoch', seq |-> 0]]
  /\ phase' = [phase EXCEPT ![b] = "sent"]
  /\ UNCHANGED <<tuple, claimed, claim, reply, settled, strays>>

LEMMA StartShape ==
  ASSUME NEW b \in Ids, Start(b), phase[b] \in {"queued", "claimwait"},
         claimed \/ first[b] \/ claim = "ok", UNCHANGED <<epoch, reply, offset, strays>>
  PROVE  Started(b) \/ Settled(b, "fail")
  <1>1. CASE Finish(b, "fail") /\ UNCHANGED req
    BY <1>1 DEF Settled, Working, Failures
  <1>2. CASE ~(Finish(b, "fail") /\ UNCHANGED req)
    BY <1>2 DEF Started, Start, settled
  <1> QED
    BY <1>1, <1>2

LEMMA AwaitShape ==
  ASSUME NEW b \in Ids, NEW p, AwaitFrom(b, p), phase[b] = "gapwait" \/ Replied(b, {"gap"}),
         UNCHANGED <<epoch, req, reply, offset, strays>>
  PROVE  Settled(b, "fail") \/ \E l \in Phases : Moved(b, l)
  <1>1. "sent" \in Phases /\ "gapwait" \in Phases
    BY DEF Phases, Working
  <1>2. phase[b] \in Working
    BY DEF Replied, Working
  <1>3. CASE Finish(b, "fail")
    BY <1>2, <1>3 DEF Settled, Failures
  <1>4. CASE \E l \in {"sent", "gapwait"} : phase' = [phase EXCEPT ![b] = l] /\ NotFinished
    BY <1>1, <1>4 DEF Moved, NotFinished, settled
  <1> QED
    BY <1>3, <1>4 DEF AwaitFrom, Missing

LEMMA WorkerShape ==
  ASSUME TypeInv, NEW b \in Ids, Worker(b)
  PROVE  /\ WorkerKeeps
         /\ \/ Started(b) \/ Reclaimed(b)
            \/ \E out \in Outcomes : Settled(b, out)
            \/ \E l \in Phases : Moved(b, l)
  <1> DEFINE Shape == \/ Started(b) \/ Reclaimed(b)
                      \/ \E out \in Outcomes : Settled(b, out)
                      \/ \E l \in Phases : Moved(b, l)
  <1>1. WorkerKeeps
    BY DEF WorkerKeeps, Worker, Take, Claimed, Delivered, Rejected, Fenced, Gap, GapFilled,
       WorkerStopped, claims, requests
  <1>2. "ok" \in Outcomes /\ \A out \in Failures : out \in Outcomes
    BY DEF Outcomes
  <1>3. "fail" \in Failures /\ Outcomes = {"ok"} \cup Failures
    BY DEF Outcomes, Failures
  <1>4. ASSUME Take(b) PROVE Shape
    <2>1. CASE claimed \/ first[b]
      BY <1>2, <1>3, <1>4, <2>1, StartShape DEF Take
    <2>2. CASE ~(claimed \/ first[b])
      BY <1>4, <2>2 DEF Take, Moved, NotFinished, settled, Phases, Working
    <2> QED
      BY <2>1, <2>2
  <1>5. ASSUME Claimed(b) PROVE Shape
    <2>1. CASE claim = "ok"
      BY <1>2, <1>3, <1>5, <2>1, StartShape DEF Claimed
    <2>2. CASE claim # "ok"
      <3>1. claim \in Failures
        BY <1>3, <1>5, <2>2 DEF Claimed, TypeInv, TypeOK, ClaimType
      <3>2. Settled(b, claim)
        BY <1>5, <2>2, <3>1 DEF Claimed, Settled, Working
      <3> QED
        BY <1>2, <3>1, <3>2
    <2> QED
      BY <2>1, <2>2
  <1>6. ASSUME Delivered(b) PROVE Shape
    BY <1>2, <1>6 DEF Delivered, Settled, Replied, Working
  <1>7. ASSUME Rejected(b) PROVE Shape
    BY <1>2, <1>3, <1>7 DEF Rejected, Settled, Replied, Working
  <1>8. ASSUME Fenced(b) PROVE Shape
    <2>1. CASE AutoClaim /\ EpochLeft(reply[b].num)
      BY <1>8, <2>1, NumbersAreNat, NextEpochIsExact DEF Fenced, Reclaimed, AfterClaim, Slots, Ids, settled
    <2>2. CASE ~(AutoClaim /\ EpochLeft(reply[b].num))
      BY <1>2, <1>3, <1>8, <2>2 DEF Fenced, Settled, Replied, Working
    <2> QED
      BY <2>1, <2>2
  <1>9. ASSUME Gap(b) PROVE Shape
    <2>0. /\ UNCHANGED <<epoch, req, reply, offset, strays>> /\ Replied(b, {"gap"})
          /\ phase[b] \in Working
      BY <1>9 DEF Gap, Replied, Working
    <2>1. CASE Finish(b, "fail")
      BY <1>2, <1>3, <2>0, <2>1 DEF Settled
    <2>2. CASE failure # NoFailure /\ Finish(b, failure.out)
      <3>1. failure.out \in Failures
        BY <2>2 DEF TypeInv, TypeOK, SequencingType
      <3> QED
        BY <1>2, <2>0, <2>2, <3>1 DEF Settled
    <2>3. CASE AwaitFrom(b, reply[b].num)
      BY <1>2, <1>3, <2>0, <2>3, AwaitShape
    <2> QED
      BY <1>9, <2>1, <2>2, <2>3 DEF Gap
  <1>10. ASSUME GapFilled(b) PROVE Shape
    <2>0. /\ UNCHANGED <<epoch, req, reply, offset, strays>> /\ phase[b] = "gapwait"
          /\ phase[b] \in Working /\ phase[waitFor[b]] \in Outcomes
      BY <1>10 DEF GapFilled, Working
    <2>1. CASE phase[waitFor[b]] = "ok"
      BY <1>2, <1>3, <1>10, <2>0, <2>1, AwaitShape DEF GapFilled
    <2>2. CASE phase[waitFor[b]] # "ok"
      BY <1>3, <1>10, <2>0, <2>2 DEF GapFilled, Settled
    <2> QED
      BY <2>1, <2>2
  <1>11. ASSUME WorkerStopped(b) PROVE Shape
    BY <1>11 DEF WorkerStopped, Moved, sequencing, claims, Phases
  <1> QED
    BY <1>1, <1>4, <1>5, <1>6, <1>7, <1>8, <1>9, <1>10, <1>11 DEF Worker

-----------------------------------------------------------------------------
(* What every other step does to the batches. *)

EmittedAdmitted == emitted <= id /\ (timer => emitted < id)

batchState == <<from, first, tuple, receipt, firstFailure, claimed, claiming, claim>>
Quiet ==
  /\ UNCHANGED <<id, emitted, timer, batchState>>
  /\ \A b \in Ids : phase'[b] = phase[b] /\ req'[b] = req[b] /\ reply'[b] = reply[b]
\* A value is admitted and stays pending, or the linger fiber is stopped.
Pending ==
  /\ (id' = id + 1 /\ timer' \in BOOLEAN) \/ (id' = id /\ timer' = FALSE)
  /\ UNCHANGED <<emitted, batchState, phase, req, reply>>
\* Everything pending becomes a batch.
Emitted(last) ==
  /\ last > emitted /\ id' = last /\ id' \in {id, id + 1}
  /\ \E by : Emit(last, by)
  /\ UNCHANGED <<epoch, receipt, firstFailure, claimed, claim, req, reply>>
\* The request of a batch is answered, or fails.
Answered(b) ==
  /\ phase[b] \in {"sent", "replied"} /\ phase' = [phase EXCEPT ![b] = "replied"]
  /\ UNCHANGED <<id, emitted, timer, batchState, req>>
\* A blocked offer ends: the batch is queued, or its emitter is interrupted.
OfferEnds(b) ==
  /\ phase[b] = "offer"
  /\ \/ phase' = [phase EXCEPT ![b] = "queued"] /\ UNCHANGED <<receipt, firstFailure>>
     \/ Complete(b, "int", sequences)
  /\ UNCHANGED <<id, emitted, timer, from, first, tuple, claimed, claiming, claim, req, reply>>

LEMMA CallShape ==
  ASSUME TypeInv, EmittedAdmitted, NEW c \in Calls, Call(c)
  PROVE  Quiet \/ Pending \/ \E last \in Ids : Emitted(last)
  <1>0. /\ phase \in [Slots -> Phases] /\ req \in [Slots -> Tuple]
        /\ id \in 0..MaxEntries /\ emitted \in 0..MaxEntries
        /\ \A b \in Ids : b # 0 /\ b \in Slots
    BY OptionsAssumption DEF TypeInv, TypeOK, RequestType, AdmissionType, Ids, Slots
  <1>1. CASE \/ BeginAppend(c) \/ Receive(c) \/ EndSource(c) \/ EndFlush(c)
             \/ BeginDetach(c) \/ BeginRestart(c) \/ ShutAdmission(c)
             \/ BeginClose(c) \/ Stopped(c)
    <2>1. /\ UNCHANGED <<id, emitted, timer, sequencing, claims, requests, settled>>
      BY <1>1 DEF BeginAppend, Receive, EndSource, EndFlush, BeginDetach, BeginRestart,
         ShutAdmission, BeginClose, Stopped
    <2> QED
      BY <2>1 DEF Quiet, batchState, sequencing, claims, requests, settled
  <1>2. CASE FinishRestart(c)
    BY <1>2 DEF FinishRestart, Quiet, batchState, claims, requests, settled
  <1>3. CASE SendClose(c) \/ CloseAnswered(c) \/ CloseStopped(c)
    <2>1. UNCHANGED <<id, emitted, timer, tuple, claims, from, first, reply, receipt, firstFailure>>
      BY <1>3 DEF SendClose, CloseAnswered, CloseStopped, sequencing, settled
    <2>2. /\ UNCHANGED phase \/ \E l : phase' = [phase EXCEPT ![0] = l]
          /\ UNCHANGED req \/ \E t : req' = [req EXCEPT ![0] = t]
      BY <1>3 DEF SendClose, CloseAnswered, CloseStopped
    <2>3. \A b \in Ids : phase'[b] = phase[b] /\ req'[b] = req[b]
      BY <1>0, <2>2
    <2> QED
      BY <2>1, <2>3 DEF Quiet, batchState, claims
  <1>4. CASE Admit(c)
    <2>1. UNCHANGED <<epoch, receipt, firstFailure, claimed, claim, req, reply>>
      BY <1>4 DEF Admit, settled
    <2>2. CASE NothingEmitted /\ UNCHANGED id
      BY <2>1, <2>2 DEF NothingEmitted, Quiet, batchState
    <2>3. CASE id < MaxEntries /\ id' = id + 1 /\ Emit(id + 1, c)
      <3>1. id + 1 \in Ids /\ id + 1 > emitted
        BY <1>0, <2>3, OptionsAssumption DEF Ids, EmittedAdmitted
      <3>2. Emitted(id + 1)
        BY <2>1, <2>3, <3>1 DEF Emitted
      <3> QED
        BY <3>1, <3>2
    <2>4. CASE id' = id + 1 /\ timer' = (scope = "live")
               /\ UNCHANGED <<from, emitted, first, claiming, tuple, sequences, nextSeq,
                              phase, mutex>>
      <3>1. timer' \in BOOLEAN
        BY <2>4, Zenon
      <3>2. id' = id + 1 /\ UNCHANGED <<from, emitted, first, claiming, tuple, phase>>
        BY <2>4, Zenon
      <3> QED
        BY <2>1, <3>1, <3>2 DEF Pending, batchState
    <2> QED
      BY <1>4, <2>2, <2>3, <2>4 DEF Admit
  <1>5. CASE Flush(c)
    <2>1. /\ UNCHANGED <<id, epoch, receipt, firstFailure, claimed, claim, req, reply>>
      BY <1>5 DEF Flush, settled
    <2>2. CASE NothingEmitted
      BY <2>1, <2>2 DEF NothingEmitted, Quiet, batchState
    <2>3. CASE emitted < id /\ Emit(id, c)
      <3>1. id \in Ids /\ id > emitted
        BY <1>0, <2>3 DEF Ids
      <3>2. Emitted(id)
        BY <2>1, <2>3, <3>1 DEF Emitted
      <3> QED
        BY <3>1, <3>2
    <2> QED
      BY <1>5, <2>2, <2>3 DEF Flush
  <1> QED
    BY <1>1, <1>2, <1>3, <1>4, <1>5 DEF Call

LEMMA OtherShape ==
  ASSUME TypeInv, EmittedAdmitted,
         \/ Fiber \/ \E s \in Slots : Serve(s) \/ Fault(s)
         \/ ServeStray \/ ForeignClaim \/ StopBegin \/ UNCHANGED vars
         \/ \E c \in Calls : Interrupt(c)
  PROVE  \/ Quiet \/ Pending \/ StopEnd \/ \E last \in Ids : Emitted(last)
         \/ \E b \in Ids : Answered(b) \/ OfferEnds(b)
  <1>0. /\ phase \in [Slots -> Phases] /\ req \in [Slots -> Tuple] /\ reply \in [Slots -> Answer]
        /\ id \in 0..MaxEntries /\ emitted \in 0..MaxEntries
        /\ \A b \in Ids : b # 0 /\ b \in Slots
        /\ Slots = Ids \cup {0}
    BY OptionsAssumption DEF TypeInv, TypeOK, RequestType, AdmissionType, Ids, Slots
  <1>1. CASE Linger
    <2>1. id \in Ids /\ id > emitted
      BY <1>0, <1>1 DEF Ids, Linger, EmittedAdmitted
    <2>2. Emitted(id)
      BY <1>1, <2>1 DEF Emitted, Linger, settled
    <2> QED
      BY <2>1, <2>2
  <1>2. CASE Offered
    <2>1. UNCHANGED <<id, emitted, timer, from, first, tuple, claims, req, reply, receipt, firstFailure>>
      BY <1>2 DEF Offered, sequencing, settled
    <2>2. CASE UNCHANGED phase
      BY <2>1, <2>2 DEF Quiet, batchState, claims
    <2>3. ASSUME NEW b \in Ids, phase[b] = "offer", phase' = [phase EXCEPT ![b] = "queued"]
          PROVE  OfferEnds(b)
      BY <2>1, <2>3 DEF OfferEnds, claims
    <2> QED
      BY <1>2, <2>2, <2>3 DEF Offered
  <1>3. CASE LingerStopped
    <2>1. UNCHANGED <<id, emitted, from, first, tuple, claims, req, reply>>
      BY <1>3 DEF LingerStopped
    <2>2. CASE timer' = FALSE /\ UNCHANGED <<phase, receipt, firstFailure>>
      BY <2>1, <2>2 DEF Pending, batchState, claims
    <2>3. CASE UNCHANGED timer /\ \E b \in Ids : phase[b] = "offer" /\ Complete(b, "int", sequences)
      BY <2>1, <2>3 DEF OfferEnds, claims
    <2> QED
      BY <1>3, <2>2, <2>3 DEF LingerStopped
  <1>4. ASSUME NEW s \in Slots, Serve(s) \/ Fault(s)
        PROVE  Quiet \/ \E b \in Ids : Answered(b)
    <2>1. /\ UNCHANGED <<id, emitted, timer, tuple, claims, from, first, req, receipt, firstFailure>>
          /\ phase[s] \in {"sent", "replied"} /\ phase' = [phase EXCEPT ![s] = "replied"]
          /\ UNCHANGED reply \/ \E r : reply' = [reply EXCEPT ![s] = r]
      BY <1>4 DEF Serve, Fault, admission, sequencing, settled
    <2>2. CASE s = 0
      <3>1. \A b \in Ids : phase'[b] = phase[b] /\ reply'[b] = reply[b]
        BY <1>0, <2>1, <2>2
      <3> QED
        BY <2>1, <3>1 DEF Quiet, batchState, claims
    <2>3. CASE s \in Ids
      BY <2>1, <2>3 DEF Answered, batchState, claims
    <2> QED
      BY <1>0, <2>2, <2>3
  <1>5. CASE ServeStray \/ ForeignClaim \/ StopBegin \/ UNCHANGED vars
    <2>1. UNCHANGED <<id, emitted, timer, sequencing, claims, requests, settled>>
      BY <1>5 DEF ServeStray, ForeignClaim, StopBegin, vars, admission
    <2> QED
      BY <2>1 DEF Quiet, batchState, sequencing, claims, requests, settled
  <1>6. ASSUME NEW c \in Calls, Interrupt(c)
        PROVE  Quiet \/ \E b \in Ids : OfferEnds(b)
    <2>1. UNCHANGED <<id, emitted, timer, from, first, tuple, claims, req, reply>>
      BY <1>6 DEF Interrupt
    <2>2. CASE UNCHANGED <<phase, receipt, firstFailure>>
      BY <2>1, <2>2 DEF Quiet, batchState, claims
    <2>3. CASE \E b \in Ids : phase[b] = "offer" /\ Complete(b, "int", sequences)
      BY <2>1, <2>3 DEF OfferEnds, claims
    <2>4. CASE phase' = [phase EXCEPT ![0] = "none"] /\ UNCHANGED <<receipt, firstFailure>>
      <3>1. \A b \in Ids : phase'[b] = phase[b]
        BY <1>0, <2>4
      <3> QED
        BY <2>1, <2>4, <3>1 DEF Quiet, batchState, claims
    <2> QED
      BY <1>6, <2>2, <2>3, <2>4 DEF Interrupt
  <1> QED
    BY <1>1, <1>2, <1>3, <1>4, <1>5, <1>6 DEF Fiber

-----------------------------------------------------------------------------
(* Batches are disjoint intervals, and what is pending is untouched. *)

\* Nothing pending has been part of a batch.
PendingUntouched ==
  \A b \in Ids : b > emitted =>
     /\ phase[b] = "none" /\ receipt[b] = "open" /\ from[b] = 0
     /\ tuple[b] = NoTuple /\ req[b] = NoTuple /\ first[b] = FALSE
BatchesApart ==
  \A b \in Ids : /\ from[b] <= b
                 /\ \A c \in Ids : b < c /\ from[b] # 0 /\ from[c] # 0 => b < from[c]
\* A batch in progress holds the receipts of all its entries.
UnsettledOpen ==
  \A b \in Ids : phase[b] \in Active =>
     from[b] # 0 /\ \A e \in Ids : e \in Entries(b) => receipt[e] = "open"
UnsentUnnamed ==
  \A b \in Ids : phase[b] \in {"none", "offer", "queued", "claimwait"} => req[b] = NoTuple
BatchInv ==
  /\ EmittedAdmitted /\ PendingUntouched /\ BatchesApart /\ UnsettledOpen /\ UnsentUnnamed

LEMMA BatchTypes ==
  ASSUME TypeInv
  PROVE  /\ phase \in [Slots -> Phases] /\ req \in [Slots -> Tuple] /\ reply \in [Slots -> Answer]
         /\ from \in [Ids -> Nat] /\ first \in [Ids -> BOOLEAN] /\ tuple \in [Ids -> Tuple]
         /\ receipt \in [Ids -> Outcomes \cup {"open"}]
         /\ id \in Nat /\ emitted \in Nat /\ epoch \in Nat /\ nextSeq \in Nat
         /\ id <= MaxEntries /\ emitted <= MaxEntries
         /\ Slots = Ids \cup {0} /\ \A b \in Ids : b \in Nat /\ b # 0 /\ b \in Slots
  BY OptionsAssumption
     DEF TypeInv, TypeOK, RequestType, AdmissionType, SequencingType, SettledType, Ids, Slots

\* Settling a batch leaves the entries of every other batch alone.
LEMMA CompleteBatches ==
  ASSUME TypeInv, BatchInv, NEW b \in Ids, NEW out \in Outcomes, NEW seqs,
         phase[b] \in Active, Complete(b, out, seqs),
         UNCHANGED <<id, emitted, timer, from, first, req>>,
         \A c \in Ids : c > emitted => tuple'[c] = tuple[c]
  PROVE  BatchInv'
  <1>0. /\ phase' = [phase EXCEPT ![b] = out]
        /\ receipt' = [e \in Ids |-> IF e \in from[b]..b /\ receipt[e] = "open"
                                     THEN out ELSE receipt[e]]
    BY DEF Complete, Entries
  <1>1. b <= emitted /\ from[b] # 0
    BY BatchTypes DEF BatchInv, PendingUntouched, UnsettledOpen, Active, Working
  <1>2. EmittedAdmitted' /\ BatchesApart'
    BY DEF BatchInv, EmittedAdmitted, BatchesApart
  <1>3. PendingUntouched'
    <2> SUFFICES ASSUME NEW c \in Ids, c > emitted
                 PROVE  /\ phase'[c] = "none" /\ receipt'[c] = "open" /\ from'[c] = 0
                        /\ tuple'[c] = NoTuple /\ req'[c] = NoTuple /\ first'[c] = FALSE
      BY DEF PendingUntouched
    <2>1. c # b /\ c \notin from[b]..b
      BY <1>1, BatchTypes
    <2> QED
      BY <1>0, <2>1, BatchTypes DEF BatchInv, PendingUntouched
  <1>4. UnsettledOpen'
    <2> SUFFICES ASSUME NEW c \in Ids, phase'[c] \in Active
                 PROVE  from[c] # 0 /\ \A e \in Ids : e \in from[c]..c => receipt'[e] = "open"
      BY DEF UnsettledOpen, Entries
    <2>1. c # b /\ phase[c] \in Active
      BY <1>0, BatchTypes DEF Active, Working, Outcomes, Failures
    <2>2. from[c] # 0 /\ \A e \in Ids : e \in from[c]..c => receipt[e] = "open"
      BY <2>1 DEF BatchInv, UnsettledOpen, Entries
    <2>3. b < from[c] \/ c < from[b]
      BY <1>1, <2>1, <2>2, BatchTypes DEF BatchInv, BatchesApart
    <2>4. \A e \in Ids : e \in from[c]..c => e \notin from[b]..b
      BY <2>3, BatchTypes
    <2> QED
      BY <1>0, <2>2, <2>4
  <1>5. UnsentUnnamed'
    BY <1>0, BatchTypes DEF BatchInv, UnsentUnnamed, Outcomes, Failures
  <1> QED
    BY <1>2, <1>3, <1>4, <1>5 DEF BatchInv

\* Batches that at most move on, or are sent, keep what they hold.
LEMMA ProgressBatches ==
  ASSUME TypeInv, BatchInv, UNCHANGED <<id, emitted, timer, from, first, receipt>>,
         \A c \in Ids : c > emitted => /\ phase'[c] = phase[c]
                                       /\ tuple'[c] = tuple[c] /\ req'[c] = req[c],
         \A c \in Ids : phase'[c] \in Active => phase[c] \in Active,
         \A c \in Ids : phase'[c] \in {"none", "offer", "queued", "claimwait"} =>
            req'[c] = req[c] /\ phase[c] \in {"none", "offer", "queued", "claimwait"}
  PROVE  BatchInv'
  <1>1. EmittedAdmitted' /\ BatchesApart'
    BY DEF BatchInv, EmittedAdmitted, BatchesApart
  <1>2. PendingUntouched'
    BY DEF BatchInv, PendingUntouched
  <1>3. UnsettledOpen'
    BY DEF BatchInv, UnsettledOpen, Entries
  <1>4. UnsentUnnamed'
    BY DEF BatchInv, UnsentUnnamed
  <1> QED
    BY <1>1, <1>2, <1>3, <1>4 DEF BatchInv

LEMMA EmitBatches ==
  ASSUME TypeInv, BatchInv, NEW last \in Ids, Emitted(last)
  PROVE  BatchInv'
  <1>1. /\ from' = [from EXCEPT ![last] = emitted + 1] /\ emitted' = last /\ timer' = FALSE
        /\ \E f : first' = [first EXCEPT ![last] = f]
        /\ UNCHANGED tuple \/ \E t : tuple' = [tuple EXCEPT ![last] = t]
        /\ \E l \in {"offer", "queued"} : phase' = [phase EXCEPT ![last] = l]
        /\ UNCHANGED <<receipt, req>> /\ id' = last /\ last > emitted
    BY DEF Emitted, Emit, Reserve
  <1>2. EmittedAdmitted'
    BY <1>1, BatchTypes DEF EmittedAdmitted
  <1>3. PendingUntouched'
    BY <1>1, BatchTypes DEF BatchInv, PendingUntouched
  <1>4. BatchesApart'
    <2>1. \A b \in Ids : from'[b] <= b
      BY <1>1, BatchTypes DEF BatchInv, BatchesApart
    <2>2. \A b \in Ids : b # last => from'[b] = from[b]
      BY <1>1, BatchTypes
    <2>3. \A b \in Ids : b > emitted => from[b] = 0
      BY DEF BatchInv, PendingUntouched
    <2>4. from'[last] = emitted + 1
      BY <1>1, BatchTypes
    <2>5. ASSUME NEW b \in Ids, NEW c \in Ids, b < c, from'[b] # 0, from'[c] # 0
          PROVE  b < from'[c]
      <3>1. CASE c = last
        BY <1>1, <2>2, <2>3, <2>4, <2>5, <3>1, BatchTypes
      <3>2. CASE b = last
        BY <1>1, <2>2, <2>3, <2>5, <3>2, BatchTypes
      <3>3. CASE b # last /\ c # last
        BY <2>2, <2>5, <3>3 DEF BatchInv, BatchesApart
      <3> QED
        BY <3>1, <3>2, <3>3
    <2> QED
      BY <2>1, <2>5 DEF BatchesApart
  <1>5. UnsettledOpen'
    <2> SUFFICES ASSUME NEW c \in Ids, phase'[c] \in Active
                 PROVE  from'[c] # 0 /\ \A e \in Ids : e \in from'[c]..c => receipt[e] = "open"
      BY <1>1 DEF UnsettledOpen, Entries
    <2>1. CASE c = last
      <3>1. from'[c] = emitted + 1
        BY <1>1, <2>1, BatchTypes
      <3>2. \A e \in Ids : e > emitted => receipt[e] = "open"
        BY DEF BatchInv, PendingUntouched
      <3> QED
        BY <3>1, <3>2, BatchTypes
    <2>2. CASE c # last
      <3>1. from'[c] = from[c] /\ phase'[c] = phase[c]
        BY <1>1, <2>2, BatchTypes
      <3> QED
        BY <3>1 DEF BatchInv, UnsettledOpen, Entries
    <2> QED
      BY <2>1, <2>2
  <1>6. UnsentUnnamed'
    <2>1. req[last] = NoTuple
      BY <1>1 DEF BatchInv, PendingUntouched
    <2> QED
      BY <1>1, <2>1, BatchTypes DEF BatchInv, UnsentUnnamed
  <1> QED
    BY <1>2, <1>3, <1>4, <1>5, <1>6 DEF BatchInv

LEMMA WorkerBatches ==
  ASSUME TypeInv, BatchInv, NEW b \in Ids, Worker(b)
  PROVE  BatchInv'
  <1>0. /\ UNCHANGED <<id, emitted, timer, from, first>>
        /\ \A c \in Ids : c > emitted => phase[c] = "none"
    BY WorkerShape DEF WorkerKeeps, admission, BatchInv, PendingUntouched
  <1>1. CASE Started(b)
    <2>1. /\ phase' = [phase EXCEPT ![b] = "sent"] /\ phase[b] \in {"queued", "claimwait"}
          /\ UNCHANGED tuple \/ \E t : tuple' = [tuple EXCEPT ![b] = t]
          /\ \E t : req' = [req EXCEPT ![b] = t]
          /\ UNCHANGED receipt
      BY <1>1 DEF Started, Reserve, settled
    <2>2. b <= emitted
      BY <1>0, <2>1, BatchTypes
    <2> QED
      BY <1>0, <2>1, <2>2, BatchTypes, ProgressBatches DEF Active, Working
  <1>2. CASE Reclaimed(b)
    <2>1. /\ phase' = [phase EXCEPT ![b] = "sent"] /\ phase[b] = "replied"
          /\ \E t : req' = [req EXCEPT ![b] = t]
          /\ UNCHANGED <<receipt, tuple>>
      BY <1>2 DEF Reclaimed, Replied, settled
    <2>2. b <= emitted
      BY <1>0, <2>1, BatchTypes
    <2> QED
      BY <1>0, <2>1, <2>2, BatchTypes, ProgressBatches DEF Active, Working
  <1>3. ASSUME NEW out \in Outcomes, Settled(b, out)
        PROVE  BatchInv'
    <2>1. phase[b] \in Active /\ UNCHANGED req
      BY <1>3 DEF Settled, Active
    <2>2. \E seqs : Complete(b, out, seqs)
      BY <1>3 DEF Settled, Finish
    <2>3. \A c \in Ids : c > emitted => tuple'[c] = tuple[c]
      <3>1. \A c \in Ids : c > emitted => c \notin Held
        BY <1>0 DEF Held
      <3>2. UNCHANGED tuple \/ ReserveHeld
        BY <1>3 DEF Settled, Finish
      <3> QED
        BY <3>1, <3>2 DEF ReserveHeld
    <2> QED
      BY <1>0, <2>1, <2>2, <2>3, CompleteBatches
  <1>4. ASSUME NEW l \in Phases, Moved(b, l)
        PROVE  BatchInv'
    <2>1. /\ phase' = [phase EXCEPT ![b] = l] /\ UNCHANGED <<req, tuple, receipt>>
          /\ phase[b] \in Active /\ l \in {"claimwait", "sent", "gapwait", "dead"}
          /\ l = "claimwait" => phase[b] = "queued"
      BY <1>4 DEF Moved, settled, Replied, Active, Working
    <2>2. b <= emitted
      BY <1>0, <2>1, BatchTypes DEF Active, Working
    <2> QED
      BY <1>0, <2>1, <2>2, BatchTypes, ProgressBatches DEF Active, Working
  <1> QED
    BY <1>1, <1>2, <1>3, <1>4, WorkerShape

LEMMA StopEndBatches ==
  ASSUME TypeInv, BatchInv, StopEnd
  PROVE  BatchInv'
  <1>1. /\ InWork = {} /\ ~timer /\ UNCHANGED <<id, timer, from, first, tuple, req>>
        /\ receipt' = [e \in Ids |-> IF e \in Outstanding THEN "int" ELSE receipt[e]]
        /\ emitted' = id
        /\ phase' = [s \in Slots |-> IF phase[s] \in {"offer", "queued"} THEN "dead" ELSE phase[s]]
    BY DEF StopEnd
  <1>2. \A b \in Ids : phase'[b] \notin Active /\ (phase'[b] # "dead" => phase'[b] = phase[b])
    BY <1>1, BatchTypes DEF InWork, Active, Working
  <1>3. EmittedAdmitted' /\ BatchesApart'
    BY <1>1, BatchTypes DEF BatchInv, EmittedAdmitted, BatchesApart
  <1>4. PendingUntouched'
    <2>1. \A b \in Ids : b > id => b > emitted /\ b \notin Outstanding
      BY BatchTypes DEF BatchInv, EmittedAdmitted, Outstanding
    <2>2. \A b \in Ids : phase[b] = "none" => phase'[b] = "none"
      BY <1>1, BatchTypes
    <2> QED
      BY <1>1, <2>1, <2>2 DEF BatchInv, PendingUntouched
  <1>5. UnsettledOpen'
    BY <1>2 DEF UnsettledOpen
  <1>6. UnsentUnnamed'
    BY <1>1, <1>2 DEF BatchInv, UnsentUnnamed
  <1> QED
    BY <1>3, <1>4, <1>5, <1>6 DEF BatchInv

\* The steps of the calls, the fibers and the network.
LEMMA ShapeBatches ==
  ASSUME TypeInv, BatchInv,
         \/ Quiet \/ Pending \/ StopEnd \/ \E last \in Ids : Emitted(last)
         \/ \E b \in Ids : Answered(b) \/ OfferEnds(b)
  PROVE  BatchInv'
  <1>1. CASE Quiet
    BY <1>1, ProgressBatches DEF Quiet, batchState
  <1>2. CASE Pending
    <2>1. EmittedAdmitted'
      BY <1>2, BatchTypes DEF Pending, BatchInv, EmittedAdmitted
    <2>2. PendingUntouched' /\ BatchesApart' /\ UnsettledOpen' /\ UnsentUnnamed'
      BY <1>2 DEF Pending, batchState, BatchInv, PendingUntouched, BatchesApart, UnsettledOpen,
         Entries, UnsentUnnamed
    <2> QED
      BY <2>1, <2>2 DEF BatchInv
  <1>3. CASE \E last \in Ids : Emitted(last)
    BY <1>3, EmitBatches
  <1>4. ASSUME NEW b \in Ids, Answered(b)
        PROVE  BatchInv'
    <2>1. /\ phase' = [phase EXCEPT ![b] = "replied"] /\ phase[b] \in {"sent", "replied"}
          /\ UNCHANGED <<id, emitted, timer, from, first, receipt, tuple, req>>
      BY <1>4 DEF Answered, batchState
    <2>2. b <= emitted
      BY <2>1, BatchTypes DEF BatchInv, PendingUntouched
    <2> QED
      BY <2>1, <2>2, BatchTypes, ProgressBatches DEF Active, Working
  <1>5. ASSUME NEW b \in Ids, OfferEnds(b)
        PROVE  BatchInv'
    <2>1. /\ phase[b] = "offer" /\ phase[b] \in Active
          /\ UNCHANGED <<id, emitted, timer, from, first, tuple, req>>
      BY <1>5 DEF OfferEnds, Active
    <2>2. b <= emitted
      BY <2>1, BatchTypes DEF BatchInv, PendingUntouched
    <2>3. CASE phase' = [phase EXCEPT ![b] = "queued"] /\ UNCHANGED receipt
      BY <2>1, <2>2, <2>3, BatchTypes, ProgressBatches DEF Active, Working
    <2>4. CASE Complete(b, "int", sequences)
      BY <2>1, <2>4, CompleteBatches DEF Outcomes, Failures
    <2> QED
      BY <1>5, <2>3, <2>4 DEF OfferEnds
  <1> QED
    BY <1>1, <1>2, <1>3, <1>4, <1>5, StopEndBatches

\* Every step has one of these shapes.
LEMMA NextShape ==
  ASSUME TypeInv, EmittedAdmitted, [Next]_vars
  PROVE  \/ \E b \in Ids : Worker(b)
         \/ Quiet \/ Pending \/ StopEnd \/ \E last \in Ids : Emitted(last)
         \/ \E b \in Ids : Answered(b) \/ OfferEnds(b)
  BY CallShape, OtherShape DEF Next, Terminated

LEMMA NextBatches ==
  ASSUME TypeInv, BatchInv, [Next]_vars
  PROVE  BatchInv'
  BY NextShape, WorkerBatches, ShapeBatches DEF BatchInv

LEMMA InitBatches == Init => BatchInv
  BY OptionsAssumption
     DEF Init, BatchInv, EmittedAdmitted, PendingUntouched, BatchesApart, UnsettledOpen,
         UnsentUnnamed, Active, Working, Ids, Slots

-----------------------------------------------------------------------------
(* The initial claim: until it has succeeded, only its batch has a tuple. *)

NoClaim == ~AutoClaim => claimed /\ \A b \in Ids : ~first[b]
Unclaimed ==
  AutoClaim /\ ~claiming =>
     /\ ~claimed
     /\ \A b \in Ids : phase[b] = "none" /\ tuple[b] = NoTuple /\ ~first[b]
FirstOnce == \A b, c \in Ids : first[b] /\ first[c] => b = c
BeforeClaim ==
  ~claimed => \A b \in Ids : ~first[b] =>
     /\ tuple[b] = NoTuple /\ req[b] = NoTuple
     /\ phase[b] \notin InFlight \cup {"ok"}
\* The first batch finds the queue empty and waits for no claim.
FirstNeverWaits ==
  \A b \in Ids : first[b] => phase[b] \notin {"none", "offer", "claimwait"}
ClaimSettled == claim = "ok" => claimed
ClaimInv ==
  /\ NoClaim /\ Unclaimed /\ FirstOnce /\ BeforeClaim /\ FirstNeverWaits /\ ClaimSettled

LEMMA ClaimTypes ==
  ASSUME TypeInv
  PROVE  /\ claimed \in BOOLEAN /\ claiming \in BOOLEAN /\ claim \in Outcomes \cup {"open"}
         /\ AutoClaim \in BOOLEAN
         /\ \A b \in Ids : first[b] \in BOOLEAN
  BY BatchTypes, OptionsAssumption DEF TypeInv, TypeOK, ClaimType

\* Steps that touch neither the claim nor the tuples.
LEMMA QuietClaim ==
  ASSUME ClaimInv, UNCHANGED <<first, tuple, claimed, claiming, claim>>,
         \A b \in Ids : req'[b] = req[b],
         \A b \in Ids : /\ phase[b] = "none" => phase'[b] = "none"
                        /\ phase'[b] \in InFlight \cup {"ok"} => phase[b] \in InFlight \cup {"ok"}
                        /\ phase'[b] \in {"none", "offer", "claimwait"} =>
                             phase[b] \in {"none", "offer", "claimwait"} \/ ~first[b]
  PROVE  ClaimInv'
  <1>1. NoClaim' /\ FirstOnce' /\ ClaimSettled'
    BY DEF ClaimInv, NoClaim, FirstOnce, ClaimSettled
  <1>2. Unclaimed' /\ FirstNeverWaits'
    BY DEF ClaimInv, Unclaimed, FirstNeverWaits
  <1>3. BeforeClaim'
    BY DEF ClaimInv, BeforeClaim
  <1> QED
    BY <1>1, <1>2, <1>3 DEF ClaimInv

LEMMA EmitClaim ==
  ASSUME TypeInv, BatchInv, ClaimInv, NEW last \in Ids, Emitted(last)
  PROVE  ClaimInv'
  <1> DEFINE isFirst == ~claimed /\ ~claiming
  <1>1. /\ first' = [first EXCEPT ![last] = isFirst]
        /\ claiming' = (claiming \/ isFirst)
        /\ phase' = [phase EXCEPT ![last] = IF QueueFull THEN "offer" ELSE "queued"]
        /\ UNCHANGED <<claimed, claim, req>> /\ last > emitted
    BY DEF Emitted, Emit
  <1>2. /\ phase[last] = "none" /\ tuple[last] = NoTuple /\ req[last] = NoTuple /\ ~first[last]
    BY <1>1 DEF BatchInv, PendingUntouched
  <1>3. /\ \A b \in Ids : b # last => tuple'[b] = tuple[b]
        /\ ~claimed /\ ~isFirst => UNCHANGED tuple
    BY BatchTypes DEF Emitted, Emit, Reserve
  <1>4. \A b \in Ids : b # last => phase'[b] = phase[b] /\ first'[b] = first[b]
    BY <1>1, BatchTypes
  <1>5. phase'[last] \in {"offer", "queued"} /\ (first'[last] <=> isFirst)
    BY <1>1, BatchTypes
  <1>6. isFirst => /\ AutoClaim
                   /\ \A b \in Ids : phase[b] = "none" /\ tuple[b] = NoTuple /\ ~first[b]
    BY ClaimTypes DEF ClaimInv, NoClaim, Unclaimed
  <1>7. isFirst => phase'[last] = "queued"
    <2> SUFFICES ASSUME isFirst PROVE phase'[last] = "queued"
      OBVIOUS
    <2>1. Queued = {}
      BY <1>6 DEF Queued
    <2>2. ~QueueFull
      BY <2>1, FS_EmptySet, OptionsAssumption DEF QueueFull
    <2> QED
      BY <1>1, <2>2, BatchTypes
  <1>8. claiming' \/ claimed
    BY <1>1, ClaimTypes
  <1> HIDE DEF isFirst
  <1>9. NoClaim'
    <2> SUFFICES ASSUME ~AutoClaim PROVE claimed' /\ \A b \in Ids : ~first'[b]
      BY DEF NoClaim
    <2>1. ~isFirst /\ claimed /\ \A b \in Ids : ~first[b]
      BY <1>6 DEF ClaimInv, NoClaim
    <2> QED
      BY <1>1, <1>4, <1>5, <2>1
  <1>10. Unclaimed'
    BY <1>1, <1>8 DEF Unclaimed, ClaimInv
  <1>11. FirstOnce'
    BY <1>4, <1>5, <1>6 DEF FirstOnce, ClaimInv
  <1>12. BeforeClaim'
    <2> SUFFICES ASSUME ~claimed, NEW b \in Ids, ~first'[b]
                 PROVE  /\ tuple'[b] = NoTuple /\ req[b] = NoTuple
                        /\ phase'[b] \notin InFlight \cup {"ok"}
      BY <1>1 DEF BeforeClaim
    <2>1. CASE b = last
      BY <1>2, <1>3, <1>5, <2>1 DEF InFlight
    <2>2. CASE b # last
      BY <1>3, <1>4, <2>2 DEF ClaimInv, BeforeClaim
    <2> QED
      BY <2>1, <2>2
  <1>13. FirstNeverWaits'
    BY <1>4, <1>5, <1>7 DEF FirstNeverWaits, ClaimInv
  <1>14. ClaimSettled'
    BY <1>1 DEF ClaimSettled, ClaimInv
  <1> QED
    BY <1>9, <1>10, <1>11, <1>12, <1>13, <1>14 DEF ClaimInv

LEMMA WorkerClaim ==
  ASSUME TypeInv, BatchInv, ClaimInv, NEW b \in Ids, Worker(b)
  PROVE  ClaimInv'
  <1>0. UNCHANGED <<first, claiming>>
    BY WorkerShape DEF WorkerKeeps
  <1>1. CASE Started(b)
    <2>1. /\ phase' = [phase EXCEPT ![b] = "sent"] /\ phase[b] \in {"queued", "claimwait"}
          /\ UNCHANGED <<claimed, claim>>
          /\ UNCHANGED tuple \/ \E t : tuple' = [tuple EXCEPT ![b] = t]
          /\ \E t : req' = [req EXCEPT ![b] = t]
      BY <1>1 DEF Started, Reserve
    <2>2. claimed \/ first[b]
      BY <1>1 DEF Started, ClaimInv, ClaimSettled
    <2>3. \A c \in Ids : c # b => phase'[c] = phase[c] /\ tuple'[c] = tuple[c] /\ req'[c] = req[c]
      BY <2>1, BatchTypes
    <2>4. phase'[b] = "sent"
      BY <2>1, BatchTypes
    <2>5. NoClaim' /\ FirstOnce' /\ ClaimSettled'
      BY <1>0, <2>1 DEF ClaimInv, NoClaim, FirstOnce, ClaimSettled
    <2>6. Unclaimed'
      BY <1>0, <2>1 DEF ClaimInv, Unclaimed
    <2>7. BeforeClaim' /\ FirstNeverWaits'
      BY <1>0, <2>1, <2>2, <2>3, <2>4 DEF ClaimInv, BeforeClaim, FirstNeverWaits
    <2> QED
      BY <2>5, <2>6, <2>7 DEF ClaimInv
  <1>2. CASE Reclaimed(b)
    <2>1. /\ phase' = [phase EXCEPT ![b] = "sent"] /\ phase[b] = "replied"
          /\ UNCHANGED <<claimed, claim, tuple>>
          /\ \E t : req' = [req EXCEPT ![b] = t]
      BY <1>2 DEF Reclaimed, Replied
    <2>2. claimed \/ first[b]
      BY <2>1 DEF ClaimInv, BeforeClaim, InFlight
    <2>3. \A c \in Ids : c # b => phase'[c] = phase[c] /\ req'[c] = req[c]
      BY <2>1, BatchTypes
    <2>4. phase'[b] = "sent"
      BY <2>1, BatchTypes
    <2>5. NoClaim' /\ FirstOnce' /\ ClaimSettled'
      BY <1>0, <2>1 DEF ClaimInv, NoClaim, FirstOnce, ClaimSettled
    <2>6. Unclaimed'
      BY <1>0, <2>1 DEF ClaimInv, Unclaimed
    <2>7. BeforeClaim' /\ FirstNeverWaits'
      BY <1>0, <2>1, <2>2, <2>3, <2>4 DEF ClaimInv, BeforeClaim, FirstNeverWaits
    <2> QED
      BY <2>5, <2>6, <2>7 DEF ClaimInv
  <1>3. ASSUME NEW out \in Outcomes, Settled(b, out)
        PROVE  ClaimInv'
    <2>1. /\ phase' = [phase EXCEPT ![b] = out] /\ phase[b] \in Active /\ phase[b] # "none"
          /\ UNCHANGED req
          /\ out = "ok" => phase[b] = "replied"
      <3>1. phase' = [phase EXCEPT ![b] = out]
        BY <1>3 DEF Settled, Finish, Complete
      <3> QED
        BY <1>3, <3>1 DEF Settled, Active, Working, Replied, Failures
    <2>2. out \notin InFlight \cup {"none", "offer", "claimwait"}
      BY DEF InFlight, Outcomes, Failures
    <2>3. \A c \in Ids : c # b => phase'[c] = phase[c]
      BY <2>1, BatchTypes
    <2>4. phase'[b] = out
      BY <2>1, BatchTypes
    <2>5. (claimed => claimed') /\ (claim' = "ok" => claimed')
          /\ (~claimed' => ~(first[b] /\ out = "ok"))
      BY <1>3, ClaimTypes DEF Settled, Finish, ClaimInv, ClaimSettled
    <2>6. ~claimed' => UNCHANGED tuple
      BY <1>3, <2>5 DEF Settled, Finish
    <2>7. NoClaim' /\ FirstOnce' /\ ClaimSettled'
      BY <1>0, <2>5 DEF ClaimInv, NoClaim, FirstOnce, ClaimSettled
    <2>8. Unclaimed'
      BY <1>0, <2>1 DEF ClaimInv, Unclaimed
    <2>9. BeforeClaim'
      <3> SUFFICES ASSUME ~claimed', NEW c \in Ids, ~first[c]
                   PROVE  /\ tuple'[c] = NoTuple /\ req[c] = NoTuple
                          /\ phase'[c] \notin InFlight \cup {"ok"}
        BY <1>0, <2>1 DEF BeforeClaim
      <3>1. /\ tuple[c] = NoTuple /\ req[c] = NoTuple /\ phase[c] \notin InFlight \cup {"ok"}
        BY <2>5 DEF ClaimInv, BeforeClaim
      <3>2. c = b => out # "ok"
        BY <2>1, <3>1 DEF InFlight
      <3> QED
        BY <2>2, <2>3, <2>4, <2>6, <3>1, <3>2
    <2>10. FirstNeverWaits'
      BY <1>0, <2>2, <2>3, <2>4 DEF ClaimInv, FirstNeverWaits
    <2> QED
      BY <2>7, <2>8, <2>9, <2>10 DEF ClaimInv
  <1>4. ASSUME NEW l \in Phases, Moved(b, l)
        PROVE  ClaimInv'
    <2>1. /\ phase' = [phase EXCEPT ![b] = l] /\ UNCHANGED <<req, tuple, claimed, claim>>
          /\ phase[b] # "none" /\ l \in {"claimwait", "sent", "gapwait", "dead"}
          /\ l = "claimwait" => ~first[b]
          /\ l \in {"sent", "gapwait"} => phase[b] \in InFlight
      BY <1>4 DEF Moved, Replied, InFlight, Working
    <2> QED
      BY <1>0, <2>1, BatchTypes, QuietClaim DEF InFlight
  <1> QED
    BY <1>1, <1>2, <1>3, <1>4, WorkerShape

LEMMA NextClaim ==
  ASSUME TypeInv, BatchInv, ClaimInv, [Next]_vars
  PROVE  ClaimInv'
  <1>1. CASE Quiet \/ Pending
    BY <1>1, QuietClaim DEF Quiet, Pending, batchState
  <1>2. ASSUME NEW b \in Ids, Answered(b)
        PROVE  ClaimInv'
    BY <1>2, BatchTypes, QuietClaim DEF Answered, batchState, InFlight
  <1>3. ASSUME NEW b \in Ids, OfferEnds(b)
        PROVE  ClaimInv'
    <2>1. \E l \in {"queued", "int"} : phase' = [phase EXCEPT ![b] = l]
      BY <1>3 DEF OfferEnds, Complete
    <2> QED
      BY <1>3, <2>1, BatchTypes, QuietClaim DEF OfferEnds, InFlight
  <1>4. CASE StopEnd
    <2>1. /\ UNCHANGED <<first, tuple, claimed, claiming, claim, req>>
          /\ phase' = [s \in Slots |-> IF phase[s] \in {"offer", "queued"} THEN "dead" ELSE phase[s]]
      BY <1>4 DEF StopEnd, claims
    <2> QED
      BY <2>1, BatchTypes, QuietClaim DEF InFlight
  <1> QED
    BY <1>1, <1>2, <1>3, <1>4, NextShape, EmitClaim, WorkerClaim DEF BatchInv

LEMMA InitClaim == Init => ClaimInv
  <1> SUFFICES ASSUME Init PROVE ClaimInv
    OBVIOUS
  <1>1. /\ claimed = ~AutoClaim /\ claim = "open" /\ AutoClaim \in BOOLEAN
        /\ \A b \in Ids : ~first[b]
    BY OptionsAssumption, Zenon DEF Init
  <1>2. \A b \in Ids : phase[b] = "none" /\ tuple[b] = NoTuple /\ req[b] = NoTuple
    BY OptionsAssumption DEF Init, Ids, Slots
  <1> QED
    BY <1>1, <1>2 DEF ClaimInv, NoClaim, Unclaimed, FirstOnce, BeforeClaim, FirstNeverWaits,
       ClaimSettled, InFlight

-----------------------------------------------------------------------------
(* Restart and close: while one of them drains, nothing is admitted. *)

Section == {"mark", "flush", "emit", "drain", "request", "reply"}
CallPlace(c) ==
  /\ pc[c] \notin {"entry", "offer", "await"}
  /\ pc[c] \in Section => lifecycle = c
  /\ pc[c] \in {"flush", "emit", "drain"} => mode # "open"
  /\ pc[c] \in {"emit", "drain"} => mark[c] = id
  /\ c \in Closes /\ pc[c] \in Section \ {"mark"} => closeBody # Free
  /\ c \in Closes /\ pc[c] \in {"request", "reply"} => closeRequest # NoTuple
Places == \A c \in Restarts \cup Closes : CallPlace(c)
\* Only a restart opens admission again.
StaysShut ==
  /\ closeBody # Free => mode # "open"
  /\ (Restarts = {} /\ scope # "live") => mode # "open"
PlaceInv == Places /\ StaysShut

\* Restart and close are not used on the same producer.
OneLifecycle == Restarts = {} \/ Closes = {}

LEMMA PlaceTypes ==
  ASSUME TypeInv
  PROVE  /\ pc \in [Calls -> Locations] /\ mark \in [Calls -> 0..MaxEntries]
         /\ closeBody \in Closes \cup {Free} /\ closeRequest \in Tuple
         /\ mutex \in Calls \cup {Free, Timer} /\ lifecycle \in Calls \cup {Free}
         /\ Restarts \cup Closes \subseteq Calls /\ Free \notin Calls /\ Timer \notin Calls
         /\ \A c \in Restarts \cup Closes : c \in Calls /\ c \notin Appends \cup Sinks
  BY CallsAssumption DEF TypeInv, TypeOK, CallType, ClosingType, AdmissionType, Calls

\* The calls that do not make the step keep their place.
LEMMA OtherPlace ==
  ASSUME TypeInv, PlaceInv, NEW c, NEW d \in Restarts \cup Closes, d # c,
         pc'[d] = pc[d], mark'[d] = mark[d],
         \/ (lifecycle' = lifecycle /\ (mode' = mode \/ mode' # "open"))
         \/ lifecycle \in {c, Free},
         id' = id \/ mode = "open",
         closeBody' = closeBody \/ closeBody' # Free,
         closeRequest' = closeRequest \/ closeRequest' # NoTuple \/ Closes = {}
  PROVE  CallPlace(d)'
  <1>1. CallPlace(d)
    BY DEF PlaceInv, Places
  <1>2. pc[d] \in Section => lifecycle' = lifecycle /\ (mode' = mode \/ mode' # "open")
    BY <1>1, PlaceTypes DEF CallPlace
  <1> QED
    BY <1>1, <1>2 DEF CallPlace, Section

\* A call that returns; a restart that does so reopens admission, but then it
\* held the lifecycle, or nobody did.
LEMMA ReturnPlace ==
  ASSUME TypeInv, PlaceInv, OneLifecycle, NEW c \in Calls, NEW r, Return(c, r),
         c \in Restarts => lifecycle \in {c, Free}, UNCHANGED <<mark, id, closeBody, scope>>,
         closeRequest' = closeRequest \/ closeRequest' # NoTuple
  PROVE  PlaceInv'
  <1>1. /\ pc' = [pc EXCEPT ![c] = "done"]
        /\ lifecycle' = IF lifecycle = c THEN Free ELSE lifecycle
        /\ mode' = IF c \in Restarts /\ mode = "closing" THEN "open" ELSE mode
    BY DEF Return
  <1>2. \A d \in Restarts \cup Closes : d # c => CallPlace(d)'
    <2> SUFFICES ASSUME NEW d \in Restarts \cup Closes, d # c PROVE CallPlace(d)'
      OBVIOUS
    <2>1. pc'[d] = pc[d]
      BY <1>1, PlaceTypes
    <2> QED
      BY <1>1, <2>1, OtherPlace
  <1>3. c \in Restarts \cup Closes => CallPlace(c)'
    BY <1>1, PlaceTypes DEF CallPlace, Section
  <1>4. StaysShut'
    BY <1>1, PlaceTypes DEF PlaceInv, StaysShut, OneLifecycle
  <1> QED
    BY <1>2, <1>3, <1>4 DEF PlaceInv, Places

\* A call that goes on, with the lifecycle it holds or has just taken.
LEMMA GotoPlace ==
  ASSUME TypeInv, PlaceInv, NEW c \in Calls, NEW l, Goto(c, l),
         \/ UNCHANGED <<mode, lifecycle>>
         \/ (mode' # "open" /\ (lifecycle' = lifecycle \/ lifecycle \in {c, Free}))
         \/ (mode' = mode /\ lifecycle = Free),
         mark' = mark \/ \E m : mark' = [mark EXCEPT ![c] = m],
         UNCHANGED scope,
         id' = id \/ mode = "open",
         closeBody' = closeBody \/ (closeBody' # Free /\ mode' # "open"),
         closeRequest' = closeRequest \/ closeRequest' # NoTuple,
         c \in Restarts \cup Closes => CallPlace(c)'
  PROVE  PlaceInv'
  <1>1. \A d \in Restarts \cup Closes : d # c => CallPlace(d)'
    <2> SUFFICES ASSUME NEW d \in Restarts \cup Closes, d # c PROVE CallPlace(d)'
      OBVIOUS
    <2>1. pc'[d] = pc[d] /\ mark'[d] = mark[d]
      BY PlaceTypes DEF Goto
    <2> QED
      BY <2>1, OtherPlace
  <1>2. StaysShut'
    BY DEF PlaceInv, StaysShut
  <1> QED
    BY <1>1, <1>2 DEF PlaceInv, Places

LEMMA SamePlace ==
  ASSUME PlaceInv, UNCHANGED <<pc, mark, lifecycle, id, closeBody, closeRequest>>,
         (mode' = mode /\ scope' = scope) \/ mode' # "open"
  PROVE  PlaceInv'
  BY DEF PlaceInv, Places, CallPlace, StaysShut

LEMMA CallPlaces ==
  ASSUME TypeInv, PlaceInv, OneLifecycle, NEW c \in Calls, Call(c)
  PROVE  PlaceInv'
  <1>0. /\ c \in Restarts \cup Closes => CallPlace(c)
        /\ c \in Restarts \cup Closes => c \notin Appends \cup Sinks \cup Flushes \cup Detaches
        /\ c \in Restarts => c \notin Closes
        /\ c \in Restarts /\ pc[c] \in Section => lifecycle = c
    BY CallsAssumption DEF PlaceInv, Places, CallPlace
  <1>1. CASE BeginAppend(c)
    <2>1. CASE Goto(c, "entry") /\ UNCHANGED <<result, mode, lifecycle>>
      BY <1>0, <1>1, <2>1, GotoPlace DEF BeginAppend, closing, environment
    <2>2. CASE Return(c, "closed")
      BY <1>0, <1>1, <2>2, ReturnPlace DEF BeginAppend, closing, environment
    <2> QED
      BY <1>1, <2>1, <2>2 DEF BeginAppend
  <1>2. CASE Admit(c)
    <2>1. CASE Return(c, "closed") /\ UNCHANGED <<id, mark>>
      BY <1>0, <1>2, <2>1, ReturnPlace DEF Admit, closing, environment
    <2>2. CASE /\ mode = "open" /\ UNCHANGED <<mode, lifecycle>>
               /\ \E m : mark' = [mark EXCEPT ![c] = m]
               /\ \E l : Goto(c, l)
      BY <1>0, <1>2, <2>2, GotoPlace DEF Admit, closing, environment
    <2> QED
      BY <1>2, <2>1, <2>2 DEF Admit
  <1>3. CASE Receive(c) \/ EndSource(c)
    <2>1. /\ c \in Appends \cup Sinks /\ UNCHANGED <<mark, id, closing, scope>>
      BY <1>3 DEF Receive, EndSource, environment
    <2>2. \/ \E r : Return(c, r)
          \/ Goto(c, "flush") /\ UNCHANGED <<mode, lifecycle>>
      BY <1>3 DEF Receive, EndSource
    <2> QED
      BY <1>0, <2>1, <2>2, ReturnPlace, GotoPlace DEF closing
  <1>4. CASE Flush(c)
    <2>1. /\ mark' = [mark EXCEPT ![c] = id] /\ UNCHANGED <<id, mode, lifecycle, closing, scope>>
          /\ pc[c] = "flush"
      BY <1>4 DEF Flush, Watermark, environment
    <2>2. \E l \in {"emit", "drain"} : Goto(c, l)
      BY <1>4 DEF Flush
    <2>3. pc'[c] \in {"emit", "drain"} /\ mark'[c] = id
      BY <2>1, <2>2, PlaceTypes DEF Goto
    <2>4. c \in Restarts \cup Closes => CallPlace(c)'
      BY <1>0, <2>1, <2>3 DEF CallPlace, Section, closing
    <2> QED
      BY <2>1, <2>2, <2>4, GotoPlace DEF closing
  <1>5. CASE EndFlush(c)
    BY <1>0, <1>5, ReturnPlace DEF EndFlush, Drained, Section, closing, environment
  <1>6. CASE BeginDetach(c)
    <2>1. c \in Detaches /\ lifecycle = Free /\ UNCHANGED <<mark, id, closing, scope>>
      BY <1>6 DEF BeginDetach, environment
    <2>2. \/ Return(c, "closed")
          \/ mode' = "detached" /\ lifecycle' = c /\ Goto(c, "flush")
      BY <1>6 DEF BeginDetach
    <2> QED
      BY <1>0, <2>1, <2>2, ReturnPlace, GotoPlace DEF closing
  <1>7. CASE BeginRestart(c)
    <2>1. /\ c \in Restarts /\ lifecycle = Free /\ pc[c] = "new"
          /\ UNCHANGED <<mark, id, closing, scope>>
      BY <1>7 DEF BeginRestart, environment
    <2>2. CASE Return(c, "closed")
      BY <2>1, <2>2, ReturnPlace DEF closing
    <2>3. CASE lifecycle' = c /\ Goto(c, "mark") /\ UNCHANGED mode
      <3>1. pc'[c] = "mark"
        BY <2>3, PlaceTypes DEF Goto
      <3>2. CallPlace(c)'
        BY <1>0, <2>1, <2>3, <3>1 DEF CallPlace, Section
      <3> QED
        BY <2>1, <2>3, <3>2, GotoPlace DEF closing
    <2> QED
      BY <1>7, <2>2, <2>3 DEF BeginRestart
  <1>8. CASE ShutAdmission(c)
    <2>1. /\ c \in Restarts \cup Closes /\ pc[c] = "mark" /\ mode' = "closing"
          /\ UNCHANGED <<lifecycle, mark, id, closeRequest, scope>>
          /\ closeBody' = IF c \in Closes THEN c ELSE closeBody
          /\ Goto(c, IF c \in Closes /\ closeRequest # NoTuple THEN "request" ELSE "flush")
      BY <1>8 DEF ShutAdmission, environment
    <2>2. pc'[c] = IF c \in Closes /\ closeRequest # NoTuple THEN "request" ELSE "flush"
      BY <2>1, PlaceTypes DEF Goto
    <2>3. CallPlace(c)'
      BY <1>0, <2>1, <2>2, PlaceTypes DEF CallPlace, Section
    <2>4. closeBody' = closeBody \/ closeBody' # Free
      BY <2>1, PlaceTypes
    <2> QED
      BY <2>1, <2>3, <2>4, GotoPlace
  <1>9. CASE FinishRestart(c)
    <2>1. c \in Restarts /\ pc[c] = "drain" /\ lifecycle = c /\ Closes = {} /\ closeBody = Free
      BY <1>0, <1>9, PlaceTypes DEF FinishRestart, Drained, Section, OneLifecycle
    <2>2. UNCHANGED <<mark, id, closeBody, scope>>
      BY <1>9 DEF FinishRestart, environment
    <2>3. CASE Return(c, "fail") /\ UNCHANGED closeRequest
      BY <2>1, <2>2, <2>3, ReturnPlace
    <2>4. CASE pc' = [pc EXCEPT ![c] = "done"]
      <3>1. \A d \in Restarts \cup Closes : d # c => CallPlace(d)'
        <4> SUFFICES ASSUME NEW d \in Restarts \cup Closes, d # c PROVE CallPlace(d)'
          OBVIOUS
        <4>1. pc'[d] = pc[d]
          BY <2>4, PlaceTypes
        <4> QED
          BY <2>1, <2>2, <4>1, OtherPlace
      <3>2. CallPlace(c)'
        BY <2>1, <2>4, PlaceTypes DEF CallPlace, Section
      <3> QED
        BY <2>1, <2>2, <3>1, <3>2 DEF PlaceInv, Places, StaysShut
    <2> QED
      BY <1>9, <2>3, <2>4 DEF FinishRestart
  <1>10. CASE BeginClose(c)
    <2>1. /\ c \in Closes /\ lifecycle = Free /\ pc[c] = "new"
          /\ UNCHANGED <<mark, id, closeBody, closeRequest, scope>>
      BY <1>10 DEF BeginClose, environment, closing
    <2>2. CASE \E r : Return(c, r)
      BY <1>0, <2>1, <2>2, ReturnPlace
    <2>3. CASE /\ lifecycle' = c /\ UNCHANGED mode
               /\ Goto(c, IF closeBody = Free THEN "mark"
                          ELSE IF closeRequest = NoTuple THEN "flush" ELSE "request")
      <3>1. pc'[c] = IF closeBody = Free THEN "mark"
                     ELSE IF closeRequest = NoTuple THEN "flush" ELSE "request"
        BY <2>3, PlaceTypes DEF Goto
      <3>2. CallPlace(c)'
        BY <1>0, <2>1, <2>3, <3>1 DEF CallPlace, Section, PlaceInv, StaysShut
      <3> QED
        BY <2>1, <2>3, <3>2, GotoPlace
    <2> QED
      BY <1>10, <2>2, <2>3 DEF BeginClose
  <1>11. CASE SendClose(c)
    <2>1. /\ c \in Closes /\ pc[c] \in {"request", "drain"}
          /\ UNCHANGED <<mark, id, closeBody, scope>>
          /\ closeRequest' # NoTuple
      BY <1>11, BatchTypes DEF SendClose, Drained, environment, NoTuple
    <2>2. CASE Return(c, "int")
      BY <1>0, <2>1, <2>2, ReturnPlace
    <2>3. CASE Goto(c, "reply") /\ UNCHANGED <<mode, lifecycle>>
      <3>1. pc'[c] = "reply"
        BY <2>3, PlaceTypes DEF Goto
      <3>2. CallPlace(c)'
        BY <1>0, <2>1, <2>3, <3>1 DEF CallPlace, Section
      <3> QED
        BY <2>1, <2>3, <3>2, GotoPlace
    <2> QED
      BY <1>11, <2>2, <2>3 DEF SendClose
  <1>12. CASE CloseAnswered(c)
    <2>1. /\ c \in Closes /\ pc[c] = "reply"
          /\ UNCHANGED <<mark, id, closeBody, scope>>
      BY <1>12 DEF CloseAnswered, environment
    <2>2. CASE (\E r : Return(c, r)) /\ UNCHANGED closeRequest
      BY <1>0, <2>1, <2>2, ReturnPlace
    <2>3. CASE /\ UNCHANGED <<pc, lifecycle, mode>>
               /\ closeRequest' = [epoch |-> epoch', seq |-> 0]
      <3>1. closeRequest' # NoTuple
        BY <2>3 DEF NoTuple
      <3> QED
        BY <2>1, <2>3, <3>1 DEF PlaceInv, Places, CallPlace, StaysShut
    <2> QED
      BY <1>12, <2>2, <2>3 DEF CloseAnswered
  <1>13. CASE CloseStopped(c)
    BY <1>0, <1>13, ReturnPlace DEF CloseStopped, closing, environment
  <1>14. CASE Stopped(c)
    <2>1. c \in Restarts => pc[c] \in Section
      BY <1>0, <1>14 DEF Stopped, Raced, CallPlace, Section
    <2> QED
      BY <1>0, <1>14, <2>1, ReturnPlace DEF Stopped, closing, environment
  <1> QED
    BY <1>1, <1>2, <1>3, <1>4, <1>5, <1>6, <1>7, <1>8, <1>9, <1>10, <1>11, <1>12, <1>13,
       <1>14 DEF Call

LEMMA NextPlaces ==
  ASSUME TypeInv, PlaceInv, OneLifecycle, [Next]_vars
  PROVE  PlaceInv'
  <1>1. CASE \/ \E b \in Ids : Worker(b)
             \/ Linger \/ LingerStopped
             \/ \E s \in Slots : Serve(s) \/ Fault(s)
             \/ ServeStray \/ ForeignClaim \/ UNCHANGED vars
    <2>1. UNCHANGED <<pc, mark, lifecycle, id, closeBody, closeRequest, mode, scope>>
      BY <1>1, WorkerShape DEF WorkerKeeps, Linger, LingerStopped, Serve, Fault, ServeStray,
         ForeignClaim, vars, calls, closing, admission, environment
    <2> QED
      BY <2>1, SamePlace
  <1>2. CASE StopBegin
    BY <1>2, SamePlace DEF StopBegin, calls, closing
  <1>3. CASE StopEnd
    <2>1. /\ UNCHANGED <<pc, mark, lifecycle, id, closeBody, closeRequest, mode>>
          /\ scope = "closing"
      BY <1>3 DEF StopEnd, calls, closing
    <2> QED
      BY <2>1 DEF PlaceInv, Places, CallPlace, StaysShut
  <1>4. CASE Offered
    <2>1. /\ UNCHANGED <<mark, lifecycle, id, closeBody, closeRequest, mode, scope>>
          /\ mutex # Free
          /\ \/ mutex = Timer /\ pc' = pc
             \/ mutex # Timer
                /\ pc' = [pc EXCEPT ![mutex] = IF @ = "emit" THEN "drain"
                                               ELSE IF mutex \in Sinks THEN "new" ELSE "await"]
      BY <1>4, CallsAssumption DEF Offered, closing, environment
    <2>2. CASE pc' = pc
      BY <2>1, <2>2, SamePlace
    <2>3. CASE mutex # Timer
      <3>1. PICK c \in Calls : c = mutex /\ pc[c] \in {"offer", "emit"}
        BY <2>1, <2>3, PlaceTypes DEF TypeInv, HolderOffers
      <3>2. \E l : Goto(c, l)
        BY <2>1, <2>3, <3>1 DEF Goto
      <3>3. UNCHANGED <<mark, lifecycle, id, closeBody, closeRequest, mode, scope>>
        BY <2>1
      <3>4. pc[c] = "emit" => pc'[c] = "drain"
        BY <2>1, <2>3, <3>1, PlaceTypes
      <3>5. c \in Restarts \cup Closes => CallPlace(c)'
        BY <3>1, <3>3, <3>4 DEF PlaceInv, Places, CallPlace, Section
      <3> QED
        BY <3>1, <3>2, <3>3, <3>5, GotoPlace
    <2> QED
      BY <2>1, <2>2, <2>3
  <1>5. ASSUME NEW c \in Calls, Interrupt(c)
        PROVE  PlaceInv'
    <2>1. c \in Restarts => lifecycle \in {c, Free}
      BY <1>5 DEF Interrupt, PlaceInv, Places, CallPlace, Section
    <2> QED
      BY <1>5, <2>1, ReturnPlace DEF Interrupt, closing, environment
  <1> QED
    BY <1>1, <1>2, <1>3, <1>4, <1>5, CallPlaces DEF Next, Terminated, Fiber

LEMMA InitPlaces == Init => PlaceInv
  BY CallsAssumption
     DEF Init, PlaceInv, Places, CallPlace, Section, StaysShut, Calls

-----------------------------------------------------------------------------
(* A close that has its tuple has nothing left to wait for. *)

CloseReady ==
  closeRequest # NoTuple => /\ closeBody # Free /\ emitted = id
                            /\ \A b \in Ids : phase[b] \notin Active
\* Slot 0 holds the request of the close.
CloseSlot ==
  /\ phase[0] \in {"none", "sent", "replied"}
  /\ req[0] = NoTuple \/ req[0] = closeRequest
  /\ phase[0] # "none" => req[0] = closeRequest /\ closeRequest # NoTuple
  /\ closeResult => closeRequest # NoTuple
CloseInv == PlaceInv /\ CloseReady /\ CloseSlot

\* When a restart or close has drained, nothing is pending or in progress.
LEMMA DrainedIdle ==
  ASSUME TypeInv, BatchInv, PlaceInv, NEW c \in Restarts \cup Closes, Drained(c)
  PROVE  /\ emitted = id /\ \A b \in Ids : phase[b] \notin Active
         /\ \A e \in 1..id : receipt[e] # "open"
  <1>1. mark[c] = id
    BY DEF Drained, PlaceInv, Places, CallPlace
  <1>2. \A e \in Nat : e <= id => e \notin Outstanding
    BY <1>1, BatchTypes DEF Drained
  <1>3. \A e \in 1..id : receipt[e] # "open"
    BY <1>2 DEF Outstanding
  <1>4. emitted = id
    <2>1. emitted < id => id \in Ids /\ receipt[id] = "open"
      BY BatchTypes DEF BatchInv, PendingUntouched, Ids
    <2> QED
      BY <1>3, <2>1, BatchTypes DEF BatchInv, EmittedAdmitted
  <1>5. ASSUME NEW b \in Ids, phase[b] \in Active
        PROVE  FALSE
    <2>1. b <= emitted /\ b \in Entries(b)
      BY <1>5, BatchTypes DEF BatchInv, PendingUntouched, UnsettledOpen, BatchesApart, Entries,
         Active, Working
    <2>2. receipt[b] = "open"
      BY <1>5, <2>1 DEF BatchInv, UnsettledOpen
    <2> QED
      BY <1>3, <1>4, <2>1, <2>2, BatchTypes
  <1> QED
    BY <1>3, <1>4, <1>5

\* Once the close has its tuple, no step touches a batch any more.
LEMMA ReadyStays ==
  ASSUME TypeInv, BatchInv, CloseReady, PlaceInv, closeRequest # NoTuple,
         [Next]_vars
  PROVE  /\ emitted' = id' /\ \A b \in Ids : phase'[b] \notin Active
         /\ id' = id /\ UNCHANGED <<from, first, tuple, claimed, claiming, claim>>
         /\ \A b \in Ids : req'[b] = req[b]
  <1>1. /\ emitted = id /\ ~timer /\ mode # "open" /\ \A b \in Ids : phase[b] \notin Active
    BY BatchTypes DEF CloseReady, BatchInv, EmittedAdmitted, PlaceInv, StaysShut
  <1>2. ASSUME NEW b \in Ids
        PROVE  ~Worker(b) /\ ~Answered(b) /\ ~OfferEnds(b)
    BY <1>1 DEF Worker, Take, Claimed, Delivered, Rejected, Fenced, Gap, GapFilled,
       WorkerStopped, Replied, Answered, OfferEnds, Active, Working
  <1>3. id' = id
    <2>1. \A c \in Calls : Call(c) => id' = id
      BY <1>1 DEF Call, BeginAppend, Admit, Receive, EndSource, Flush, EndFlush, BeginDetach,
         BeginRestart, ShutAdmission, FinishRestart, BeginClose, SendClose, CloseAnswered,
         CloseStopped, Stopped
    <2>2. \A c \in Calls : Interrupt(c) => id' = id
      BY DEF Interrupt
    <2> QED
      BY <1>2, <2>1, <2>2 DEF Next, Terminated, Fiber, Linger, Offered, LingerStopped, StopEnd,
         Serve, Fault, ServeStray, ForeignClaim, StopBegin, vars, admission
  <1>4. ~(\E last \in Ids : Emitted(last))
    BY <1>1, <1>3, BatchTypes DEF Emitted
  <1>5. CASE Quiet \/ Pending
    BY <1>1, <1>3, <1>5 DEF Quiet, Pending, batchState
  <1>6. CASE StopEnd
    <2>1. /\ UNCHANGED <<from, first, tuple, claimed, claiming, claim, req>> /\ emitted' = id
          /\ phase' = [s \in Slots |-> IF phase[s] \in {"offer", "queued"} THEN "dead" ELSE phase[s]]
      BY <1>6 DEF StopEnd, claims
    <2> QED
      BY <1>1, <1>3, <2>1, BatchTypes DEF Active, Working
  <1> QED
    BY <1>2, <1>4, <1>5, <1>6, NextShape DEF BatchInv

\* closeRequest changes in four actions only.
LEMMA CloseTuple ==
  ASSUME TypeInv, [Next]_vars
  PROVE  \/ UNCHANGED <<closeRequest, closeBody, closeResult>>
         \/ UNCHANGED <<closeRequest, closeResult>> /\ closeBody' # Free
         \/ \E c \in Closes : SendClose(c) \/ CloseAnswered(c)
         \/ \E c \in Restarts : FinishRestart(c)
  <1>1. \A c \in Calls : Call(c) =>
           \/ UNCHANGED <<closeRequest, closeBody, closeResult>>
           \/ ShutAdmission(c)
           \/ c \in Closes /\ (SendClose(c) \/ CloseAnswered(c))
           \/ c \in Restarts /\ FinishRestart(c)
    BY DEF Call, BeginAppend, Admit, Receive, EndSource, Flush, EndFlush, BeginDetach,
       BeginRestart, FinishRestart, BeginClose, SendClose, CloseAnswered, CloseStopped,
       Stopped, closing
  <1>2. \A c \in Calls : ShutAdmission(c) =>
           UNCHANGED <<closeRequest, closeResult>> /\ (closeBody' = closeBody \/ closeBody' # Free)
    BY PlaceTypes DEF ShutAdmission
  <1>3. \A c \in Calls : Interrupt(c) => UNCHANGED closing
    BY DEF Interrupt
  <1>4. \A b \in Ids : Worker(b) => UNCHANGED closing
    BY WorkerShape DEF WorkerKeeps
  <1> QED
    BY <1>1, <1>2, <1>3, <1>4
       DEF Next, Terminated, Fiber, Linger, Offered, LingerStopped, StopEnd, Serve, Fault,
           ServeStray, ForeignClaim, StopBegin, vars, closing

\* The request of the close changes by its own steps and by its answers only.
LEMMA SlotZero ==
  ASSUME TypeInv, EmittedAdmitted, [Next]_vars
  PROVE  \/ phase'[0] \in {phase[0], "none"} /\ req'[0] = req[0]
         \/ /\ phase[0] \in {"sent", "replied"} /\ phase'[0] = "replied"
            /\ req'[0] = req[0]
         \/ \E c \in Closes : SendClose(c) \/ CloseAnswered(c)
  <1> DEFINE Good == \/ phase'[0] \in {phase[0], "none"} /\ req'[0] = req[0]
                     \/ /\ phase[0] \in {"sent", "replied"} /\ phase'[0] = "replied"
                        /\ req'[0] = req[0]
                     \/ \E c \in Closes : SendClose(c) \/ CloseAnswered(c)
  <1>1. ASSUME NEW b \in Ids, Worker(b)
        PROVE  Good
    <2>1. \/ Started(b) \/ Reclaimed(b) \/ (\E out \in Outcomes : Settled(b, out))
          \/ \E l \in Phases : Moved(b, l)
      BY <1>1, WorkerShape
    <2>2. /\ \E l : phase' = [phase EXCEPT ![b] = l]
          /\ UNCHANGED req \/ \E t : req' = [req EXCEPT ![b] = t]
      BY <2>1 DEF Started, Reclaimed, Settled, Finish, Complete, Moved
    <2> QED
      BY <2>2, BatchTypes
  <1>2. ASSUME NEW c \in Calls, Call(c)
        PROVE  Good
    <2>1. CASE \/ BeginAppend(c) \/ Receive(c) \/ EndSource(c) \/ EndFlush(c)
               \/ BeginDetach(c) \/ BeginRestart(c) \/ ShutAdmission(c)
               \/ FinishRestart(c) \/ BeginClose(c) \/ Stopped(c)
      BY <2>1 DEF BeginAppend, Receive, EndSource, EndFlush, BeginDetach, BeginRestart,
         ShutAdmission, FinishRestart, BeginClose, Stopped, requests
    <2>2. CASE Admit(c) \/ Flush(c)
      <3>1. UNCHANGED req
        BY <2>2 DEF Admit, Flush
      <3>2. \/ UNCHANGED phase \/ (id + 1 \in Ids /\ Emit(id + 1, c))
            \/ (id \in Ids /\ Emit(id, c))
        <4>1. CASE Admit(c)
          <5>1. id < MaxEntries => id + 1 \in Ids
            BY BatchTypes, OptionsAssumption DEF Ids
          <5> QED
            BY <4>1, <5>1 DEF Admit, NothingEmitted
        <4>2. CASE Flush(c)
          <5>1. emitted < id => id \in Ids
            BY BatchTypes DEF Ids
          <5> QED
            BY <4>2, <5>1 DEF Flush, NothingEmitted
        <4> QED
          BY <2>2, <4>1, <4>2
      <3>3. UNCHANGED phase \/ \E b \in Ids : \E l : phase' = [phase EXCEPT ![b] = l]
        BY <3>2 DEF Emit
      <3> QED
        BY <3>1, <3>3, BatchTypes
    <2>3. CASE SendClose(c) \/ CloseAnswered(c)
      BY <2>3 DEF SendClose, CloseAnswered
    <2>4. CASE CloseStopped(c)
      BY <2>4, BatchTypes DEF CloseStopped
    <2> QED
      BY <1>2, <2>1, <2>2, <2>3, <2>4 DEF Call
  <1>3. ASSUME NEW s \in Slots, Serve(s) \/ Fault(s)
        PROVE  Good
    <2>1. /\ phase' = [phase EXCEPT ![s] = "replied"] /\ phase[s] \in {"sent", "replied"}
          /\ UNCHANGED req
      BY <1>3 DEF Serve, Fault
    <2> QED
      BY <2>1, BatchTypes
  <1>4. ASSUME NEW c \in Calls, Interrupt(c)
        PROVE  Good
    <2>1. UNCHANGED req /\ \/ UNCHANGED phase
                           \/ \E b \in Slots : \E l \in {"none", "int"} :
                                phase' = [phase EXCEPT ![b] = l] /\ (b = 0 => l = "none")
      BY <1>4, BatchTypes DEF Interrupt, Complete
    <2> QED
      BY <2>1, BatchTypes
  <1>5. CASE Linger
    <2>1. UNCHANGED req /\ id \in Ids /\ Emit(id, Timer)
      BY <1>5, BatchTypes DEF Linger, EmittedAdmitted, Ids
    <2> QED
      BY <2>1, BatchTypes DEF Emit
  <1>6. CASE Offered \/ LingerStopped
    <2>1. /\ UNCHANGED req
          /\ UNCHANGED phase \/ \E b \in Ids : \E l : phase' = [phase EXCEPT ![b] = l]
      <3>1. CASE Offered
        BY <3>1 DEF Offered
      <3>2. CASE LingerStopped
        BY <3>2 DEF LingerStopped, Complete
      <3> QED
        BY <1>6, <3>1, <3>2
    <2> QED
      BY <2>1, BatchTypes
  <1>7. CASE StopEnd
    BY <1>7, BatchTypes DEF StopEnd
  <1>8. CASE ServeStray \/ ForeignClaim \/ StopBegin \/ UNCHANGED vars
    BY <1>8 DEF ServeStray, ForeignClaim, StopBegin, vars, requests
  <1> QED
    BY <1>1, <1>2, <1>3, <1>4, <1>5, <1>6, <1>7, <1>8 DEF Next, Terminated, Fiber

LEMMA NextClose ==
  ASSUME TypeInv, BatchInv, CloseInv, OneLifecycle, [Next]_vars
  PROVE  CloseInv'
  <1>1. PlaceInv'
    BY NextPlaces DEF CloseInv
  <1>2. ASSUME NEW c \in Closes, SendClose(c)
        PROVE  CloseReady' /\ CloseSlot'
    <2>1. /\ closeRequest' = IF closeRequest = NoTuple THEN [epoch |-> epoch, seq |-> nextSeq]
                                                       ELSE closeRequest
          /\ UNCHANGED <<id, emitted, closeBody, closeResult>>
          /\ \/ phase' = [phase EXCEPT ![0] = "sent"] /\ req' = [req EXCEPT ![0] = closeRequest']
             \/ UNCHANGED <<phase, req>>
      BY <1>2 DEF SendClose
    <2>2. closeRequest' # NoTuple
      BY <2>1, BatchTypes DEF NoTuple
    <2>3. closeRequest = NoTuple => Drained(c) /\ closeBody # Free
      BY <1>2 DEF SendClose, CloseInv, PlaceInv, Places, CallPlace, Drained, Section
    <2>4. closeBody # Free /\ emitted = id /\ \A b \in Ids : phase[b] \notin Active
      BY <2>3, DrainedIdle DEF CloseInv, CloseReady
    <2>5. CloseReady'
      BY <2>1, <2>4, BatchTypes DEF CloseReady
    <2>6. CloseSlot'
      <3>1. CASE phase' = [phase EXCEPT ![0] = "sent"] /\ req' = [req EXCEPT ![0] = closeRequest']
        <4>1. phase'[0] = "sent" /\ req'[0] = closeRequest'
          BY <3>1, BatchTypes
        <4> QED
          BY <2>1, <2>2, <4>1 DEF CloseSlot, CloseInv
      <3>2. CASE UNCHANGED <<phase, req>>
        BY <2>1, <2>2, <3>2 DEF CloseSlot, CloseInv
      <3> QED
        BY <2>1, <3>1, <3>2
    <2> QED
      BY <2>5, <2>6
  <1>3. ASSUME NEW c \in Closes, CloseAnswered(c)
        PROVE  CloseReady' /\ CloseSlot'
    <2>1. closeRequest # NoTuple /\ closeBody # Free
      BY <1>3 DEF CloseAnswered, CloseInv, PlaceInv, Places, CallPlace, Section
    <2>2. UNCHANGED <<id, emitted, closeBody>>
      BY <1>3 DEF CloseAnswered
    <2>3. \/ phase' = [phase EXCEPT ![0] = "none"] /\ UNCHANGED <<closeRequest, req>>
          \/ /\ phase' = [phase EXCEPT ![0] = "sent"]
             /\ closeRequest' = [epoch |-> epoch', seq |-> 0]
             /\ req' = [req EXCEPT ![0] = closeRequest']
      BY <1>3 DEF CloseAnswered
    <2>4. closeRequest' # NoTuple
      BY <2>1, <2>3 DEF NoTuple
    <2>5. CloseReady'
      BY <2>1, <2>2, <2>3, BatchTypes DEF CloseReady, CloseInv
    <2>6. CloseSlot'
      <3>1. \/ phase'[0] = "none" /\ req'[0] = req[0] /\ closeRequest' = closeRequest
            \/ phase'[0] = "sent" /\ req'[0] = closeRequest'
        BY <2>3, BatchTypes
      <3> QED
        BY <2>4, <3>1 DEF CloseSlot, CloseInv
    <2> QED
      BY <2>5, <2>6
  <1>4. ASSUME ~(\E c \in Closes : SendClose(c) \/ CloseAnswered(c))
        PROVE  CloseReady' /\ CloseSlot'
    <2>1. /\ closeRequest' = closeRequest /\ closeResult' = closeResult
          /\ closeBody # Free => closeBody' # Free
      <3>1. CASE \E c \in Restarts : FinishRestart(c)
        <4>1. closeRequest = NoTuple
          BY <3>1, PlaceTypes DEF OneLifecycle, CloseInv, CloseReady
        <4> QED
          BY <3>1, <4>1 DEF FinishRestart
      <3>2. CASE ~\E c \in Restarts : FinishRestart(c)
        BY <1>4, <3>2, CloseTuple
      <3> QED
        BY <3>1, <3>2
    <2>2. CloseReady'
      BY <2>1, ReadyStays DEF CloseInv, CloseReady
    <2>3. CloseSlot'
      BY <1>4, <2>1, SlotZero DEF CloseInv, CloseSlot, BatchInv
    <2> QED
      BY <2>2, <2>3
  <1> QED
    BY <1>1, <1>2, <1>3, <1>4 DEF CloseInv

LEMMA InitClose == Init => CloseInv
  BY InitPlaces, BatchTypes, InitType DEF Init, CloseInv, CloseReady, CloseSlot, Slots

-----------------------------------------------------------------------------
(* What a step does to the epoch, to the claim and to the network. *)

EpochKept == epoch' = epoch /\ nextSeq' >= nextSeq
Restarted(c) == FinishRestart(c) /\ epoch' = epoch + 1
CloseReclaimed(c) ==
  /\ CloseAnswered(c) /\ AutoClaim /\ reply[0].kind = "fenced"
  /\ epoch' = reply[0].num + 1
  /\ closeRequest' = [epoch |-> epoch', seq |-> 0]

LEMMA EpochSteps ==
  ASSUME TypeInv, [Next]_vars
  PROVE  \/ EpochKept \/ \E b \in Ids : Worker(b) /\ Reclaimed(b)
         \/ (\E c \in Restarts : Restarted(c)) \/ \E c \in Closes : CloseReclaimed(c)
  <1> DEFINE Good == \/ EpochKept \/ \E b \in Ids : Worker(b) /\ Reclaimed(b)
                     \/ (\E c \in Restarts : Restarted(c)) \/ \E c \in Closes : CloseReclaimed(c)
  <1>0. epoch \in Nat /\ nextSeq \in Nat
    BY BatchTypes
  <1>1. ASSUME NEW b \in Ids, Worker(b)
        PROVE  Good
    <2>1. CASE Started(b)
      BY <1>0, <2>1 DEF Started, Reserve, EpochKept
    <2>2. ASSUME NEW out, Settled(b, out)
          PROVE  EpochKept
      <3>1. epoch' = epoch /\ (nextSeq' = nextSeq \/ nextSeq' = nextSeq + Cardinality(Held))
        BY <2>2 DEF Settled, Finish, ReserveHeld
      <3>2. Cardinality(Held) \in Nat
        BY CardinalityNat DEF Held
      <3> QED
        BY <1>0, <3>1, <3>2 DEF EpochKept
    <2>3. ASSUME NEW l, Moved(b, l)
          PROVE  EpochKept
      BY <1>0, <2>3 DEF Moved, EpochKept
    <2> QED
      BY <1>1, <2>1, <2>2, <2>3, WorkerShape
  <1>2. ASSUME NEW c \in Calls, Call(c)
        PROVE  Good
    <2>1. CASE \/ BeginAppend(c) \/ Receive(c) \/ EndSource(c) \/ EndFlush(c)
               \/ BeginDetach(c) \/ BeginRestart(c) \/ ShutAdmission(c)
               \/ BeginClose(c) \/ SendClose(c) \/ CloseStopped(c) \/ Stopped(c)
      <3>1. UNCHANGED sequencing
        BY <2>1 DEF BeginAppend, Receive, EndSource, EndFlush, BeginDetach, BeginRestart,
           ShutAdmission, BeginClose, SendClose, CloseStopped, Stopped
      <3> QED
        BY <1>0, <3>1 DEF sequencing, EpochKept
    <2>2. CASE Admit(c) \/ Flush(c)
      <3>1. epoch' = epoch /\ (nextSeq' = nextSeq \/ nextSeq' = nextSeq + 1)
        BY <2>2 DEF Admit, Flush, Emit, Reserve, NothingEmitted
      <3> QED
        BY <1>0, <3>1 DEF EpochKept
    <2>3. CASE FinishRestart(c)
      BY <1>0, <2>3, NumbersAreNat, NextEpochIsExact DEF FinishRestart, Restarted, EpochKept
    <2>4. CASE CloseAnswered(c)
      <3>1. reply[0].num \in Nat
        BY NumbersAreNat, OptionsAssumption DEF Slots
      <3> QED
        BY <1>0, <2>4, <3>1, NextEpochIsExact DEF CloseAnswered, CloseReclaimed, EpochKept
    <2> QED
      BY <1>2, <2>1, <2>2, <2>3, <2>4 DEF Call
  <1>3. CASE Linger
    <2>1. epoch' = epoch /\ (nextSeq' = nextSeq \/ nextSeq' = nextSeq + 1)
      BY <1>3 DEF Linger, Emit, Reserve
    <2> QED
      BY <1>0, <2>1 DEF EpochKept
  <1>4. CASE \/ Offered \/ LingerStopped \/ StopEnd \/ ServeStray \/ ForeignClaim \/ StopBegin
             \/ UNCHANGED vars \/ (\E s \in Slots : Serve(s) \/ Fault(s))
             \/ \E c \in Calls : Interrupt(c)
    <2>1. UNCHANGED <<epoch, nextSeq>>
      BY <1>4 DEF Offered, LingerStopped, StopEnd, ServeStray, ForeignClaim, StopBegin, vars,
         Serve, Fault, Interrupt, sequencing
    <2> QED
      BY <1>0, <2>1 DEF EpochKept
  <1> QED
    BY <1>1, <1>2, <1>3, <1>4 DEF Next, Terminated, Fiber

\* The claim succeeds with the delivery of the first batch.
LEMMA ClaimSteps ==
  ASSUME TypeInv, EmittedAdmitted, [Next]_vars
  PROVE  claimed' = claimed \/ \E b \in Ids : first[b] /\ Worker(b) /\ Settled(b, "ok")
  <1>1. ASSUME NEW b \in Ids, Worker(b)
        PROVE  claimed' = claimed \/ (first[b] /\ Settled(b, "ok"))
    <2>1. ASSUME NEW out \in Outcomes, Settled(b, out), claimed' # claimed
          PROVE  first[b] /\ Settled(b, "ok")
      <3>1. first[b] /\ claimed' = (claimed \/ out = "ok")
        BY <2>1 DEF Settled, Finish
      <3>2. out = "ok"
        BY <2>1, <3>1, ClaimTypes
      <3> QED
        BY <2>1, <3>1, <3>2
    <2> QED
      BY <1>1, <2>1, WorkerShape DEF Started, Reclaimed, Moved
  <1>2. CASE \/ Quiet \/ Pending \/ StopEnd \/ (\E last \in Ids : Emitted(last))
             \/ \E b \in Ids : Answered(b) \/ OfferEnds(b)
    BY <1>2 DEF Quiet, Pending, StopEnd, Emitted, Answered, OfferEnds, batchState, claims
  <1> QED
    BY <1>1, <1>2, NextShape

\* A client gives up on a request under way, which may still arrive.
GivenUp(s) ==
  /\ phase[s] = "sent" /\ phase' = [phase EXCEPT ![s] = IF s = 0 THEN "none" ELSE "dead"]
  /\ strays' = strays \cup {[slot |-> s, req |-> req[s]]}
  /\ UNCHANGED <<server, reply, req>>
\* Nothing happens on the network.
Offline ==
  /\ UNCHANGED <<server, strays, reply>>
  /\ \A s \in Slots : phase'[s] = "replied" => phase[s] = "replied" /\ req'[s] = req[s]

LEMMA NetShape ==
  ASSUME TypeInv, EmittedAdmitted, [Next]_vars
  PROVE  \/ Offline \/ ServeStray \/ ForeignClaim
         \/ \E s \in Slots : GivenUp(s) \/ Serve(s) \/ Fault(s)
  <1> DEFINE Good == Offline \/ \E s \in Slots : GivenUp(s)
  <1>0. 0 \in Slots /\ \A s \in Ids : s \in Slots
    BY BatchTypes
  <1>1. ASSUME NEW b \in Ids, Worker(b)
        PROVE  Good
    <2>0. UNCHANGED server
      BY <1>1, WorkerShape DEF WorkerKeeps
    <2>1. CASE Started(b) \/ Reclaimed(b)
      <3>1. /\ phase' = [phase EXCEPT ![b] = "sent"] /\ \E t : req' = [req EXCEPT ![b] = t]
            /\ UNCHANGED <<reply, strays>>
        BY <2>1 DEF Started, Reclaimed
      <3> QED
        BY <2>0, <3>1, BatchTypes DEF Offline
    <2>2. ASSUME NEW out \in Outcomes, Settled(b, out)
          PROVE  Offline
      <3>1. phase' = [phase EXCEPT ![b] = out] /\ UNCHANGED <<reply, strays, req>>
        BY <2>2 DEF Settled, Finish, Complete
      <3> QED
        BY <2>0, <3>1, BatchTypes DEF Offline, Outcomes, Failures
    <2>3. ASSUME NEW l \in Phases, Moved(b, l)
          PROVE  Good
      <3>1. /\ phase' = [phase EXCEPT ![b] = l] /\ UNCHANGED <<reply, req>> /\ l # "replied"
            /\ strays' = IF l = "dead" THEN Abandoned(b) ELSE strays
        BY <2>3 DEF Moved
      <3>2. CASE UNCHANGED strays
        BY <2>0, <3>1, <3>2, BatchTypes DEF Offline
      <3>3. CASE l = "dead" /\ phase[b] = "sent"
        BY <1>0, <2>0, <3>1, <3>3, BatchTypes DEF GivenUp, Abandoned
      <3> QED
        BY <3>1, <3>2, <3>3 DEF Abandoned
    <2> QED
      BY <1>1, <2>1, <2>2, <2>3, WorkerShape
  <1>2. ASSUME NEW c \in Calls, Call(c)
        PROVE  Good
    <2>1. CASE \/ BeginAppend(c) \/ Receive(c) \/ EndSource(c) \/ EndFlush(c)
               \/ BeginDetach(c) \/ BeginRestart(c) \/ ShutAdmission(c)
               \/ FinishRestart(c) \/ BeginClose(c) \/ Stopped(c)
      <3>1. UNCHANGED <<requests, server, strays>>
        BY <2>1 DEF BeginAppend, Receive, EndSource, EndFlush, BeginDetach, BeginRestart,
           ShutAdmission, FinishRestart, BeginClose, Stopped
      <3> QED
        BY <3>1 DEF Offline, requests
    <2>2. CASE Admit(c) \/ Flush(c)
      <3>1. UNCHANGED <<reply, server, strays, req>>
        BY <2>2 DEF Admit, Flush
      <3>2. UNCHANGED phase \/ \E last : \E l \in {"offer", "queued"} :
                                 phase' = [phase EXCEPT ![last] = l]
        BY <2>2 DEF Admit, Flush, Emit, NothingEmitted
      <3> QED
        BY <3>1, <3>2, BatchTypes DEF Offline
    <2>3. CASE SendClose(c) \/ CloseAnswered(c)
      <3>1. UNCHANGED <<reply, server, strays>>
        BY <2>3 DEF SendClose, CloseAnswered
      <3>2. \/ UNCHANGED <<phase, req>>
            \/ \E l \in {"sent", "none"} : phase' = [phase EXCEPT ![0] = l]
        BY <2>3 DEF SendClose, CloseAnswered
      <3>3. UNCHANGED req \/ \E t : req' = [req EXCEPT ![0] = t]
        BY <2>3 DEF SendClose, CloseAnswered
      <3> QED
        BY <3>1, <3>2, <3>3, BatchTypes DEF Offline
    <2>4. CASE CloseStopped(c)
      <3>1. /\ phase' = [phase EXCEPT ![0] = "none"] /\ strays' = Abandoned(0)
            /\ UNCHANGED <<reply, server, req>>
        BY <2>4 DEF CloseStopped
      <3> QED
        BY <1>0, <3>1, BatchTypes DEF Abandoned, GivenUp, Offline
    <2> QED
      BY <1>2, <2>1, <2>2, <2>3, <2>4 DEF Call
  <1>3. CASE Linger
    <2>1. /\ UNCHANGED <<reply, server, strays, req>>
          /\ \E last : \E l \in {"offer", "queued"} : phase' = [phase EXCEPT ![last] = l]
      BY <1>3 DEF Linger, Emit
    <2> QED
      BY <2>1, BatchTypes DEF Offline
  <1>4. CASE Offered \/ LingerStopped
    <2>1. /\ UNCHANGED <<reply, server, strays, req>>
          /\ UNCHANGED phase \/ \E b \in Ids : \E l \in {"int", "queued"} :
                                  phase' = [phase EXCEPT ![b] = l]
      <3>1. CASE Offered
        BY <3>1 DEF Offered
      <3>2. CASE LingerStopped
        BY <3>2 DEF LingerStopped, Complete
      <3> QED
        BY <1>4, <3>1, <3>2
    <2> QED
      BY <2>1, BatchTypes DEF Offline
  <1>5. CASE StopEnd
    <2>1. /\ UNCHANGED <<reply, server, strays, req>>
          /\ phase' = [s \in Slots |-> IF phase[s] \in {"offer", "queued"} THEN "dead" ELSE phase[s]]
      BY <1>5 DEF StopEnd
    <2> QED
      BY <2>1, BatchTypes DEF Offline
  <1>6. ASSUME NEW c \in Calls, Interrupt(c)
        PROVE  Good
    <2>0. UNCHANGED <<reply, server, req>>
      BY <1>6 DEF Interrupt
    <2>1. CASE /\ UNCHANGED strays
               /\ UNCHANGED phase \/ \E b \in Ids : phase' = [phase EXCEPT ![b] = "int"]
      BY <2>0, <2>1, BatchTypes DEF Offline
    <2>2. CASE strays' = Abandoned(0) /\ phase' = [phase EXCEPT ![0] = "none"]
      BY <1>0, <2>0, <2>2, BatchTypes DEF Abandoned, GivenUp, Offline
    <2> QED
      BY <1>6, <2>1, <2>2 DEF Interrupt, Complete
  <1>7. CASE StopBegin \/ UNCHANGED vars
    BY <1>7 DEF StopBegin, vars, requests, Offline
  <1> QED
    BY <1>1, <1>2, <1>3, <1>4, <1>5, <1>6, <1>7 DEF Next, Terminated, Fiber

-----------------------------------------------------------------------------
(* The server never knows of an epoch that the producer has not reached,   *)
(* apart from the one it held at first.                                    *)

\* autoClaim meets no other writer.
OneClaimant == ~AutoClaim \/ MaxForeign = 0

\* What is in progress belongs to the current epoch.
TupleNow ==
  \A b \in Ids :
     /\ phase[b] \in {"offer", "queued", "claimwait"} /\ tuple[b] # NoTuple =>
          tuple[b].epoch = epoch
     /\ phase[b] \in InFlight => req[b] # NoTuple /\ req[b].epoch = epoch
CloseNow == closeRequest # NoTuple => closeRequest.epoch = epoch
ServerBehind ==
  /\ sEpoch = ServerEpoch \/ sEpoch <= epoch
  /\ claimed => sEpoch <= epoch
  /\ \A r \in strays : r.req.epoch <= epoch
\* Only the initial claim is ever fenced, by the epoch the server held at first.
FencedByServer ==
  \A s \in Slots : phase[s] = "replied" /\ reply[s].kind = "fenced" =>
     ~claimed /\ reply[s].num = ServerEpoch /\ epoch < ServerEpoch
AckedEpoch ==
  \A s \in Slots : phase[s] = "replied" /\ reply[s].kind \in Success => sEpoch <= epoch
ClosedEpoch == sClosed # NoTuple => sClosed.epoch = sEpoch
EpochInv ==
  /\ TupleNow /\ CloseNow /\ ClosedEpoch
  /\ AutoClaim => ServerBehind /\ FencedByServer /\ AckedEpoch

LEMMA ServerTypes ==
  ASSUME TypeInv
  PROVE  /\ sEpoch \in Int /\ sLast \in Int /\ sClosed \in Tuple
         /\ strays \subseteq [slot : Slots, req : Tuple] /\ foreign \in Nat
         /\ \A t \in Tuple : t.epoch \in Int /\ t.seq \in Int
         /\ NoTuple.epoch = -1 /\ NoTuple.seq = -1 /\ NoTuple \in Tuple
         /\ \A s \in Slots : req[s] \in Tuple /\ reply[s].kind \in Kinds /\ reply[s].num \in Nat
         /\ ServerEpoch \in Int
  BY BatchTypes, OptionsAssumption
     DEF TypeInv, TypeOK, ServerType, EnvironmentType, Tuple, NoTuple, Answer

\* Only the initial claim is ever sent again, in a later epoch.
LEMMA ReclaimFirst ==
  ASSUME TypeInv, ClaimInv, EpochInv, NEW b \in Ids, Reclaimed(b)
  PROVE  epoch' > epoch /\ first[b] /\ ~claimed
  <1>1. phase[b] = "replied" /\ reply[b].kind = "fenced" /\ AutoClaim /\ epoch' = reply[b].num + 1
    BY DEF Reclaimed, Replied
  <1>2. ~claimed /\ reply[b].num = ServerEpoch /\ epoch < ServerEpoch
    BY <1>1, BatchTypes DEF EpochInv, FencedByServer
  <1>3. first[b]
    BY <1>1, <1>2 DEF ClaimInv, BeforeClaim, InFlight
  <1> QED
    BY <1>1, <1>2, <1>3, BatchTypes, ServerTypes

\* An epoch never ends while a batch is in progress, unless its first request
\* was fenced.
LEMMA EpochChange ==
  ASSUME TypeInv, BatchInv, ClaimInv, CloseInv, EpochInv, OneLifecycle, [Next]_vars
  PROVE  \/ EpochKept
         \/ /\ epoch' > epoch
            /\ \/ \E b \in Ids : Worker(b) /\ Reclaimed(b) /\ first[b] /\ ~claimed
               \/ /\ \A b \in Ids : phase[b] \notin Active
                  /\ \/ (\E c \in Restarts : Restarted(c)) /\ phase[0] = "none"
                     \/ \E c \in Closes : CloseReclaimed(c)
  <1>1. ASSUME NEW b \in Ids, Reclaimed(b)
        PROVE  epoch' > epoch /\ first[b] /\ ~claimed
    BY <1>1, ReclaimFirst
  <1>2. ASSUME NEW c \in Restarts, Restarted(c)
        PROVE  epoch' > epoch /\ phase[0] = "none" /\ \A b \in Ids : phase[b] \notin Active
    <2>1. \A b \in Ids : phase[b] \notin Active
      BY <1>2, DrainedIdle DEF Restarted, FinishRestart, CloseInv
    <2>2. phase[0] = "none"
      BY <1>2, PlaceTypes DEF OneLifecycle, CloseInv, CloseReady, CloseSlot
    <2> QED
      BY <1>2, <2>1, <2>2, BatchTypes DEF Restarted
  <1>3. ASSUME NEW c \in Closes, CloseReclaimed(c)
        PROVE  epoch' > epoch /\ \A b \in Ids : phase[b] \notin Active
    <2>1. pc[c] = "reply" /\ phase[0] = "replied" /\ 0 \in Slots
      BY <1>3, BatchTypes DEF CloseReclaimed, CloseAnswered
    <2>2. \A b \in Ids : phase[b] \notin Active
      BY <2>1 DEF CloseInv, CloseSlot, CloseReady
    <2>3. reply[0].num = ServerEpoch /\ epoch < ServerEpoch
      BY <1>3, <2>1 DEF EpochInv, FencedByServer, CloseReclaimed
    <2> QED
      BY <1>3, <2>1, <2>2, <2>3, BatchTypes, ServerTypes DEF CloseReclaimed
  <1> QED
    BY <1>1, <1>2, <1>3, EpochSteps

LEMMA NextTupleNow ==
  ASSUME TypeInv, BatchInv, ClaimInv, CloseInv, EpochInv, OneLifecycle, [Next]_vars
  PROVE  TupleNow' /\ CloseNow'
  <1>1. CASE EpochKept
    <2>0. epoch' = epoch
      BY <1>1 DEF EpochKept
    <2>1. ASSUME NEW b \in Ids, Worker(b)
          PROVE  TupleNow'
      <3>1. CASE Started(b)
        <4>1. /\ phase' = [phase EXCEPT ![b] = "sent"]
              /\ \/ /\ tuple[b] # NoTuple /\ UNCHANGED tuple
                    /\ req' = [req EXCEPT ![b] = tuple[b]]
                 \/ /\ tuple' = [tuple EXCEPT ![b] = [epoch |-> epoch, seq |-> nextSeq]]
                    /\ req' = [req EXCEPT ![b] = [epoch |-> epoch, seq |-> nextSeq]]
              /\ phase[b] \in {"queued", "claimwait"}
          BY <3>1 DEF Started, Reserve
        <4>2. req'[b] # NoTuple /\ req'[b].epoch = epoch /\ phase'[b] = "sent"
          BY <4>1, BatchTypes DEF EpochInv, TupleNow, NoTuple
        <4>3. \A d \in Ids : d # b => phase'[d] = phase[d] /\ tuple'[d] = tuple[d] /\ req'[d] = req[d]
          BY <4>1, BatchTypes
        <4> QED
          BY <2>0, <4>2, <4>3 DEF EpochInv, TupleNow
      <3>2. CASE Reclaimed(b)
        BY <1>1, <3>2, EpochChange, ServerTypes, BatchTypes
           DEF EpochKept, Reclaimed, Replied, EpochInv, FencedByServer
      <3>3. ASSUME NEW out \in Outcomes, Settled(b, out)
            PROVE  TupleNow'
        <4>1. phase' = [phase EXCEPT ![b] = out] /\ UNCHANGED req
          BY <3>3 DEF Settled, Finish, Complete
        <4>2. UNCHANGED tuple \/ ReserveHeld
          BY <3>3 DEF Settled, Finish
        <4>3. \A d \in Ids : tuple'[d] = tuple[d] \/ tuple'[d].epoch = epoch
          BY <4>2 DEF ReserveHeld
        <4>4. \A d \in Ids : d # b => phase'[d] = phase[d]
          BY <4>1, BatchTypes
        <4>5. phase'[b] \notin InFlight \cup {"offer", "queued", "claimwait"}
          BY <4>1, BatchTypes DEF InFlight, Outcomes, Failures
        <4> QED
          BY <2>0, <4>1, <4>3, <4>4, <4>5 DEF EpochInv, TupleNow
      <3>4. ASSUME NEW l \in Phases, Moved(b, l)
            PROVE  TupleNow'
        <4>1. /\ phase' = [phase EXCEPT ![b] = l] /\ UNCHANGED <<req, tuple>>
              /\ l \in {"claimwait", "sent", "gapwait", "dead"}
              /\ l = "claimwait" => phase[b] = "queued"
              /\ l \in {"sent", "gapwait"} => phase[b] \in InFlight
          BY <3>4 DEF Moved, Replied, InFlight
        <4> QED
          BY <2>0, <4>1, BatchTypes DEF EpochInv, TupleNow, InFlight
      <3> QED
        BY <2>1, <3>1, <3>2, <3>3, <3>4, WorkerShape
    <2>2. ASSUME Quiet \/ Pending
          PROVE  TupleNow'
      <3>1. UNCHANGED tuple /\ \A d \in Ids : phase'[d] = phase[d] /\ req'[d] = req[d]
        BY <2>2 DEF Quiet, Pending, batchState
      <3> QED
        BY <2>0, <3>1 DEF EpochInv, TupleNow
    <2>3. ASSUME NEW last \in Ids, Emitted(last)
          PROVE  TupleNow'
      <3>1. /\ UNCHANGED req
            /\ \/ UNCHANGED tuple
               \/ tuple' = [tuple EXCEPT ![last] = [epoch |-> epoch, seq |-> nextSeq]]
            /\ \E l \in {"offer", "queued"} : phase' = [phase EXCEPT ![last] = l]
            /\ tuple[last] = NoTuple
        BY <2>3 DEF Emitted, Emit, Reserve, BatchInv, PendingUntouched
      <3>2. \A d \in Ids : d # last => phase'[d] = phase[d] /\ tuple'[d] = tuple[d]
        BY <3>1, BatchTypes
      <3>3. phase'[last] \notin InFlight /\ (tuple'[last] # NoTuple => tuple'[last].epoch = epoch)
        BY <3>1, BatchTypes DEF InFlight
      <3> QED
        BY <2>0, <3>1, <3>2, <3>3 DEF EpochInv, TupleNow
    <2>4. ASSUME NEW b \in Ids, Answered(b)
          PROVE  TupleNow'
      BY <2>0, <2>4, BatchTypes DEF Answered, batchState, EpochInv, TupleNow, InFlight
    <2>5. ASSUME NEW b \in Ids, OfferEnds(b)
          PROVE  TupleNow'
      <3>1. \E l \in {"queued", "int"} : phase' = [phase EXCEPT ![b] = l]
        BY <2>5 DEF OfferEnds, Complete
      <3> QED
        BY <2>0, <2>5, <3>1, BatchTypes DEF OfferEnds, EpochInv, TupleNow, InFlight
    <2>6. ASSUME StopEnd
          PROVE  TupleNow'
      <3>1. /\ UNCHANGED <<tuple, req>>
            /\ phase' = [s \in Slots |-> IF phase[s] \in {"offer", "queued"} THEN "dead" ELSE phase[s]]
        BY <2>6 DEF StopEnd
      <3>2. \A d \in Ids : phase'[d] = phase[d] \/ phase'[d] = "dead"
        BY <3>1, BatchTypes
      <3> QED
        BY <2>0, <3>1, <3>2 DEF EpochInv, TupleNow, InFlight
    <2>7. TupleNow'
      BY <2>1, <2>2, <2>3, <2>4, <2>5, <2>6, NextShape DEF BatchInv
    <2>8. CloseNow'
      <3>1. ASSUME NEW c \in Closes, SendClose(c)
            PROVE  CloseNow'
        BY <2>0, <3>1 DEF SendClose, EpochInv, CloseNow
      <3>2. ASSUME NEW c \in Closes, CloseAnswered(c)
            PROVE  CloseNow'
        BY <2>0, <3>2 DEF CloseAnswered, EpochInv, CloseNow
      <3>3. ASSUME NEW c \in Restarts, FinishRestart(c)
            PROVE  CloseNow'
        BY <2>0, <3>3 DEF FinishRestart, EpochInv, CloseNow
      <3> QED
        BY <2>0, <3>1, <3>2, <3>3, CloseTuple DEF EpochInv, CloseNow
    <2> QED
      BY <2>7, <2>8
  <1>2. ASSUME NEW b \in Ids, Worker(b), Reclaimed(b), first[b], ~claimed
        PROVE  TupleNow' /\ CloseNow'
    <2>1. /\ phase' = [phase EXCEPT ![b] = "sent"]
          /\ req' = [req EXCEPT ![b] = [epoch |-> epoch', seq |-> 0]]
          /\ UNCHANGED tuple /\ phase[b] = "replied" /\ epoch' = reply[b].num + 1
      BY <1>2 DEF Reclaimed, Replied
    <2>2. \A d \in Ids : d # b => tuple[d] = NoTuple /\ phase[d] \notin InFlight
      BY <1>2 DEF ClaimInv, FirstOnce, BeforeClaim
    <2>3. phase'[b] = "sent" /\ req'[b] = [epoch |-> epoch', seq |-> 0]
      BY <2>1, BatchTypes
    <2>4. req'[b] # NoTuple /\ req'[b].epoch = epoch'
      BY <2>3 DEF NoTuple
    <2>5. \A d \in Ids : d # b => phase'[d] = phase[d]
      BY <2>1, BatchTypes
    <2>6. TupleNow'
      BY <2>1, <2>2, <2>3, <2>4, <2>5 DEF TupleNow
    <2>7. closeRequest = NoTuple
      BY <2>1 DEF CloseInv, CloseReady, Active, Working
    <2>8. closeRequest' = closeRequest
      BY <1>2, WorkerShape DEF WorkerKeeps, closing
    <2> QED
      BY <2>6, <2>7, <2>8 DEF CloseNow
  <1>3. ASSUME \A b \in Ids : phase[b] \notin Active,
               \/ (\E c \in Restarts : Restarted(c)) /\ phase[0] = "none"
               \/ \E c \in Closes : CloseReclaimed(c)
        PROVE  TupleNow' /\ CloseNow'
    <2>1. \A b \in Ids : phase'[b] \notin Active
      <3>1. UNCHANGED phase \/ \E l : phase' = [phase EXCEPT ![0] = l]
        BY <1>3 DEF Restarted, FinishRestart, CloseReclaimed, CloseAnswered, requests
      <3> QED
        BY <1>3, <3>1, BatchTypes
    <2>2. TupleNow'
      BY <2>1 DEF TupleNow, Active, Working, InFlight
    <2>3. CASE \E c \in Closes : CloseReclaimed(c)
      <3>1. CloseNow'
        BY <2>3 DEF CloseReclaimed, CloseNow
      <3> QED
        BY <2>2, <3>1
    <2>4. CASE \E c \in Restarts : Restarted(c)
      <3>1. closeRequest = NoTuple
        BY <2>4, PlaceTypes DEF OneLifecycle, CloseInv, CloseReady
      <3>2. closeRequest' = NoTuple
        BY <2>4, <3>1 DEF Restarted, FinishRestart
      <3> QED
        BY <2>2, <3>2 DEF CloseNow
    <2> QED
      BY <1>3, <2>3, <2>4
  <1> QED
    BY <1>1, <1>2, <1>3, EpochChange

LEMMA SentEpoch ==
  ASSUME TypeInv, CloseInv, EpochInv, NEW s \in Slots, phase[s] \in {"sent", "replied"}
  PROVE  req[s].epoch = epoch /\ req[s] # NoTuple
  <1>1. CASE s = 0
    BY <1>1 DEF CloseInv, CloseSlot, EpochInv, CloseNow
  <1>2. CASE s \in Ids
    BY <1>2 DEF EpochInv, TupleNow, InFlight
  <1> QED
    BY <1>1, <1>2, BatchTypes

\* What the server accepts or may answer, as far as epochs are concerned.
LEMMA RefusedEpoch ==
  ASSUME TypeInv, ClosedEpoch, NEW t \in Tuple, NEW r \in Refusals(t), t # NoTuple
  PROVE  /\ r.kind = "fenced" => t.epoch < sEpoch /\ r.num = sEpoch
         /\ r.kind \in Success => t.epoch = sEpoch
  <1>0. sEpoch \in Int /\ t.epoch \in Int
    BY ServerTypes
  <1>1. CASE sClosed # NoTuple
    <2>1. CASE t = sClosed
      <3>1. r.kind = "dup"
        BY <1>1, <2>1 DEF Refusals
      <3> QED
        BY <1>1, <2>1, <3>1 DEF ClosedEpoch
    <2>2. CASE t # sClosed
      <3>1. r.kind = "closed"
        BY <1>1, <2>2 DEF Refusals
      <3> QED
        BY <3>1 DEF Success
    <2> QED
      BY <2>1, <2>2
  <1>2. CASE sClosed = NoTuple
    <2>1. CASE t.epoch < sEpoch
      <3>1. r.kind = "fenced" /\ r.num = sEpoch
        BY <1>2, <2>1 DEF Refusals
      <3> QED
        BY <2>1, <3>1 DEF Success
    <2>2. CASE t.epoch > sEpoch
      <3>1. r.kind \in {"gap", "rejected"}
        BY <1>0, <1>2, <2>2 DEF Refusals
      <3> QED
        BY <3>1 DEF Success
    <2>3. CASE t.epoch = sEpoch
      <3>1. r.kind \in {"dup", "gap"}
        BY <1>0, <1>2, <2>3 DEF Refusals
      <3> QED
        BY <2>3, <3>1
    <2> QED
      BY <1>0, <2>1, <2>2, <2>3
  <1> QED
    BY <1>1, <1>2

LEMMA NextClosedEpoch ==
  ASSUME TypeInv, EmittedAdmitted, ClosedEpoch, [Next]_vars
  PROVE  ClosedEpoch'
  <1>1. CASE UNCHANGED server
    BY <1>1 DEF server, ClosedEpoch
  <1>2. CASE ForeignClaim
    BY <1>2 DEF ForeignClaim, ClosedEpoch
  <1>3. ASSUME NEW s, NEW t, Accept(s, t)
        PROVE  ClosedEpoch'
    BY <1>3 DEF Accept, Accepts, ClosedEpoch
  <1> QED
    BY <1>1, <1>2, <1>3, NetShape DEF Offline, GivenUp, Fault, Serve, ServeStray

\* With autoClaim and no other writer, whatever reaches the server belongs to
\* the current epoch or to an earlier one.
LEMMA ServerEpochStep ==
  ASSUME TypeInv, BatchInv, CloseInv, EpochInv, AutoClaim, MaxForeign = 0, [Next]_vars
  PROVE  /\ UNCHANGED server \/ sEpoch' <= epoch
         /\ \A r \in strays' : r.req.epoch <= epoch
  <1>0. EmittedAdmitted /\ epoch \in Int /\ \A r \in strays : r.req.epoch <= epoch
    BY BatchTypes DEF BatchInv, EpochInv, ServerBehind
  <1>1. ~ForeignClaim
    BY ServerTypes DEF ForeignClaim
  <1>2. CASE Offline
    BY <1>0, <1>2 DEF Offline
  <1>3. CASE ServeStray
    BY <1>0, <1>3 DEF ServeStray, Accept
  <1>4. ASSUME NEW s \in Slots, GivenUp(s) \/ Fault(s)
        PROVE  UNCHANGED server /\ \A r \in strays' : r.req.epoch <= epoch
    <2>1. /\ UNCHANGED server /\ phase[s] \in {"sent", "replied"}
          /\ \A r \in strays' : r \in strays \/ r.req = req[s]
      BY <1>4 DEF GivenUp, Fault, Abandoned
    <2> QED
      BY <1>0, <2>1, SentEpoch
  <1>5. ASSUME NEW s \in Slots, Serve(s)
        PROVE  UNCHANGED strays /\ (UNCHANGED server \/ sEpoch' <= epoch)
    BY <1>0, <1>5, SentEpoch DEF Serve, Accept
  <1> QED
    BY <1>0, <1>1, <1>2, <1>3, <1>4, <1>5, NetShape

\* A batch settled as the first of its claim, or sent again, is alone.
LEMMA FirstAlone ==
  ASSUME TypeInv, ClaimInv, CloseInv, ~claimed, NEW b \in Ids, first[b],
         phase[b] = "replied", NEW s \in Slots, phase[s] = "replied"
  PROVE  s = b
  <1>1. s # 0
    BY DEF CloseInv, CloseSlot, CloseReady, Active, Working
  <1>2. s \in Ids
    BY <1>1, BatchTypes
  <1>3. first[s]
    BY <1>2 DEF ClaimInv, BeforeClaim, InFlight
  <1> QED
    BY <1>2, <1>3 DEF ClaimInv, FirstOnce

LEMMA NextServerBehind ==
  ASSUME TypeInv, BatchInv, ClaimInv, CloseInv, EpochInv, OneLifecycle,
         AutoClaim, MaxForeign = 0, [Next]_vars
  PROVE  (ServerBehind /\ FencedByServer /\ AckedEpoch)'
  <1>0. /\ EmittedAdmitted /\ ServerBehind /\ FencedByServer /\ AckedEpoch /\ ClosedEpoch
        /\ epoch \in Nat /\ sEpoch \in Int /\ ServerEpoch \in Int
    BY BatchTypes, ServerTypes DEF BatchInv, EpochInv
  <1>1. epoch' >= epoch /\ epoch' \in Nat /\ sEpoch' \in Int
    <2>1. TypeInv'
      BY NextType
    <2>2. epoch' \in Nat /\ sEpoch' \in Int
      BY <2>1 DEF TypeInv, TypeOK, SequencingType, ServerType
    <2> QED
      BY <1>0, <2>2, EpochChange DEF EpochKept
  <1>2. /\ UNCHANGED sEpoch \/ sEpoch' <= epoch'
        /\ \A r \in strays' : r.req.epoch <= epoch'
    <2>1. \A r \in strays' : r.req.epoch \in Int
      <3>1. TypeInv'
        BY NextType
      <3> QED
        BY <3>1 DEF TypeInv, TypeOK, ServerType, Tuple
    <2> QED
      BY <1>0, <1>1, <2>1, ServerEpochStep DEF server
  \* The claim succeeds only when its request was accepted.
  <1>3. ASSUME claimed', ~claimed
        PROVE  /\ \A s \in Slots : phase'[s] # "replied" \/ reply'[s].kind # "fenced"
               /\ sEpoch <= epoch
    <2>1. PICK b \in Ids : first[b] /\ Worker(b) /\ Settled(b, "ok")
      BY <1>0, <1>3, ClaimSteps
    <2>2. /\ phase[b] = "replied" /\ reply[b].kind \in Success
          /\ phase' = [phase EXCEPT ![b] = "ok"] /\ UNCHANGED reply
      BY <2>1 DEF Settled, Replied, Finish, Complete, Failures
    <2>3. b \in Slots /\ sEpoch <= epoch
      BY <1>0, <2>2, BatchTypes DEF AckedEpoch
    <2>4. \A s \in Slots : phase'[s] = "replied" => s # b /\ phase[s] = "replied"
      BY <2>2, BatchTypes
    <2> QED
      BY <1>3, <2>1, <2>2, <2>3, <2>4, FirstAlone
  <1>4. ServerBehind'
    BY <1>0, <1>1, <1>2, <1>3 DEF ServerBehind
  <1>5. ASSUME NEW s \in Slots, Serve(s)
        PROVE  (FencedByServer /\ AckedEpoch)'
    <2>1. /\ phase' = [phase EXCEPT ![s] = "replied"] /\ UNCHANGED <<epoch, claimed>>
          /\ \E r : reply' = [reply EXCEPT ![s] = r]
          /\ req[s] # NoTuple /\ req[s].epoch = epoch /\ req[s] \in Tuple
      BY <1>5, SentEpoch, ServerTypes DEF Serve, sequencing, claims
    <2>2. \A u \in Slots : u # s => phase'[u] = phase[u] /\ reply'[u] = reply[u]
      BY <2>1, BatchTypes
    <2>3. CASE /\ Accept(s, req[s])
               /\ reply' = [reply EXCEPT ![s] = [kind |-> "ok", num |-> 0,
                                          offset |-> Len(log) + 1, closed |-> s = 0]]
      <3>1. sEpoch' = epoch /\ reply'[s].kind = "ok"
        BY <2>1, <2>3, BatchTypes DEF Accept
      <3> QED
        BY <1>0, <2>1, <2>2, <3>1 DEF FencedByServer, AckedEpoch
    <2>4. ASSUME NEW r \in Refusals(req[s]), reply' = [reply EXCEPT ![s] = r], UNCHANGED server
          PROVE  (FencedByServer /\ AckedEpoch)'
      <3>1. reply'[s] = r /\ sEpoch' = sEpoch
        BY <2>4, BatchTypes DEF server
      <3>2. /\ r.kind = "fenced" => epoch < sEpoch /\ r.num = sEpoch
            /\ r.kind \in Success => epoch = sEpoch
        BY <1>0, <2>1, <2>4, RefusedEpoch
      <3>3. r.kind = "fenced" => ~claimed /\ r.num = ServerEpoch /\ epoch < ServerEpoch
        BY <1>0, <3>2 DEF ServerBehind
      <3> QED
        BY <1>0, <2>1, <2>2, <3>1, <3>2, <3>3 DEF FencedByServer, AckedEpoch
    <2> QED
      BY <1>5, <2>3, <2>4 DEF Serve
  \* Without a new answer the replies that are left are old ones.
  <1>6. ASSUME \A s \in Slots : phase'[s] = "replied" /\ reply'[s].kind # "rejected" =>
                 phase[s] = "replied" /\ reply'[s] = reply[s]
        PROVE  (FencedByServer /\ AckedEpoch)'
    <2>1. AckedEpoch'
      <3> SUFFICES ASSUME NEW s \in Slots, phase'[s] = "replied", reply'[s].kind \in Success
                   PROVE  sEpoch' <= epoch'
        BY DEF AckedEpoch
      <3>1. phase[s] = "replied" /\ reply'[s] = reply[s]
        BY <1>6 DEF Success
      <3> QED
        BY <1>0, <1>1, <1>2, <3>1 DEF AckedEpoch
    <2>2. FencedByServer'
      <3> SUFFICES ASSUME NEW s \in Slots, phase'[s] = "replied", reply'[s].kind = "fenced"
                   PROVE  ~claimed' /\ reply'[s].num = ServerEpoch /\ epoch' < ServerEpoch
        BY DEF FencedByServer
      <3>1. phase[s] = "replied" /\ reply'[s] = reply[s]
        BY <1>6
      <3>2. ~claimed /\ reply[s].num = ServerEpoch /\ epoch < ServerEpoch
        BY <1>0, <3>1 DEF FencedByServer
      <3>3. ~claimed'
        BY <1>3, <3>2
      <3>4. epoch' = epoch
        <4>1. ASSUME NEW b \in Ids, Worker(b), Reclaimed(b), first[b], ~claimed
              PROVE  FALSE
          <5>1. phase[b] = "replied" /\ phase'[b] = "sent"
            BY <4>1, BatchTypes DEF Reclaimed, Replied
          <5> QED
            BY <3>1, <4>1, <5>1, FirstAlone
        <4>2. ASSUME \A b \in Ids : phase[b] \notin Active
              PROVE  s = 0
          BY <3>1, <4>2, BatchTypes DEF Active, Working
        <4>3. ASSUME NEW c \in Closes, CloseReclaimed(c), epoch' > epoch
              PROVE  phase'[0] = "sent"
          <5>1. phase' = [phase EXCEPT ![0] = "sent"]
            BY <1>0, <4>3 DEF CloseReclaimed, CloseAnswered, Success
          <5> QED
            BY <5>1, BatchTypes
        <4> QED
          BY <3>1, <4>1, <4>2, <4>3, EpochChange DEF EpochKept
      <3> QED
        BY <3>1, <3>2, <3>3, <3>4
    <2> QED
      BY <2>1, <2>2
  <1>7. CASE Offline \/ ServeStray \/ \E s \in Slots : GivenUp(s)
    <2>1. \A s \in Slots : phase'[s] = "replied" => phase[s] = "replied" /\ reply'[s] = reply[s]
      BY <1>7, BatchTypes DEF Offline, ServeStray, GivenUp, requests
    <2> QED
      BY <1>4, <1>6, <2>1
  <1>8. ASSUME NEW s \in Slots, Fault(s)
        PROVE  (FencedByServer /\ AckedEpoch)'
    <2>1. /\ phase' = [phase EXCEPT ![s] = "replied"]
          /\ reply' = [reply EXCEPT ![s] = [NoAnswer EXCEPT !.kind = "rejected"]]
      BY <1>8 DEF Fault
    <2>2. reply'[s].kind = "rejected"
      BY <2>1, BatchTypes DEF NoAnswer
    <2>3. \A u \in Slots : u # s => phase'[u] = phase[u] /\ reply'[u] = reply[u]
      BY <2>1, BatchTypes
    <2> QED
      BY <1>6, <2>2, <2>3
  <1>9. ~ForeignClaim
    BY ServerTypes DEF ForeignClaim
  <1> QED
    BY <1>0, <1>4, <1>5, <1>7, <1>8, <1>9, NetShape

LEMMA NextEpochInv ==
  ASSUME TypeInv, BatchInv, ClaimInv, CloseInv, EpochInv, OneLifecycle, OneClaimant, [Next]_vars
  PROVE  EpochInv'
  <1>1. ClosedEpoch'
    BY NextClosedEpoch DEF BatchInv, EpochInv
  <1>2. AutoClaim => (ServerBehind /\ FencedByServer /\ AckedEpoch)'
    BY NextServerBehind DEF OneClaimant
  <1> QED
    BY <1>1, <1>2, NextTupleNow DEF EpochInv

LEMMA InitEpoch == Init => EpochInv
  <1> SUFFICES ASSUME Init PROVE EpochInv
    OBVIOUS
  <1>1. TypeInv
    BY InitType
  <1>2. TupleNow /\ CloseNow /\ ClosedEpoch
    BY <1>1, BatchTypes DEF Init, TupleNow, CloseNow, ClosedEpoch, InFlight
  <1>3. FencedByServer /\ AckedEpoch
    BY DEF Init, FencedByServer, AckedEpoch
  <1>4. AutoClaim => ServerBehind
    BY ClaimTypes, <1>1 DEF Init, ServerBehind
  <1> QED
    BY <1>2, <1>3, <1>4 DEF EpochInv

-----------------------------------------------------------------------------
(* Every pair given out lies below the next one, and belongs to one batch. *)

Below(t) == t.epoch < epoch \/ (t.epoch = epoch /\ t.seq < nextSeq)
\* The pair of a batch: the one it is sent under, or the one it has reserved.
Name(b) == IF req[b] # NoTuple THEN req[b] ELSE tuple[b]
NamesUsed == \A b \in Ids : Name(b) # NoTuple => Below(Name(b))
NamesDistinct == \A b, c \in Ids : Name(b) = Name(c) /\ Name(b) # NoTuple => b = c
CloseFresh == closeRequest # NoTuple => \A b \in Ids : Name(b) # closeRequest
NameInv == NamesUsed /\ NamesDistinct /\ CloseFresh

\* The pairs reserved for the held batches are consecutive, in their order.
LEMMA HeldInOrder ==
  ASSUME TypeInv, NEW b \in Held
  PROVE  /\ SeqOfHeld(b) \in Nat /\ SeqOfHeld(b) >= nextSeq
         /\ SeqOfHeld(b) < nextSeq + Cardinality(Held)
         /\ \A c \in Held : b < c => SeqOfHeld(b) < SeqOfHeld(c)
  <1> DEFINE Before(c) == {d \in Held : d < c}
  <1>0. /\ Held \subseteq Ids /\ Ids \subseteq Nat /\ IsFiniteSet(Held)
        /\ nextSeq \in Nat
    <2>1. IsFiniteSet(Ids)
      BY OptionsAssumption, FS_Interval DEF Ids
    <2>2. Held \subseteq Ids
      BY DEF Held
    <2> QED
      BY <2>1, <2>2, FS_Subset, BatchTypes
  <1>1. \A S \in SUBSET Held : IsFiniteSet(S) /\ Cardinality(S) \in Nat
    BY <1>0, FS_Subset, FS_CardinalityType
  <1>2. ASSUME NEW S \in SUBSET Held, NEW T \in SUBSET S, b \in S, b \notin T
        PROVE  Cardinality(T) < Cardinality(S)
    <2>1. Cardinality(T) <= Cardinality(S) /\ Cardinality(T) # Cardinality(S)
      BY <1>1, <1>2, FS_Subset
    <2>2. Cardinality(T) \in Nat /\ Cardinality(S) \in Nat
      BY <1>1
    <2> QED
      BY <2>1, <2>2
  <1>3. \A c \in Held : Before(c) \in SUBSET Held /\ SeqOfHeld(c) = nextSeq + Cardinality(Before(c))
    BY DEF SeqOfHeld
  <1>4. b \notin Before(b)
    BY <1>0
  <1>5. Cardinality(Before(b)) < Cardinality(Held)
    BY <1>2, <1>3, <1>4
  <1>6. ASSUME NEW c \in Held, b < c
        PROVE  Cardinality(Before(b)) < Cardinality(Before(c))
    <2>0. \A d \in Held : d \in Nat
      BY <1>0
    <2>1. b \in Before(c) /\ Before(b) \subseteq Before(c)
      BY <1>6, <2>0
    <2> HIDE DEF Before
    <2> QED
      BY <1>2, <1>3, <1>4, <2>1
  <1>7. \A c \in Held : Cardinality(Before(c)) \in Nat
    BY <1>1, <1>3
  <1>8. Cardinality(Held) \in Nat
    BY <1>1
  <1> HIDE DEF Before
  <1> QED
    BY <1>0, <1>3, <1>5, <1>6, <1>7, <1>8

\* What one step may do to the pairs: give out the next ones of the epoch, or
\* begin an epoch.
Renamed(b) == Name(b)' # Name(b)
GivesOut ==
  /\ epoch' = epoch
  /\ \A b \in Ids : Renamed(b) => /\ tuple[b] = NoTuple /\ (Name(b)').epoch = epoch
                                  /\ (Name(b)').seq \in nextSeq..(nextSeq' - 1)
  /\ \A b, c \in Ids : Renamed(b) /\ Renamed(c) /\ Name(b)' = Name(c)' => b = c
BeginsEpoch(b) ==
  /\ Name(b)' = [epoch |-> epoch', seq |-> 0] /\ nextSeq' = 1 /\ epoch' = reply[b].num + 1
  /\ \A c \in Ids : c # b => Name(c)' = Name(c)

LEMMA NameSteps ==
  ASSUME TypeInv, BatchInv, [Next]_vars
  PROVE  \/ \A b \in Ids : Name(b)' = Name(b)
         \/ GivesOut
         \/ \E b \in Ids : Worker(b) /\ Reclaimed(b) /\ BeginsEpoch(b)
  <1> DEFINE Same == \A b \in Ids : Name(b)' = Name(b)
  \* One batch gets the next pair.
  <1>1. ASSUME NEW b \in Ids, epoch' = epoch, nextSeq' = nextSeq + 1, tuple[b] = NoTuple,
               Name(b)' = [epoch |-> epoch, seq |-> nextSeq],
               \A c \in Ids : c # b => Name(c)' = Name(c)
        PROVE  GivesOut
    BY <1>1, BatchTypes DEF GivesOut, Renamed
  <1>2. ASSUME NEW b \in Ids, Worker(b), Started(b)
        PROVE  Same \/ GivesOut
    <2>1. req[b] = NoTuple /\ UNCHANGED epoch
      BY <1>2 DEF Started, BatchInv, UnsentUnnamed
    <2>2. CASE tuple[b] # NoTuple /\ UNCHANGED tuple /\ req' = [req EXCEPT ![b] = tuple[b]]
      <3>1. \A c \in Ids : c # b => req'[c] = req[c]
        BY <2>2, BatchTypes
      <3>2. req'[b] = tuple[b]
        BY <2>2, BatchTypes
      <3> QED
        BY <2>1, <2>2, <3>1, <3>2 DEF Name
    <2>3. CASE /\ tuple[b] = NoTuple /\ Reserve(b)
               /\ req' = [req EXCEPT ![b] = [epoch |-> epoch, seq |-> nextSeq]]
      <3>1. /\ tuple' = [tuple EXCEPT ![b] = [epoch |-> epoch, seq |-> nextSeq]]
            /\ nextSeq' = nextSeq + 1
        BY <2>3 DEF Reserve
      <3>2. \A c \in Ids : c # b => req'[c] = req[c] /\ tuple'[c] = tuple[c]
        BY <2>3, <3>1, BatchTypes
      <3>3. /\ req'[b] = [epoch |-> epoch, seq |-> nextSeq]
            /\ tuple'[b] = [epoch |-> epoch, seq |-> nextSeq]
        BY <2>3, <3>1, BatchTypes
      <3>4. Name(b)' = [epoch |-> epoch, seq |-> nextSeq]
        BY <3>3 DEF Name
      <3>5. \A c \in Ids : c # b => Name(c)' = Name(c)
        BY <3>2 DEF Name
      <3> QED
        BY <1>1, <2>1, <2>3, <3>1, <3>4, <3>5
    <2> QED
      BY <1>2, <2>2, <2>3 DEF Started
  <1>3. ASSUME NEW b \in Ids, Worker(b), Reclaimed(b)
        PROVE  BeginsEpoch(b)
    <2>1. /\ req' = [req EXCEPT ![b] = [epoch |-> epoch', seq |-> 0]] /\ UNCHANGED tuple
          /\ nextSeq' = 1 /\ epoch' = reply[b].num + 1
      BY <1>3 DEF Reclaimed
    <2>2. /\ req'[b] = [epoch |-> epoch', seq |-> 0]
          /\ \A c \in Ids : c # b => req'[c] = req[c]
      BY <2>1, BatchTypes
    <2>3. Name(b)' = [epoch |-> epoch', seq |-> 0]
      BY <2>2 DEF Name, NoTuple
    <2>4. \A c \in Ids : c # b => Name(c)' = Name(c)
      BY <2>1, <2>2 DEF Name
    <2> QED
      BY <2>1, <2>3, <2>4 DEF BeginsEpoch
  <1>4. ASSUME NEW b \in Ids, Worker(b), NEW out \in Outcomes, Settled(b, out)
        PROVE  Same \/ GivesOut
    <2>1. UNCHANGED <<req, epoch>>
      BY <1>4 DEF Settled
    <2>2. CASE UNCHANGED tuple
      BY <2>1, <2>2 DEF Name
    <2>3. CASE ReserveHeld
      <3>1. \A c \in Ids : c \in Held => req[c] = NoTuple /\ tuple[c] = NoTuple
        BY DEF Held, BatchInv, UnsentUnnamed
      <3>2. \A c \in Ids : c \in Held => Name(c)' = [epoch |-> epoch, seq |-> SeqOfHeld(c)]
        BY <2>1, <2>3, <3>1 DEF Name, ReserveHeld
      <3>3. \A c \in Ids : c \notin Held => Name(c)' = Name(c)
        BY <2>1, <2>3 DEF Name, ReserveHeld
      <3>4. nextSeq' = nextSeq + Cardinality(Held) /\ nextSeq \in Nat
        BY <2>3, BatchTypes DEF ReserveHeld
      <3>5. Cardinality(Held) \in Nat
        BY CardinalityNat DEF Held
      <3>6. \A c \in Held : SeqOfHeld(c) \in nextSeq..(nextSeq' - 1)
        BY <3>4, <3>5, HeldInOrder
      <3>7. \A c \in Ids : Renamed(c) => c \in Held
        BY <3>3 DEF Renamed
      <3>8. ASSUME NEW c \in Ids, Renamed(c)
            PROVE  /\ tuple[c] = NoTuple /\ (Name(c)').epoch = epoch
                   /\ (Name(c)').seq \in nextSeq..(nextSeq' - 1)
        BY <3>1, <3>2, <3>6, <3>7, <3>8
      <3>9. ASSUME NEW c \in Ids, NEW d \in Ids, Renamed(c), Renamed(d), Name(c)' = Name(d)'
            PROVE  c = d
        <4>1. c \in Held /\ d \in Held
          BY <3>7, <3>9
        <4>2. (Name(c)').seq = SeqOfHeld(c) /\ (Name(d)').seq = SeqOfHeld(d)
          BY <3>2, <4>1
        <4>3. SeqOfHeld(c) = SeqOfHeld(d)
          BY <3>9, <4>2
        <4> QED
          BY <4>1, <4>3, HeldInOrder, BatchTypes
      <3> QED
        BY <2>1, <3>8, <3>9 DEF GivesOut
    <2> QED
      BY <1>4, <2>2, <2>3 DEF Settled, Finish
  <1>5. ASSUME NEW b \in Ids, Worker(b), NEW l \in Phases, Moved(b, l)
        PROVE  Same
    BY <1>5 DEF Moved, Name
  <1>6. ASSUME \/ Quiet \/ Pending \/ StopEnd \/ \E b \in Ids : Answered(b) \/ OfferEnds(b)
        PROVE  Same
    <2>1. UNCHANGED tuple /\ \A b \in Ids : req'[b] = req[b]
      BY <1>6 DEF Quiet, Pending, batchState, StopEnd, Answered, OfferEnds
    <2> QED
      BY <2>1 DEF Name
  <1>7. ASSUME NEW last \in Ids, Emitted(last)
        PROVE  Same \/ GivesOut
    <2>1. tuple[last] = NoTuple /\ req[last] = NoTuple /\ UNCHANGED <<req, epoch>>
      BY <1>7 DEF Emitted, BatchInv, PendingUntouched
    <2>2. CASE UNCHANGED tuple
      BY <2>1, <2>2 DEF Name
    <2>3. CASE Reserve(last)
      <3>1. /\ tuple' = [tuple EXCEPT ![last] = [epoch |-> epoch, seq |-> nextSeq]]
            /\ nextSeq' = nextSeq + 1
        BY <2>3 DEF Reserve
      <3>2. /\ tuple'[last] = [epoch |-> epoch, seq |-> nextSeq]
            /\ \A c \in Ids : c # last => tuple'[c] = tuple[c]
        BY <3>1, BatchTypes
      <3>3. Name(last)' = [epoch |-> epoch, seq |-> nextSeq]
        BY <2>1, <3>2 DEF Name
      <3>4. \A c \in Ids : c # last => Name(c)' = Name(c)
        BY <2>1, <3>2 DEF Name
      <3> QED
        BY <1>1, <2>1, <3>1, <3>3, <3>4
    <2> QED
      BY <1>7, <2>2, <2>3 DEF Emitted, Emit
  <1> QED
    BY <1>2, <1>3, <1>4, <1>5, <1>6, <1>7, NextShape, WorkerShape DEF BatchInv

LEMMA NextNames ==
  ASSUME TypeInv, BatchInv, ClaimInv, CloseInv, EpochInv, NameInv, OneLifecycle, [Next]_vars
  PROVE  NameInv'
  <1>0. /\ epoch \in Nat /\ nextSeq \in Nat /\ epoch' \in Nat /\ nextSeq' \in Nat
        /\ \A b \in Ids : Name(b) \in Tuple /\ Name(b)' \in Tuple
    <2>1. TypeInv'
      BY NextType
    <2>2. epoch' \in Nat /\ nextSeq' \in Nat /\ tuple' \in [Ids -> Tuple] /\ req' \in [Slots -> Tuple]
      BY <2>1 DEF TypeInv, TypeOK, SequencingType, RequestType
    <2> QED
      BY <2>2, BatchTypes DEF Name
  <1>1. \A t \in Tuple : Below(t) => t.epoch <= epoch
    BY <1>0 DEF Below, Tuple
  <1>2. \A t \in Tuple : t.epoch \in Int /\ t.seq \in Int
    BY DEF Tuple
  <1>3. \A t \in Tuple : Below(t) => Below(t)'
    BY <1>0, <1>1, <1>2, EpochChange DEF EpochKept, Below
  <1>4. CASE \A b \in Ids : Name(b)' = Name(b)
    <2>1. NamesUsed' /\ NamesDistinct'
      BY <1>0, <1>3, <1>4 DEF NameInv, NamesUsed, NamesDistinct, Below
    <2>2. CloseFresh'
      <3>1. CASE closeRequest' = closeRequest \/ closeRequest' = NoTuple
        BY <1>4, <3>1 DEF NameInv, CloseFresh
      <3>2. CASE closeRequest' = [epoch |-> epoch, seq |-> nextSeq]
        <4>1. \A b \in Ids : Name(b) # closeRequest'
          BY <1>0, <3>2 DEF NameInv, NamesUsed, Below, NoTuple
        <4> QED
          BY <1>4, <4>1 DEF CloseFresh
      <3>3. ASSUME NEW c \in Closes, CloseReclaimed(c), closeRequest' # closeRequest
            PROVE  CloseFresh'
        <4>1. closeRequest' = [epoch |-> epoch', seq |-> 0]
          BY <3>3 DEF CloseReclaimed
        <4>2. epoch' > epoch
          <5>1. phase[0] = "replied" /\ reply[0].kind = "fenced" /\ epoch' = reply[0].num + 1
            BY <3>3 DEF CloseReclaimed, CloseAnswered
          <5>2. reply[0].num = ServerEpoch /\ epoch < ServerEpoch
            BY <3>3, <5>1, BatchTypes DEF EpochInv, FencedByServer, CloseReclaimed
          <5> QED
            BY <1>0, <5>1, <5>2, ServerTypes
        <4>3. \A b \in Ids : Name(b) # closeRequest'
          BY <1>0, <4>1, <4>2 DEF NameInv, NamesUsed, Below, NoTuple
        <4> QED
          BY <1>4, <4>3 DEF CloseFresh
      <3>4. ASSUME NEW c \in Closes, CloseAnswered(c)
            PROVE  closeRequest' = closeRequest \/ CloseReclaimed(c)
        <4>1. reply[0].num \in Nat
          BY <1>0, NumbersAreNat, OptionsAssumption DEF Slots
        <4> QED
          BY <3>4, <4>1, NextEpochIsExact DEF CloseAnswered, CloseReclaimed
      <3>5. ASSUME NEW c \in Closes, SendClose(c)
            PROVE  closeRequest' = closeRequest \/ closeRequest' = [epoch |-> epoch, seq |-> nextSeq]
        BY <3>5 DEF SendClose
      <3>6. ASSUME NEW c \in Restarts, FinishRestart(c)
            PROVE  closeRequest' = closeRequest \/ closeRequest' = NoTuple
        BY <3>6 DEF FinishRestart
      <3> QED
        BY <3>1, <3>2, <3>3, <3>4, <3>5, <3>6, CloseTuple
    <2> QED
      BY <2>1, <2>2 DEF NameInv
  \* A step that names a batch finds no close under way.
  <1>5. ASSUME NEW b \in Ids, Renamed(b)
        PROVE  CloseFresh'
    <2>1. closeRequest = NoTuple
      <3>1. SUFFICES ASSUME closeRequest # NoTuple PROVE FALSE
        OBVIOUS
      <3>2. req'[b] = req[b] /\ UNCHANGED tuple
        BY <3>1, ReadyStays DEF CloseInv
      <3> QED
        BY <1>5, <3>2 DEF Renamed, Name
    <2>2. ASSUME NEW c \in Closes, SendClose(c) \/ CloseAnswered(c)
          PROVE  FALSE
      <3>1. UNCHANGED tuple /\ (UNCHANGED req \/ \E t : req' = [req EXCEPT ![0] = t])
        BY <2>2 DEF SendClose, CloseAnswered, sequencing
      <3>2. req'[b] = req[b]
        BY <3>1, BatchTypes
      <3> QED
        BY <1>5, <3>1, <3>2 DEF Renamed, Name
    <2>3. closeRequest' = NoTuple
      BY <2>1, <2>2, CloseTuple DEF FinishRestart
    <2> QED
      BY <2>3 DEF CloseFresh
  <1>6. ASSUME GivesOut
        PROVE  NamesUsed' /\ NamesDistinct'
    <2>1. NamesUsed'
      <3> SUFFICES ASSUME NEW b \in Ids, Name(b)' # NoTuple
                   PROVE  Below(Name(b))'
        BY DEF NamesUsed
      <3>1. CASE Renamed(b)
        BY <1>0, <1>6, <3>1 DEF GivesOut, Below, Tuple
      <3>2. CASE ~Renamed(b)
        BY <1>0, <1>3, <3>2 DEF Renamed, NameInv, NamesUsed, Below
      <3> QED
        BY <3>1, <3>2
    <2>2. ASSUME NEW b \in Ids, NEW c \in Ids, Renamed(b), ~Renamed(c), Name(c) # NoTuple
          PROVE  Name(b)' # Name(c)'
      <3>1. (Name(b)').epoch = epoch /\ (Name(b)').seq >= nextSeq
        BY <1>0, <1>6, <2>2 DEF GivesOut
      <3>2. Below(Name(c)) /\ Name(c)' = Name(c)
        BY <2>2 DEF NameInv, NamesUsed, Renamed
      <3> QED
        BY <1>0, <1>2, <3>1, <3>2 DEF Below
    <2>3. NamesDistinct'
      <3> SUFFICES ASSUME NEW b \in Ids, NEW c \in Ids, Name(b)' = Name(c)', Name(b)' # NoTuple
                   PROVE  b = c
        BY DEF NamesDistinct
      <3>1. CASE Renamed(b) /\ Renamed(c)
        BY <1>6, <3>1 DEF GivesOut
      <3>2. CASE ~Renamed(b) /\ ~Renamed(c)
        BY <3>2 DEF Renamed, NameInv, NamesDistinct
      <3>3. CASE Renamed(b) /\ ~Renamed(c)
        BY <2>2, <3>3 DEF Renamed
      <3>4. CASE ~Renamed(b) /\ Renamed(c)
        BY <2>2, <3>4 DEF Renamed
      <3> QED
        BY <3>1, <3>2, <3>3, <3>4
    <2> QED
      BY <2>1, <2>3
  <1>7. ASSUME NEW b \in Ids, Reclaimed(b), BeginsEpoch(b)
        PROVE  NamesUsed' /\ NamesDistinct' /\ Renamed(b)
    <2>1. epoch' > epoch
      BY <1>7, ReclaimFirst
    <2>2. (Name(b)').epoch = epoch' /\ (Name(b)').seq = 0 /\ nextSeq' = 1
      BY <1>7 DEF BeginsEpoch
    <2>3. \A c \in Ids : c # b => Name(c)' = Name(c)
      BY <1>7 DEF BeginsEpoch
    <2>4. \A c \in Ids : Name(c) # NoTuple => Name(c).epoch <= epoch
      BY <1>0, <1>1 DEF NameInv, NamesUsed
    <2>5. NoTuple.epoch < epoch'
      BY <1>0 DEF NoTuple
    <2>6. \A c \in Ids : Name(c) # Name(b)'
      BY <1>0, <1>2, <2>1, <2>2, <2>4, <2>5
    <2>7. NamesUsed'
      <3> SUFFICES ASSUME NEW c \in Ids, Name(c)' # NoTuple
                   PROVE  Below(Name(c))'
        BY DEF NamesUsed
      <3>1. CASE c = b
        BY <2>2, <3>1 DEF Below
      <3>2. CASE c # b
        BY <1>0, <1>3, <2>3, <3>2 DEF NameInv, NamesUsed, Below
      <3> QED
        BY <3>1, <3>2
    <2>8. NamesDistinct'
      BY <2>3, <2>6 DEF NameInv, NamesDistinct
    <2> QED
      BY <2>6, <2>7, <2>8 DEF Renamed
  <1> QED
    BY <1>4, <1>5, <1>6, <1>7, NameSteps DEF Renamed, NameInv

LEMMA InitNames == Init => NameInv
  BY DEF Init, NameInv, NamesUsed, NamesDistinct, CloseFresh, Name, Slots, Ids

-----------------------------------------------------------------------------
(* The theorems. *)

SequenceInv == TypeInv /\ BatchInv /\ ClaimInv /\ CloseInv /\ EpochInv /\ NameInv

LEMMA InitSequence == Init => SequenceInv
  BY InitType, InitBatches, InitClaim, InitClose, InitEpoch, InitNames DEF SequenceInv

LEMMA NextSequence ==
  ASSUME OneLifecycle, OneClaimant, SequenceInv, [Next]_vars
  PROVE  SequenceInv'
  BY NextType, NextBatches, NextClaim, NextClose, NextEpochInv, NextNames DEF SequenceInv

\* An (epoch, sequence) pair is never sent with two bodies, whatever requests
\* are lost, answered late or sent again, unless autoClaim meets another
\* writer of the producer id (run refence) or one producer is both restarted
\* and closed (run restart_reopens).
THEOREM TuplesNameOneBody ==
  ASSUME OneLifecycle, OneClaimant
  PROVE  Spec => []TupleNamesOneBody
  <1>1. SequenceInv => TupleNamesOneBody
    <2> SUFFICES ASSUME SequenceInv, NEW s \in Slots, NEW t \in Slots, req[s] = req[t],
                        req[s] # NoTuple
                 PROVE  s = t
      BY DEF TupleNamesOneBody
    <2>1. \A b \in Ids : req[b] # NoTuple => Name(b) = req[b]
      BY DEF Name
    <2>2. req[0] # NoTuple => req[0] = closeRequest
      BY DEF SequenceInv, CloseInv, CloseSlot
    <2>3. CASE s \in Ids /\ t \in Ids
      BY <2>1, <2>3 DEF SequenceInv, NameInv, NamesDistinct
    <2>4. \A b \in Ids : req[b] # NoTuple => req[b] # req[0]
      BY <2>1, <2>2 DEF SequenceInv, NameInv, CloseFresh
    <2> QED
      BY <2>3, <2>4, BatchTypes DEF SequenceInv
  <1> QED
    BY <1>1, InitSequence, NextSequence, PTL DEF Spec

\* Epoch and next sequence only move forward, so that a pair once given out is
\* never given out again, under the same two conditions.
THEOREM TuplesOnlyMoveForward ==
  ASSUME OneLifecycle, OneClaimant
  PROVE  Spec => TuplesMoveForward
  <1>1. SequenceInv /\ [Next]_vars =>
          [epoch' > epoch \/ (epoch' = epoch /\ nextSeq' >= nextSeq)]_vars
    BY EpochChange DEF SequenceInv, EpochKept
  <1> QED
    BY <1>1, InitSequence, NextSequence, PTL DEF Spec, TuplesMoveForward

LEMMA AdmitsOpen ==
  ASSUME [Next]_vars
  PROVE  id' = id \/ mode = "open"
  <1>1. ASSUME NEW c \in Calls, Call(c) \/ Interrupt(c)
        PROVE  id' = id \/ mode = "open"
    BY <1>1 DEF Call, BeginAppend, Admit, Receive, EndSource, Flush, EndFlush, BeginDetach,
       BeginRestart, ShutAdmission, FinishRestart, BeginClose, SendClose, CloseAnswered,
       CloseStopped, Stopped, Interrupt
  <1>2. ASSUME NEW b \in Ids, Worker(b)
        PROVE  id' = id
    BY <1>2 DEF Worker, Take, Claimed, Delivered, Rejected, Fenced, Gap, GapFilled,
       WorkerStopped, admission
  <1>3. CASE Fiber \/ StopBegin \/ UNCHANGED vars
    BY <1>3 DEF Fiber, Linger, Offered, LingerStopped, StopEnd, StopBegin, vars, admission
  <1>4. CASE ServeStray \/ ForeignClaim \/ \E s \in Slots : Serve(s) \/ Fault(s)
    BY <1>4 DEF ServeStray, ForeignClaim, Serve, Fault, admission
  <1> QED
    BY <1>1, <1>2, <1>3, <1>4 DEF Next, Terminated

\* Nothing is admitted once close has captured its body, nor once the
\* finalizer has settled what was unresolved: no interruption, interleaving or
\* failure of the calls opens the producer again, as long as none of them is a
\* restart (which does: run restart_reopens).
THEOREM AdmissionIsShut ==
  ASSUME Restarts = {}
  PROVE  Spec => AdmissionStaysShut
  <1> DEFINE Inv == TypeInv /\ PlaceInv
  <1>0. OneLifecycle
    BY DEF OneLifecycle
  <1>1. Init => Inv
    BY InitType, InitPlaces
  <1>2. Inv /\ [Next]_vars => Inv'
    BY <1>0, NextType, NextPlaces
  <1>3. Inv /\ [Next]_vars => [closeBody # Free \/ scope = "closed" => id' = id]_vars
    BY AdmitsOpen DEF PlaceInv, StaysShut
  <1> HIDE DEF Inv
  <1> QED
    BY <1>1, <1>2, <1>3, PTL DEF Spec, AdmissionStaysShut
=============================================================================
