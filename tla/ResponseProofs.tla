--------------------------- MODULE ResponseProofs ---------------------------
(***************************************************************************)
(* Proofs about ClientResponse for any views, batches and units: how a     *)
(* response ends, whoever ends it.                                         *)
(***************************************************************************)
EXTENDS ClientResponse, SequenceTheorems, TLAPS

Live == {"running", "deliver", "acking", "success", "failure"}
Ran == {"finished", "rejected", "gone"}

\* The scope is closed by whoever set `terminal`, and `closed` settles after it.
ScopeFollows ==
  /\ terminal <=> scope # "open"
  /\ completed # "open" <=> scope = "closed"
  /\ completed # "open" => completed = verdict

\* cancel() relies on `active`: without it no fiber runs and nobody else ends
\* the response.
ActiveRuns == /\ fiber \in Live \cup {"interrupted"} => active
              /\ fiber \in {"acquiring", "none"} => ~active
              /\ aborted /\ ~active => terminal

\* The one claim stands for all that consume.
Unconsumed == ~consumed => fiber \in {"acquiring", "none", "gone"} /\ gen = "none"
FreshWaits == gen = "fresh" => fiber = "none"

\* After the end no fiber runs, and none will: a run would be refused, the
\* claim is gone, or the fiber has been.
EndedStays ==
  terminal => /\ fiber \notin Live
              /\ aborted \/ fiber \in Ran \/ (fiber = "none" /\ consumed /\ gen = "none")

FailureTold ==
  /\ fiber = "failure" => failed
  /\ terminal => (verdict = "error" <=> failed)
  /\ ~terminal /\ failed => fiber = "failure"

EndInv ==
  /\ ScopeFollows /\ ActiveRuns /\ Unconsumed /\ FreshWaits /\ EndedStays /\ FailureTold

-----------------------------------------------------------------------------
\* A text view makes one item of what a batch completes, any other one per unit.
Message(items) ==
  IF view \in Text THEN Len(items) <= 1 ELSE \A i \in 1..Len(items) : items[i] = 1

\* A batch ends where its boundary is, unless a part of its page is to come.
BatchAtBoundary ==
  fiber \in {"deliver", "acking"} =>
    /\ ~batch.partial => batch.offset = fetched
    /\ batch.ready => carried = 0
    /\ Message(batch.items)

\* Before the first batch there is nothing.
Untouched ==
  fiber \in {"acquiring", "none"} =>
    /\ queue = <<>> /\ left = <<>> /\ pull.at # "value" /\ taken = 0 /\ acked = 0
    /\ handed = 0 /\ fetched = 0 /\ carried = 0 /\ gen \in {"none", "fresh", "ended"}

\* What the consumer lacks of what was read: the batch on its way, and what a
\* text view holds back.
UnderWay ==
  /\ carried > 0 => view \in Text
  /\ fiber = "running" => handed + carried = fetched
  /\ fiber = "deliver" => handed + Total(batch.items) + carried = fetched

\* A message of a Web stream waits in the queue, is being pulled item by item,
\* or is through and acknowledged.
Queued == /\ queue = <<[items |-> batch.items, number |-> batches]>> /\ batch.items # <<>>
          /\ acked < batches /\ taken < batches /\ pull.at # "value" /\ left = <<>>
          /\ handed + Total(batch.items) + carried = fetched
Pulled == /\ queue = <<>> /\ taken = batches /\ gen = "yielded" /\ acked < batches
          /\ \A i \in 1..Len(left) : left[i] = 1
          /\ IF pull.at = "value" THEN pull.last = (left = <<>>) ELSE left # <<>>
          /\ handed + (IF pull.at = "value" THEN pull.item ELSE 0) + Len(left) + carried = fetched
Through == /\ queue = <<>> /\ acked = batches /\ taken = batches /\ pull.at # "value"
           /\ left = <<>> /\ handed + carried = fetched

HandedOver ==
  view \in Web /\ ~aborted =>
    /\ fiber \in {"running", "deliver"} => queue = <<>> /\ pull.at # "value" /\ left = <<>>
    /\ fiber = "running" => acked <= batches /\ taken <= batches
    /\ fiber = "deliver" => acked < batches /\ taken < batches
    /\ fiber = "acking" => Queued \/ Pulled \/ Through

\* A Web stream that takes nothing more has ended the response.
StreamEnds ==
  /\ stream \in {"closed", "errored"} \/ pull.at \in {"close", "error"} \/ returning =>
       aborted \/ terminal
  /\ settled # "open" => terminal
  /\ fiber = "acking" => view \in Web
  /\ gen # "none" => view \in Web /\ fiber # "acquiring"
  /\ stream = "none" <=> gen = "none"
  /\ stream = "none" => pull.at = "none"

\* An entry of the queue is a message, never an empty one.
QueueFilled == \A k \in 1..Len(queue) : queue[k].items # <<>>

-----------------------------------------------------------------------------
\* The next-state relation, one disjunct per action.

Reads ==
  \/ \E n \in 0..MaxUnits, ready \in BOOLEAN : ReadPage(n, ready) \/ ReadChunk(n, ready)
  \/ \E ready \in BOOLEAN : ReadBoundary(ready)

LEMMA Steps ==
  ASSUME [Next]_vars
  PROVE  \/ \E v \in Views : Claim(v)
         \/ ClaimWrongType \/ Pull \/ ReaderCancel \/ Cancel
         \/ Reads \/ ReadFails \/ ReadEnds \/ Acquired \/ AcquireFails
         \/ Delivered \/ Offer \/ AckReceived \/ Interrupted \/ RunSettled \/ ConsumeSettled
         \/ GenTakes \/ GenEnds \/ GenReturns \/ GenFinally \/ GenDone
         \/ ScopeClosed \/ PullSettled \/ CancelSettled \/ UNCHANGED vars
  BY DEF Next, Consumer, Reading, Fiber, Generator, Reads

-----------------------------------------------------------------------------
(* The end of a response. *)

LEMMA EndStep ==
  ASSUME ResponseTypeOK, EndInv, [Next]_vars
  PROVE  EndInv'
  <1> USE DEF EndInv, ScopeFollows, ActiveRuns, Unconsumed, FreshWaits, EndedStays, FailureTold,
              Live, Ran, response, closing, reading, driver, handover, web, history
  <1>0. /\ terminal \in BOOLEAN /\ aborted \in BOOLEAN /\ failed \in BOOLEAN
        /\ verdict \in {"ok", "error"} /\ scope \in {"open", "closing", "closed"}
    BY DEF ResponseTypeOK
  <1>1. ASSUME NEW v \in Views, Claim(v)
        PROVE  EndInv'
    BY <1>1 DEF Claim, MayClaim, Launched
  <1>2. CASE ClaimWrongType
    BY <1>2 DEF ClaimWrongType, Finish, MayClaim
  <1>3. CASE Pull
    BY <1>3 DEF Pull, Yield, GenLeaves, Launched
  <1>4. CASE ReaderCancel
    BY <1>0, <1>4 DEF ReaderCancel, CancelRead, Finish, FinishNow
  <1>5. CASE Cancel
    BY <1>0, <1>5 DEF Cancel, CancelRead, Finish, FinishNow
  <1>6. CASE Reads
    BY <1>6 DEF Reads, ReadPage, ReadChunk, ReadBoundary, Read
  <1>7. CASE ReadFails
    BY <1>7 DEF ReadFails
  <1>8. CASE ReadEnds
    BY <1>8 DEF ReadEnds
  <1>9. CASE Acquired
    BY <1>9 DEF Acquired
  <1>10. CASE AcquireFails
    <2>1. CASE terminal
      <3>1. aborted /\ failed' = failed
        BY <1>0, <1>10, <2>1 DEF AcquireFails
      <3> QED BY <1>0, <1>10, <2>1, <3>1 DEF AcquireFails, Finish
    <2>2. CASE ~terminal
      <3>1. ~aborted /\ failed' = TRUE
        BY <1>0, <1>10, <2>2 DEF AcquireFails
      <3> QED BY <1>0, <1>10, <2>2, <3>1 DEF AcquireFails, Finish
    <2> QED BY <2>1, <2>2
  <1>11. CASE Delivered
    BY <1>11 DEF Delivered, Acknowledge
  <1>12. CASE Offer
    BY <1>12 DEF Offer
  <1>13. CASE AckReceived
    BY <1>13 DEF AckReceived, Acknowledge
  <1>14. CASE Interrupted
    BY <1>14 DEF Interrupted
  <1>15. CASE RunSettled
    BY <1>0, <1>15 DEF RunSettled, Finish, Verdict
  <1>16. CASE ConsumeSettled
    BY <1>16 DEF ConsumeSettled
  <1>17. CASE GenTakes
    BY <1>17 DEF GenTakes, Yield, GenLeaves
  <1>18. CASE GenEnds
    BY <1>18 DEF GenEnds, GenLeaves
  <1>19. CASE GenReturns
    BY <1>19 DEF GenReturns, GenLeaves
  <1>20. CASE GenFinally
    BY <1>0, <1>20 DEF GenFinally, CancelRead, Finish, FinishNow
  <1>21. CASE GenDone
    BY <1>21 DEF GenDone
  <1>22. CASE ScopeClosed
    BY <1>0, <1>22 DEF ScopeClosed
  <1>23. CASE PullSettled
    BY <1>23 DEF PullSettled
  <1>24. CASE CancelSettled
    BY <1>24 DEF CancelSettled
  <1>25. CASE UNCHANGED vars
    BY <1>25 DEF vars
  <1> QED BY Steps, <1>1, <1>2, <1>3, <1>4, <1>5, <1>6, <1>7, <1>8, <1>9, <1>10, <1>11, <1>12, <1>13, <1>14, <1>15, <1>16, <1>17, <1>18, <1>19, <1>20, <1>21, <1>22, <1>23, <1>24, <1>25

-----------------------------------------------------------------------------
(* Types, in four parts. *)

FlagTypes ==
  /\ consumed \in BOOLEAN /\ terminal \in BOOLEAN /\ active \in BOOLEAN /\ aborted \in BOOLEAN
  /\ view \in Views \cup {"none"}
  /\ scope \in {"open", "closing", "closed"} /\ verdict \in {"ok", "error"}
  /\ completed \in {"open", "ok", "error"} /\ failed \in BOOLEAN

FiberTypes ==
  /\ fiber \in {"acquiring", "none", "running", "deliver", "acking", "success", "failure", "interrupted",
                "finished", "rejected", "gone"}
  /\ batches \in Nat /\ fetched \in Nat /\ rest \in Nat \cup {Between} /\ carried \in Nat
  /\ batch \in [items : Seq(Nat), offset : Nat, ready : BOOLEAN, partial : BOOLEAN]
  /\ meta \in Nat /\ handed \in Nat

StreamTypes ==
  /\ gen \in {"none", "fresh", "waiting", "yielded", "return", "throw", "joinReturn", "joinThrow",
              "ended"}
  /\ returning \in BOOLEAN
  /\ stream \in {"none", "readable", "closed", "errored"}
  /\ canceller \in {"none", "return", "done"} /\ settled \in {"open", "ok", "error"}

MessageTypes ==
  /\ queue \in Seq([items : Seq(Nat), number : Nat]) /\ QueueFilled
  /\ acked \in Nat /\ taken \in Nat /\ left \in Seq(Nat)
  /\ pull \in [at : {"none", "next", "value", "close", "error"}, item : Nat, last : BOOLEAN]

Types == FlagTypes /\ FiberTypes /\ StreamTypes /\ MessageTypes

LEMMA TypesAreTypes == Types <=> ResponseTypeOK /\ QueueFilled
  BY DEF Types, FlagTypes, FiberTypes, StreamTypes, MessageTypes, ResponseTypeOK

LEMMA FlagTypesStep ==
  ASSUME Types, [Next]_vars
  PROVE  FlagTypes'
  <1> USE DEF Types, FlagTypes, response, closing, reading, driver, handover, web, history
  <1>1. ASSUME NEW v \in Views, Claim(v)
        PROVE  FlagTypes'
    BY <1>1 DEF Claim, Launched
  <1>2. CASE ClaimWrongType
    BY <1>2 DEF ClaimWrongType, Finish
  <1>3. CASE Pull
    BY <1>3 DEF Pull, Yield, GenLeaves, Launched, Awaiting
  <1>4. CASE ReaderCancel
    BY <1>4 DEF ReaderCancel, CancelRead, Finish
  <1>5. CASE Cancel
    BY <1>5 DEF Cancel, CancelRead, Finish
  <1>6. CASE Reads
    BY <1>6 DEF Reads, ReadPage, ReadChunk, ReadBoundary, Read
  <1>7. CASE ReadFails
    BY <1>7 DEF ReadFails
  <1>8. CASE ReadEnds
    BY <1>8 DEF ReadEnds
  <1>9. CASE Acquired
    BY <1>9 DEF Acquired
  <1>10. CASE AcquireFails
    BY <1>10 DEF AcquireFails, Finish
  <1>11. CASE Delivered
    BY <1>11 DEF Delivered, Acknowledge, NoBatch
  <1>12. CASE Offer
    BY <1>12 DEF Offer
  <1>13. CASE AckReceived
    BY <1>13 DEF AckReceived, Acknowledge, NoBatch
  <1>14. CASE Interrupted
    BY <1>14 DEF Interrupted
  <1>15. CASE RunSettled
    BY <1>15 DEF RunSettled, Finish, Verdict
  <1>16. CASE ConsumeSettled
    BY <1>16 DEF ConsumeSettled, SettledAs
  <1>17. CASE GenTakes
    BY <1>17 DEF GenTakes, Yield, GenLeaves, Awaiting
  <1>18. CASE GenEnds
    BY <1>18 DEF GenEnds, GenLeaves
  <1>19. CASE GenReturns
    BY <1>19 DEF GenReturns, GenLeaves
  <1>20. CASE GenFinally
    BY <1>20 DEF GenFinally, CancelRead, Finish
  <1>21. CASE GenDone
    BY <1>21 DEF GenDone, NotPulling
  <1>22. CASE ScopeClosed
    BY <1>22 DEF ScopeClosed
  <1>23. CASE PullSettled
    BY <1>23 DEF PullSettled, NotPulling
  <1>24. CASE CancelSettled
    BY <1>24 DEF CancelSettled
  <1>25. CASE UNCHANGED vars
    BY <1>25 DEF vars
  <1> QED BY Steps, <1>1, <1>2, <1>3, <1>4, <1>5, <1>6, <1>7, <1>8, <1>9, <1>10, <1>11, <1>12, <1>13, <1>14, <1>15, <1>16, <1>17, <1>18, <1>19, <1>20, <1>21, <1>22, <1>23, <1>24, <1>25

LEMMA ItemsType ==
  ASSUME Types, NEW n \in Nat, NEW ready \in BOOLEAN
  PROVE  ItemsOf(n, ready) \in Seq(Nat) /\ carried + n \in Nat /\ fetched + n \in Nat
  <1>1. carried + n \in Nat /\ fetched + n \in Nat
    BY DEF Types, FiberTypes
  <1>2. CASE view \notin Text
    <2>1. [i \in 1..n |-> 1] \in [1..n -> Nat]
      OBVIOUS
    <2>2. [i \in 1..n |-> 1] \in Seq(Nat)
      BY <2>1, SeqDef
    <2> QED BY <1>1, <1>2, <2>2 DEF ItemsOf
  <1>3. CASE view \in Text
    BY <1>1, <1>3, EmptySeq DEF ItemsOf
  <1> QED BY <1>2, <1>3

LEMMA ReadsAreTyped ==
  ASSUME Types, Reads
  PROVE  FiberTypes'
  <1> USE DEF response, history
  <1>0. /\ rest \in Nat \cup {Between} /\ batches \in Nat /\ fetched \in Nat /\ carried \in Nat
        /\ meta \in Nat /\ handed \in Nat /\ MaxUnits \in Nat
    BY ResponseAssumption DEF Types, FiberTypes
  <1>1. ASSUME NEW n \in 0..MaxUnits, NEW ready \in BOOLEAN, ReadPage(n, ready)
        PROVE  FiberTypes'
    <2>1. n \in Nat
      BY <1>0
    <2>2. ItemsOf(n, ready) \in Seq(Nat)
      BY <2>1, ItemsType
    <2> QED BY <1>0, <1>1, <2>1, <2>2 DEF ReadPage, Read, FiberTypes
  <1>2. ASSUME NEW n \in 0..MaxUnits, NEW ready \in BOOLEAN, ReadChunk(n, ready)
        PROVE  FiberTypes'
    <2>1. n \in Nat
      BY <1>0
    <2>2. ItemsOf(n, ready) \in Seq(Nat)
      BY <2>1, ItemsType
    <2>3. rest' \in Nat
      BY <1>0, <1>2, <2>1 DEF ReadChunk, Between
    <2>4. fetched + n \in Nat /\ carried + n \in Nat /\ fetched + n + rest' \in Nat /\ batches + 1 \in Nat
      <3>1. \A x, y, z, w \in Nat : x + y \in Nat /\ x + y + z \in Nat
        OBVIOUS
      <3> QED BY <1>0, <2>1, <2>3, <3>1
    <2>5. batch' = [items |-> ItemsOf(n, ready), offset |-> fetched + n + rest', ready |-> ready,
                    partial |-> TRUE]
      BY <1>2 DEF ReadChunk, Read
    <2>6. batch' \in [items : Seq(Nat), offset : Nat, ready : BOOLEAN, partial : BOOLEAN]
      BY <2>2, <2>4, <2>5
    <2>7. /\ fiber' = "deliver" /\ batches' = batches + 1 /\ fetched' = fetched + n /\ meta' = meta
          /\ carried' \in {carried + n, 0} /\ handed' = handed
      BY <1>2 DEF ReadChunk, Read
    <2> QED BY <1>0, <2>3, <2>4, <2>6, <2>7 DEF FiberTypes
  <1>3. ASSUME NEW ready \in BOOLEAN, ReadBoundary(ready)
        PROVE  FiberTypes'
    <2>1. ItemsOf(0, ready) \in Seq(Nat)
      BY ItemsType
    <2> QED BY <1>0, <1>3, <2>1 DEF ReadBoundary, Read, FiberTypes
  <1> QED BY <1>1, <1>2, <1>3 DEF Reads

LEMMA TotalType ==
  ASSUME NEW items \in Seq(Nat)
  PROVE  Total(items) \in Nat
  BY DEF Total

LEMMA FiberTypesStep ==
  ASSUME Types, [Next]_vars
  PROVE  FiberTypes'
  <1> USE DEF Types, FiberTypes, response, closing, reading, driver, handover, web, history
  <1>1. ASSUME NEW v \in Views, Claim(v)
        PROVE  FiberTypes'
    BY <1>1 DEF Claim, Launched
  <1>2. CASE ClaimWrongType
    BY <1>2 DEF ClaimWrongType, Finish
  <1>3. CASE Pull
    BY <1>3 DEF Pull, Yield, GenLeaves, Launched, Awaiting
  <1>4. CASE ReaderCancel
    BY <1>4 DEF ReaderCancel, CancelRead, Finish
  <1>5. CASE Cancel
    BY <1>5 DEF Cancel, CancelRead, Finish
  <1>6. CASE Reads
    BY <1>6, ReadsAreTyped
  <1>7. CASE ReadFails
    BY <1>7 DEF ReadFails
  <1>8. CASE ReadEnds
    BY <1>8 DEF ReadEnds
  <1>9. CASE Acquired
    BY <1>9 DEF Acquired
  <1>10. CASE AcquireFails
    BY <1>10 DEF AcquireFails, Finish
  <1>11. CASE Delivered
    <2>1. Total(batch.items) \in Nat
      BY TotalType
    <2> QED BY <1>11, <2>1, EmptySeq DEF Delivered, Acknowledge, NoBatch
  <1>12. CASE Offer
    BY <1>12 DEF Offer
  <1>13. CASE AckReceived
    BY <1>13 DEF AckReceived, Acknowledge, NoBatch
  <1>14. CASE Interrupted
    BY <1>14 DEF Interrupted
  <1>15. CASE RunSettled
    BY <1>15 DEF RunSettled, Finish, Verdict
  <1>16. CASE ConsumeSettled
    BY <1>16 DEF ConsumeSettled, SettledAs
  <1>17. CASE GenTakes
    BY <1>17 DEF GenTakes, Yield, GenLeaves, Awaiting
  <1>18. CASE GenEnds
    BY <1>18 DEF GenEnds, GenLeaves
  <1>19. CASE GenReturns
    BY <1>19 DEF GenReturns, GenLeaves
  <1>20. CASE GenFinally
    BY <1>20 DEF GenFinally, CancelRead, Finish
  <1>21. CASE GenDone
    BY <1>21 DEF GenDone, NotPulling
  <1>22. CASE ScopeClosed
    BY <1>22 DEF ScopeClosed
  <1>23. CASE PullSettled
    <2>1. handed + pull.item \in Nat
      BY DEF MessageTypes
    <2> QED BY <1>23, <2>1 DEF PullSettled, NotPulling
  <1>24. CASE CancelSettled
    BY <1>24 DEF CancelSettled
  <1>25. CASE UNCHANGED vars
    BY <1>25 DEF vars
  <1> QED BY Steps, <1>1, <1>2, <1>3, <1>4, <1>5, <1>6, <1>7, <1>8, <1>9, <1>10, <1>11, <1>12, <1>13, <1>14, <1>15, <1>16, <1>17, <1>18, <1>19, <1>20, <1>21, <1>22, <1>23, <1>24, <1>25

LEMMA StreamTypesStep ==
  ASSUME Types, [Next]_vars
  PROVE  StreamTypes'
  <1> USE DEF Types, StreamTypes, response, closing, reading, driver, handover, web, history
  <1>1. ASSUME NEW v \in Views, Claim(v)
        PROVE  StreamTypes'
    BY <1>1 DEF Claim, Launched
  <1>2. CASE ClaimWrongType
    BY <1>2 DEF ClaimWrongType, Finish
  <1>3. CASE Pull
    BY <1>3 DEF Pull, Yield, GenLeaves, Launched, Awaiting
  <1>4. CASE ReaderCancel
    BY <1>4 DEF ReaderCancel, CancelRead, Finish
  <1>5. CASE Cancel
    BY <1>5 DEF Cancel, CancelRead, Finish
  <1>6. CASE Reads
    BY <1>6 DEF Reads, ReadPage, ReadChunk, ReadBoundary, Read
  <1>7. CASE ReadFails
    BY <1>7 DEF ReadFails
  <1>8. CASE ReadEnds
    BY <1>8 DEF ReadEnds
  <1>9. CASE Acquired
    BY <1>9 DEF Acquired
  <1>10. CASE AcquireFails
    BY <1>10 DEF AcquireFails, Finish
  <1>11. CASE Delivered
    BY <1>11 DEF Delivered, Acknowledge, NoBatch
  <1>12. CASE Offer
    BY <1>12 DEF Offer
  <1>13. CASE AckReceived
    BY <1>13 DEF AckReceived, Acknowledge, NoBatch
  <1>14. CASE Interrupted
    BY <1>14 DEF Interrupted
  <1>15. CASE RunSettled
    BY <1>15 DEF RunSettled, Finish, Verdict
  <1>16. CASE ConsumeSettled
    BY <1>16 DEF ConsumeSettled, SettledAs
  <1>17. CASE GenTakes
    BY <1>17 DEF GenTakes, Yield, GenLeaves, Awaiting
  <1>18. CASE GenEnds
    BY <1>18 DEF GenEnds, GenLeaves
  <1>19. CASE GenReturns
    BY <1>19 DEF GenReturns, GenLeaves
  <1>20. CASE GenFinally
    BY <1>20 DEF GenFinally, CancelRead, Finish
  <1>21. CASE GenDone
    BY <1>21 DEF GenDone, NotPulling
  <1>22. CASE ScopeClosed
    BY <1>22 DEF ScopeClosed
  <1>23. CASE PullSettled
    BY <1>23 DEF PullSettled, NotPulling
  <1>24. CASE CancelSettled
    BY <1>24 DEF CancelSettled
  <1>25. CASE UNCHANGED vars
    BY <1>25 DEF vars
  <1> QED BY Steps, <1>1, <1>2, <1>3, <1>4, <1>5, <1>6, <1>7, <1>8, <1>9, <1>10, <1>11, <1>12, <1>13, <1>14, <1>15, <1>16, <1>17, <1>18, <1>19, <1>20, <1>21, <1>22, <1>23, <1>24, <1>25

message == <<queue, acked, taken, left, pull>>

LEMMA MessageSteps ==
  ASSUME [Next]_vars
  PROVE  \/ Pull \/ Offer \/ GenTakes \/ GenEnds \/ GenReturns \/ GenDone \/ PullSettled
         \/ UNCHANGED message
  <1> USE DEF message, handover, web
  <1>1. ASSUME NEW v \in Views, Claim(v) PROVE UNCHANGED message
    BY <1>1 DEF Claim
  <1>2. ClaimWrongType \/ ReaderCancel \/ Cancel \/ ScopeClosed \/ CancelSettled => UNCHANGED message
    BY DEF ClaimWrongType, ReaderCancel, Cancel, ScopeClosed, CancelSettled
  <1>3. Reads \/ ReadFails \/ ReadEnds \/ Acquired \/ AcquireFails => UNCHANGED message
    BY DEF Reads, ReadPage, ReadChunk, ReadBoundary, Read, ReadFails, ReadEnds, Acquired, AcquireFails
  <1>4. Delivered \/ AckReceived \/ Interrupted \/ RunSettled \/ ConsumeSettled => UNCHANGED message
    BY DEF Delivered, AckReceived, Interrupted, RunSettled, ConsumeSettled
  <1>5. GenFinally => UNCHANGED message
    BY DEF GenFinally
  <1>6. UNCHANGED vars => UNCHANGED message
    BY DEF vars
  <1> QED BY <1>1, <1>2, <1>3, <1>4, <1>5, <1>6, Steps

Pulls == [at : {"none", "next", "value", "close", "error"}, item : Nat, last : BOOLEAN]

LEMMA YieldTypes ==
  ASSUME NEW items, Yield(items), aborted \in BOOLEAN,
         Head(items) \in Nat, Tail(items) \in Seq(Nat)
  PROVE  left' \in Seq(Nat) /\ pull' \in Pulls
  <1>1. CASE aborted
    <2>1. left' = <<>> /\ pull' = Awaiting
      BY <1>1 DEF Yield, GenLeaves
    <2> QED BY <2>1, EmptySeq DEF Awaiting, Pulls
  <1>2. CASE ~aborted
    <2>1. left' = Tail(items) /\ pull' = [at |-> "value", item |-> Head(items), last |-> Len(items) = 1]
      BY <1>2 DEF Yield
    <2>2. (Len(items) = 1) \in BOOLEAN
      OBVIOUS
    <2> QED BY <2>1, <2>2 DEF Pulls
  <1> QED BY <1>1, <1>2

LEMMA MessageTypesStep ==
  ASSUME Types, [Next]_vars
  PROVE  MessageTypes'
  <1> DEFINE S == [items : Seq(Nat), number : Nat]
  <1> USE DEF Types, FlagTypes, MessageTypes, Pulls, handover, web
  <1>0. queue \in Seq(S) /\ QueueFilled /\ left \in Seq(Nat) /\ acked \in Nat /\ taken \in Nat
    OBVIOUS
  <1>1. CASE Offer
    <2> DEFINE entry == [items |-> batch.items, number |-> batches]
    <2>1. batch.items \in Seq(Nat) /\ batches \in Nat /\ batch.items # <<>>
      BY <1>1 DEF Offer, FiberTypes
    <2>2. entry \in S /\ entry.items # <<>>
      BY <2>1
    <2> HIDE DEF S, entry
    <2>3. queue' = Append(queue, entry)
      BY <1>1 DEF Offer, entry
    <2>4. /\ queue' \in Seq(S) /\ Len(queue) \in Nat /\ Len(queue') = Len(queue) + 1
          /\ \A k \in 1..Len(queue) : queue'[k] = queue[k]
          /\ queue'[Len(queue) + 1] = entry
      BY <1>0, <2>2, <2>3, AppendProperties, LenProperties
    <2>5. QueueFilled'
      <3>1. SUFFICES ASSUME NEW k \in 1..Len(queue') PROVE queue'[k].items # <<>>
        BY DEF QueueFilled
      <3>2. CASE k \in 1..Len(queue)
        BY <1>0, <2>4, <3>2 DEF QueueFilled
      <3>3. CASE k = Len(queue) + 1
        BY <2>2, <2>4, <3>3
      <3> QED BY <2>4, <3>1, <3>2, <3>3
    <2> QED BY <1>1, <2>4, <2>5 DEF Offer, S
  <1>2. CASE GenTakes
    <2> DEFINE entry == Head(queue)
    <2>1. queue # <<>> /\ queue' = Tail(queue) /\ taken' = entry.number /\ Yield(entry.items)
          /\ acked' = acked
      BY <1>2 DEF GenTakes
    <2>2. /\ entry \in S /\ entry = queue[1] /\ Len(queue) \in Nat \ {0} /\ queue' \in Seq(S)
          /\ Len(queue') = Len(queue) - 1
          /\ \A k \in 1..Len(queue') : queue'[k] = queue[k + 1]
      <3> HIDE DEF S
      <3> QED BY <1>0, <2>1, HeadTailProperties, EmptySeq, LenProperties
    <2> HIDE DEF entry
    <2>3. QueueFilled' /\ entry.items # <<>> /\ entry.items \in Seq(Nat) /\ entry.number \in Nat
      <3>1. QueueFilled'
        <4>1. SUFFICES ASSUME NEW k \in 1..Len(queue') PROVE queue'[k].items # <<>>
          BY DEF QueueFilled
        <4>2. k + 1 \in 1..Len(queue) /\ queue'[k] = queue[k + 1]
          BY <2>2
        <4>3. queue[k + 1].items # <<>>
          BY <1>0, <4>2 DEF QueueFilled
        <4> QED BY <4>2, <4>3
      <3>2. entry.items # <<>>
        <4>1. 1 \in 1..Len(queue)
          BY <2>2
        <4>2. queue[1].items # <<>>
          BY <1>0, <4>1 DEF QueueFilled
        <4> QED BY <2>2, <4>2
      <3> QED BY <2>2, <3>1, <3>2
    <2>4. Head(entry.items) \in Nat /\ Tail(entry.items) \in Seq(Nat)
      BY <2>3, HeadTailProperties
    <2>5. left' \in Seq(Nat) /\ pull' \in Pulls
      BY <2>1, <2>4, YieldTypes
    <2> QED BY <1>0, <2>1, <2>2, <2>3, <2>5
  <1>3. CASE Pull
    <2>1. queue' = queue /\ taken' = taken /\ QueueFilled'
      BY <1>3 DEF Pull, QueueFilled
    <2>2. CASE gen = "yielded" /\ left # <<>>
      <3>1. Head(left) \in Nat /\ Tail(left) \in Seq(Nat)
        BY <2>2, HeadTailProperties
      <3>2. Yield(left) /\ acked' = acked
        BY <1>3, <2>2 DEF Pull
      <3>3. left' \in Seq(Nat) /\ pull' \in Pulls
        BY <3>1, <3>2, YieldTypes
      <3> QED BY <1>0, <2>1, <3>2, <3>3
    <2>3. CASE ~(gen = "yielded" /\ left # <<>>)
      <3>1. pull' = Awaiting /\ left' = left /\ acked' \in Nat
        BY <1>3, <2>3 DEF Pull
      <3> QED BY <1>0, <2>1, <3>1 DEF Awaiting
    <2> QED BY <2>2, <2>3
  <1>4. CASE GenEnds \/ GenReturns
    BY <1>4, EmptySeq DEF GenEnds, GenReturns, GenLeaves, QueueFilled
  <1>5. CASE GenDone
    BY <1>5 DEF GenDone, NotPulling, QueueFilled
  <1>6. CASE PullSettled
    BY <1>6 DEF PullSettled, NotPulling, QueueFilled
  <1>7. CASE UNCHANGED message
    BY <1>7 DEF message, QueueFilled
  <1> QED BY MessageSteps, <1>1, <1>2, <1>3, <1>4, <1>5, <1>6, <1>7

-----------------------------------------------------------------------------
(* What was handed over. *)

HandInv ==
  /\ BatchAtBoundary /\ Untouched /\ UnderWay /\ HandedOver /\ StreamEnds /\ MetadataIsDelivered

\* A step that leaves the messages alone and no fiber in the read keeps all
\* but what it says of the stream.
LEMMA Settling ==
  ASSUME HandInv, UNCHANGED <<handed, meta, carried, view>>,
         fiber' \notin {"acquiring", "none", "running", "deliver", "acking"}, StreamEnds'
  PROVE  HandInv'
  BY DEF HandInv, BatchAtBoundary, Untouched, UnderWay, HandedOver, MetadataIsDelivered

\* A step that leaves the messages and the fiber alone keeps it too.
LEMMA Ending ==
  ASSUME HandInv, UNCHANGED <<message, handed, meta, view, driver, gen>>, aborted => aborted', StreamEnds'
  PROVE  HandInv'
  BY DEF HandInv, BatchAtBoundary, Untouched, UnderWay, HandedOver, MetadataIsDelivered, Message,
         Queued, Pulled, Through, Total, message, driver, reading

\* The items of a batch complete what a text view held back.
LEMMA ItemsComplete ==
  ASSUME Types, UnderWay, NEW n \in Nat, NEW ready \in BOOLEAN, ready \/ view \in Text
  PROVE  /\ Message(ItemsOf(n, ready))
         /\ Total(ItemsOf(n, ready)) + (IF view \in Text /\ ~ready THEN carried + n ELSE 0) = carried + n
  <1>0. carried \in Nat /\ (carried > 0 => view \in Text)
    BY DEF Types, FiberTypes, UnderWay
  <1>1. CASE view \in Text
    BY <1>0, <1>1 DEF ItemsOf, Message, Total
  <1>2. CASE view \notin Text
    <2>1. ItemsOf(n, ready) = [i \in 1..n |-> 1] /\ ready /\ carried = 0
      BY <1>0, <1>2 DEF ItemsOf
    <2>2. Len([i \in 1..n |-> 1]) = n /\ \A i \in 1..n : [j \in 1..n |-> 1][i] = 1
      OBVIOUS
    <2>3. Message(ItemsOf(n, ready))
      BY <1>2, <2>1, <2>2 DEF Message
    <2>4. Total(ItemsOf(n, ready)) = n
      BY <1>2, <2>1, <2>2 DEF Total
    <2>5. Total(ItemsOf(n, ready)) + (IF view \in Text /\ ~ready THEN carried + n ELSE 0) = carried + n
      <3>1. (IF view \in Text /\ ~ready THEN carried + n ELSE 0) = 0 /\ carried + n = n /\ n + 0 = n
        BY <1>2, <2>1
      <3> QED BY <2>4, <3>1, Zenon
    <2> QED BY <2>3, <2>5
  <1> QED BY <1>1, <1>2

\* What a batch of the read does to the invariant.
LEMMA ReadsHand ==
  ASSUME Types, HandInv, Reads
  PROVE  HandInv'
  <1>0. /\ batches \in Nat /\ fetched \in Nat /\ carried \in Nat /\ handed \in Nat /\ MaxUnits \in Nat
        /\ acked \in Nat /\ taken \in Nat /\ meta \in Nat
    BY ResponseAssumption DEF Types, FiberTypes, MessageTypes
  <1> DEFINE Hold(n, ready) == IF view \in Text /\ ~ready THEN carried + n ELSE 0
  <1>1. PICK n \in Nat, ready \in BOOLEAN :
          /\ fiber = "running" /\ ~aborted /\ fiber' = "deliver" /\ (ready \/ view \in Text)
          /\ batches' = batches + 1 /\ fetched' = fetched + n
          /\ batch'.items = ItemsOf(n, ready) /\ batch'.ready = ready
          /\ ~batch'.partial => batch'.offset = fetched + n
          /\ carried' = Hold(n, ready)
          /\ UNCHANGED <<response, closing, handover, web, history>>
    <2>1. ASSUME NEW n \in 0..MaxUnits, NEW ready \in BOOLEAN, ReadPage(n, ready)
          PROVE  n \in Nat /\ fiber = "running" /\ ~aborted /\ fiber' = "deliver"
                 /\ (ready \/ view \in Text)
                 /\ batches' = batches + 1 /\ fetched' = fetched + n
                 /\ batch'.items = ItemsOf(n, ready) /\ batch'.ready = ready
                 /\ (~batch'.partial => batch'.offset = fetched + n)
                 /\ carried' = Hold(n, ready)
                 /\ UNCHANGED <<response, closing, handover, web, history>>
      BY <1>0, <2>1 DEF ReadPage, Read
    <2>2. ASSUME NEW n \in 0..MaxUnits, NEW ready \in BOOLEAN, ReadChunk(n, ready)
          PROVE  n \in Nat /\ fiber = "running" /\ ~aborted /\ fiber' = "deliver"
                 /\ (ready \/ view \in Text)
                 /\ batches' = batches + 1 /\ fetched' = fetched + n
                 /\ batch'.items = ItemsOf(n, ready) /\ batch'.ready = ready
                 /\ batch'.partial = TRUE
                 /\ carried' = Hold(n, ready)
                 /\ UNCHANGED <<response, closing, handover, web, history>>
      BY <1>0, <2>2 DEF ReadChunk, Read
    <2>3. ASSUME NEW ready \in BOOLEAN, ReadBoundary(ready)
          PROVE  fiber = "running" /\ ~aborted /\ fiber' = "deliver"
                 /\ (ready \/ view \in Text)
                 /\ batches' = batches + 1 /\ fetched' = fetched + 0
                 /\ batch'.items = ItemsOf(0, ready) /\ batch'.ready = ready
                 /\ (~batch'.partial => batch'.offset = fetched + 0)
                 /\ carried' = Hold(0, ready)
                 /\ UNCHANGED <<response, closing, handover, web, history>>
      BY <1>0, <2>3 DEF ReadBoundary, Read
    <2> HIDE DEF Hold
    <2>4. CASE \E n \in 0..MaxUnits, ready \in BOOLEAN : ReadPage(n, ready)
      BY <2>1, <2>4
    <2>5. CASE \E n \in 0..MaxUnits, ready \in BOOLEAN : ReadChunk(n, ready)
      BY <2>2, <2>5
    <2>6. CASE \E ready \in BOOLEAN : ReadBoundary(ready)
      BY <2>3, <2>6
    <2> QED BY <2>4, <2>5, <2>6 DEF Reads
  <1>2. /\ Message(batch'.items) /\ Total(batch'.items) + carried' = carried + n
    BY <1>1, ItemsComplete DEF HandInv
  <1> HIDE DEF Hold
  <1>3. view' = view /\ aborted' = aborted /\ handed' = handed /\ meta' = meta /\ UNCHANGED message
        /\ UNCHANGED <<terminal, gen, stream, returning, settled>>
    BY <1>1 DEF response, history, message, handover, web
  <1>4. BatchAtBoundary'
    <2>1. Message(batch.items)'
      BY <1>2, <1>3 DEF Message
    <2>2. batch'.ready => carried' = 0
      BY <1>1 DEF Hold
    <2> QED BY <1>1, <2>1, <2>2 DEF BatchAtBoundary
  <1>5. Untouched'
    BY <1>1 DEF Untouched
  <1>6. UnderWay'
    <2>1. Total(batch.items)' = Total(batch'.items)
      BY <1>3 DEF Total
    <2>2. handed + carried = fetched /\ Total(batch'.items) \in Nat
      <3>1. ItemsOf(n, ready) \in Seq(Nat)
        BY ItemsType
      <3> QED BY <1>1, <3>1, TotalType DEF HandInv, UnderWay
    <2>3. carried' \in Nat /\ (carried' > 0 => view \in Text)
      BY <1>0, <1>1 DEF Hold
    <2>4. handed' + Total(batch.items)' + carried' = fetched'
      <3>1. n \in Nat /\ fetched' = fetched + n
        BY <1>1
      <3>2. \A h, t, c, d, f, k \in Nat : h + d = f /\ t + c = d + k => h + t + c = f + k
        OBVIOUS
      <3> QED BY <1>0, <1>2, <1>3, <2>1, <2>2, <2>3, <3>1, <3>2
    <2> QED BY <1>1, <1>3, <2>3, <2>4 DEF UnderWay
  <1>7. HandedOver'
    BY <1>0, <1>1, <1>3 DEF HandInv, HandedOver, message
  <1>8. StreamEnds' /\ MetadataIsDelivered'
    BY <1>1, <1>3 DEF HandInv, StreamEnds, MetadataIsDelivered, message
  <1> QED BY <1>4, <1>5, <1>6, <1>7, <1>8 DEF HandInv

LEMMA ClaimHand ==
  ASSUME Types, EndInv, HandInv, NEW v \in Views, Claim(v)
  PROVE  HandInv'
  <1>1. /\ fiber = "none" /\ gen = "none" /\ Untouched /\ HandInv /\ stream = "none"
        /\ batches \in Nat
    BY DEF Claim, MayClaim, EndInv, Unconsumed, HandInv, StreamEnds, Types, FiberTypes
  <1>2. /\ UNCHANGED <<message, reading, batch, handed, meta, aborted, terminal, returning, settled>>
        /\ fiber' \in {"none", "running", "interrupted"}
        /\ IF aborted THEN UNCHANGED <<view, fiber, gen, stream>>
           ELSE /\ view' = v
                /\ IF v \in Web THEN gen' = "fresh" /\ stream' = "readable" /\ fiber' = "none"
                               ELSE UNCHANGED <<gen, stream>> /\ fiber' # "none"
    BY <1>1 DEF Claim, Launched, handover, web, message, reading, closing, history
  <1> USE DEF message, reading
  <1>3. BatchAtBoundary' /\ Untouched' /\ MetadataIsDelivered'
    BY <1>1, <1>2 DEF BatchAtBoundary, Untouched, HandInv, MetadataIsDelivered
  <1>4. UnderWay'
    BY <1>1, <1>2 DEF UnderWay, Untouched
  <1>5. HandedOver'
    BY <1>1, <1>2 DEF HandedOver, Untouched
  <1>6. StreamEnds'
    BY <1>1, <1>2 DEF HandInv, StreamEnds
  <1> QED BY <1>3, <1>4, <1>5, <1>6 DEF HandInv

LEMMA PullHand ==
  ASSUME Types, EndInv, HandInv, Pull
  PROVE  HandInv'
  <1> USE DEF message
  <1>0. /\ batches \in Nat /\ acked \in Nat /\ taken \in Nat /\ left \in Seq(Nat) /\ handed \in Nat
        /\ carried \in Nat /\ gen # "none" /\ view \in Web /\ fiber # "acquiring" /\ pull.at = "none"
        /\ stream = "readable"
    BY DEF Types, FiberTypes, MessageTypes, Pull, HandInv, StreamEnds
  <1>1. UNCHANGED <<terminal, aborted, meta, view, reading, batch, queue, settled, taken, returning, stream,
                    handed>>
    BY DEF Pull, history
  <1>2. CASE gen = "fresh"
    <2>1. /\ fiber = "none" /\ Untouched
      BY <1>2 DEF EndInv, FreshWaits, HandInv
    <2>2. /\ gen' = "waiting" /\ pull' = Awaiting /\ fiber' \in {"running", "interrupted"}
          /\ UNCHANGED <<acked, left>>
      BY <1>2 DEF Pull, Launched
    <2>3. BatchAtBoundary' /\ Untouched' /\ MetadataIsDelivered'
      BY <1>1, <2>2 DEF BatchAtBoundary, Untouched, HandInv, MetadataIsDelivered
    <2>4. UnderWay' /\ HandedOver'
      BY <1>0, <1>1, <2>1, <2>2 DEF UnderWay, HandedOver, Untouched, Awaiting, reading
    <2>5. StreamEnds'
      BY <1>0, <1>1, <2>2 DEF HandInv, StreamEnds, Awaiting
    <2> QED BY <2>3, <2>4, <2>5 DEF HandInv
  <1>3. CASE gen = "yielded"
    <2>1. UNCHANGED fiber /\ gen' \in {"yielded", "throw", "waiting"} /\ pull'.at \in {"value", "next"}
          /\ fiber # "none"
      BY <1>3 DEF Pull, Yield, GenLeaves, Awaiting, HandInv, Untouched
    <2>2. BatchAtBoundary' /\ Untouched' /\ MetadataIsDelivered' /\ UnderWay' /\ StreamEnds'
      <3>1. BatchAtBoundary'
        BY <1>1, <2>1 DEF BatchAtBoundary, HandInv, Message, reading
      <3>2. Untouched' /\ MetadataIsDelivered'
        BY <1>0, <1>1, <2>1 DEF Untouched, HandInv, MetadataIsDelivered
      <3>3. UnderWay'
        BY <1>1, <2>1 DEF UnderWay, HandInv, Total, reading
      <3>4. StreamEnds'
        BY <1>0, <1>1, <2>1 DEF StreamEnds, HandInv
      <3> QED BY <3>1, <3>2, <3>3, <3>4
    <2>3. CASE left = <<>>
      <3>1. pull' = Awaiting /\ acked' = taken /\ left' = left /\ gen' = "waiting"
        BY <1>3, <2>3 DEF Pull
      <3>2. HandedOver'
        BY <1>0, <1>1, <1>3, <2>1, <2>3, <3>1
        DEF HandInv, HandedOver, Queued, Pulled, Through, Total, Awaiting, reading
      <3> QED BY <2>2, <3>2 DEF HandInv
    <2>4. CASE left # <<>>
      <3>1. Yield(left) /\ acked' = acked
        BY <1>3, <2>4 DEF Pull
      <3>2. CASE aborted \/ fiber \notin {"running", "deliver", "acking"}
        BY <1>1, <2>1, <2>2, <3>2 DEF HandInv, HandedOver
      <3>3. CASE ~aborted /\ fiber \in {"running", "deliver", "acking"}
        <4>1. fiber = "acking" /\ Pulled
          BY <1>0, <2>4, <3>3 DEF HandInv, HandedOver, Queued, Through
        <4>2. /\ gen' = "yielded" /\ left' = Tail(left)
              /\ pull' = [at |-> "value", item |-> Head(left), last |-> Len(left) = 1]
          BY <3>1, <3>3 DEF Yield
        <4>3. /\ Head(left) = left[1] /\ Len(left) \in Nat \ {0} /\ left' \in Seq(Nat)
              /\ Len(left') = Len(left) - 1
              /\ \A k \in 1..Len(left') : left'[k] = left[k + 1]
          BY <1>0, <2>4, <4>2, HeadTailProperties, EmptySeq, LenProperties
        <4>4. left[1] = 1 /\ \A k \in 1..Len(left') : left'[k] = 1
          <5>1. \A i \in 1..Len(left) : left[i] = 1
            BY <4>1 DEF Pulled
          <5> QED BY <4>3, <5>1
        <4>5. handed + Len(left) + carried = fetched
          BY <1>0, <4>1, <4>3 DEF Pulled
        <4>6. handed + 1 + Len(left') + carried = fetched
          BY <1>0, <4>3, <4>5
        <4>7. Len(left) = 1 <=> left' = <<>>
          BY <4>3, EmptySeq, LenProperties
        <4>8. Pulled'
          <5>1. pull'.at = "value" /\ pull'.item = 1 /\ pull'.last = (left' = <<>>)
            BY <4>2, <4>3, <4>4, <4>7
          <5>2. queue' = <<>> /\ taken' = batches' /\ gen' = "yielded" /\ acked' < batches'
            BY <1>1, <3>1, <4>1, <4>2 DEF Pulled, reading
          <5>3. handed' + pull'.item + Len(left') + carried' = fetched'
            BY <1>1, <4>6, <5>1 DEF reading
          <5> QED BY <4>4, <5>1, <5>2, <5>3 DEF Pulled
        <4>9. HandedOver'
          BY <2>1, <4>1, <4>8 DEF HandedOver
        <4> QED BY <2>2, <4>9 DEF HandInv
      <3> QED BY <3>2, <3>3
    <2> QED BY <2>3, <2>4
  <1> QED BY <1>2, <1>3 DEF Pull

LEMMA DeliveredHand ==
  ASSUME Types, HandInv, Delivered
  PROVE  HandInv'
  <1>0. /\ fiber = "deliver" /\ view \notin Web /\ fiber' = "running"
        /\ handed' = handed + Total(batch.items)
        /\ meta' = IF Acknowledged THEN batch.offset ELSE meta
        /\ UNCHANGED <<message, view, aborted, reading, gen, stream, returning, settled, terminal>>
    BY DEF Delivered, Acknowledge, message, handover, web
  <1>1. /\ handed \in Nat /\ Total(batch.items) \in Nat /\ carried \in Nat /\ fetched \in Nat /\ meta \in Nat
    BY TotalType DEF Types, FiberTypes
  <1>2. handed' + carried = fetched
    BY <1>0 DEF HandInv, UnderWay
  <1>3. MetadataIsDelivered'
    BY <1>0, <1>1, <1>2 DEF HandInv, MetadataIsDelivered, Acknowledged, BatchAtBoundary
  <1>4. UnderWay'
    BY <1>0, <1>2 DEF HandInv, UnderWay, reading
  <1>5. BatchAtBoundary' /\ Untouched' /\ HandedOver'
    BY <1>0 DEF BatchAtBoundary, Untouched, HandedOver
  <1>6. StreamEnds'
    BY <1>0 DEF HandInv, StreamEnds, message
  <1> QED BY <1>3, <1>4, <1>5, <1>6 DEF HandInv

LEMMA OfferHand ==
  ASSUME Types, HandInv, Offer
  PROVE  HandInv'
  <1>0. /\ fiber = "deliver" /\ view \in Web /\ fiber' = "acking" /\ ~aborted /\ batch.items # <<>>
        /\ queue' = Append(queue, [items |-> batch.items, number |-> batches])
        /\ UNCHANGED <<response, closing, reading, batch, acked, settled, web, history>>
    BY DEF Offer
  <1> USE DEF response, history, reading, web
  <1>1. /\ queue = <<>> /\ pull.at # "value" /\ left = <<>> /\ acked < batches /\ taken < batches
    BY <1>0 DEF HandInv, HandedOver
  <1>2. queue' = <<[items |-> batch.items, number |-> batches]>>
    BY <1>0, <1>1
  <1>3. handed + Total(batch.items) + carried = fetched
    BY <1>0 DEF HandInv, UnderWay
  <1>4. Total(batch.items)' = Total(batch.items)
    BY <1>0 DEF Total
  <1>5. Queued'
    BY <1>0, <1>1, <1>2, <1>3, <1>4 DEF Queued
  <1>6. HandedOver'
    BY <1>0, <1>5 DEF HandedOver
  <1>7. BatchAtBoundary' /\ Untouched' /\ UnderWay' /\ MetadataIsDelivered'
    BY <1>0 DEF HandInv, BatchAtBoundary, Message, Untouched, UnderWay, MetadataIsDelivered
  <1>8. StreamEnds'
    BY <1>0 DEF HandInv, StreamEnds
  <1> QED BY <1>6, <1>7, <1>8 DEF HandInv

LEMMA AckHand ==
  ASSUME Types, HandInv, AckReceived
  PROVE  HandInv'
  <1>0. /\ ~aborted /\ view \in Web /\ fiber' = "running"
        /\ (fiber = "acking" /\ acked = batches) \/ (fiber = "deliver" /\ batch.items = <<>>)
        /\ meta' = IF Acknowledged THEN batch.offset ELSE meta
        /\ UNCHANGED <<message, handed, view, aborted, reading, gen, stream, returning, settled, terminal>>
    BY DEF AckReceived, Acknowledge, message, handover, web, history, HandInv, StreamEnds
  <1>1. /\ handed \in Nat /\ carried \in Nat /\ fetched \in Nat /\ meta \in Nat /\ acked \in Nat
        /\ batches \in Nat /\ taken \in Nat
    BY DEF Types, FiberTypes, MessageTypes
  <1>2. /\ handed + carried = fetched /\ queue = <<>> /\ pull.at # "value" /\ left = <<>>
        /\ acked <= batches /\ taken <= batches
    <2>1. CASE fiber = "acking"
      <3>1. Through
        BY <1>0, <1>1, <2>1 DEF HandInv, HandedOver, Queued, Pulled
      <3> QED BY <1>1, <3>1 DEF Through
    <2>2. CASE fiber = "deliver" /\ batch.items = <<>>
      <3>1. Total(batch.items) = 0
        BY <2>2 DEF Total
      <3> QED BY <1>0, <1>1, <2>2, <3>1 DEF HandInv, HandedOver, UnderWay
    <2> QED BY <1>0, <2>1, <2>2
  <1>3. MetadataIsDelivered'
    BY <1>0, <1>1, <1>2 DEF HandInv, MetadataIsDelivered, Acknowledged, BatchAtBoundary
  <1>4. UnderWay' /\ HandedOver'
    BY <1>0, <1>2 DEF HandInv, UnderWay, HandedOver, reading, message
  <1>5. BatchAtBoundary' /\ Untouched'
    BY <1>0 DEF BatchAtBoundary, Untouched
  <1>6. StreamEnds'
    BY <1>0 DEF HandInv, StreamEnds, message
  <1> QED BY <1>3, <1>4, <1>5, <1>6 DEF HandInv

LEMMA TakeHand ==
  ASSUME Types, HandInv, GenTakes
  PROVE  HandInv'
  <1> USE DEF response, reading, driver, history
  <1>0. /\ gen = "waiting" /\ queue # <<>> /\ queue' = Tail(queue) /\ taken' = Head(queue).number
        /\ Yield(Head(queue).items) /\ view \in Web /\ fiber # "acquiring" /\ fiber # "none"
        /\ UNCHANGED <<response, closing, driver, acked, settled, returning, stream, canceller, history>>
    BY DEF GenTakes, HandInv, StreamEnds, Untouched
  <1>1. gen' \in {"yielded", "throw"} /\ pull'.at \in {"value", "next"}
    BY <1>0 DEF Yield, GenLeaves, Awaiting
  <1>2. BatchAtBoundary' /\ Untouched' /\ UnderWay' /\ MetadataIsDelivered'
    BY <1>0 DEF HandInv, BatchAtBoundary, Message, Untouched, UnderWay, MetadataIsDelivered, Total
  <1>3. StreamEnds'
    BY <1>0, <1>1 DEF HandInv, StreamEnds
  <1>4. CASE aborted \/ fiber \notin {"running", "deliver", "acking"}
    BY <1>0, <1>2, <1>3, <1>4 DEF HandInv, HandedOver
  <1>5. CASE ~aborted /\ fiber \in {"running", "deliver", "acking"}
    <2>1. fiber = "acking" /\ Queued
      BY <1>0, <1>5 DEF HandInv, HandedOver, Pulled, Through
    <2> DEFINE items == batch.items
    <2>2. Head(queue) = [items |-> items, number |-> batches] /\ Tail(queue) = <<>> /\ items # <<>>
      BY <2>1 DEF Queued
    <2>3. items \in Seq(Nat) /\ handed \in Nat /\ carried \in Nat
      BY DEF Types, FiberTypes
    <2>4. Message(items) /\ handed + Total(items) + carried = fetched
      BY <2>1 DEF HandInv, BatchAtBoundary, Queued
    <2>5. /\ gen' = "yielded" /\ left' = Tail(items) /\ taken' = batches /\ queue' = <<>>
          /\ pull' = [at |-> "value", item |-> Head(items), last |-> Len(items) = 1]
      BY <1>0, <1>5, <2>2 DEF Yield
    <2> HIDE DEF items
    <2>6. /\ Head(items) = items[1] /\ Head(items) \in Nat /\ Len(items) \in Nat \ {0} /\ left' \in Seq(Nat)
          /\ Len(left') = Len(items) - 1
          /\ \A k \in 1..Len(left') : left'[k] = items[k + 1]
      BY <2>2, <2>3, <2>5, HeadTailProperties, EmptySeq, LenProperties
    <2>7. Len(items) = 1 <=> left' = <<>>
      BY <2>6, EmptySeq, LenProperties
    <2>8. /\ \A i \in 1..Len(left') : left'[i] = 1
          /\ Total(items) = Head(items) + Len(left')
      <3>1. CASE view \in Text
        <4>1. Len(items) = 1 /\ Len(left') = 0
          BY <2>4, <2>6, <3>1 DEF Message
        <4> QED BY <2>2, <2>6, <3>1, <4>1 DEF Total
      <3>2. CASE view \notin Text
        <4>1. \A i \in 1..Len(items) : items[i] = 1
          BY <2>4, <3>2 DEF Message
        <4>2. Total(items) = Len(items)
          BY <3>2 DEF Total
        <4> QED BY <2>6, <4>1, <4>2
      <3> QED BY <3>1, <3>2
    <2>9. handed + Head(items) + Len(left') + carried = fetched
      BY <2>3, <2>4, <2>6, <2>8
    <2>10. Pulled'
      <3>1. pull'.at = "value" /\ pull'.item = Head(items) /\ pull'.last = (left' = <<>>)
        BY <2>5, <2>7
      <3>2. queue' = <<>> /\ taken' = batches' /\ gen' = "yielded" /\ acked' < batches'
        BY <1>0, <2>1, <2>5 DEF Queued
      <3>3. handed' + pull'.item + Len(left') + carried' = fetched'
        BY <1>0, <2>9, <3>1
      <3> QED BY <2>8, <3>1, <3>2, <3>3 DEF Pulled
    <2>11. HandedOver'
      BY <1>0, <2>1, <2>10 DEF HandedOver
    <2> QED BY <1>2, <1>3, <2>11 DEF HandInv
  <1> QED BY <1>4, <1>5

LEMMA PullSettledHand ==
  ASSUME Types, EndInv, HandInv, PullSettled
  PROVE  HandInv'
  <1> USE DEF response, reading, driver, history
  <1>0. /\ pull.at \in {"value", "close", "error"} /\ view \in Web /\ pull' = NotPulling
        /\ UNCHANGED <<response, closing, driver, queue, settled, gen, taken, left, returning, failed>>
        /\ fiber \in {"acquiring", "none"} => pull.at # "value"
    BY DEF PullSettled, HandInv, StreamEnds, Untouched
  <1>1. /\ handed \in Nat /\ carried \in Nat /\ fetched \in Nat /\ meta \in Nat /\ acked \in Nat
        /\ batches \in Nat /\ taken \in Nat /\ pull.item \in Nat /\ left \in Seq(Nat)
        /\ pull.last \in BOOLEAN
    BY DEF Types, FiberTypes, MessageTypes
  <1>2. StreamEnds' /\ BatchAtBoundary'
    <2>1. StreamEnds'
      BY <1>0 DEF HandInv, StreamEnds, PullSettled, NotPulling, PullRefused
    <2>2. BatchAtBoundary'
      BY <1>0 DEF HandInv, BatchAtBoundary, Message
    <2> QED BY <2>1, <2>2
  <1>3. CASE ~(pull.at = "value" /\ ~aborted /\ stream = "readable")
    <2>0. handed' = handed /\ acked' = acked
      BY <1>3 DEF PullSettled, PullRefused
    <2>1. Untouched' /\ UnderWay' /\ MetadataIsDelivered'
      BY <1>0, <2>0 DEF HandInv, Untouched, UnderWay, MetadataIsDelivered, NotPulling, Total
    <2>2. aborted \/ terminal
      BY <1>0, <1>3 DEF HandInv, StreamEnds, Types, StreamTypes
    <2>3. aborted \/ fiber \notin Live
      BY <2>2 DEF EndInv, EndedStays
    <2>4. HandedOver'
      BY <1>0, <2>3 DEF HandedOver, Live
    <2> QED BY <1>2, <2>1, <2>4 DEF HandInv
  <1>4. CASE pull.at = "value" /\ ~aborted /\ stream = "readable"
    <2>1. /\ pull.at = "value" /\ ~aborted /\ handed' = handed + pull.item
          /\ acked' = IF pull.last THEN taken ELSE acked
      BY <1>1, <1>4 DEF PullSettled, PullRefused, AckFrom
    <2>2. MetadataIsDelivered'
      BY <1>0, <1>1, <2>1 DEF HandInv, MetadataIsDelivered
    <2>3. fiber \notin {"running", "deliver", "acquiring", "none"}
      BY <1>0, <2>1 DEF HandInv, HandedOver
    <2>4. Untouched' /\ UnderWay'
      BY <1>0, <2>3 DEF HandInv, Untouched, UnderWay
    <2>5. ASSUME fiber = "acking"
          PROVE  Pulled' \/ Through'
      <3>1. Pulled
        BY <1>0, <2>1, <2>5 DEF HandInv, HandedOver, Queued, Through
      <3>2. handed' + Len(left) + carried = fetched
        BY <1>1, <2>1, <3>1 DEF Pulled
      <3>3. CASE pull.last
        <4>1. left = <<>> /\ acked' = batches /\ Len(left) = 0
          BY <1>1, <2>1, <3>1, <3>3, EmptySeq, LenProperties DEF Pulled
        <4>2. handed' + carried = fetched
          BY <1>1, <2>1, <3>2, <4>1
        <4> QED BY <1>0, <3>1, <4>1, <4>2 DEF Pulled, Through, NotPulling
      <3>4. CASE ~pull.last
        <4>1. left # <<>> /\ acked' = acked
          BY <1>1, <2>1, <3>1, <3>4 DEF Pulled
        <4>2. handed' + 0 + Len(left) + carried = fetched
          BY <1>1, <2>1, <3>2
        <4>3. pull'.at = "none"
          BY <1>0 DEF NotPulling
        <4> QED BY <1>0, <3>1, <4>1, <4>2, <4>3 DEF Pulled
      <3> QED BY <3>3, <3>4
    <2>6. HandedOver'
      BY <1>0, <2>3, <2>5 DEF HandedOver
    <2> QED BY <1>2, <2>2, <2>4, <2>6 DEF HandInv
  <1> QED BY <1>3, <1>4

LEMMA HandStep ==
  ASSUME Types, EndInv, HandInv, [Next]_vars
  PROVE  HandInv'
  <1> USE DEF response, closing, reading, driver, handover, web, history, message
  <1>0. Types' /\ EndInv'
    BY FlagTypesStep, FiberTypesStep, StreamTypesStep, MessageTypesStep, EndStep, TypesAreTypes DEF Types
  <1>1. ASSUME NEW v \in Views, Claim(v)
        PROVE  HandInv'
    BY <1>1, ClaimHand
  <1>2. CASE ClaimWrongType
    <2>1. terminal' /\ StreamEnds'
      BY <1>2 DEF ClaimWrongType, Finish, HandInv, StreamEnds
    <2> QED BY <1>2, <2>1, Ending DEF ClaimWrongType
  <1>3. CASE Pull
    BY <1>3, PullHand
  <1>4. CASE ReaderCancel
    <2>1. StreamEnds' /\ (aborted => aborted')
      BY <1>4 DEF ReaderCancel, CancelRead, Finish, HandInv, StreamEnds
    <2>2. UNCHANGED <<message, handed, meta, view, driver>> /\ (gen # "fresh" => gen' = gen)
          /\ (gen = "fresh" => gen' = "ended")
      BY <1>4 DEF ReaderCancel
    <2>3. gen = "fresh" => fiber = "none"
      BY DEF EndInv, FreshWaits
    <2> QED BY <2>1, <2>2, <2>3 DEF HandInv, BatchAtBoundary, Message, Untouched, UnderWay, Total, HandedOver,
              MetadataIsDelivered, Queued, Pulled, Through
  <1>5. CASE Cancel
    <2>1. StreamEnds' /\ (aborted => aborted')
      BY <1>5 DEF Cancel, CancelRead, Finish, HandInv, StreamEnds
    <2> QED BY <1>5, <2>1, Ending DEF Cancel
  <1>6. CASE Reads
    BY <1>6, ReadsHand
  <1>7. CASE ReadFails
    <2>1. StreamEnds'
      BY <1>7 DEF ReadFails, HandInv, StreamEnds
    <2> QED BY <1>7, <2>1, Settling DEF ReadFails
  <1>8. CASE ReadEnds
    <2>1. StreamEnds'
      BY <1>8 DEF ReadEnds, HandInv, StreamEnds
    <2> QED BY <1>8, <2>1, Settling DEF ReadEnds
  <1>9. CASE Acquired
    BY <1>9 DEF Acquired, HandInv, BatchAtBoundary, Untouched, UnderWay, HandedOver, StreamEnds,
                MetadataIsDelivered
  <1>10. CASE AcquireFails
    <2>1. StreamEnds'
      BY <1>10 DEF AcquireFails, Finish, HandInv, StreamEnds
    <2> QED BY <1>10, <2>1, Settling DEF AcquireFails
  <1>11. CASE Delivered
    BY <1>11, DeliveredHand
  <1>12. CASE Offer
    BY <1>12, OfferHand
  <1>13. CASE AckReceived
    BY <1>13, AckHand
  <1>14. CASE Interrupted
    <2>1. StreamEnds'
      BY <1>14 DEF Interrupted, HandInv, StreamEnds
    <2> QED BY <1>14, <2>1, Settling DEF Interrupted
  <1>15. CASE RunSettled
    <2>1. StreamEnds' /\ fiber' \in {"finished", "rejected"}
      BY <1>15 DEF RunSettled, Finish, HandInv, StreamEnds
    <2> QED BY <1>15, <2>1, Settling DEF RunSettled
  <1>16. CASE ConsumeSettled
    <2>1. terminal
      BY <1>16 DEF ConsumeSettled, EndInv, ScopeFollows
    <2>2. StreamEnds'
      BY <1>16, <2>1 DEF ConsumeSettled, HandInv, StreamEnds
    <2> QED BY <1>16, <2>2, Settling DEF ConsumeSettled
  <1>17. CASE GenTakes
    BY <1>17, TakeHand
  <1>18. CASE GenEnds
    <2>1. /\ gen = "waiting" /\ terminal /\ gen' \in {"return", "throw"}
          /\ UNCHANGED <<response, closing, driver, handover, taken, returning, pull, stream, handed>>
      BY <1>18 DEF GenEnds, GenLeaves, HandInv, StreamEnds
    <2>2. fiber \notin {"acquiring", "none", "running", "deliver", "acking"}
      BY <2>1 DEF EndInv, EndedStays, Live, FreshWaits, HandInv, Untouched, StreamEnds
    <2>3. StreamEnds'
      BY <2>1 DEF HandInv, StreamEnds
    <2> QED BY <2>1, <2>2, <2>3, Settling
  <1>19. CASE GenReturns
    <2>1. /\ gen = "yielded" /\ (aborted \/ terminal) /\ gen' = "return"
          /\ UNCHANGED <<response, closing, driver, handover, taken, returning, pull, stream, handed>>
      BY <1>19 DEF GenReturns, GenLeaves, HandInv, StreamEnds
    <2>2. StreamEnds' /\ fiber \notin {"acquiring", "none"}
      BY <2>1 DEF HandInv, StreamEnds, Untouched
    <2>3. aborted \/ fiber \notin {"running", "deliver", "acking"}
      BY <2>1 DEF EndInv, EndedStays, Live
    <2> QED BY <2>1, <2>2, <2>3 DEF HandInv, BatchAtBoundary, Message, Untouched, UnderWay, Total, HandedOver,
              MetadataIsDelivered
  <1>20. CASE GenFinally
    <2>1. /\ gen \in {"return", "throw"} /\ gen' \in {"joinReturn", "joinThrow"} /\ (aborted' \/ terminal')
          /\ UNCHANGED <<message, handed, meta, view, driver, stream, returning, settled>>
          /\ (aborted => aborted') /\ (terminal => terminal')
      BY <1>20 DEF GenFinally, CancelRead, Finish
    <2>2. StreamEnds' /\ fiber \notin {"acquiring", "none"}
      BY <2>1 DEF HandInv, StreamEnds, Untouched
    <2>3. aborted' \/ fiber \notin {"running", "deliver", "acking"}
      BY <1>0, <2>1 DEF EndInv, EndedStays, Live
    <2> QED BY <2>1, <2>2, <2>3 DEF HandInv, BatchAtBoundary, Message, Untouched, UnderWay, Total, HandedOver,
              MetadataIsDelivered
  <1>21. CASE GenDone
    <2>1. /\ gen \in {"joinReturn", "joinThrow"} /\ terminal /\ gen' = "ended"
          /\ pull'.at \in {pull.at, "close", "error"} /\ (pull.at # "none" => pull'.at # "none")
          /\ (pull.at = "none" => pull'.at = "none")
          /\ UNCHANGED <<response, closing, driver, handover, taken, left, returning, stream, handed>>
      BY <1>21 DEF GenDone, NotPulling, EndInv, ScopeFollows, MessageTypes, Types
    <2>2. fiber \notin {"acquiring", "none", "running", "deliver", "acking"}
      BY <2>1 DEF EndInv, EndedStays, Live, HandInv, Untouched, StreamEnds
    <2>3. StreamEnds'
      BY <2>1 DEF HandInv, StreamEnds
    <2> QED BY <2>1, <2>2, <2>3, Settling
  <1>22. CASE ScopeClosed
    <2>1. StreamEnds'
      BY <1>22 DEF ScopeClosed, HandInv, StreamEnds
    <2> QED BY <1>22, <2>1, Ending DEF ScopeClosed
  <1>23. CASE PullSettled
    BY <1>23, PullSettledHand
  <1>24. CASE CancelSettled
    <2>1. StreamEnds'
      BY <1>24 DEF CancelSettled, HandInv, StreamEnds
    <2> QED BY <1>24, <2>1, Ending DEF CancelSettled
  <1>25. CASE UNCHANGED vars
    <2>1. StreamEnds'
      BY <1>25 DEF vars, HandInv, StreamEnds
    <2> QED BY <1>25, <2>1, Ending DEF vars
  <1> QED BY Steps, <1>1, <1>2, <1>3, <1>4, <1>5, <1>6, <1>7, <1>8, <1>9, <1>10, <1>11, <1>12, <1>13, <1>14, <1>15, <1>16, <1>17, <1>18, <1>19, <1>20, <1>21, <1>22, <1>23, <1>24, <1>25

-----------------------------------------------------------------------------
(* The theorems. *)

ResponseInv == Types /\ EndInv /\ HandInv

LEMMA InitInv == Init => ResponseInv
  <1> SUFFICES ASSUME Init PROVE ResponseInv
    OBVIOUS
  <1>1. FlagTypes /\ StreamTypes
    BY DEF Init, FlagTypes, StreamTypes
  <1>2. FiberTypes
    BY EmptySeq DEF Init, FiberTypes, NoBatch
  <1>3. queue = <<>> /\ left = <<>> /\ acked = 0 /\ taken = 0
        /\ pull = [at |-> "none", item |-> 0, last |-> FALSE]
    BY DEF Init
  <1>4. QueueFilled
    BY <1>3 DEF QueueFilled
  <1>5. MessageTypes
    BY <1>3, <1>4, EmptySeq DEF MessageTypes
  <1>6. EndInv
    BY DEF Init, EndInv, ScopeFollows, ActiveRuns, Unconsumed, FreshWaits, EndedStays, FailureTold, Live, Ran
  <1>7. HandInv
    BY DEF Init, HandInv, BatchAtBoundary, Untouched, UnderWay, HandedOver, StreamEnds, MetadataIsDelivered
  <1> QED BY <1>1, <1>2, <1>5, <1>6, <1>7 DEF Types, ResponseInv

LEMMA StepInv == ResponseInv /\ [Next]_vars => ResponseInv'
  <1> SUFFICES ASSUME ResponseInv, [Next]_vars PROVE ResponseInv'
    OBVIOUS
  <1>1. Types'
    BY FlagTypesStep, FiberTypesStep, StreamTypesStep, MessageTypesStep DEF Types, ResponseInv
  <1>2. EndInv'
    BY TypesAreTypes, EndStep DEF ResponseInv
  <1>3. HandInv'
    BY HandStep DEF ResponseInv
  <1> QED BY <1>1, <1>2, <1>3 DEF ResponseInv

LEMMA Invariance == Spec => []ResponseInv
  BY InitInv, StepInv, PTL DEF Spec

(* The variables have their types, for any views, batches and units. *)
THEOREM ResponseTypes == Spec => []ResponseTypeOK
  <1>1. ResponseInv => ResponseTypeOK
    BY TypesAreTypes DEF ResponseInv
  <1> QED BY <1>1, Invariance, PTL

(* The metadata a response shows never covers a unit its consumer has not  *)
(* received, for any batches and units and every view: pages and chunks,   *)
(* characters split over batches, messages pulled item by item, a reader   *)
(* that stops and a cancellation anywhere in between.                      *)
THEOREM MetadataDelivered == Spec => []MetadataIsDelivered
  <1>1. ResponseInv => MetadataIsDelivered
    BY DEF ResponseInv, HandInv
  <1> QED BY <1>1, Invariance, PTL

(* When `closed` settles, the scope of the read is closed and no fiber     *)
(* drives it, whoever ended the response and whatever consumes it          *)
(* (finish and cancel in client-response.ts).                              *)
THEOREM ClosedJoins == Spec => []ClosedJoinsCleanup
  <1>1. ResponseInv => ClosedJoinsCleanup
    BY DEF ResponseInv, EndInv, ScopeFollows, EndedStays, Live, ClosedJoinsCleanup
  <1> QED BY <1>1, Invariance, PTL

(* `closed` rejects exactly when the read, the decoding or a callback      *)
(* failed: a cancellation never hides a failure nor makes one.             *)
THEOREM ClosedTells == Spec => []ClosedTellsFailures
  <1>1. ResponseInv => ClosedTellsFailures
    BY DEF ResponseInv, Types, FlagTypes, EndInv, ScopeFollows, FailureTold, ClosedTellsFailures
  <1> QED BY <1>1, Invariance, PTL

(* After a cancellation no step hands over, acknowledges or restarts       *)
(* anything: each one that would checks the signal of the response first.  *)
THEOREM AbortIsFinal == Spec => NothingAfterCancel
  <1>1. ASSUME [Next]_vars, aborted
        PROVE  handed' = handed /\ meta' = meta /\ (fiber = "none" => fiber' # "running")
    <2> USE <1>1 DEF response, closing, reading, driver, handover, web, history
    <2>1. ASSUME NEW v \in Views, Claim(v)
          PROVE  handed' = handed /\ meta' = meta /\ (fiber = "none" => fiber' # "running")
      BY <2>1 DEF Claim
    <2>2. CASE ClaimWrongType \/ ReaderCancel \/ Cancel \/ ScopeClosed \/ CancelSettled
      BY <2>2 DEF ClaimWrongType, ReaderCancel, Cancel, ScopeClosed, CancelSettled
    <2>3. CASE Pull
      BY <2>3 DEF Pull, Launched
    <2>4. CASE Reads
      BY <2>4 DEF Reads, ReadPage, ReadChunk, ReadBoundary, Read
    <2>5. CASE ReadFails \/ ReadEnds \/ Acquired \/ AcquireFails
      BY <2>5 DEF ReadFails, ReadEnds, Acquired, AcquireFails
    <2>6. CASE Delivered \/ Offer \/ AckReceived
      BY <2>6 DEF Delivered, Offer, AckReceived
    <2>7. CASE Interrupted \/ RunSettled \/ ConsumeSettled
      BY <2>7 DEF Interrupted, RunSettled, ConsumeSettled
    <2>8. CASE GenTakes \/ GenEnds \/ GenReturns \/ GenFinally \/ GenDone
      BY <2>8 DEF GenTakes, GenEnds, GenReturns, GenFinally, GenDone
    <2>9. CASE PullSettled
      BY <2>9 DEF PullSettled, PullRefused
    <2>10. CASE UNCHANGED vars
      BY <2>10 DEF vars
    <2> QED BY Steps, <2>1, <2>2, <2>3, <2>4, <2>5, <2>6, <2>7, <2>8, <2>9, <2>10
  <1>2. [Next]_vars =>
          [aborted => handed' = handed /\ meta' = meta /\ (fiber = "none" => fiber' # "running")]_vars
    BY <1>1
  <1> QED BY <1>2, PTL DEF Spec, NothingAfterCancel

=============================================================================
