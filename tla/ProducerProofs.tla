--------------------------- MODULE ProducerProofs ---------------------------
(***************************************************************************)
(* Proofs about Producer, for every value of its constants: its types, and *)
(* that a flush is complete.                                               *)
(***************************************************************************)
EXTENDS ProducerProperties, FiniteSetTheorems, TLAPS

-----------------------------------------------------------------------------
(* Type correctness: one lemma per helper, then one step per action. *)

LEMMA CardinalityNat == \A S \in SUBSET Ids : Cardinality(S) \in Nat
  <1>1. IsFiniteSet(Ids)
    BY OptionsAssumption, FS_Interval DEF Ids
  <1> QED
    BY <1>1, FS_Subset, FS_CardinalityType

\* A function keeps its type when one argument gets another value of the range.
LEMMA ExceptType ==
  ASSUME NEW S, NEW T, NEW f \in [S -> T], NEW x, NEW y \in T
  PROVE  [f EXCEPT ![x] = y] \in [S -> T]
  OBVIOUS

\* A group of variables that does not change keeps its type.
LEMMA SameType ==
  ASSUME TypeOK
  PROVE  /\ UNCHANGED admission => AdmissionType'
         /\ UNCHANGED sequencing => SequencingType'
         /\ UNCHANGED claims => ClaimType'
         /\ UNCHANGED requests => RequestType'
         /\ UNCHANGED settled => SettledType'
         /\ UNCHANGED closing => ClosingType'
         /\ UNCHANGED calls => CallType'
         /\ UNCHANGED <<server, strays>> => ServerType'
         /\ UNCHANGED environment => EnvironmentType'
  <1> USE DEF TypeOK
  <1>1. UNCHANGED admission => AdmissionType'
    BY DEF AdmissionType, admission
  <1>2. UNCHANGED sequencing => SequencingType'
    BY DEF SequencingType, sequencing
  <1>3. UNCHANGED claims => ClaimType'
    BY DEF ClaimType, claims
  <1>4. UNCHANGED requests => RequestType'
    BY DEF RequestType, requests
  <1>5. UNCHANGED settled => SettledType'
    BY DEF SettledType, settled
  <1>6. UNCHANGED closing => ClosingType'
    BY DEF ClosingType, closing
  <1>7. UNCHANGED calls => CallType'
    BY DEF CallType, calls
  <1>8. UNCHANGED <<server, strays>> => ServerType'
    BY DEF ServerType, server
  <1>9. UNCHANGED environment => EnvironmentType'
    BY DEF EnvironmentType, environment
  <1> QED
    BY <1>1, <1>2, <1>3, <1>4, <1>5, <1>6, <1>7, <1>8, <1>9

LEMMA ReturnType ==
  ASSUME TypeOK, NEW c \in Calls, NEW r \in Outcomes \cup {"closed"}, Return(c, r)
  PROVE  /\ UNCHANGED <<id, emitted, timer>> /\ mutex' \in Calls \cup {Free, Timer}
            => AdmissionType'
         /\ UNCHANGED <<mark, fed>> => CallType'
  <1>1. mode' \in {"open", "closing", "detached", "stopped"} /\ lifecycle' \in Calls \cup {Free}
    BY DEF TypeOK, AdmissionType, Return
  <1>2. pc' \in [Calls -> Locations] /\ result' \in [Calls -> Outcomes \cup {"none", "closed"}]
    BY DEF TypeOK, CallType, Return, Locations
  <1> QED
    BY <1>1, <1>2 DEF TypeOK, AdmissionType, CallType

LEMMA GotoType ==
  ASSUME TypeOK, NEW c \in Calls, NEW l \in Locations, Goto(c, l)
  PROVE  pc' \in [Calls -> Locations]
  BY DEF TypeOK, CallType, Goto

LEMMA ReserveType ==
  ASSUME TypeOK, NEW b \in 0..MaxEntries, Reserve(b)
  PROVE  /\ tuple' \in [Ids -> Tuple] /\ nextSeq' \in Nat
         /\ sequences' \in [Seqs -> 0..MaxEntries]
  <1>1. [epoch |-> epoch, seq |-> nextSeq] \in Tuple
    BY DEF TypeOK, SequencingType, Tuple
  <1>2. tuple' \in [Ids -> Tuple]
    BY <1>1 DEF TypeOK, SequencingType, Reserve
  <1>3. nextSeq' \in Nat
    BY DEF TypeOK, SequencingType, Reserve
  <1>4. sequences' \in [Seqs -> 0..MaxEntries]
    BY ExceptType DEF TypeOK, SequencingType, Reserve
  <1> QED
    BY <1>2, <1>3, <1>4

LEMMA HeldType ==
  ASSUME TypeOK
  PROVE  /\ SequencesWithHeld \in [Seqs -> 0..MaxEntries]
         /\ ReserveHeld => tuple' \in [Ids -> Tuple] /\ nextSeq' \in Nat
  <1>1. Held \in SUBSET Ids
    BY DEF Held
  <1>2. \A b \in Ids : {c \in Held : c < b} \in SUBSET Ids
    BY <1>1
  <1>3. Cardinality(Held) \in Nat /\ \A b \in Ids : SeqOfHeld(b) \in Nat
    BY <1>1, <1>2, CardinalityNat DEF TypeOK, SequencingType, SeqOfHeld
  <1>4. ASSUME NEW q \in Seqs, \E b \in Held : SeqOfHeld(b) = q
        PROVE  (CHOOSE b \in Held : SeqOfHeld(b) = q) \in 0..MaxEntries
    <2>1. (CHOOSE b \in Held : SeqOfHeld(b) = q) \in Held
      BY <1>4
    <2>2. \A b \in Ids : b \in 0..MaxEntries
      BY OptionsAssumption DEF Ids
    <2> QED
      BY <1>1, <2>1, <2>2
  <1>5. SequencesWithHeld \in [Seqs -> 0..MaxEntries]
    BY <1>4 DEF SequencesWithHeld, TypeOK, SequencingType
  <1>6. ReserveHeld => tuple' \in [Ids -> Tuple] /\ nextSeq' \in Nat
    BY <1>3 DEF ReserveHeld, TypeOK, SequencingType, Tuple
  <1> QED
    BY <1>5, <1>6

LEMMA CompleteType ==
  ASSUME TypeOK, NEW b \in Ids, NEW out \in Outcomes,
         NEW seqs \in [Seqs -> 0..MaxEntries], Complete(b, out, seqs)
  PROVE  /\ epoch' \in Nat /\ nextSeq' \in Nat /\ tuple' \in [Ids -> Tuple]
            => SequencingType'
         /\ UNCHANGED <<from, first, reply>> /\ req' \in [Slots -> Tuple]
            /\ waitFor' \in [Ids -> 0..MaxEntries] => RequestType'
         /\ offset' \in Nat => SettledType'
  <1> USE OptionsAssumption DEF TypeOK, Complete
  <1>1. phase' \in [Slots -> Phases]
    BY DEF RequestType, Phases
  <1>2. receipt' \in [Ids -> Outcomes \cup {"open"}] /\ firstFailure' \in Nat
    BY DEF SettledType, RequestType
  <1>3. failure' \in [seq : Int, out : Failures] \cup {NoFailure}
    BY DEF SequencingType, Tuple
  <1>4. through' \in Int
    BY DEF DoneThrough, SequencingType
  <1>5. sequences' \in [Seqs -> 0..MaxEntries]
    OBVIOUS
  <1> HIDE DEF Complete
  <1> QED
    BY <1>1, <1>2, <1>3, <1>4, <1>5 DEF SequencingType, RequestType, SettledType

\* What a step of a worker may change, and has to keep typed.
WorkerTyped ==
  /\ epoch' \in Nat => SequencingType'
  /\ UNCHANGED claiming => ClaimType'
  /\ UNCHANGED <<from, first, reply>> /\ req' \in [Slots -> Tuple]
     /\ waitFor' \in [Ids -> 0..MaxEntries] => RequestType'
  /\ offset' \in Nat => SettledType'

LEMMA FinishType ==
  ASSUME TypeOK, NEW b \in Ids, NEW out \in Outcomes, Finish(b, out)
  PROVE  WorkerTyped
  <1>1. claim' \in Outcomes \cup {"open"} /\ claimed' \in BOOLEAN
    BY DEF TypeOK, ClaimType, Finish
  <1>2. sequences \in [Seqs -> 0..MaxEntries] /\ tuple \in [Ids -> Tuple] /\ nextSeq \in Nat
    BY DEF TypeOK, SequencingType
  <1>3. UNCHANGED claiming => ClaimType'
    BY <1>1 DEF TypeOK, ClaimType
  <1>4. CASE first[b] /\ out = "ok"
    BY <1>3, <1>4, HeldType, CompleteType DEF Finish, WorkerTyped
  <1>5. CASE ~(first[b] /\ out = "ok")
    BY <1>2, <1>3, <1>5, CompleteType DEF Finish, WorkerTyped
  <1> QED
    BY <1>4, <1>5

\* A step that moves on without finishing.
LEMMA MoveType ==
  ASSUME TypeOK, NEW b \in Ids, NEW l \in Phases, phase' = [phase EXCEPT ![b] = l],
         UNCHANGED <<claim, claimed, receipt, firstFailure, failure, through>>,
         nextSeq' \in Nat, tuple' \in [Ids -> Tuple], sequences' \in [Seqs -> 0..MaxEntries]
  PROVE  WorkerTyped
  <1>1. phase' \in [Slots -> Phases]
    BY DEF TypeOK, RequestType
  <1> QED
    BY <1>1 DEF WorkerTyped, TypeOK, SequencingType, ClaimType, RequestType, SettledType

LEMMA StartType ==
  ASSUME TypeOK, NEW b \in Ids, Start(b)
  PROVE  WorkerTyped /\ req' \in [Slots -> Tuple]
  <1> DEFINE t == IF tuple[b] = NoTuple THEN [epoch |-> epoch, seq |-> nextSeq] ELSE tuple[b]
  <1>1. t \in Tuple
    BY DEF TypeOK, SequencingType, Tuple
  <1>2. CASE t.seq > MaxSafe /\ tuple[b] # NoTuple
    <2>1. Finish(b, "fail") /\ UNCHANGED req
      BY <1>2 DEF Start
    <2> QED
      BY <2>1, FinishType DEF Outcomes, Failures, TypeOK, RequestType
  <1>3. CASE ~(t.seq > MaxSafe /\ tuple[b] # NoTuple)
    <2>1. /\ Reserve(b) \/ UNCHANGED <<tuple, sequences, nextSeq>>
          /\ req' = [req EXCEPT ![b] = t]
          /\ phase' = [phase EXCEPT ![b] = "sent"]
          /\ UNCHANGED <<claim, claimed, receipt, firstFailure, failure, through>>
      BY <1>3 DEF Start
    <2>2. req' \in [Slots -> Tuple]
      BY <1>1, <2>1 DEF TypeOK, RequestType
    <2>3. nextSeq' \in Nat /\ tuple' \in [Ids -> Tuple] /\ sequences' \in [Seqs -> 0..MaxEntries]
      <3>1. b \in 0..MaxEntries
        BY OptionsAssumption DEF Ids
      <3> QED
        BY <2>1, <3>1, ReserveType DEF TypeOK, SequencingType
    <2> QED
      BY <2>1, <2>2, <2>3, MoveType DEF Phases, Working
  <1> QED
    BY <1>2, <1>3

LEMMA AwaitType ==
  ASSUME TypeOK, NEW b \in Ids, NEW p, AwaitFrom(b, p)
  PROVE  WorkerTyped /\ waitFor' \in [Ids -> 0..MaxEntries]
  <1> DEFINE q == IF p <= through THEN through + 1 ELSE p
  <1>1. Get(q) \in 0..MaxEntries /\ waitFor \in [Ids -> 0..MaxEntries]
    BY OptionsAssumption DEF Get, TypeOK, SequencingType, RequestType
  <1>2. NotFinished => nextSeq' \in Nat /\ tuple' \in [Ids -> Tuple] /\ sequences' \in [Seqs -> 0..MaxEntries]
    BY DEF NotFinished, TypeOK, SequencingType
  <1>3. CASE Finish(b, "fail") /\ UNCHANGED waitFor
    BY <1>1, <1>3, FinishType DEF Outcomes, Failures
  <1>4. CASE phase' = [phase EXCEPT ![b] = "sent"] /\ NotFinished /\ UNCHANGED waitFor
    BY <1>1, <1>2, <1>4, MoveType DEF NotFinished, Phases, Working
  <1>5. CASE /\ phase' = [phase EXCEPT ![b] = "gapwait"] /\ NotFinished
             /\ waitFor' = [waitFor EXCEPT ![b] = Get(q)]
    BY <1>1, <1>2, <1>5, MoveType DEF NotFinished, Phases, Working
  <1> QED
    BY <1>3, <1>4, <1>5 DEF AwaitFrom, Missing

LEMMA EmitType ==
  ASSUME TypeOK, NEW last \in 0..MaxEntries, NEW by \in Calls \cup {Timer}, Emit(last, by)
  PROVE  /\ UNCHANGED <<mode, lifecycle>> /\ id' \in 0..MaxEntries => AdmissionType'
         /\ UNCHANGED <<epoch, through, failure>> => SequencingType'
         /\ UNCHANGED <<claimed, claim>> => ClaimType'
         /\ UNCHANGED <<req, reply, waitFor>> => RequestType'
  <1>1. tuple' \in [Ids -> Tuple] /\ nextSeq' \in Nat /\ sequences' \in [Seqs -> 0..MaxEntries]
    BY ReserveType DEF Emit, TypeOK, SequencingType
  <1>2. from' \in [Ids -> Nat] /\ emitted' \in 0..MaxEntries /\ timer' \in BOOLEAN
    <2>1. emitted + 1 \in Nat /\ from \in [Ids -> Nat]
      BY DEF TypeOK, RequestType, AdmissionType
    <2>2. from' = [from EXCEPT ![last] = emitted + 1] /\ emitted' = last /\ timer' = FALSE
      BY DEF Emit
    <2> QED
      BY <2>1, <2>2
  <1>3. first' \in [Ids -> BOOLEAN] /\ claiming' \in BOOLEAN
    BY DEF Emit, TypeOK, RequestType, ClaimType
  <1>4. phase' \in [Slots -> Phases] /\ mutex' \in Calls \cup {Free, Timer}
    BY DEF Emit, TypeOK, RequestType, AdmissionType, Phases
  <1> QED
    BY <1>1, <1>2, <1>3, <1>4 DEF TypeOK, AdmissionType, SequencingType, ClaimType, RequestType

LEMMA AcceptType ==
  ASSUME TypeOK, NEW s \in Slots, NEW t \in Tuple, Accept(s, t)
  PROVE  /\ sEpoch' \in Nat \cup {-1} /\ sLast' \in Nat \cup {-1} /\ sClosed' \in Tuple
         /\ log' \in Seq(Slots \cup {Foreign})
  BY DEF TypeOK, ServerType, Accept, Tuple

LEMMA RefusalType ==
  ASSUME TypeOK, NEW t \in Tuple, NEW r \in Refusals(t)
  PROVE  r \in Answer
  <1> DEFINE is(kind, num) == [kind |-> kind, num |-> num, offset |-> 0,
                               closed |-> sClosed # NoTuple]
  <1>1. \A kind \in Kinds, num \in Nat : is(kind, num) \in Answer
    BY DEF Answer
  <1>2. /\ {"dup", "closed", "fenced", "gap", "rejected"} \subseteq Kinds /\ 0 \in Nat
        /\ Len(log) \in Nat
    BY DEF Kinds, TypeOK, ServerType
  <1>3. t.epoch < sEpoch => sEpoch \in Nat
    BY DEF TypeOK, ServerType, Tuple
  <1>4. sLast + 1 \in Nat
    BY DEF TypeOK, ServerType
  <1>5. [is("dup", 0) EXCEPT !.offset = Len(log)] \in Answer
    BY <1>1, <1>2 DEF Answer
  <1> HIDE DEF is
  <1>6. \/ r = [is("dup", 0) EXCEPT !.offset = Len(log)] \/ r = is("closed", 0)
        \/ (t.epoch < sEpoch /\ r = is("fenced", sEpoch)) \/ r = is("gap", 0)
        \/ r = is("rejected", 0) \/ r = is("dup", 0) \/ r = is("gap", sLast + 1)
    BY DEF Refusals, is
  <1> QED
    BY <1>1, <1>2, <1>3, <1>4, <1>5, <1>6

-----------------------------------------------------------------------------
(* TypeOK is not inductive by itself: append reads the receipt of its mark,  *)
(* and an offer that goes through moves on the call that holds the mutex.    *)

HolderOffers == mutex \in Calls => pc[mutex] \in {"offer", "emit"}
AdmittedHasId == \A c \in Calls : pc[c] \in {"offer", "await"} => mark[c] \in Ids
TypeInv == TypeOK /\ HolderOffers /\ AdmittedHasId

\* The variables a worker may change, before its step.
LEMMA WorkerVars ==
  ASSUME TypeInv
  PROVE  /\ epoch \in Nat /\ offset \in Nat
         /\ req \in [Slots -> Tuple] /\ waitFor \in [Ids -> 0..MaxEntries]
  BY DEF TypeInv, TypeOK, SequencingType, SettledType, RequestType

\* A request that was given up on is a request that was sent.
LEMMA AbandonedType ==
  ASSUME TypeInv, NEW s \in Slots, strays' = Abandoned(s) \/ UNCHANGED strays,
         UNCHANGED server
  PROVE  ServerType'
  <1>1. [slot |-> s, req |-> req[s]] \in [slot : Slots, req : Tuple]
    BY DEF TypeInv, TypeOK, RequestType
  <1>2. strays' \subseteq [slot : Slots, req : Tuple]
    BY <1>1 DEF Abandoned, TypeInv, TypeOK, ServerType
  <1> QED
    BY <1>2 DEF TypeInv, TypeOK, ServerType, server

\* A call that ends was not in an offer: the holder of the mutex is another one.
LEMMA ReturnHolder ==
  ASSUME TypeInv, NEW c \in Calls, NEW r, Return(c, r), UNCHANGED mark,
         \/ UNCHANGED mutex /\ (mutex = c => pc[c] \notin {"offer", "emit"})
         \/ mutex' = Free
  PROVE  HolderOffers' /\ AdmittedHasId'
  <1>1. pc' = [pc EXCEPT ![c] = "done"] /\ pc \in [Calls -> Locations]
    BY DEF Return, TypeInv, TypeOK, CallType
  <1>2. AdmittedHasId'
    BY <1>1 DEF TypeInv, AdmittedHasId
  <1>3. HolderOffers'
    BY <1>1, CallsAssumption DEF TypeInv, HolderOffers
  <1> QED
    BY <1>2, <1>3

LEMMA BeginAppendStep ==
  ASSUME TypeInv, NEW c \in Calls, BeginAppend(c)
  PROVE  TypeInv'
  <1> USE DEF TypeInv
  <1>1. UNCHANGED <<sequencing, claims, requests, settled, closing, server, strays, environment>>
    BY DEF BeginAppend
  <1>2. AdmissionType'
    BY OptionsAssumption, ReturnType DEF BeginAppend, TypeOK, AdmissionType, admission, Outcomes, Failures, Goto, Locations
  <1>3. CallType'
    BY OptionsAssumption, ReturnType DEF BeginAppend, TypeOK, CallType, calls, Outcomes, Failures, Goto, Locations
  <1>4. HolderOffers' /\ AdmittedHasId'
    BY CallsAssumption DEF BeginAppend, TypeOK, HolderOffers, AdmittedHasId, AdmissionType, CallType, admission, calls, Goto, Return
  <1> QED
    BY <1>1, <1>2, <1>3, <1>4, SameType DEF TypeOK

LEMMA AdmitStep ==
  ASSUME TypeInv, NEW c \in Calls, Admit(c)
  PROVE  TypeInv'
  <1> USE DEF TypeInv
  <1>1. /\ UNCHANGED <<settled, closing, server, strays, environment>>
        /\ UNCHANGED <<epoch, through, failure, claimed, claim, req, reply, waitFor>>
    BY DEF Admit
  <1>2. CASE mode # "open"
    <2>1. Return(c, "closed") /\ NothingEmitted /\ UNCHANGED <<id, fed, mark>>
      BY <1>2 DEF Admit
    <2>2. AdmissionType' /\ CallType'
      BY <2>1, ReturnType DEF NothingEmitted, TypeOK, AdmissionType
    <2>3. SequencingType' /\ ClaimType' /\ RequestType'
      BY <1>1, <2>1, SameType DEF NothingEmitted, sequencing, claims, requests
    <2>4. HolderOffers' /\ AdmittedHasId'
      BY <2>1, CallsAssumption DEF Admit, Return, NothingEmitted, HolderOffers,
         AdmittedHasId, TypeOK, CallType
    <2> QED
      BY <1>1, <2>2, <2>3, <2>4, SameType DEF TypeOK
  <1>3. CASE mode = "open"
    <2>1. /\ id < MaxEntries /\ id' = id + 1 /\ mutex = Free
          /\ mark' = [mark EXCEPT ![c] = id + 1] /\ fed' = [fed EXCEPT ![c] = @ + 1]
          /\ Goto(c, IF mutex' = c THEN "offer" ELSE IF c \in Sinks THEN "new" ELSE "await")
          /\ UNCHANGED <<result, mode, lifecycle>>
      BY <1>3 DEF Admit
    <2>2. \/ Emit(id + 1, c)
          \/ timer' = (scope = "live") /\ UNCHANGED <<from, emitted, first, claiming, tuple,
                                                     sequences, nextSeq, phase, mutex>>
      BY <1>3 DEF Admit
    <2>3. id + 1 \in 0..MaxEntries /\ id + 1 \in Ids
      BY <2>1, OptionsAssumption DEF TypeOK, AdmissionType, Ids
    <2>4. AdmissionType' /\ SequencingType' /\ ClaimType' /\ RequestType'
      <3>1. CASE Emit(id + 1, c)
        BY <1>1, <2>1, <2>3, <3>1, EmitType
      <3>2. CASE timer' = (scope = "live") /\ UNCHANGED <<from, emitted, first, claiming, tuple,
                                                     sequences, nextSeq, phase, mutex>>
        <4>1. SequencingType' /\ ClaimType' /\ RequestType'
          BY <1>1, <3>2, SameType DEF sequencing, claims, requests
        <4>2. AdmissionType'
          BY <2>1, <2>3, <3>2 DEF TypeOK, AdmissionType
        <4> QED
          BY <4>1, <4>2
      <3> QED
        BY <2>2, <3>1, <3>2
    <2>5. CallType'
      <3>1. pc' \in [Calls -> Locations]
        BY <2>1, GotoType DEF Locations
      <3>2. fed' \in [Calls -> Nat]
        BY <2>1 DEF TypeOK, CallType
      <3>3. mark' \in [Calls -> 0..MaxEntries]
        BY <2>1, <2>3, ExceptType DEF TypeOK, CallType
      <3> QED
        BY <2>1, <3>1, <3>2, <3>3 DEF TypeOK, CallType
    <2>6. mutex' \in {Free, c}
      BY <2>1, <2>2 DEF Emit
    <2>7. HolderOffers' /\ AdmittedHasId'
      BY <2>1, <2>3, <2>6, CallsAssumption DEF Goto, HolderOffers, AdmittedHasId, TypeOK, CallType
    <2> QED
      BY <1>1, <2>4, <2>5, <2>7, SameType DEF TypeOK
  <1> QED
    BY <1>2, <1>3

LEMMA ReceiveStep ==
  ASSUME TypeInv, NEW c \in Calls, Receive(c)
  PROVE  TypeInv'
  <1> USE DEF TypeInv
  <1>1. /\ UNCHANGED <<sequencing, claims, requests, settled, closing, server, strays, environment>>
        /\ UNCHANGED <<id, emitted, timer, mutex, mark, fed>>
    BY DEF Receive
  <1>2. receipt[mark[c]] \in Outcomes
    BY DEF Receive, AdmittedHasId, TypeOK, SettledType
  <1>3. Return(c, receipt[mark[c]])
    BY DEF Receive
  <1>4. AdmissionType' /\ CallType'
    BY <1>1, <1>2, <1>3, ReturnType DEF TypeOK, AdmissionType
  <1>5. HolderOffers' /\ AdmittedHasId'
    BY <1>1, <1>3 DEF Receive, Return, HolderOffers, AdmittedHasId, TypeOK, CallType
  <1> QED
    BY <1>1, <1>4, <1>5, SameType DEF TypeOK

LEMMA EndSourceStep ==
  ASSUME TypeInv, NEW c \in Calls, EndSource(c)
  PROVE  TypeInv'
  <1> USE DEF TypeInv
  <1>1. UNCHANGED <<sequencing, claims, requests, settled, closing, server, strays, environment>>
    BY DEF EndSource
  <1>2. AdmissionType'
    BY OptionsAssumption, ReturnType DEF EndSource, TypeOK, AdmissionType, admission, Outcomes, Failures, Goto, Locations
  <1>3. CallType'
    BY OptionsAssumption, ReturnType DEF EndSource, TypeOK, CallType, calls, Outcomes, Failures, Goto, Locations
  <1>4. HolderOffers' /\ AdmittedHasId'
    BY CallsAssumption DEF EndSource, TypeOK, HolderOffers, AdmittedHasId, AdmissionType, CallType, admission, calls, Goto, Return
  <1> QED
    BY <1>1, <1>2, <1>3, <1>4, SameType DEF TypeOK

LEMMA FlushStep ==
  ASSUME TypeInv, NEW c \in Calls, Flush(c)
  PROVE  TypeInv'
  <1> USE DEF TypeInv
  <1>1. /\ UNCHANGED <<settled, closing, server, strays, environment>>
        /\ UNCHANGED <<mode, id, lifecycle, epoch, through, failure, claimed, claim, req,
                       reply, waitFor, result, fed>>
        /\ mutex = Free /\ mark' = [mark EXCEPT ![c] = id]
        /\ Goto(c, IF mutex' = c THEN "emit" ELSE "drain")
    BY DEF Flush, Watermark
  <1>2. Emit(id, c) \/ NothingEmitted
    BY DEF Flush
  <1>3. id \in 0..MaxEntries
    BY DEF TypeOK, AdmissionType
  <1>4. AdmissionType' /\ SequencingType' /\ ClaimType' /\ RequestType'
    <2>1. CASE Emit(id, c)
      BY <1>1, <1>3, <2>1, EmitType
    <2>2. CASE NothingEmitted
      BY <1>1, <2>2, SameType DEF NothingEmitted, admission, sequencing, claims, requests
    <2> QED
      BY <1>2, <2>1, <2>2
  <1>5. CallType'
    BY <1>1, <1>3, GotoType DEF Locations, TypeOK, CallType
  <1>6. mutex' \in {Free, c}
    BY <1>1, <1>2 DEF Emit, NothingEmitted
  <1>7. HolderOffers' /\ AdmittedHasId'
    BY <1>1, <1>6, CallsAssumption DEF Goto, HolderOffers, AdmittedHasId, TypeOK, CallType
  <1> QED
    BY <1>1, <1>4, <1>5, <1>7, SameType DEF TypeOK

LEMMA EndFlushStep ==
  ASSUME TypeInv, NEW c \in Calls, EndFlush(c)
  PROVE  TypeInv'
  <1> USE DEF TypeInv
  <1>1. UNCHANGED <<sequencing, claims, requests, settled, closing, server, strays, environment>>
    BY DEF EndFlush
  <1>2. /\ UNCHANGED <<id, emitted, timer, mutex, mark, fed>> /\ pc[c] = "drain"
        /\ Return(c, "fail") \/ Return(c, "ok")
    BY DEF EndFlush, Drained
  <1>3. AdmissionType' /\ CallType'
    BY <1>2, ReturnType DEF Outcomes, Failures, TypeOK, AdmissionType
  <1>4. HolderOffers' /\ AdmittedHasId'
    BY <1>2, ReturnHolder
  <1> QED
    BY <1>1, <1>3, <1>4, SameType DEF TypeOK

LEMMA BeginDetachStep ==
  ASSUME TypeInv, NEW c \in Calls, BeginDetach(c)
  PROVE  TypeInv'
  <1> USE DEF TypeInv
  <1>1. UNCHANGED <<sequencing, claims, requests, settled, closing, server, strays, environment>>
    BY DEF BeginDetach
  <1>2. AdmissionType'
    BY OptionsAssumption, ReturnType DEF BeginDetach, TypeOK, AdmissionType, admission, Outcomes, Failures, Goto, Locations
  <1>3. CallType'
    BY OptionsAssumption, ReturnType DEF BeginDetach, TypeOK, CallType, calls, Outcomes, Failures, Goto, Locations
  <1>4. HolderOffers' /\ AdmittedHasId'
    BY CallsAssumption DEF BeginDetach, TypeOK, HolderOffers, AdmittedHasId, AdmissionType, CallType, admission, calls, Goto, Return
  <1> QED
    BY <1>1, <1>2, <1>3, <1>4, SameType DEF TypeOK

LEMMA BeginRestartStep ==
  ASSUME TypeInv, NEW c \in Calls, BeginRestart(c)
  PROVE  TypeInv'
  <1> USE DEF TypeInv
  <1>1. UNCHANGED <<sequencing, claims, requests, settled, closing, server, strays, environment>>
    BY DEF BeginRestart
  <1>2. AdmissionType'
    BY OptionsAssumption, ReturnType DEF BeginRestart, TypeOK, AdmissionType, admission, Outcomes, Failures, Goto, Locations
  <1>3. CallType'
    BY OptionsAssumption, ReturnType DEF BeginRestart, TypeOK, CallType, calls, Outcomes, Failures, Goto, Locations
  <1>4. HolderOffers' /\ AdmittedHasId'
    BY CallsAssumption DEF BeginRestart, TypeOK, HolderOffers, AdmittedHasId, AdmissionType, CallType, admission, calls, Goto, Return
  <1> QED
    BY <1>1, <1>2, <1>3, <1>4, SameType DEF TypeOK

LEMMA ShutAdmissionStep ==
  ASSUME TypeInv, NEW c \in Calls, ShutAdmission(c)
  PROVE  TypeInv'
  <1> USE DEF TypeInv
  <1>1. UNCHANGED <<sequencing, claims, requests, settled, server, strays, environment>>
    BY DEF ShutAdmission
  <1>2. AdmissionType'
    BY OptionsAssumption DEF ShutAdmission, TypeOK, AdmissionType, admission, Outcomes, Failures, Goto, Locations
  <1>3. ClosingType'
    BY OptionsAssumption DEF ShutAdmission, TypeOK, ClosingType, closing, Outcomes, Failures, Goto, Locations
  <1>4. CallType'
    BY OptionsAssumption DEF ShutAdmission, TypeOK, CallType, calls, Outcomes, Failures, Goto, Locations
  <1>5. HolderOffers' /\ AdmittedHasId'
    BY CallsAssumption DEF ShutAdmission, TypeOK, HolderOffers, AdmittedHasId, AdmissionType, CallType, admission, calls, Goto
  <1> QED
    BY <1>1, <1>2, <1>3, <1>4, <1>5, SameType DEF TypeOK

\* Below the end of the epochs no number is rounded.
LEMMA NextEpochIsExact ==
  ASSUME NEW e \in Nat, EpochLeft(e)
  PROVE  NextEpoch(e) = e + 1
  BY OptionsAssumption DEF EpochLeft, NextEpoch

LEMMA NumbersAreNat ==
  ASSUME TypeInv
  PROVE  epoch \in Nat /\ \A s \in Slots : reply[s].num \in Nat
  BY DEF TypeInv, TypeOK, SequencingType, RequestType, Answer

LEMMA FinishRestartStep ==
  ASSUME TypeInv, NEW c \in Calls, FinishRestart(c)
  PROVE  TypeInv'
  <1> USE DEF TypeInv
  <1>1. /\ UNCHANGED <<claims, requests, settled, server, strays, environment>>
        /\ UNCHANGED <<id, emitted, timer, mutex, tuple, closeBody, closeResult, mark, fed>>
        /\ pc[c] = "drain"
    BY DEF FinishRestart, Drained
  <1>2. CASE ~EpochLeft(epoch)
    <2>1. /\ Return(c, "fail")
          /\ UNCHANGED <<epoch, nextSeq, closeRequest, through, failure, sequences>>
      BY <1>2 DEF FinishRestart
    <2>2. AdmissionType' /\ CallType'
      BY <1>1, <2>1, ReturnType DEF Outcomes, Failures, TypeOK, AdmissionType
    <2>3. SequencingType' /\ ClosingType'
      BY <1>1, <2>1, SameType DEF sequencing, closing
    <2>4. HolderOffers' /\ AdmittedHasId'
      BY <1>1, <2>1, ReturnHolder
    <2> QED
      BY <1>1, <2>2, <2>3, <2>4, SameType DEF TypeOK
  <1>3. CASE EpochLeft(epoch)
    <2>1. /\ epoch' = epoch + 1 /\ nextSeq' = 0
          /\ closeRequest' = IF closeResult THEN closeRequest ELSE NoTuple
          /\ through' = -1 /\ failure' = NoFailure /\ sequences' = [q \in Seqs |-> 0]
          /\ mode' = "open" /\ lifecycle' = Free
          /\ pc' = [pc EXCEPT ![c] = "done"] /\ result' = [result EXCEPT ![c] = "ok"]
      BY <1>3, NextEpochIsExact DEF FinishRestart, TypeOK, SequencingType
    <2>2. AdmissionType' /\ CallType'
      BY <1>1, <2>1 DEF TypeOK, AdmissionType, CallType, Outcomes, Locations
    <2>3. SequencingType'
      BY <1>1, <2>1, OptionsAssumption DEF TypeOK, SequencingType
    <2>4. ClosingType'
      BY <1>1, <2>1 DEF TypeOK, ClosingType, NoTuple, Tuple
    <2>5. HolderOffers' /\ AdmittedHasId'
      BY <1>1, <2>1 DEF HolderOffers, AdmittedHasId, TypeOK, CallType
    <2> QED
      BY <1>1, <2>2, <2>3, <2>4, <2>5, SameType DEF TypeOK
  <1> QED
    BY <1>2, <1>3

LEMMA BeginCloseStep ==
  ASSUME TypeInv, NEW c \in Calls, BeginClose(c)
  PROVE  TypeInv'
  <1> USE DEF TypeInv
  <1>1. UNCHANGED <<sequencing, claims, requests, settled, closing, server, strays, environment>>
    BY DEF BeginClose
  <1>2. AdmissionType'
    BY OptionsAssumption, ReturnType DEF BeginClose, TypeOK, AdmissionType, admission, Outcomes, Failures, Goto, Locations
  <1>3. CallType'
    BY OptionsAssumption, ReturnType DEF BeginClose, TypeOK, CallType, calls, Outcomes, Failures, Goto, Locations
  <1>4. HolderOffers' /\ AdmittedHasId'
    BY CallsAssumption DEF BeginClose, TypeOK, HolderOffers, AdmittedHasId, AdmissionType, CallType, admission, calls, Goto, Return
  <1> QED
    BY <1>1, <1>2, <1>3, <1>4, SameType DEF TypeOK

LEMMA SendCloseStep ==
  ASSUME TypeInv, NEW c \in Calls, SendClose(c)
  PROVE  TypeInv'
  <1> USE DEF TypeInv
  <1>1. /\ UNCHANGED <<sequencing, claims, settled, server, strays, environment>>
        /\ UNCHANGED <<id, emitted, timer, mutex, from, first, reply, waitFor, closeBody,
                       closeResult, mark, fed>>
        /\ pc[c] \in {"request", "drain"}
        /\ closeRequest' = IF closeRequest = NoTuple THEN [epoch |-> epoch, seq |-> nextSeq]
                                                     ELSE closeRequest
    BY DEF SendClose, Drained
  <1>2. closeRequest' \in Tuple
    BY <1>1 DEF TypeOK, ClosingType, SequencingType, Tuple
  <1>3. ClosingType'
    BY <1>1, <1>2 DEF TypeOK, ClosingType
  <1>4. CASE scope = "live"
    <2>1. /\ phase' = [phase EXCEPT ![0] = "sent"] /\ req' = [req EXCEPT ![0] = closeRequest']
          /\ Goto(c, "reply") /\ UNCHANGED <<result, mode, lifecycle>>
      BY <1>4 DEF SendClose
    <2>2. RequestType'
      BY <1>1, <1>2, <2>1 DEF TypeOK, RequestType, Phases, Working
    <2>3. AdmissionType' /\ CallType'
      BY <1>1, <2>1, GotoType DEF Locations, TypeOK, AdmissionType, CallType
    <2>4. HolderOffers' /\ AdmittedHasId'
      BY <1>1, <2>1 DEF Goto, HolderOffers, AdmittedHasId, TypeOK, CallType
    <2> QED
      BY <1>1, <1>3, <2>2, <2>3, <2>4, SameType DEF TypeOK
  <1>5. CASE scope # "live"
    <2>1. Return(c, "int") /\ UNCHANGED <<phase, req>>
      BY <1>5 DEF SendClose
    <2>2. AdmissionType' /\ CallType' /\ RequestType'
      BY <1>1, <2>1, ReturnType, SameType DEF Outcomes, Failures, requests, TypeOK, AdmissionType
    <2>3. HolderOffers' /\ AdmittedHasId'
      BY <1>1, <2>1, ReturnHolder
    <2> QED
      BY <1>1, <1>3, <2>2, <2>3, SameType DEF TypeOK
  <1> QED
    BY <1>4, <1>5

LEMMA CloseAnsweredStep ==
  ASSUME TypeInv, NEW c \in Calls, CloseAnswered(c)
  PROVE  TypeInv'
  <1> USE DEF TypeInv
  <1>1. /\ UNCHANGED <<claims, server, strays, environment>>
        /\ UNCHANGED <<id, emitted, timer, mutex, tuple, sequences, through, failure, from,
                       first, reply, waitFor, receipt, firstFailure, closeBody, mark, fed>>
        /\ pc[c] = "reply"
    BY DEF CloseAnswered
  <1>2. 0 \in Slots /\ reply[0].num \in Nat /\ reply[0].offset \in Nat
    BY OptionsAssumption DEF Slots, TypeOK, RequestType, Answer
  <1>3. /\ offset' \in Nat => SettledType'
        /\ epoch' \in Nat /\ nextSeq' \in Nat => SequencingType'
        /\ closeRequest' \in Tuple /\ closeResult' \in BOOLEAN => ClosingType'
        /\ req' \in [Slots -> Tuple] /\ phase' \in [Slots -> Phases] => RequestType'
    BY <1>1 DEF TypeOK, SettledType, SequencingType, ClosingType, RequestType
  <1>4. \A l \in Phases : phase' = [phase EXCEPT ![0] = l] => phase' \in [Slots -> Phases]
    BY DEF TypeOK, RequestType
  <1>5. /\ epoch \in Nat /\ nextSeq \in Nat /\ offset \in Nat /\ closeRequest \in Tuple
        /\ closeResult \in BOOLEAN /\ req \in [Slots -> Tuple]
    BY DEF TypeOK, SettledType, SequencingType, ClosingType, RequestType
  <1>6. CASE reply[0].kind \in Success /\ reply[0].closed
    <2>1. /\ nextSeq' = nextSeq + 1 /\ closeResult' = TRUE /\ offset' = RecordedOffset(0)
          /\ phase' = [phase EXCEPT ![0] = "none"] /\ Return(c, "ok")
          /\ UNCHANGED <<epoch, closeRequest, req>>
      BY <1>6 DEF CloseAnswered
    <2>2. offset' \in Nat
      BY <1>2, <1>5, <2>1 DEF RecordedOffset
    <2>3. SequencingType' /\ SettledType' /\ ClosingType' /\ RequestType'
      <3>1. epoch' \in Nat /\ nextSeq' \in Nat
        BY <1>5, <2>1
      <3>2. phase' \in [Slots -> Phases]
        BY <1>4, <2>1 DEF Phases
      <3> QED
        BY <1>3, <1>5, <2>1, <2>2, <3>1, <3>2
    <2>4. AdmissionType' /\ CallType'
      BY <1>1, <2>1, ReturnType DEF Outcomes, TypeOK, AdmissionType
    <2>5. HolderOffers' /\ AdmittedHasId'
      BY <1>1, <2>1, ReturnHolder
    <2> QED
      BY <1>1, <2>3, <2>4, <2>5, SameType DEF TypeOK
  <1>7. CASE /\ ~(reply[0].kind \in Success /\ reply[0].closed)
             /\ reply[0].kind = "fenced" /\ AutoClaim /\ EpochLeft(reply[0].num)
    <2>0. reply[0].num \in Nat
      BY NumbersAreNat, OptionsAssumption DEF Slots
    <2>1. /\ epoch' = reply[0].num + 1 /\ nextSeq' = 0
          /\ closeRequest' = [epoch |-> epoch', seq |-> 0]
          /\ req' = [req EXCEPT ![0] = closeRequest']
          /\ phase' = [phase EXCEPT ![0] = "sent"]
          /\ UNCHANGED <<closeResult, offset, pc, result, lifecycle, mode>>
      BY <1>7, <2>0, NextEpochIsExact DEF CloseAnswered
    <2>2. epoch' \in Nat /\ closeRequest' \in Tuple
      BY <1>2, <2>1 DEF Tuple
    <2>3. req' \in [Slots -> Tuple]
      BY <1>5, <2>1, <2>2
    <2>4. SequencingType' /\ SettledType' /\ ClosingType' /\ RequestType'
      BY <1>3, <1>4, <1>5, <2>1, <2>2, <2>3 DEF Phases, Working
    <2>5. UNCHANGED <<admission, calls>>
      BY <1>1, <2>1 DEF admission, calls
    <2>6. HolderOffers' /\ AdmittedHasId'
      BY <2>5 DEF HolderOffers, AdmittedHasId, admission, calls
    <2> QED
      BY <1>1, <2>4, <2>5, <2>6, SameType DEF TypeOK
  <1>8. CASE /\ ~(reply[0].kind \in Success /\ reply[0].closed)
             /\ ~(reply[0].kind = "fenced" /\ AutoClaim /\ EpochLeft(reply[0].num))
    <2>1. /\ phase' = [phase EXCEPT ![0] = "none"] /\ Return(c, "fail")
          /\ UNCHANGED <<epoch, nextSeq, closeRequest, closeResult, offset, req>>
      BY <1>8 DEF CloseAnswered
    <2>2. SequencingType' /\ SettledType' /\ ClosingType' /\ RequestType'
      BY <1>3, <1>4, <1>5, <2>1 DEF Phases
    <2>3. AdmissionType' /\ CallType'
      BY <1>1, <2>1, ReturnType DEF Outcomes, Failures, TypeOK, AdmissionType
    <2>4. HolderOffers' /\ AdmittedHasId'
      BY <1>1, <2>1, ReturnHolder
    <2> QED
      BY <1>1, <2>2, <2>3, <2>4, SameType DEF TypeOK
  <1> QED
    BY <1>6, <1>7, <1>8

LEMMA CloseStoppedStep ==
  ASSUME TypeInv, NEW c \in Calls, CloseStopped(c)
  PROVE  TypeInv'
  <1> USE DEF TypeInv
  <1>1. /\ UNCHANGED <<sequencing, claims, settled, closing, server, environment>>
        /\ UNCHANGED <<id, emitted, timer, mutex, from, first, req, reply, waitFor, mark, fed>>
        /\ pc[c] = "reply" /\ phase' = [phase EXCEPT ![0] = "none"]
        /\ strays' = Abandoned(0) /\ Return(c, "int")
    BY DEF CloseStopped
  <1>2. RequestType'
    BY <1>1 DEF TypeOK, RequestType, Phases
  <1>3. AdmissionType' /\ CallType'
    BY <1>1, ReturnType DEF Outcomes, Failures, TypeOK, AdmissionType
  <1>4. ServerType'
    <2>1. 0 \in Slots
      BY OptionsAssumption DEF Slots
    <2> QED
      BY <1>1, <2>1, AbandonedType
  <1>5. HolderOffers' /\ AdmittedHasId'
    BY <1>1, ReturnHolder
  <1> QED
    BY <1>1, <1>2, <1>3, <1>4, <1>5, SameType DEF TypeOK

LEMMA StoppedStep ==
  ASSUME TypeInv, NEW c \in Calls, Stopped(c)
  PROVE  TypeInv'
  <1> USE DEF TypeInv
  <1>1. UNCHANGED <<sequencing, claims, requests, settled, closing, server, strays, environment>>
    BY DEF Stopped
  <1>2. AdmissionType'
    BY OptionsAssumption, ReturnType DEF Stopped, TypeOK, AdmissionType, admission, Outcomes, Failures
  <1>3. CallType'
    BY OptionsAssumption, ReturnType DEF Stopped, TypeOK, CallType, calls, Outcomes, Failures
  <1>4. HolderOffers' /\ AdmittedHasId'
    BY CallsAssumption DEF Stopped, TypeOK, HolderOffers, AdmittedHasId, AdmissionType, CallType, admission, calls, Return
  <1> QED
    BY <1>1, <1>2, <1>3, <1>4, SameType DEF TypeOK

LEMMA InterruptStep ==
  ASSUME TypeInv, NEW c \in Calls, Interrupt(c)
  PROVE  TypeInv'
  <1> USE DEF TypeInv
  <1>1. /\ UNCHANGED <<claims, closing, server, environment>>
        /\ UNCHANGED <<id, emitted, timer, epoch, nextSeq, tuple, from, first, req, reply,
                       waitFor, offset, mark, fed>>
        /\ Return(c, "int")
    BY DEF Interrupt
  <1>2. /\ epoch \in Nat /\ nextSeq \in Nat /\ offset \in Nat /\ req \in [Slots -> Tuple]
        /\ waitFor \in [Ids -> 0..MaxEntries] /\ tuple \in [Ids -> Tuple]
        /\ sequences \in [Seqs -> 0..MaxEntries]
    BY DEF TypeOK, SequencingType, RequestType, SettledType
  <1>3. CASE /\ pc[c] \in {"entry", "await", "mark", "flush", "drain"}
             /\ UNCHANGED <<phase, receipt, firstFailure, failure, through, sequences,
                            mutex, strays>>
    <2>1. UNCHANGED <<sequencing, requests, settled, server, strays>>
      BY <1>1, <1>3 DEF sequencing, requests, settled
    <2>2. AdmissionType' /\ CallType'
      BY <1>1, <1>3, ReturnType DEF Outcomes, Failures, TypeOK, AdmissionType
    <2>3. HolderOffers' /\ AdmittedHasId'
      BY <1>1, <1>3, ReturnHolder
    <2> QED
      BY <1>1, <2>1, <2>2, <2>3, SameType DEF TypeOK
  <1>4. CASE /\ pc[c] \in {"offer", "emit"} /\ mutex = c
             /\ \E b \in Ids : phase[b] = "offer" /\ Complete(b, "int", sequences)
             /\ mutex' = Free /\ UNCHANGED strays
    <2>1. SequencingType' /\ RequestType' /\ SettledType'
      BY <1>1, <1>2, <1>4, CompleteType DEF Outcomes, Failures
    <2>2. AdmissionType' /\ CallType'
      BY <1>1, <1>4, ReturnType DEF Outcomes, Failures
    <2>3. HolderOffers' /\ AdmittedHasId'
      BY <1>1, <1>4, ReturnHolder
    <2> QED
      BY <1>1, <1>4, <2>1, <2>2, <2>3, SameType DEF TypeOK
  <1>5. CASE /\ pc[c] = "reply" /\ strays' = Abandoned(0)
             /\ phase' = [phase EXCEPT ![0] = "none"]
             /\ UNCHANGED <<receipt, firstFailure, failure, through, sequences, mutex>>
    <2>1. SequencingType' /\ SettledType'
      BY <1>1, <1>5, SameType DEF sequencing, settled
    <2>2. RequestType'
      BY <1>1, <1>5 DEF TypeOK, RequestType, Phases
    <2>3. AdmissionType' /\ CallType'
      BY <1>1, <1>5, ReturnType DEF Outcomes, Failures, TypeOK, AdmissionType
    <2>4. ServerType'
      <3>1. 0 \in Slots
        BY OptionsAssumption DEF Slots
      <3> QED
        BY <1>1, <1>5, <3>1, AbandonedType
    <2>5. HolderOffers' /\ AdmittedHasId'
      BY <1>1, <1>5, ReturnHolder
    <2> QED
      BY <1>1, <2>1, <2>2, <2>3, <2>4, <2>5, SameType DEF TypeOK
  <1> QED
    BY <1>3, <1>4, <1>5 DEF Interrupt

\* A step of a worker leaves the calls, the server and the mutex alone.
LEMMA WorkerStep ==
  ASSUME TypeInv, WorkerTyped,
         UNCHANGED <<admission, claiming, from, first, reply, closing, calls, server,
                     strays, environment>>,
         epoch' \in Nat, offset' \in Nat,
         req' \in [Slots -> Tuple], waitFor' \in [Ids -> 0..MaxEntries]
  PROVE  TypeInv'
  <1>1. TypeOK'
    BY SameType DEF WorkerTyped, TypeOK, TypeInv
  <1>2. HolderOffers' /\ AdmittedHasId'
    BY DEF TypeInv, HolderOffers, AdmittedHasId, admission, calls
  <1> QED
    BY <1>1, <1>2 DEF TypeInv

LEMMA TakeStep ==
  ASSUME TypeInv, NEW b \in Ids, Take(b)
  PROVE  TypeInv'
  <1>1. /\ UNCHANGED <<admission, claiming, from, first, reply, closing, calls, server,
                       strays, environment>>
        /\ UNCHANGED <<epoch, offset, waitFor>>
    BY DEF Take
  <1>2. CASE claimed \/ first[b]
    BY <1>1, <1>2, StartType, WorkerVars, WorkerStep DEF Take, TypeInv
  <1>3. CASE ~(claimed \/ first[b])
    <2>1. phase' = [phase EXCEPT ![b] = "claimwait"] /\ NotFinished /\ UNCHANGED req
      BY <1>3 DEF Take
    <2>2. WorkerTyped
      BY <2>1, MoveType DEF NotFinished, Phases, Working, TypeInv, TypeOK, SequencingType
    <2> QED
      BY <1>1, <2>1, <2>2, WorkerVars, WorkerStep
  <1> QED
    BY <1>2, <1>3

LEMMA ClaimedStep ==
  ASSUME TypeInv, NEW b \in Ids, Claimed(b)
  PROVE  TypeInv'
  <1>1. /\ UNCHANGED <<admission, claiming, from, first, reply, closing, calls, server,
                       strays, environment>>
        /\ UNCHANGED <<epoch, offset, waitFor>>
    BY DEF Claimed
  <1>2. CASE claim = "ok"
    BY <1>1, <1>2, StartType, WorkerVars, WorkerStep DEF Claimed, TypeInv
  <1>3. CASE claim # "ok"
    <2>1. claim \in Outcomes /\ Finish(b, claim) /\ UNCHANGED req
      BY <1>3 DEF Claimed, TypeInv, TypeOK, ClaimType
    <2> QED
      BY <1>1, <2>1, FinishType, WorkerVars, WorkerStep DEF TypeInv
  <1> QED
    BY <1>2, <1>3

LEMMA DeliveredStep ==
  ASSUME TypeInv, NEW b \in Ids, Delivered(b)
  PROVE  TypeInv'
  <1>1. /\ UNCHANGED <<admission, claiming, from, first, reply, closing, calls, server,
                       strays, environment>>
        /\ UNCHANGED <<epoch, req, waitFor>>
    BY DEF Delivered
  <1>2. offset' \in Nat
    BY DEF Delivered, RecordedOffset, TypeInv, TypeOK, RequestType, SettledType, Answer,
           Slots, Ids
  <1>3. WorkerTyped
    BY FinishType DEF Delivered, TypeInv, Outcomes
  <1> QED
    BY <1>1, <1>2, <1>3, WorkerVars, WorkerStep

LEMMA RejectedStep ==
  ASSUME TypeInv, NEW b \in Ids, Rejected(b)
  PROVE  TypeInv'
  <1>1. /\ UNCHANGED <<admission, claiming, from, first, reply, closing, calls, server,
                       strays, environment>>
        /\ UNCHANGED <<epoch, offset, req, waitFor>>
    BY DEF Rejected
  <1>2. WorkerTyped
    BY FinishType DEF Rejected, TypeInv, Outcomes, Failures
  <1> QED
    BY <1>1, <1>2, WorkerVars, WorkerStep

LEMMA FencedStep ==
  ASSUME TypeInv, NEW b \in Ids, Fenced(b)
  PROVE  TypeInv'
  <1>1. /\ UNCHANGED <<admission, claiming, from, first, reply, closing, calls, server,
                       strays, environment>>
        /\ UNCHANGED <<offset, waitFor>>
    BY DEF Fenced
  <1>2. CASE AutoClaim /\ EpochLeft(reply[b].num)
    <2>0. reply[b].num \in Nat
      BY NumbersAreNat DEF Slots, Ids
    <2>1. /\ epoch' = reply[b].num + 1 /\ nextSeq' = 1
          /\ req' = [req EXCEPT ![b] = [epoch |-> epoch', seq |-> 0]]
          /\ phase' = [phase EXCEPT ![b] = "sent"]
          /\ UNCHANGED <<claim, claimed, tuple, receipt, firstFailure, failure,
                         through, sequences>>
      BY <1>2, <2>0, NextEpochIsExact DEF Fenced, AfterClaim
    <2>2. epoch' \in Nat
      BY <2>1 DEF TypeInv, TypeOK, RequestType, Answer, Slots, Ids
    <2>3. [epoch |-> epoch', seq |-> 0] \in Tuple
      BY <2>2 DEF Tuple
    <2>4. req' \in [Slots -> Tuple]
      BY <2>1, <2>3, WorkerVars
    <2>5. WorkerTyped
      BY <2>1, MoveType DEF Phases, Working, TypeInv, TypeOK, SequencingType
    <2> QED
      BY <1>1, <2>2, <2>4, <2>5, WorkerVars, WorkerStep
  <1>3. CASE ~(AutoClaim /\ EpochLeft(reply[b].num))
    <2>1. Finish(b, "fail") /\ UNCHANGED <<epoch, req>>
      BY <1>3 DEF Fenced
    <2> QED
      BY <1>1, <2>1, FinishType, WorkerVars, WorkerStep DEF TypeInv, Outcomes, Failures
  <1> QED
    BY <1>2, <1>3

LEMMA GapStep ==
  ASSUME TypeInv, NEW b \in Ids, Gap(b)
  PROVE  TypeInv'
  <1>1. /\ UNCHANGED <<admission, claiming, from, first, reply, closing, calls, server,
                       strays, environment>>
        /\ UNCHANGED <<epoch, offset, req>>
    BY DEF Gap
  <1>2. \/ Finish(b, "fail") /\ UNCHANGED waitFor
        \/ failure # NoFailure /\ Finish(b, failure.out) /\ UNCHANGED waitFor
        \/ AwaitFrom(b, reply[b].num)
    BY DEF Gap
  <1>3. failure # NoFailure => failure.out \in Outcomes
    BY DEF TypeInv, TypeOK, SequencingType, Outcomes
  <1>4. WorkerTyped /\ waitFor' \in [Ids -> 0..MaxEntries]
    BY <1>2, <1>3, FinishType, AwaitType, WorkerVars DEF TypeInv, Outcomes, Failures
  <1> QED
    BY <1>1, <1>4, WorkerVars, WorkerStep

LEMMA GapFilledStep ==
  ASSUME TypeInv, NEW b \in Ids, GapFilled(b)
  PROVE  TypeInv'
  <1>1. /\ UNCHANGED <<admission, claiming, from, first, reply, closing, calls, server,
                       strays, environment>>
        /\ UNCHANGED <<epoch, offset, req>>
    BY DEF GapFilled
  <1>2. phase[waitFor[b]] \in Outcomes
    BY DEF GapFilled
  <1>3. \/ Finish(b, phase[waitFor[b]]) /\ UNCHANGED waitFor
        \/ AwaitFrom(b, tuple[waitFor[b]].seq + 1)
    BY DEF GapFilled
  <1>4. WorkerTyped /\ waitFor' \in [Ids -> 0..MaxEntries]
    BY <1>2, <1>3, FinishType, AwaitType, WorkerVars DEF TypeInv
  <1> QED
    BY <1>1, <1>4, WorkerVars, WorkerStep

LEMMA WorkerStoppedStep ==
  ASSUME TypeInv, NEW b \in Ids, WorkerStopped(b)
  PROVE  TypeInv'
  <1>1. UNCHANGED <<admission, sequencing, claims, settled, closing, calls, server, environment>>
    BY DEF WorkerStopped
  <1>2. RequestType'
    BY DEF WorkerStopped, TypeInv, TypeOK, RequestType, Phases
  <1>3. ServerType'
    BY AbandonedType DEF WorkerStopped, Slots, Ids
  <1>4. HolderOffers' /\ AdmittedHasId'
    BY <1>1 DEF TypeInv, HolderOffers, AdmittedHasId, admission, calls
  <1> QED
    BY <1>1, <1>2, <1>3, <1>4, SameType DEF TypeInv, TypeOK

LEMMA LingerStep ==
  ASSUME TypeInv, Linger
  PROVE  TypeInv'
  <1> USE DEF TypeInv
  <1>1. /\ UNCHANGED <<settled, closing, calls, server, strays, environment>>
        /\ UNCHANGED <<mode, id, lifecycle, epoch, through, failure, claimed, claim, req,
                       reply, waitFor>>
        /\ mutex = Free /\ Emit(id, Timer)
    BY DEF Linger
  <1>2. id \in 0..MaxEntries
    BY DEF TypeOK, AdmissionType
  <1>3. AdmissionType' /\ SequencingType' /\ ClaimType' /\ RequestType'
    BY <1>1, <1>2, EmitType
  <1>4. mutex' \in {Free, Timer}
    BY <1>1 DEF Emit
  <1>5. HolderOffers' /\ AdmittedHasId'
    BY <1>1, <1>4, CallsAssumption DEF HolderOffers, AdmittedHasId, calls
  <1> QED
    BY <1>1, <1>3, <1>5, SameType DEF TypeOK

LEMMA OfferedStep ==
  ASSUME TypeInv, Offered
  PROVE  TypeInv'
  <1> USE DEF TypeInv
  <1>1. UNCHANGED <<sequencing, claims, settled, closing, server, strays, environment>>
    BY DEF Offered
  <1>2. AdmissionType'
    BY OptionsAssumption DEF Offered, TypeOK, AdmissionType, admission, Outcomes, Failures, Phases, Locations
  <1>3. RequestType'
    BY OptionsAssumption DEF Offered, TypeOK, RequestType, requests, Outcomes, Failures, Phases, Locations
  <1>4. CallType'
    BY OptionsAssumption DEF Offered, TypeOK, CallType, calls, Outcomes, Failures, Phases, Locations
  <1>5. HolderOffers' /\ AdmittedHasId'
    BY CallsAssumption DEF Offered, TypeOK, HolderOffers, AdmittedHasId, AdmissionType, CallType, admission, calls
  <1> QED
    BY <1>1, <1>2, <1>3, <1>4, <1>5, SameType DEF TypeOK

LEMMA LingerStoppedStep ==
  ASSUME TypeInv, LingerStopped
  PROVE  TypeInv'
  <1> USE DEF TypeInv
  <1>1. /\ UNCHANGED <<claims, closing, calls, server, strays, environment>>
        /\ UNCHANGED <<mode, id, emitted, lifecycle, epoch, nextSeq, tuple, from, first,
                       req, reply, waitFor, offset>>
        /\ mutex' \in {mutex, Free} /\ timer' \in BOOLEAN
    BY DEF LingerStopped, TypeOK, AdmissionType
  <1>2. AdmissionType'
    BY <1>1 DEF TypeOK, AdmissionType
  <1>3. SequencingType' /\ RequestType' /\ SettledType'
    <2>1. CASE UNCHANGED <<mutex, phase, receipt, firstFailure, failure, through, sequences>>
      BY <1>1, <2>1, SameType DEF sequencing, requests, settled
    <2>2. CASE \E b \in Ids : phase[b] = "offer" /\ Complete(b, "int", sequences)
      <3>1. /\ epoch \in Nat /\ nextSeq \in Nat /\ offset \in Nat /\ req \in [Slots -> Tuple]
            /\ waitFor \in [Ids -> 0..MaxEntries] /\ tuple \in [Ids -> Tuple]
            /\ sequences \in [Seqs -> 0..MaxEntries]
        BY DEF TypeOK, SequencingType, RequestType, SettledType
      <3> QED
        BY <1>1, <2>2, <3>1, CompleteType DEF Outcomes, Failures
    <2> QED
      BY <2>1, <2>2 DEF LingerStopped
  <1>4. HolderOffers' /\ AdmittedHasId'
    BY <1>1, CallsAssumption DEF HolderOffers, AdmittedHasId, calls
  <1> QED
    BY <1>1, <1>2, <1>3, <1>4, SameType DEF TypeOK

LEMMA StopEndStep ==
  ASSUME TypeInv, StopEnd
  PROVE  TypeInv'
  <1> USE DEF TypeInv
  <1>1. UNCHANGED <<claims, closing, calls, server, strays>>
    BY DEF StopEnd
  <1>2. AdmissionType'
    BY OptionsAssumption DEF StopEnd, TypeOK, AdmissionType, admission, Outcomes, Failures, Phases
  <1>3. SequencingType'
    BY OptionsAssumption DEF StopEnd, TypeOK, SequencingType, sequencing, Outcomes, Failures, Phases
  <1>4. RequestType'
    BY OptionsAssumption DEF StopEnd, TypeOK, RequestType, requests, Outcomes, Failures, Phases
  <1>5. SettledType'
    BY OptionsAssumption DEF StopEnd, TypeOK, SettledType, settled, Outcomes, Failures, Phases
  <1>6. EnvironmentType'
    BY OptionsAssumption DEF StopEnd, TypeOK, EnvironmentType, environment, Outcomes, Failures, Phases
  <1>7. HolderOffers' /\ AdmittedHasId'
    BY CallsAssumption DEF StopEnd, TypeOK, HolderOffers, AdmittedHasId, AdmissionType, CallType, admission, calls
  <1> QED
    BY <1>1, <1>2, <1>3, <1>4, <1>5, <1>6, <1>7, SameType DEF TypeOK

LEMMA ServeStep ==
  ASSUME TypeInv, NEW s \in Slots, Serve(s)
  PROVE  TypeInv'
  <1> USE DEF TypeInv
  <1>1. /\ UNCHANGED <<admission, sequencing, claims, settled, closing, calls, environment>>
        /\ UNCHANGED <<from, first, req, waitFor, strays>>
        /\ phase' = [phase EXCEPT ![s] = "replied"]
    BY DEF Serve
  <1>2. req[s] \in Tuple
    BY DEF TypeOK, RequestType
  <1>3. \E r \in Answer : reply' = [reply EXCEPT ![s] = r]
    <2>1. Len(log) + 1 \in Nat
      BY DEF TypeOK, ServerType
    <2>2. [kind |-> "ok", num |-> 0, offset |-> Len(log) + 1, closed |-> s = 0] \in Answer
      BY <2>1 DEF Answer, Kinds
    <2> QED
      BY <1>2, <2>2, RefusalType DEF Serve
  <1>4. RequestType'
    BY <1>1, <1>3 DEF TypeOK, RequestType, Phases, Working
  <1>5. ServerType'
    <2>1. CASE Accept(s, req[s])
      BY <1>1, <1>2, <2>1, AcceptType DEF TypeOK, ServerType
    <2>2. CASE UNCHANGED server
      BY <1>1, <2>2, SameType
    <2> QED
      BY <2>1, <2>2 DEF Serve
  <1>6. HolderOffers' /\ AdmittedHasId'
    BY <1>1 DEF HolderOffers, AdmittedHasId, admission, calls
  <1> QED
    BY <1>1, <1>4, <1>5, <1>6, SameType DEF TypeOK

LEMMA ServeStrayStep ==
  ASSUME TypeInv, ServeStray
  PROVE  TypeInv'
  <1> USE DEF TypeInv
  <1>1. UNCHANGED <<admission, sequencing, claims, requests, settled, closing, calls, environment>>
    BY DEF ServeStray
  <1>2. ServerType'
    BY OptionsAssumption, AcceptType DEF ServeStray, TypeOK, ServerType, server, Outcomes, Failures
  <1>3. HolderOffers' /\ AdmittedHasId'
    BY <1>1 DEF HolderOffers, AdmittedHasId, admission, calls
  <1> QED
    BY <1>1, <1>2, <1>3, SameType DEF TypeOK

LEMMA FaultStep ==
  ASSUME TypeInv, NEW s \in Slots, Fault(s)
  PROVE  TypeInv'
  <1> USE DEF TypeInv
  <1>1. /\ UNCHANGED <<admission, sequencing, claims, settled, closing, calls, server>>
        /\ UNCHANGED <<from, first, req, waitFor, foreign, scope>>
        /\ faults' = faults + 1 /\ strays' = Abandoned(s)
        /\ phase' = [phase EXCEPT ![s] = "replied"]
        /\ reply' = [reply EXCEPT ![s] = [NoAnswer EXCEPT !.kind = "rejected"]]
    BY DEF Fault
  <1>2. [NoAnswer EXCEPT !.kind = "rejected"] \in Answer
    BY DEF NoAnswer, Answer, Kinds
  <1>3. RequestType'
    BY <1>1, <1>2 DEF TypeOK, RequestType, Phases, Working
  <1>4. ServerType'
    BY <1>1, AbandonedType
  <1>5. EnvironmentType'
    BY <1>1 DEF TypeOK, EnvironmentType
  <1>6. HolderOffers' /\ AdmittedHasId'
    BY <1>1 DEF HolderOffers, AdmittedHasId, admission, calls
  <1> QED
    BY <1>1, <1>3, <1>4, <1>5, <1>6, SameType DEF TypeOK

LEMMA ForeignClaimStep ==
  ASSUME TypeInv, ForeignClaim
  PROVE  TypeInv'
  <1> USE DEF TypeInv
  <1>1. UNCHANGED <<admission, sequencing, claims, requests, settled, closing, calls>>
    BY DEF ForeignClaim
  <1>2. ServerType'
    BY OptionsAssumption DEF ForeignClaim, TypeOK, ServerType, server, Outcomes, Failures
  <1>3. EnvironmentType'
    BY OptionsAssumption DEF ForeignClaim, TypeOK, EnvironmentType, environment, Outcomes, Failures
  <1>4. HolderOffers' /\ AdmittedHasId'
    BY <1>1 DEF HolderOffers, AdmittedHasId, admission, calls
  <1> QED
    BY <1>1, <1>2, <1>3, <1>4, SameType DEF TypeOK

LEMMA StopBeginStep ==
  ASSUME TypeInv, StopBegin
  PROVE  TypeInv'
  <1> USE DEF TypeInv
  <1>1. UNCHANGED <<sequencing, claims, requests, settled, closing, calls, server, strays>>
    BY DEF StopBegin
  <1>2. AdmissionType'
    BY OptionsAssumption DEF StopBegin, TypeOK, AdmissionType, admission, Outcomes, Failures
  <1>3. EnvironmentType'
    BY OptionsAssumption DEF StopBegin, TypeOK, EnvironmentType, environment, Outcomes, Failures
  <1>4. HolderOffers' /\ AdmittedHasId'
    BY CallsAssumption DEF StopBegin, TypeOK, HolderOffers, AdmittedHasId, AdmissionType, CallType, admission, calls
  <1> QED
    BY <1>1, <1>2, <1>3, <1>4, SameType DEF TypeOK

LEMMA NextType ==
  ASSUME TypeInv, [Next]_vars
  PROVE  TypeInv'
  <1>1. CASE UNCHANGED vars
    <2>1. TypeOK'
      BY <1>1, SameType DEF vars, TypeInv, TypeOK
    <2>2. HolderOffers' /\ AdmittedHasId'
      BY <1>1 DEF vars, TypeInv, HolderOffers, AdmittedHasId, admission, calls
    <2> QED
      BY <2>1, <2>2 DEF TypeInv
  <1>2. ASSUME NEW c \in Calls, Call(c)
        PROVE  TypeInv'
    BY <1>2, BeginAppendStep, AdmitStep, ReceiveStep, EndSourceStep, FlushStep, EndFlushStep,
       BeginDetachStep, BeginRestartStep, ShutAdmissionStep, FinishRestartStep,
       BeginCloseStep, SendCloseStep, CloseAnsweredStep, CloseStoppedStep, StoppedStep DEF Call
  <1>3. ASSUME NEW b \in Ids, Worker(b)
        PROVE  TypeInv'
    BY <1>3, TakeStep, ClaimedStep, DeliveredStep, RejectedStep, FencedStep, GapStep,
       GapFilledStep, WorkerStoppedStep DEF Worker
  <1>4. CASE Fiber
    BY <1>4, LingerStep, OfferedStep, LingerStoppedStep, StopEndStep DEF Fiber
  <1>5. ASSUME NEW s \in Slots, Serve(s) \/ Fault(s)
        PROVE  TypeInv'
    BY <1>5, ServeStep, FaultStep
  <1>6. ASSUME NEW c \in Calls, Interrupt(c)
        PROVE  TypeInv'
    BY <1>6, InterruptStep
  <1>7. CASE ServeStray \/ ForeignClaim \/ StopBegin
    BY <1>7, ServeStrayStep, ForeignClaimStep, StopBeginStep
  <1> QED
    BY <1>1, <1>2, <1>3, <1>4, <1>5, <1>6, <1>7 DEF Next, Terminated

LEMMA InitType == Init => TypeInv
  <1> SUFFICES ASSUME Init PROVE TypeInv
    OBVIOUS
  <1> USE CallsAssumption, OptionsAssumption DEF Init
  <1>1. AdmissionType /\ SequencingType /\ ClaimType /\ SettledType /\ ClosingType
    <2>1. NoTuple \in Tuple
      BY DEF Tuple, NoTuple
    <2>2. SequencingType
      BY <2>1 DEF SequencingType
    <2>3. AdmissionType
      <3>1. timer \in BOOLEAN
        OBVIOUS
      <3>2. mode \in {"open", "closing", "detached", "stopped"}
        OBVIOUS
      <3>3. id \in 0..MaxEntries /\ emitted \in 0..MaxEntries
        OBVIOUS
      <3>4. mutex \in Calls \cup {Free, Timer} /\ lifecycle \in Calls \cup {Free}
        OBVIOUS
      <3> QED
        BY <3>1, <3>2, <3>3, <3>4 DEF AdmissionType
    <2>4. ClaimType
      BY Zenon DEF ClaimType
    <2>5. SettledType /\ ClosingType
      BY <2>1 DEF SettledType, ClosingType
    <2> QED
      BY <2>2, <2>3, <2>4, <2>5
  <1>2. RequestType
    BY DEF RequestType, Phases, Tuple, NoTuple, Answer, NoAnswer, Kinds
  <1>3. CallType /\ EnvironmentType
    BY DEF CallType, EnvironmentType, Locations
  <1>4. ServerType
    BY DEF ServerType, Tuple, NoTuple
  <1>5. HolderOffers /\ AdmittedHasId
    BY DEF HolderOffers, AdmittedHasId
  <1> QED
    BY <1>1, <1>2, <1>3, <1>4, <1>5 DEF TypeInv, TypeOK

\* Every variable stays in its range, in every behaviour of the producer.
THEOREM TypeCorrect == Spec => []TypeOK
  <1>1. Init => TypeInv
    BY InitType
  <1>2. TypeInv /\ [Next]_vars => TypeInv'
    BY NextType
  <1>3. TypeInv => TypeOK
    BY DEF TypeInv
  <1> QED
    BY <1>1, <1>2, <1>3, PTL DEF Spec

-----------------------------------------------------------------------------
(***************************************************************************)
(* A flush that reports success has delivered everything up to its         *)
(* watermark, for every workload, fault, interruption, restart and close,  *)
(* until the finalizer has settled what was unresolved, also while it is   *)
(* interrupting the workers.  (The run finalized_flush shows that its last *)
(* step breaks it.)                                                        *)
(*                                                                         *)
(* FlushComplete is not inductive: the flush reads `firstFailure`, so the  *)
(* invariant also says that this one number bounds every failed receipt    *)
(* from below, which holds because a batch fails all its entries from its  *)
(* first one on, and a batch that can fail has a first one.                *)
(***************************************************************************)

ScopeOpen == scope # "closed"
BatchesHaveFirst == \A b \in Ids : phase[b] \in Active => from[b] >= 1
FailureRemembered ==
  \A e \in Ids : receipt[e] \in Failures => firstFailure # 0 /\ firstFailure <= e
MarkAdmitted == \A c \in Calls : mark[c] <= id
ResultIsFinal == \A c \in Calls : result[c] # "none" => pc[c] = "done"
FlushInv ==
  /\ TypeInv /\ ScopeOpen /\ BatchesHaveFirst /\ FailureRemembered
  /\ MarkAdmitted /\ ResultIsFinal /\ FlushComplete

-----------------------------------------------------------------------------
(* Receipts: what a step may do to batches, receipts and the first failure. *)

ReceiptsKept == \A e \in Ids : receipt[e] # "open" => receipt'[e] = receipt[e]
ReceiptsGood == BatchesHaveFirst' /\ FailureRemembered' /\ ReceiptsKept

\* A step that settles nothing, and leaves batches where they were or moves
\* them among the active phases.
LEMMA QuietReceipts ==
  ASSUME FlushInv, UNCHANGED <<from, receipt, firstFailure>>,
         \A b \in Ids : phase'[b] \in Active => phase[b] \in Active
  PROVE  ReceiptsGood
  BY DEF FlushInv, ReceiptsGood, BatchesHaveFirst, FailureRemembered, ReceiptsKept

\* A step that settles one active batch.
LEMMA CompleteReceipts ==
  ASSUME FlushInv, NEW b \in Ids, NEW out \in Outcomes, NEW seqs,
         phase[b] \in Active, Complete(b, out, seqs), UNCHANGED from
  PROVE  ReceiptsGood
  <1>1. /\ from \in [Ids -> Nat] /\ phase \in [Slots -> Phases] /\ firstFailure \in Nat
        /\ receipt \in [Ids -> Outcomes \cup {"open"}]
    BY DEF FlushInv, TypeInv, TypeOK, RequestType, SettledType
  <1>2. /\ phase' = [phase EXCEPT ![b] = out]
        /\ receipt' = [e \in Ids |-> IF e \in from[b]..b /\ receipt[e] = "open"
                                     THEN out ELSE receipt[e]]
        /\ firstFailure' = IF out \in Failures /\ (firstFailure = 0 \/ from[b] < firstFailure)
                           THEN from[b] ELSE firstFailure
    BY DEF Complete, Entries
  <1>3. from[b] >= 1
    BY DEF FlushInv, BatchesHaveFirst
  <1>4. ReceiptsKept
    BY <1>2 DEF ReceiptsKept
  <1>5. BatchesHaveFirst'
    BY <1>1, <1>2 DEF FlushInv, BatchesHaveFirst, Active, Working, Outcomes, Failures
  <1>6. FailureRemembered'
    <2> SUFFICES ASSUME NEW e \in Ids, receipt'[e] \in Failures
                 PROVE  firstFailure' # 0 /\ firstFailure' <= e
      BY DEF FailureRemembered
    <2>1. e \in Nat
      BY DEF Ids
    <2>2. CASE receipt[e] \in Failures
      <3>1. firstFailure # 0 /\ firstFailure <= e
        BY <2>2 DEF FlushInv, FailureRemembered
      <3> QED
        BY <1>1, <1>2, <1>3, <2>1, <3>1
    <2>3. CASE receipt[e] \notin Failures
      <3>1. out \in Failures /\ from[b] <= e
        BY <1>1, <1>2, <2>1, <2>3
      <3> QED
        BY <1>1, <1>2, <1>3, <2>1, <3>1
    <2> QED
      BY <2>2, <2>3
  <1> QED
    BY <1>4, <1>5, <1>6 DEF ReceiptsGood

LEMMA FinishReceipts ==
  ASSUME FlushInv, NEW b \in Ids, NEW out \in Outcomes, phase[b] \in Active,
         Finish(b, out), UNCHANGED from
  PROVE  ReceiptsGood
  BY CompleteReceipts DEF Finish

\* An emission makes a batch that has a first entry.
LEMMA EmitReceipts ==
  ASSUME FlushInv, NEW last \in 0..MaxEntries, NEW by, Emit(last, by),
         UNCHANGED <<receipt, firstFailure>>
  PROVE  ReceiptsGood
  <1>1. from \in [Ids -> Nat] /\ phase \in [Slots -> Phases] /\ emitted \in Nat
    BY DEF FlushInv, TypeInv, TypeOK, RequestType, AdmissionType
  <1>2. /\ from' = [from EXCEPT ![last] = emitted + 1]
        /\ phase' = [phase EXCEPT ![last] = IF QueueFull THEN "offer" ELSE "queued"]
    BY DEF Emit
  <1>3. \A b \in Ids : b \in Slots
    BY OptionsAssumption DEF Ids, Slots
  <1>4. BatchesHaveFirst'
    BY <1>1, <1>2, <1>3 DEF FlushInv, BatchesHaveFirst
  <1> QED
    BY <1>4 DEF FlushInv, ReceiptsGood, FailureRemembered, ReceiptsKept

LEMMA WorkerReceipts ==
  ASSUME FlushInv, NEW b \in Ids, Worker(b)
  PROVE  ReceiptsGood
  <1>1. phase \in [Slots -> Phases] /\ b \in Slots
    BY OptionsAssumption DEF FlushInv, TypeInv, TypeOK, RequestType, Ids, Slots
  <1>2. ASSUME NEW l, phase' = [phase EXCEPT ![b] = l], phase[b] \in Active,
               UNCHANGED <<from, receipt, firstFailure>>
        PROVE  ReceiptsGood
    BY <1>1, <1>2, QuietReceipts
  <1>3. ASSUME NEW out \in Outcomes, Finish(b, out), phase[b] \in Active, UNCHANGED from
        PROVE  ReceiptsGood
    BY <1>3, FinishReceipts
  <1>4. "ok" \in Outcomes /\ "fail" \in Outcomes
    BY DEF Outcomes, Failures
  <1>5. ASSUME Start(b), phase[b] \in Active, UNCHANGED from
        PROVE  ReceiptsGood
    BY <1>2, <1>3, <1>4, <1>5 DEF Start
  <1>6. ASSUME NEW p, AwaitFrom(b, p), phase[b] \in Active, UNCHANGED from
        PROVE  ReceiptsGood
    BY <1>2, <1>3, <1>4, <1>6 DEF AwaitFrom, Missing, NotFinished
  <1>7. CASE Take(b)
    BY <1>2, <1>5, <1>7 DEF Take, NotFinished, Active
  <1>8. CASE Claimed(b)
    <2>1. claim # "open" => claim \in Outcomes
      BY DEF FlushInv, TypeInv, TypeOK, ClaimType
    <2> QED
      BY <1>3, <1>5, <1>8, <2>1 DEF Claimed, Active, Working
  <1>9. CASE Delivered(b) \/ Rejected(b)
    BY <1>3, <1>4, <1>9 DEF Delivered, Rejected, Replied, Active, Working
  <1>10. CASE Fenced(b)
    BY <1>2, <1>3, <1>4, <1>10 DEF Fenced, Replied, Active, Working
  <1>11. CASE Gap(b)
    <2>1. failure # NoFailure => failure.out \in Outcomes
      BY DEF FlushInv, TypeInv, TypeOK, SequencingType, Outcomes
    <2> QED
      BY <1>3, <1>4, <1>6, <1>11, <2>1 DEF Gap, Replied, Active, Working
  <1>12. CASE GapFilled(b)
    BY <1>3, <1>6, <1>12 DEF GapFilled, Active, Working
  <1>13. CASE WorkerStopped(b)
    <2>1. phase' = [phase EXCEPT ![b] = "dead"] /\ UNCHANGED <<from, receipt, firstFailure>>
      BY <1>13 DEF WorkerStopped, settled
    <2>2. phase[b] \in Active
      BY <1>13 DEF WorkerStopped, Active
    <2> QED
      BY <2>1, <2>2, <1>2
  <1> QED
    BY <1>7, <1>8, <1>9, <1>10, <1>11, <1>12, <1>13 DEF Worker

LEMMA CallReceipts ==
  ASSUME FlushInv, NEW c \in Calls, Call(c)
  PROVE  ReceiptsGood
  <1>1. /\ phase \in [Slots -> Phases] /\ id \in 0..MaxEntries
        /\ \A b \in Ids : b # 0 /\ b \in Slots
    BY OptionsAssumption
       DEF FlushInv, TypeInv, TypeOK, RequestType, AdmissionType, Ids, Slots
  <1>2. CASE \/ BeginAppend(c) \/ Receive(c) \/ EndSource(c) \/ EndFlush(c)
             \/ BeginDetach(c) \/ BeginRestart(c) \/ ShutAdmission(c)
             \/ FinishRestart(c) \/ BeginClose(c) \/ Stopped(c)
    <2>1. UNCHANGED <<requests, settled>>
      BY <1>2 DEF BeginAppend, Receive, EndSource, EndFlush, BeginDetach, BeginRestart,
         ShutAdmission, FinishRestart, BeginClose, Stopped
    <2> QED
      BY <2>1, QuietReceipts DEF requests, settled
  <1>3. CASE SendClose(c) \/ CloseAnswered(c) \/ CloseStopped(c)
    <2>1. /\ UNCHANGED <<from, receipt, firstFailure>>
          /\ UNCHANGED phase \/ \E l : phase' = [phase EXCEPT ![0] = l]
      BY <1>3 DEF SendClose, CloseAnswered, CloseStopped, settled
    <2> QED
      BY <1>1, <2>1, QuietReceipts
  <1>4. CASE Admit(c)
    <2>1. UNCHANGED <<receipt, firstFailure>>
      BY <1>4 DEF Admit, settled
    <2>2. \/ UNCHANGED <<from, phase>>
          \/ id + 1 \in 0..MaxEntries /\ Emit(id + 1, c)
      BY <1>1, <1>4, OptionsAssumption DEF Admit, NothingEmitted
    <2> QED
      BY <2>1, <2>2, QuietReceipts, EmitReceipts
  <1>5. CASE Flush(c)
    <2>1. UNCHANGED <<receipt, firstFailure>>
      BY <1>5 DEF Flush, settled
    <2>2. UNCHANGED <<from, phase>> \/ Emit(id, c)
      BY <1>5 DEF Flush, NothingEmitted
    <2> QED
      BY <1>1, <2>1, <2>2, QuietReceipts, EmitReceipts
  <1> QED
    BY <1>2, <1>3, <1>4, <1>5 DEF Call

LEMMA OtherReceipts ==
  ASSUME FlushInv,
         \/ Fiber \/ \E s \in Slots : Serve(s) \/ Fault(s)
         \/ ServeStray \/ ForeignClaim \/ \E c \in Calls : Interrupt(c)
         \/ StopBegin \/ UNCHANGED vars,
         ScopeOpen'
  PROVE  ReceiptsGood
  <1>1. /\ phase \in [Slots -> Phases] /\ id \in 0..MaxEntries
        /\ \A b \in Ids : b # 0 /\ b \in Slots
    BY OptionsAssumption
       DEF FlushInv, TypeInv, TypeOK, RequestType, AdmissionType, Ids, Slots
  <1>2. CASE Linger
    BY <1>1, <1>2, EmitReceipts DEF Linger, settled
  <1>3. CASE Offered
    BY <1>1, <1>3, QuietReceipts DEF Offered, settled, Active
  <1>4. CASE LingerStopped \/ StopEnd
    <2>1. ~StopEnd
      BY DEF StopEnd, ScopeOpen
    <2>2. UNCHANGED from
      BY <1>4, <2>1 DEF LingerStopped
    <2>3. \/ UNCHANGED <<phase, receipt, firstFailure>>
          \/ \E b \in Ids : phase[b] = "offer" /\ Complete(b, "int", sequences)
      BY <1>4, <2>1 DEF LingerStopped
    <2> QED
      BY <2>2, <2>3, QuietReceipts, CompleteReceipts DEF Active, Outcomes, Failures
  <1>5. ASSUME NEW s \in Slots, Serve(s) \/ Fault(s)
        PROVE  ReceiptsGood
    <2>1. /\ UNCHANGED <<from, receipt, firstFailure>>
          /\ phase' = [phase EXCEPT ![s] = "replied"] /\ phase[s] \in {"sent", "replied"}
      BY <1>5 DEF Serve, Fault, settled
    <2> QED
      BY <1>1, <2>1, QuietReceipts DEF Active, Working
  <1>6. CASE ServeStray \/ ForeignClaim \/ StopBegin \/ UNCHANGED vars
    <2>1. UNCHANGED <<requests, settled>>
      BY <1>6 DEF ServeStray, ForeignClaim, StopBegin, vars
    <2> QED
      BY <2>1, QuietReceipts DEF requests, settled
  <1>7. ASSUME NEW c \in Calls, Interrupt(c)
        PROVE  ReceiptsGood
    <2>1. UNCHANGED from
      BY <1>7 DEF Interrupt
    <2>2. \/ UNCHANGED <<phase, receipt, firstFailure>>
          \/ phase' = [phase EXCEPT ![0] = "none"] /\ UNCHANGED <<receipt, firstFailure>>
          \/ \E b \in Ids : phase[b] = "offer" /\ Complete(b, "int", sequences)
      BY <1>7 DEF Interrupt
    <2> QED
      BY <1>1, <2>1, <2>2, QuietReceipts, CompleteReceipts DEF Active, Outcomes, Failures
  <1> QED
    BY <1>2, <1>3, <1>4, <1>5, <1>6, <1>7 DEF Fiber

-----------------------------------------------------------------------------
(* Calls: what a step may do to watermarks and results. *)

Reporting == Calls \ (Appends \cup Closes)
CallsGood == MarkAdmitted' /\ ResultIsFinal' /\ FlushComplete'

LEMMA CallTypes ==
  ASSUME FlushInv
  PROVE  /\ pc \in [Calls -> Locations] /\ mark \in [Calls -> 0..MaxEntries]
         /\ result \in [Calls -> Outcomes \cup {"none", "closed"}]
         /\ receipt \in [Ids -> Outcomes \cup {"open"}]
         /\ id \in Nat /\ id <= MaxEntries
         /\ \A c \in Calls : \A e \in 1..mark[c] : e \in Ids
  <1>1. mark \in [Calls -> 0..MaxEntries] /\ id \in 0..MaxEntries
    BY DEF FlushInv, TypeInv, TypeOK, CallType, AdmissionType
  <1>2. \A c \in Calls : \A e \in 1..mark[c] : e \in Ids
    BY <1>1, OptionsAssumption DEF Ids
  <1> QED
    BY <1>1, <1>2, OptionsAssumption
       DEF FlushInv, TypeInv, TypeOK, CallType, AdmissionType, SettledType

\* A step of one call, c, when receipts are kept.
LEMMA OneCall ==
  ASSUME FlushInv, ReceiptsKept, NEW c \in Calls, id' \in Nat, id <= id',
         mark' \in [Calls -> 0..MaxEntries], mark'[c] <= id',
         \A d \in Calls \ {c} : mark'[d] = mark[d] /\ result'[d] = result[d] /\ pc'[d] = pc[d],
         result'[c] # "none" => pc'[c] = "done",
         c \in Reporting /\ result'[c] = "ok" => \A e \in 1..mark'[c] : receipt'[e] = "ok"
  PROVE  CallsGood
  <1>1. MarkAdmitted'
    BY CallTypes DEF FlushInv, MarkAdmitted
  <1>2. ResultIsFinal'
    BY DEF FlushInv, ResultIsFinal
  <1>3. FlushComplete'
    <2> SUFFICES ASSUME NEW d \in Reporting, result'[d] = "ok", NEW e \in 1..mark'[d]
                 PROVE  receipt'[e] = "ok"
      BY DEF FlushComplete, Reporting
    <2>1. CASE d = c
      BY <2>1
    <2>2. CASE d # c
      <3>1. d \in Calls /\ mark'[d] = mark[d] /\ result[d] = "ok"
        BY <2>2 DEF Reporting
      <3>2. receipt[e] = "ok" /\ e \in Ids
        BY <3>1, CallTypes DEF FlushInv, FlushComplete, Reporting
      <3> QED
        BY <3>2 DEF ReceiptsKept
    <2> QED
      BY <2>1, <2>2
  <1> QED
    BY <1>1, <1>2, <1>3 DEF CallsGood

LEMMA QuietCalls ==
  ASSUME FlushInv, ReceiptsKept, UNCHANGED <<pc, result, mark, id>>
  PROVE  CallsGood
  <1>1. MarkAdmitted' /\ ResultIsFinal'
    BY DEF FlushInv, MarkAdmitted, ResultIsFinal
  <1>2. FlushComplete'
    <2> SUFFICES ASSUME NEW d \in Reporting, result[d] = "ok", NEW e \in 1..mark[d]
                 PROVE  receipt'[e] = "ok"
      BY DEF FlushComplete, Reporting
    <2>1. receipt[e] = "ok" /\ e \in Ids
      BY CallTypes DEF FlushInv, FlushComplete, Reporting
    <2> QED
      BY <2>1 DEF ReceiptsKept
  <1> QED
    BY <1>1, <1>2 DEF CallsGood

LEMMA ReturnCalls ==
  ASSUME FlushInv, ReceiptsKept, NEW c \in Calls, NEW r, Return(c, r),
         UNCHANGED <<id, mark>>,
         c \in Reporting /\ r = "ok" => \A e \in 1..mark[c] : receipt[e] = "ok"
  PROVE  CallsGood
  <1>1. pc' = [pc EXCEPT ![c] = "done"] /\ result' = [result EXCEPT ![c] = r]
    BY DEF Return
  <1>2. mark[c] <= id /\ id \in Nat
    BY CallTypes DEF FlushInv, MarkAdmitted
  <1>3. c \in Reporting /\ result'[c] = "ok" => \A e \in 1..mark'[c] : receipt'[e] = "ok"
    BY <1>1, CallTypes DEF ReceiptsKept
  <1> QED
    BY <1>1, <1>2, <1>3, CallTypes, OneCall

LEMMA GotoCalls ==
  ASSUME FlushInv, ReceiptsKept, NEW c \in Calls, NEW l, Goto(c, l), pc[c] # "done",
         UNCHANGED <<id, mark, result>>
  PROVE  CallsGood
  <1>1. pc' = [pc EXCEPT ![c] = l]
    BY DEF Goto
  <1>2. mark[c] <= id /\ id \in Nat /\ result[c] = "none"
    BY CallTypes DEF FlushInv, MarkAdmitted, ResultIsFinal
  <1> QED
    BY <1>1, <1>2, CallTypes, OneCall

\* A call is given a watermark no larger than the last id.
LEMMA MarkCalls ==
  ASSUME FlushInv, ReceiptsKept, NEW c \in Calls, NEW l, Goto(c, l), pc[c] # "done",
         UNCHANGED result, NEW m \in 0..MaxEntries, mark' = [mark EXCEPT ![c] = m],
         id' \in Nat, id <= id', m <= id'
  PROVE  CallsGood
  <1>1. pc' = [pc EXCEPT ![c] = l]
    BY DEF Goto
  <1>2. result[c] = "none"
    BY DEF FlushInv, ResultIsFinal
  <1>3. mark' \in [Calls -> 0..MaxEntries] /\ mark'[c] <= id'
    BY CallTypes, ExceptType
  <1> QED
    BY <1>1, <1>2, <1>3, CallTypes, OneCall

\* The heart of it: a drained watermark without a failure at or below it.
LEMMA DrainedDelivered ==
  ASSUME FlushInv, NEW c \in Calls, Drained(c), ~FlushFails(c)
  PROVE  \A e \in 1..mark[c] : receipt[e] = "ok"
  <1> SUFFICES ASSUME NEW e \in 1..mark[c]
               PROVE  receipt[e] = "ok"
    OBVIOUS
  <1>1. e \in Ids /\ e \in Nat /\ e <= mark[c] /\ e <= id /\ mark[c] \in Nat
    BY CallTypes DEF FlushInv, MarkAdmitted, Ids
  <1>2. receipt[e] # "open"
    BY <1>1 DEF Drained, Outstanding
  <1>3. firstFailure = 0 \/ firstFailure > mark[c]
    BY <1>1 DEF FlushFails, FlushInv, TypeInv, TypeOK, SettledType
  <1>4. receipt[e] \notin Failures
    BY <1>1, <1>3 DEF FlushInv, FailureRemembered, TypeInv, TypeOK, SettledType
  <1> QED
    BY <1>1, <1>2, <1>4, CallTypes DEF Outcomes

LEMMA CallCalls ==
  ASSUME FlushInv, NEW c \in Calls, Call(c), ReceiptsKept
  PROVE  CallsGood
  <1>1. CASE BeginAppend(c)
    <2>1. UNCHANGED <<id, mark>> /\ pc[c] # "done"
          /\ ((Goto(c, "entry") /\ UNCHANGED result) \/ Return(c, "closed"))
      BY <1>1 DEF BeginAppend
    <2> QED
      BY <2>1, ReturnCalls, GotoCalls
  <1>2. CASE Admit(c)
    <2>1. CASE mode # "open"
      BY <1>2, <2>1, ReturnCalls DEF Admit
    <2>2. CASE mode = "open"
      <3>1. /\ id < MaxEntries /\ id' = id + 1 /\ mark' = [mark EXCEPT ![c] = id + 1]
            /\ UNCHANGED result /\ pc[c] # "done"
            /\ \E l : Goto(c, l)
        BY <1>2, <2>2 DEF Admit
      <3>2. id + 1 \in 0..MaxEntries /\ id' \in Nat /\ id <= id' /\ id + 1 <= id'
        BY <3>1, CallTypes, OptionsAssumption
      <3> QED
        BY <3>1, <3>2, MarkCalls
    <2> QED
      BY <2>1, <2>2
  <1>3. CASE Receive(c)
    BY <1>3, ReturnCalls DEF Receive, Reporting
  <1>4. CASE EndSource(c)
    <2>1. UNCHANGED <<id, mark>> /\ pc[c] # "done"
          /\ ((Goto(c, "flush") /\ UNCHANGED result) \/ Return(c, "fail"))
      BY <1>4 DEF EndSource
    <2> QED
      BY <2>1, ReturnCalls, GotoCalls
  <1>5. CASE Flush(c)
    <2>1. /\ UNCHANGED <<id, result>> /\ mark' = [mark EXCEPT ![c] = id] /\ pc[c] # "done"
          /\ \E l : Goto(c, l)
      BY <1>5 DEF Flush, Watermark
    <2>2. id \in 0..MaxEntries /\ id' \in Nat /\ id <= id'
      BY <2>1, CallTypes
    <2> QED
      BY <2>1, <2>2, MarkCalls
  <1>6. CASE EndFlush(c)
    <2>1. UNCHANGED <<id, mark>> /\ Drained(c)
      BY <1>6 DEF EndFlush
    <2>2. CASE FlushFails(c)
      <3>1. Return(c, "fail")
        BY <1>6, <2>2 DEF EndFlush
      <3> QED
        BY <2>1, <3>1, ReturnCalls
    <2>3. CASE ~FlushFails(c)
      <3>1. Return(c, "ok")
        BY <1>6, <2>3 DEF EndFlush
      <3> QED
        BY <2>1, <2>3, <3>1, DrainedDelivered, ReturnCalls
    <2> QED
      BY <2>2, <2>3
  <1>7. CASE BeginDetach(c) \/ BeginRestart(c)
    <2>1. UNCHANGED <<id, mark>> /\ pc[c] # "done"
          /\ (((\E l : Goto(c, l)) /\ UNCHANGED result) \/ Return(c, "closed"))
      BY <1>7 DEF BeginDetach, BeginRestart
    <2> QED
      BY <2>1, ReturnCalls, GotoCalls
  <1>8. CASE ShutAdmission(c)
    <2>1. UNCHANGED <<id, mark, result>> /\ pc[c] # "done" /\ \E l : Goto(c, l)
      BY <1>8 DEF ShutAdmission
    <2> QED
      BY <2>1, GotoCalls
  <1>9. CASE FinishRestart(c)
    <2>1. /\ UNCHANGED <<id, mark>> /\ Drained(c) /\ ~FlushFails(c)
          /\ \/ Return(c, "fail")
             \/ pc' = [pc EXCEPT ![c] = "done"] /\ result' = [result EXCEPT ![c] = "ok"]
      BY <1>9 DEF FinishRestart
    <2>2. CASE Return(c, "fail")
      BY <2>1, <2>2, ReturnCalls
    <2>3. CASE pc' = [pc EXCEPT ![c] = "done"] /\ result' = [result EXCEPT ![c] = "ok"]
      <3>1. \A e \in 1..mark'[c] : receipt'[e] = "ok"
        BY <2>1, DrainedDelivered, CallTypes DEF ReceiptsKept
      <3>2. mark[c] <= id /\ id \in Nat
        BY CallTypes DEF FlushInv, MarkAdmitted
      <3> QED
        BY <2>1, <2>3, <3>1, <3>2, CallTypes, OneCall
    <2> QED
      BY <2>1, <2>2, <2>3
  <1>10. CASE BeginClose(c)
    <2>1. UNCHANGED <<id, mark>> /\ pc[c] # "done" /\ c \notin Reporting
          /\ (((\E l : Goto(c, l)) /\ UNCHANGED result) \/ \E r : Return(c, r))
      BY <1>10 DEF BeginClose, Reporting
    <2> QED
      BY <2>1, ReturnCalls, GotoCalls
  <1>11. CASE SendClose(c)
    <2>1. UNCHANGED <<id, mark>> /\ pc[c] # "done"
          /\ ((Goto(c, "reply") /\ UNCHANGED result) \/ Return(c, "int"))
      BY <1>11 DEF SendClose, Drained
    <2> QED
      BY <2>1, ReturnCalls, GotoCalls
  <1>12. CASE CloseAnswered(c)
    <2>1. UNCHANGED <<id, mark>> /\ c \notin Reporting
          /\ (UNCHANGED <<pc, result>> \/ \E r : Return(c, r))
      BY <1>12 DEF CloseAnswered, Reporting
    <2> QED
      BY <2>1, ReturnCalls, QuietCalls
  <1>13. CASE CloseStopped(c) \/ Stopped(c)
    <2>1. UNCHANGED <<id, mark>> /\ Return(c, "int")
      BY <1>13 DEF CloseStopped, Stopped
    <2> QED
      BY <2>1, ReturnCalls
  <1> QED
    BY <1>1, <1>2, <1>3, <1>4, <1>5, <1>6, <1>7, <1>8, <1>9, <1>10, <1>11, <1>12, <1>13
       DEF Call

\* An offer that goes through moves its emitter on, without a result.
LEMMA OfferedCalls ==
  ASSUME FlushInv, Offered, ReceiptsKept
  PROVE  CallsGood
  <1>1. UNCHANGED <<id, mark, result>> /\ mutex # Free
    BY CallsAssumption DEF Offered
  <1>2. CASE mutex = Timer
    BY <1>1, <1>2, QuietCalls DEF Offered
  <1>3. CASE mutex # Timer
    <2>1. mutex \in Calls /\ pc[mutex] # "done"
      BY <1>1, <1>3 DEF FlushInv, TypeInv, TypeOK, AdmissionType, HolderOffers
    <2>2. \E l : Goto(mutex, l)
      BY <1>3 DEF Offered, Goto
    <2> QED
      BY <1>1, <2>1, <2>2, GotoCalls
  <1> QED
    BY <1>2, <1>3

-----------------------------------------------------------------------------

LEMMA FlushStepInv ==
  ASSUME FlushInv, [Next]_vars, ScopeOpen'
  PROVE  FlushInv'
  <1>1. TypeInv'
    BY NextType DEF FlushInv
  <1>3. ReceiptsGood
    BY CallReceipts, WorkerReceipts, OtherReceipts DEF Next, Terminated
  <1>4. ReceiptsKept
    BY <1>3 DEF ReceiptsGood
  <1>5. CallsGood
    <2>1. CASE \E c \in Calls : Call(c)
      BY <1>4, <2>1, CallCalls
    <2>2. CASE \E b \in Ids : Worker(b)
      <3>1. UNCHANGED <<admission, calls>>
        BY <2>2 DEF Worker, Take, Claimed, Delivered, Rejected, Fenced, Gap, GapFilled,
           WorkerStopped
      <3> QED
        BY <1>4, <3>1, QuietCalls DEF admission, calls
    <2>3. CASE Fiber
      BY <1>4, <2>3, OfferedCalls, QuietCalls DEF Fiber, Linger, LingerStopped, StopEnd, calls
    <2>4. CASE \/ \E s \in Slots : Serve(s) \/ Fault(s)
               \/ ServeStray \/ ForeignClaim \/ StopBegin \/ UNCHANGED vars
      <3>1. UNCHANGED <<id, calls>>
        BY <2>4 DEF Serve, Fault, ServeStray, ForeignClaim, StopBegin, admission, vars
      <3> QED
        BY <1>4, <3>1, QuietCalls DEF calls
    <2>5. ASSUME NEW c \in Calls, Interrupt(c)
          PROVE  CallsGood
      BY <1>4, <2>5, ReturnCalls DEF Interrupt
    <2> QED
      BY <2>1, <2>2, <2>3, <2>4, <2>5 DEF Next, Terminated
  <1> QED
    BY <1>1, <1>3, <1>5 DEF FlushInv, ReceiptsGood, CallsGood

LEMMA ScopeStays ==
  ASSUME [Next]_vars
  PROVE  /\ ScopeOpen' => ScopeOpen
         /\ CanStop = FALSE /\ scope = "live" => scope' = "live"
  <1>1. CASE StopBegin \/ StopEnd
    BY <1>1 DEF StopBegin, StopEnd, ScopeOpen
  <1>2. CASE ~(StopBegin \/ StopEnd)
    <2>1. UNCHANGED scope
      BY <1>2 DEF Next, Terminated, Call, Worker, Fiber, vars, environment,
         BeginAppend, Admit, Receive, EndSource, Flush, EndFlush, BeginDetach,
         BeginRestart, ShutAdmission, FinishRestart, BeginClose, SendClose,
         CloseAnswered, CloseStopped, Stopped, Take, Claimed, Delivered, Rejected,
         Fenced, Gap, GapFilled, WorkerStopped, Linger, Offered, LingerStopped, Serve,
         Fault, ServeStray, ForeignClaim, Interrupt
    <2> QED
      BY <2>1 DEF ScopeOpen
  <1> QED
    BY <1>1, <1>2

LEMMA InitFlush == Init => FlushInv
  <1> SUFFICES ASSUME Init PROVE FlushInv
    OBVIOUS
  <1>1. TypeInv
    BY InitType
  <1>2. BatchesHaveFirst /\ FailureRemembered
    BY OptionsAssumption DEF Init, BatchesHaveFirst, FailureRemembered, Active, Working,
       Failures, Ids, Slots
  <1>3. MarkAdmitted /\ ResultIsFinal /\ FlushComplete /\ ScopeOpen
    BY DEF Init, MarkAdmitted, ResultIsFinal, FlushComplete, ScopeOpen
  <1> QED
    BY <1>1, <1>2, <1>3 DEF FlushInv

\* A flush, sink, detach or restart that reports success has left nothing
\* behind: every value up to its watermark was acknowledged by the server.
\* The finalizer may be stopping the workers; only its last step, which
\* settles what is unresolved, can break this.
THEOREM FlushCompleteUntilFinalized ==
  Spec => [](scope # "closed" => FlushComplete)
  <1>1. Init => (ScopeOpen => FlushInv)
    BY InitFlush
  <1>2. (ScopeOpen => FlushInv) /\ [Next]_vars => (ScopeOpen => FlushInv)'
    BY FlushStepInv, ScopeStays
  <1>3. (ScopeOpen => FlushInv) => (scope # "closed" => FlushComplete)
    BY DEF FlushInv, ScopeOpen
  <1> QED
    BY <1>1, <1>2, <1>3, PTL DEF Spec

\* The same without a finalizer, for all time.
THEOREM FlushIsComplete ==
  ASSUME CanStop = FALSE
  PROVE  Spec => []FlushComplete
  <1>1. Init => scope = "live"
    BY DEF Init
  <1>2. scope = "live" /\ [Next]_vars => (scope = "live")'
    BY ScopeStays
  <1>3. scope = "live" /\ (scope # "closed" => FlushComplete) => FlushComplete
    OBVIOUS
  <1> QED
    BY <1>1, <1>2, <1>3, FlushCompleteUntilFinalized, PTL DEF Spec
=============================================================================
