--------------------------- MODULE DeliveryProofs ---------------------------
(***************************************************************************)
(* What the server's log holds, for every workload, fault and interruption:*)
(* no batch and no close twice; every acknowledged value; after a          *)
(* successful close nothing more; and the values in their order, without a *)
(* hole.  And that requests which overtake each other fail no append.      *)
(* Each rests on an invariant of its own, proved on top of the layers of   *)
(* SequenceProofs.  Then: the producer implements the abstract append log. *)
(* And at the end: its workers never all wait for each other.              *)
(***************************************************************************)
EXTENDS SequenceProofs, ProducerRefinement, SequenceTheorems, WellFoundedInduction

-----------------------------------------------------------------------------
(* Nothing is stored twice.                                                *)

InLog(s) == \E i \in 1..Len(log) : log[i] = s
\* No request of the batch will be sent again; Lost: and nobody heard that
\* the last one was accepted.
Lost(b) ==
  \/ phase[b] = "replied" /\ reply[b].kind = "rejected"
  \/ phase[b] \in Outcomes \cup {"dead"}
Done(b) == Lost(b) \/ (phase[b] = "replied" /\ reply[b].kind = "ok")

LoggedDone == \A b \in Ids : InLog(b) => Done(b)
\* The stray request of a batch is its last one, and not stored yet.
StrayOnce ==
  \A r \in strays : r.slot \in Ids =>
     r.req = req[r.slot] /\ ~InLog(r.slot) /\ Lost(r.slot)
ClosedLast ==
  /\ InLog(0) => sClosed # NoTuple
  /\ sClosed # NoTuple => Len(log) > 0 /\ log[Len(log)] = 0
OnceInv == LoggedDone /\ StrayOnce /\ ClosedLast /\ AppliedOnce

LEMMA LogTypes ==
  ASSUME TypeInv
  PROVE  /\ log \in Seq(Slots \cup {Foreign}) /\ Len(log) \in Nat
         /\ \A i \in 1..Len(log) : log[i] \in Slots \cup {Foreign}
         /\ strays \subseteq [slot : Slots, req : Tuple]
         /\ Foreign \notin Slots /\ 0 \in Slots
         /\ offset \in Nat /\ \A s \in Slots : reply[s].offset \in Nat
  <1>1. log \in Seq(Slots \cup {Foreign}) /\ strays \subseteq [slot : Slots, req : Tuple]
    BY DEF TypeInv, TypeOK, ServerType
  <1>2. Len(log) \in Nat /\ \A i \in 1..Len(log) : log[i] \in Slots \cup {Foreign}
    BY <1>1
  <1>3. Foreign \notin Slots /\ 0 \in Slots
    BY OptionsAssumption DEF Foreign, Slots
  <1>4. offset \in Nat /\ \A s \in Slots : reply[s].offset \in Nat
    BY BatchTypes DEF TypeInv, TypeOK, SettledType, Answer
  <1> QED
    BY <1>1, <1>2, <1>3, <1>4

LEMMA LogGrows ==
  ASSUME TypeInv, NEW s \in Slots \cup {Foreign}, log' = Append(log, s)
  PROVE  /\ Len(log') = Len(log) + 1 /\ log'[Len(log) + 1] = s
         /\ \A i \in 1..Len(log) : log'[i] = log[i]
         /\ \A x : InLog(x)' <=> (InLog(x) \/ x = s)
  <1>1. log \in Seq(Slots \cup {Foreign}) /\ Len(log) \in Nat
    BY LogTypes
  <1>2. Len(log') = Len(log) + 1 /\ log'[Len(log) + 1] = s
    BY <1>1
  <1>3. \A i \in 1..Len(log) : log'[i] = log[i]
    BY <1>1
  <1>4. \A i : i \in 1..Len(log') <=> (i \in 1..Len(log) \/ i = Len(log) + 1)
    BY <1>1, <1>2
  <1>5. \A x : InLog(x)' <=> (InLog(x) \/ x = s)
    BY <1>2, <1>3, <1>4 DEF InLog
  <1> QED
    BY <1>2, <1>3, <1>5

\* A batch that is done stays so, and keeps its request.
LEMMA DoneStays ==
  ASSUME TypeInv, BatchInv, [Next]_vars
  PROVE  \A b \in Ids : /\ Done(b) => Done(b)' /\ req'[b] = req[b]
                        /\ Lost(b) => Lost(b)'
  <1> DEFINE Kept(b) == phase'[b] = phase[b] /\ reply'[b] = reply[b] /\ req'[b] = req[b]
             Good(b) == /\ Done(b) => Done(b)' /\ req'[b] = req[b]
                        /\ Lost(b) => Lost(b)'
  <1>1. \A b \in Ids : Kept(b) => Good(b)
    BY DEF Done, Lost
  <1>2. \A b \in Ids : Done(b) => phase[b] \in {"replied", "dead"} \cup Outcomes
    BY DEF Done, Lost
  <1>3. \A b \in Ids : Lost(b) => Done(b)
    BY DEF Done
  <1>4. ASSUME NEW s \in Slots, Serve(s) \/ Fault(s)
        PROVE  \A b \in Ids : Good(b)
    <2>1. /\ phase' = [phase EXCEPT ![s] = "replied"] /\ UNCHANGED req
          /\ \E r : reply' = [reply EXCEPT ![s] = r]
          /\ phase[s] = "sent" \/ reply' = [reply EXCEPT ![s] = [NoAnswer EXCEPT !.kind = "rejected"]]
      BY <1>4 DEF Serve, Fault
    <2>2. \A b \in Ids : b # s => Kept(b)
      BY <2>1, BatchTypes
    <2>3. CASE phase[s] = "sent"
      BY <1>1, <1>2, <1>3, <2>2, <2>3 DEF Outcomes, Failures
    <2>4. CASE reply' = [reply EXCEPT ![s] = [NoAnswer EXCEPT !.kind = "rejected"]]
      <3>1. phase'[s] = "replied" /\ reply'[s].kind = "rejected"
        BY <2>1, <2>4, BatchTypes DEF NoAnswer
      <3> QED
        BY <2>1, <2>2, <3>1 DEF Done, Lost
    <2> QED
      BY <2>1, <2>3, <2>4
  <1>5. ASSUME UNCHANGED reply
        PROVE  \A b \in Ids : Good(b)
    \* Only batch c moves, and it was not done or becomes so.
    <2>1. ASSUME NEW c \in Ids, NEW l, phase' = [phase EXCEPT ![c] = l],
                 \A b \in Ids : b # c => req'[b] = req[b],
                 \/ ~Done(c)
                 \/ l \in Outcomes \cup {"dead"} /\ req'[c] = req[c]
                 \/ l = "replied" /\ phase[c] \in {"sent", "replied"} /\ req'[c] = req[c]
          PROVE  \A b \in Ids : Good(b)
      <3>1. \A b \in Ids : b # c => Kept(b)
        BY <1>5, <2>1, BatchTypes
      <3>2. phase'[c] = l
        BY <2>1, BatchTypes
      <3>3. Good(c)
        BY <1>1, <1>2, <1>3, <1>5, <2>1, <3>2 DEF Done, Lost, Outcomes, Failures
      <3> QED
        BY <1>1, <3>1, <3>3
    <2>2. ASSUME NEW c \in Ids, Worker(c)
          PROVE  \A b \in Ids : Good(b)
      <3>1. CASE Started(c) \/ Reclaimed(c)
        <4>1. /\ phase' = [phase EXCEPT ![c] = "sent"] /\ \E t : req' = [req EXCEPT ![c] = t]
              /\ phase[c] \in {"queued", "claimwait"} \/ Replied(c, {"fenced"})
          BY <3>1 DEF Started, Reclaimed
        <4>2. ~Done(c)
          BY <4>1 DEF Done, Lost, Replied, Outcomes, Failures
        <4>3. \A b \in Ids : b # c => req'[b] = req[b]
          BY <4>1, BatchTypes
        <4> QED
          BY <2>1, <4>1, <4>2, <4>3
      <3>2. ASSUME NEW out \in Outcomes, Settled(c, out)
            PROVE  \A b \in Ids : Good(b)
        <4>1. phase' = [phase EXCEPT ![c] = out] /\ UNCHANGED req
          BY <3>2 DEF Settled, Finish, Complete
        <4> QED
          BY <2>1, <4>1
      <3>3. ASSUME NEW l \in Phases, Moved(c, l)
            PROVE  \A b \in Ids : Good(b)
        <4>1. phase' = [phase EXCEPT ![c] = l] /\ UNCHANGED req
          BY <3>3 DEF Moved
        <4>2. ~Done(c) \/ l = "dead"
          BY <3>3 DEF Moved, Done, Lost, Replied, Outcomes, Failures
        <4> QED
          BY <2>1, <4>1, <4>2
      <3> QED
        BY <2>2, <3>1, <3>2, <3>3, WorkerShape
    <2>3. CASE Quiet \/ Pending
      BY <1>1, <2>3 DEF Quiet, Pending
    <2>4. CASE StopEnd
      <3>1. \A b \in Ids : /\ phase'[b] = phase[b] \/ phase'[b] = "dead"
                           /\ req'[b] = req[b]
        BY <2>4, BatchTypes DEF StopEnd
      <3> QED
        BY <1>1, <1>5, <3>1 DEF Done, Lost
    <2>5. ASSUME NEW last \in Ids, Emitted(last)
          PROVE  \A b \in Ids : Good(b)
      <3>1. \E l \in {"offer", "queued"} : phase' = [phase EXCEPT ![last] = l] /\ UNCHANGED req
        BY <2>5 DEF Emitted, Emit
      <3>2. ~Done(last)
        BY <2>5 DEF Emitted, BatchInv, PendingUntouched, Done, Lost, Outcomes, Failures
      <3> QED
        BY <2>1, <3>1, <3>2
    <2>6. ASSUME NEW b \in Ids, Answered(b)
          PROVE  \A c \in Ids : Good(c)
      BY <2>1, <2>6 DEF Answered
    <2>7. ASSUME NEW b \in Ids, OfferEnds(b)
          PROVE  \A c \in Ids : Good(c)
      <3>1. /\ \E l : phase' = [phase EXCEPT ![b] = l] /\ UNCHANGED req
            /\ phase[b] = "offer"
        BY <2>7 DEF OfferEnds, Complete
      <3>2. ~Done(b)
        BY <3>1 DEF Done, Lost, Outcomes, Failures
      <3> QED
        BY <2>1, <3>1, <3>2
    <2> QED
      BY <2>2, <2>3, <2>4, <2>5, <2>6, <2>7, NextShape DEF BatchInv
  <1>6. CASE Offline \/ ServeStray \/ ForeignClaim \/ \E s \in Slots : GivenUp(s)
    <2>1. UNCHANGED reply
      BY <1>6 DEF Offline, ServeStray, ForeignClaim, GivenUp, requests
    <2> QED
      BY <1>5, <2>1
  <1> QED
    BY <1>4, <1>6, NetShape DEF BatchInv

LEMMA AcceptOnce ==
  ASSUME TypeInv, OnceInv, NEW s \in Slots, NEW t \in Tuple, t # NoTuple, Accept(s, t),
         s \in Ids => ~InLog(s)
  PROVE  /\ AppliedOnce' /\ ClosedLast' /\ \A x : InLog(x)' <=> (InLog(x) \/ x = s)
  <1>1. log' = Append(log, s) /\ sClosed = NoTuple /\ sClosed' = IF s = 0 THEN t ELSE sClosed
    BY DEF Accept, Accepts
  <1>2. /\ Len(log') = Len(log) + 1 /\ log'[Len(log) + 1] = s /\ Len(log) \in Nat
        /\ \A i \in 1..Len(log) : log'[i] = log[i]
        /\ \A x : InLog(x)' <=> (InLog(x) \/ x = s)
    BY <1>1, LogGrows, LogTypes
  <1>3. ~InLog(s)
    BY <1>1, BatchTypes DEF OnceInv, ClosedLast
  <1>4. \A i \in 1..Len(log) : log[i] # s
    BY <1>3 DEF InLog
  <1>5. AppliedOnce'
    <2> SUFFICES ASSUME NEW i \in 1..Len(log'), NEW j \in 1..Len(log'), log'[i] = log'[j],
                        log'[i] # Foreign
                 PROVE  i = j
      BY DEF AppliedOnce
    <2>1. /\ i \in 1..Len(log) \/ i = Len(log) + 1
          /\ j \in 1..Len(log) \/ j = Len(log) + 1
      BY <1>2
    <2>2. CASE i \in 1..Len(log) /\ j \in 1..Len(log)
      BY <1>2, <2>2 DEF OnceInv, AppliedOnce
    <2> QED
      BY <1>2, <1>4, <2>1, <2>2
  <1>6. ClosedLast'
    BY <1>1, <1>2 DEF OnceInv, ClosedLast
  <1> QED
    BY <1>2, <1>5, <1>6

LEMMA NextOnce ==
  ASSUME TypeInv, BatchInv, OnceInv, [Next]_vars
  PROVE  OnceInv'
  <1>0. EmittedAdmitted /\ LoggedDone /\ StrayOnce
    BY DEF BatchInv, OnceInv
  \* Nothing arrives at the server.
  <1>2. ASSUME UNCHANGED server,
               \A r \in strays' : r \in strays \/
                 \E s \in Slots : /\ phase[s] = "sent" /\ r = [slot |-> s, req |-> req[s]]
                                  /\ s \in Ids => req'[s] = req[s] /\ Lost(s)'
        PROVE  OnceInv'
    <2>0. UNCHANGED <<log, sClosed>> /\ \A x : InLog(x)' <=> InLog(x)
      BY <1>2 DEF server, InLog
    <2>1. LoggedDone'
      BY <1>0, <2>0, DoneStays DEF LoggedDone
    <2>2. StrayOnce'
      <3> SUFFICES ASSUME NEW r \in strays', r.slot \in Ids
                   PROVE  r.req = req'[r.slot] /\ ~InLog(r.slot)' /\ Lost(r.slot)'
        BY DEF StrayOnce
      <3>1. CASE r \in strays
        BY <1>0, <2>0, <3>1, DoneStays DEF StrayOnce, Done
      <3>2. CASE r \notin strays
        <4>1. PICK s \in Slots : /\ phase[s] = "sent" /\ r = [slot |-> s, req |-> req[s]]
                                 /\ s \in Ids => req'[s] = req[s] /\ Lost(s)'
          BY <1>2, <3>2
        <4>2. r.slot = s /\ r.req = req[s] /\ s \in Ids
          BY <4>1
        <4>3. ~InLog(s)
          BY <1>0, <4>1, <4>2 DEF LoggedDone, Done, Lost, Outcomes, Failures
        <4> QED
          BY <2>0, <4>1, <4>2, <4>3
      <3> QED
        BY <3>1, <3>2
    <2>3. ClosedLast' /\ AppliedOnce'
      BY <2>0 DEF OnceInv, ClosedLast, AppliedOnce, InLog
    <2> QED
      BY <2>1, <2>2, <2>3 DEF OnceInv
  <1>3. CASE Offline
    BY <1>2, <1>3 DEF Offline
  <1>4. ASSUME NEW s \in Slots, GivenUp(s)
        PROVE  OnceInv'
    <2>1. s \in Ids => phase'[s] = "dead"
      BY <1>4, BatchTypes DEF GivenUp
    <2>2. s \in Ids => Lost(s)'
      BY <2>1 DEF Lost
    <2> QED
      BY <1>2, <1>4, <2>2 DEF GivenUp
  <1>5. ASSUME NEW s \in Slots, Fault(s)
        PROVE  OnceInv'
    <2>1. /\ phase' = [phase EXCEPT ![s] = "replied"] /\ UNCHANGED <<req, server>>
          /\ reply' = [reply EXCEPT ![s] = [NoAnswer EXCEPT !.kind = "rejected"]]
          /\ strays' = Abandoned(s)
      BY <1>5 DEF Fault
    <2>2. phase'[s] = "replied" /\ reply'[s].kind = "rejected"
      BY <2>1, BatchTypes DEF NoAnswer
    <2>3. Lost(s)'
      BY <2>2 DEF Lost
    <2> QED
      BY <1>2, <2>1, <2>3 DEF Abandoned
  <1>6. ASSUME NEW s \in Slots, Serve(s)
        PROVE  OnceInv'
    <2>1. phase[s] = "sent" /\ UNCHANGED strays
      BY <1>6 DEF Serve
    <2>2. CASE UNCHANGED server
      BY <1>2, <2>1, <2>2
    <2>3. ASSUME Accept(s, req[s]),
                 reply' = [reply EXCEPT ![s] = [kind |-> "ok", num |-> 0,
                                          offset |-> Len(log) + 1, closed |-> s = 0]]
          PROVE  OnceInv'
      <3>1. s \in Ids => ~InLog(s) /\ ~Lost(s)
        BY <1>0, <2>1 DEF LoggedDone, Done, Lost, Outcomes, Failures
      <3>2. PICK t \in Tuple : t = req[s]
        BY ServerTypes
      <3>3. t # NoTuple
        <4>1. sEpoch \in Int /\ sLast \in Int /\ sEpoch >= -1 /\ sLast >= -1
          BY DEF TypeInv, TypeOK, ServerType
        <4> QED
          BY <2>3, <3>2, <4>1 DEF Accept, Accepts, NoTuple
      <3>4. /\ AppliedOnce' /\ ClosedLast' /\ \A x : InLog(x)' <=> (InLog(x) \/ x = s)
        BY <2>3, <3>1, <3>2, <3>3, AcceptOnce
      <3>5. s \in Ids => Done(s)'
        <4>1. phase'[s] = "replied" /\ reply'[s].kind = "ok"
          BY <1>6, <2>3, BatchTypes DEF Serve
        <4> QED
          BY <4>1 DEF Done
      <3>6. LoggedDone'
        BY <1>0, <3>4, <3>5, DoneStays DEF LoggedDone
      <3>7. StrayOnce'
        BY <1>0, <2>1, <3>1, <3>4, DoneStays DEF StrayOnce, Done
      <3> QED
        BY <3>4, <3>6, <3>7 DEF OnceInv
    <2> QED
      BY <1>6, <2>2, <2>3 DEF Serve
  <1>7. CASE ServeStray
    <2>1. PICK r \in strays : /\ strays' = strays \ {r}
                              /\ \/ Accept(r.slot, r.req)
                                 \/ ~Accepts(r.req) /\ UNCHANGED server
      BY <1>7 DEF ServeStray
    <2>2. CASE UNCHANGED server
      BY <1>2, <2>1, <2>2
    <2>3. ASSUME Accept(r.slot, r.req)
          PROVE  OnceInv'
      <3>1. r \in [slot : Slots, req : Tuple] /\ r.slot \in Slots /\ r.req \in Tuple
        BY LogTypes
      <3>2. r.slot \in Ids => ~InLog(r.slot) /\ Lost(r.slot)
        BY <1>0 DEF StrayOnce
      <3>3. r.req # NoTuple
        <4>1. sEpoch \in Int /\ sLast \in Int /\ sEpoch >= -1 /\ sLast >= -1
          BY DEF TypeInv, TypeOK, ServerType
        <4> QED
          BY <2>3, <4>1 DEF Accept, Accepts, NoTuple
      <3>4. /\ AppliedOnce' /\ ClosedLast' /\ \A x : InLog(x)' <=> (InLog(x) \/ x = r.slot)
        BY <2>3, <3>1, <3>2, <3>3, AcceptOnce
      <3>5. LoggedDone'
        BY <1>0, <3>2, <3>4, DoneStays DEF LoggedDone, Done
      <3>6. \A q \in strays' : q.slot \in Ids => q.slot # r.slot
        <4> SUFFICES ASSUME NEW q \in strays', q.slot \in Ids, q.slot = r.slot
                     PROVE  FALSE
          OBVIOUS
        <4>1. q \in strays /\ q # r /\ q \in [slot : Slots, req : Tuple]
          BY <2>1, LogTypes
        <4>2. q.req = req[q.slot] /\ r.req = req[r.slot]
          BY <1>0, <4>1 DEF StrayOnce
        <4> QED
          BY <3>1, <4>1, <4>2
      <3>7. StrayOnce'
        BY <1>0, <2>1, <3>4, <3>6, DoneStays DEF StrayOnce, Done
      <3> QED
        BY <3>4, <3>5, <3>7 DEF OnceInv
    <2> QED
      BY <2>1, <2>2, <2>3
  <1>8. CASE ForeignClaim
    <2>1. log' = Append(log, Foreign) /\ UNCHANGED <<sClosed, strays>> /\ sClosed = NoTuple
      BY <1>8 DEF ForeignClaim
    <2>2. /\ Len(log') = Len(log) + 1 /\ log'[Len(log) + 1] = Foreign /\ Len(log) \in Nat
          /\ \A i \in 1..Len(log) : log'[i] = log[i]
          /\ \A x : InLog(x)' <=> (InLog(x) \/ x = Foreign)
      BY <2>1, LogGrows, LogTypes
    <2>3. \A s \in Slots : InLog(s)' <=> InLog(s)
      BY <2>2, LogTypes
    <2>4. LoggedDone' /\ StrayOnce'
      BY <1>0, <2>1, <2>3, DoneStays, BatchTypes DEF LoggedDone, StrayOnce, Done
    <2>5. ClosedLast'
      BY <2>1, <2>3, LogTypes DEF OnceInv, ClosedLast
    <2>6. AppliedOnce'
      <3> SUFFICES ASSUME NEW i \in 1..Len(log'), NEW j \in 1..Len(log'), log'[i] = log'[j],
                          log'[i] # Foreign
                   PROVE  i = j
        BY DEF AppliedOnce
      <3>1. i \in 1..Len(log) /\ j \in 1..Len(log)
        BY <2>2
      <3> QED
        BY <2>2, <3>1 DEF OnceInv, AppliedOnce
    <2> QED
      BY <2>4, <2>5, <2>6 DEF OnceInv
  <1> QED
    BY <1>0, <1>3, <1>4, <1>5, <1>6, <1>7, <1>8, NetShape

LEMMA InitOnce == Init => OnceInv
  <1> SUFFICES ASSUME Init PROVE OnceInv
    OBVIOUS
  <1>1. log = <<>> /\ sClosed = NoTuple /\ strays = {}
    BY DEF Init
  <1>2. \A i : i \notin 1..Len(log)
    BY <1>1
  <1> QED
    BY <1>1, <1>2 DEF OnceInv, LoggedDone, StrayOnce, ClosedLast, AppliedOnce, InLog

\* No batch, and no close, is stored twice: not by a request sent again after
\* its answer was lost, nor by one that arrives after its client gave up.
THEOREM NothingStoredTwice == Spec => []AppliedOnce
  <1> DEFINE Inv == TypeInv /\ BatchInv /\ OnceInv
  <1>1. Init => Inv
    BY InitType, InitBatches, InitOnce
  <1>2. Inv /\ [Next]_vars => Inv'
    BY NextType, NextBatches, NextOnce
  <1>3. Inv => AppliedOnce
    BY DEF OnceInv
  <1> HIDE DEF Inv
  <1> QED
    BY <1>1, <1>2, <1>3, PTL DEF Spec

-----------------------------------------------------------------------------
(* Whatever is acknowledged is stored.                                     *)

\* The producer's epochs never meet those of another writer: a fresh producer
\* id, or an epoch of its own that no restart can raise to the server's.
OwnEpochs == (ServerEpoch = -1 /\ MaxForeign = 0) \/ (Restarts = {} /\ ServerEpoch # 0)
OurEpoch(e) == e = 0 \/ (AutoClaim /\ e > ServerEpoch)
OurNames ==
  /\ Restarts = {} => OurEpoch(epoch)
  /\ \A b \in Ids : Name(b) # NoTuple =>
        Name(b).seq >= 0 /\ (Restarts = {} => OurEpoch(Name(b).epoch))

\* Every sequence the server has accepted in its epoch is one of our batches.
Covered ==
  \A q \in 0..sLast : \E i \in 1..Len(log) :
     log[i] \in Ids /\ req[log[i]] = [epoch |-> sEpoch, seq |-> q]
ServerOurs ==
  sClosed = NoTuple =>
    Covered \/ (Restarts = {} /\ sEpoch # 0 /\ (AutoClaim => sEpoch = ServerEpoch))
ClosedName ==
  /\ sClosed # NoTuple => closeRequest # NoTuple
  /\ \A r \in strays : r.slot = 0 => closeRequest # NoTuple
\* A success is never a duplicate of something else.
AckedReply ==
  \A b \in Ids : phase[b] = "replied" =>
    /\ reply[b].kind # "dup"
    /\ reply[b].kind = "ok" => /\ reply[b].offset \in 1..Len(log)
                               /\ log[reply[b].offset] = b
LogInv == OurNames /\ ServerOurs /\ ClosedName /\ AckedReply /\ AckedIsLogged

LEMMA NextOurNames ==
  ASSUME SequenceInv, OurNames, OneLifecycle, [Next]_vars
  PROVE  OurNames'
  <1>0. /\ TypeInv /\ BatchInv /\ ClaimInv /\ CloseInv /\ EpochInv /\ NameInv
        /\ epoch \in Nat /\ nextSeq \in Nat /\ ServerEpoch \in Int
    BY BatchTypes, ServerTypes DEF SequenceInv
  <1>1. Restarts = {} => OurEpoch(epoch) /\ OurEpoch(epoch')
    <2> SUFFICES ASSUME Restarts = {} PROVE OurEpoch(epoch) /\ OurEpoch(epoch')
      OBVIOUS
    <2>0. OurEpoch(epoch)
      BY DEF OurNames
    <2>1. ASSUME NEW b \in Ids, Reclaimed(b)
          PROVE  OurEpoch(epoch')
      <3>1. /\ phase[b] = "replied" /\ reply[b].kind = "fenced" /\ AutoClaim
            /\ epoch' = reply[b].num + 1
        BY <2>1 DEF Reclaimed, Replied
      <3>2. reply[b].num = ServerEpoch
        BY <1>0, <3>1, BatchTypes DEF EpochInv, FencedByServer
      <3> QED
        BY <1>0, <3>1, <3>2 DEF OurEpoch
    <2>2. ASSUME NEW c \in Closes, CloseReclaimed(c)
          PROVE  OurEpoch(epoch')
      <3>1. /\ phase[0] = "replied" /\ reply[0].kind = "fenced" /\ AutoClaim
            /\ epoch' = reply[0].num + 1
        BY <2>2 DEF CloseReclaimed, CloseAnswered
      <3>2. reply[0].num = ServerEpoch
        BY <1>0, <3>1, BatchTypes DEF EpochInv, FencedByServer
      <3> QED
        BY <1>0, <3>1, <3>2 DEF OurEpoch
    <2> QED
      BY <1>0, <2>0, <2>1, <2>2, EpochSteps DEF EpochKept
  <1>2. ASSUME NEW b \in Ids, Name(b)' # NoTuple
        PROVE  (Name(b)').seq >= 0 /\ (Restarts = {} => OurEpoch((Name(b)').epoch))
    <2>1. CASE Name(b)' = Name(b)
      BY <1>2, <2>1 DEF OurNames
    <2>2. CASE GivesOut /\ Renamed(b)
      BY <1>0, <1>1, <2>2 DEF GivesOut
    <2>3. CASE Name(b)' = [epoch |-> epoch', seq |-> 0]
      BY <1>1, <2>3
    <2> QED
      BY <1>0, <2>1, <2>2, <2>3, NameSteps DEF Renamed, BeginsEpoch
  <1> QED
    BY <1>1, <1>2 DEF OurNames, OurEpoch

\* A named batch that is not stored lies ahead of what the server accepted.
LEMMA AheadOfServer ==
  ASSUME SequenceInv, LogInv, OwnEpochs, sClosed = NoTuple,
         NEW b \in Ids, ~InLog(b), req[b] # NoTuple, req[b].epoch = sEpoch
  PROVE  Covered /\ req[b].seq > sLast
  <1>0. Name(b) = req[b] /\ sLast \in Int /\ sEpoch \in Int /\ req[b].seq \in Int /\ TypeInv
        /\ req[b] \in Tuple
    BY BatchTypes, ServerTypes DEF SequenceInv, Name
  <1>1. Covered
    BY <1>0, ServerTypes DEF LogInv, ServerOurs, OurNames, OurEpoch
  <1>2. ASSUME req[b].seq <= sLast
        PROVE  FALSE
    <2>1. req[b].seq \in 0..sLast
      BY <1>0, <1>2 DEF LogInv, OurNames
    <2>2. PICK i \in 1..Len(log) :
                 log[i] \in Ids /\ req[log[i]] = [epoch |-> sEpoch, seq |-> req[b].seq]
      BY <1>1, <2>1 DEF Covered
    <2>3. req[log[i]] = req[b]
      BY <1>0, <2>2 DEF Tuple
    <2>4. Name(log[i]) = Name(b)
      BY <1>0, <2>3 DEF Name
    <2>5. log[i] = b
      BY <1>0, <2>2, <2>4 DEF SequenceInv, NameInv, NamesDistinct
    <2> QED
      BY <2>2, <2>5 DEF InLog
  <1> QED
    BY <1>0, <1>1, <1>2

\* What the server accepts of a batch extends what it has of ours.
LEMMA AcceptOurs ==
  ASSUME SequenceInv, OnceInv, LogInv, OwnEpochs, [Next]_vars,
         NEW b \in Ids, ~InLog(b), req[b] # NoTuple, req'[b] = req[b], Accept(b, req[b])
  PROVE  Covered'
  <1>0. /\ TypeInv /\ BatchInv /\ sLast \in Int /\ sEpoch \in Int /\ req[b] \in Tuple
        /\ b \in Slots /\ \A t \in Tuple : t.seq \in Int /\ t.epoch \in Int
        /\ Len(log) \in Nat
    BY BatchTypes, ServerTypes, LogTypes DEF SequenceInv
  <1>1. /\ sClosed = NoTuple /\ log' = Append(log, b)
        /\ sEpoch' = req[b].epoch /\ sLast' = req[b].seq
        /\ \/ req[b].epoch > sEpoch /\ req[b].seq = 0
           \/ req[b].epoch = sEpoch /\ req[b].seq = sLast + 1
    BY DEF Accept, Accepts
  <1>2. /\ Len(log') = Len(log) + 1 /\ log'[Len(log) + 1] = b
        /\ \A i \in 1..Len(log) : log'[i] = log[i]
    BY <1>0, <1>1, LogGrows
  <1>3. req[b] = [epoch |-> sEpoch', seq |-> sLast']
    BY <1>0, <1>1 DEF Tuple
  <1> SUFFICES ASSUME NEW q \in 0..sLast'
               PROVE  \E i \in 1..Len(log') :
                         log'[i] \in Ids /\ req'[log'[i]] = [epoch |-> sEpoch', seq |-> q]
    BY DEF Covered
  <1>4. CASE q = sLast'
    <2>1. Len(log) + 1 \in 1..Len(log')
      BY <1>0, <1>2
    <2> QED
      BY <1>2, <1>3, <1>4, <2>1
  <1>5. CASE q # sLast'
    <2>1. req[b].epoch = sEpoch /\ q \in 0..sLast /\ sEpoch' = sEpoch
      BY <1>0, <1>1, <1>5
    <2>2. PICK i \in 1..Len(log) : log[i] \in Ids /\ req[log[i]] = [epoch |-> sEpoch, seq |-> q]
      BY <1>1, <2>1, AheadOfServer DEF Covered
    <2>3. Done(log[i])
      BY <2>2 DEF OnceInv, LoggedDone, InLog
    <2>4. req'[log[i]] = req[log[i]]
      BY <1>0, <2>2, <2>3, DoneStays
    <2>5. i \in 1..Len(log') /\ log'[i] = log[i]
      BY <1>0, <1>2
    <2> QED
      BY <2>1, <2>2, <2>4, <2>5
  <1> QED
    BY <1>4, <1>5

LEMMA NextServerOurs ==
  ASSUME SequenceInv, OnceInv, LogInv, OwnEpochs, OneClaimant, [Next]_vars
  PROVE  ServerOurs'
  <1>0. /\ TypeInv /\ BatchInv /\ EmittedAdmitted /\ sEpoch \in Int /\ sEpoch >= -1
    BY DEF SequenceInv, BatchInv, TypeInv, TypeOK, ServerType
  <1>1. ASSUME UNCHANGED server
        PROVE  ServerOurs'
    <2>1. \A i \in 1..Len(log) : log[i] \in Ids => req'[log[i]] = req[log[i]]
      BY <1>0, DoneStays DEF OnceInv, LoggedDone, InLog
    <2>2. Covered => Covered'
      BY <1>1, <2>1 DEF Covered, server
    <2> QED
      BY <1>1, <2>2 DEF LogInv, ServerOurs, server
  <1>2. CASE ForeignClaim
    <2>1. ~(ServerEpoch = -1 /\ MaxForeign = 0) /\ ~AutoClaim
      BY <1>0, <1>2, ServerTypes DEF ForeignClaim, OneClaimant
    <2>2. sEpoch' # 0
      BY <1>0, <1>2 DEF ForeignClaim
    <2> QED
      BY <2>1, <2>2 DEF OwnEpochs, ServerOurs
  <1>3. ASSUME NEW s \in Slots, NEW t \in Tuple, Accept(s, t),
               s \in Ids => ~InLog(s) /\ t = req[s] /\ req'[s] = req[s]
        PROVE  ServerOurs'
    <2>1. t # NoTuple
      <3>1. sLast \in Int /\ sLast >= -1
        BY <1>0 DEF TypeInv, TypeOK, ServerType
      <3> QED
        BY <1>0, <1>3, <3>1 DEF Accept, Accepts, NoTuple
    <2>2. CASE s = 0
      BY <1>3, <2>1, <2>2 DEF Accept, ServerOurs
    <2>3. CASE s \in Ids
      BY <1>3, <2>1, <2>3, AcceptOurs DEF ServerOurs
    <2> QED
      BY <1>0, <2>2, <2>3, BatchTypes
  <1>4. ASSUME NEW s \in Slots, Serve(s)
        PROVE  ServerOurs'
    <2>1. s \in Ids => ~InLog(s)
      BY <1>4 DEF Serve, OnceInv, LoggedDone, Done, Lost, Outcomes, Failures
    <2>2. UNCHANGED req /\ (UNCHANGED server \/ Accept(s, req[s])) /\ req[s] \in Tuple
      BY <1>0, <1>4, BatchTypes DEF Serve
    <2> QED
      BY <1>1, <1>3, <2>1, <2>2
  <1>5. CASE ServeStray
    <2>1. PICK r \in strays : Accept(r.slot, r.req) \/ UNCHANGED server
      BY <1>5 DEF ServeStray
    <2>2. r.slot \in Slots /\ r.req \in Tuple /\ UNCHANGED req
      BY <1>0, <1>5, LogTypes DEF ServeStray, requests
    <2>3. r.slot \in Ids => ~InLog(r.slot) /\ r.req = req[r.slot]
      BY DEF OnceInv, StrayOnce
    <2> QED
      BY <1>1, <1>3, <2>1, <2>2, <2>3
  <1> QED
    BY <1>0, <1>1, <1>2, <1>4, <1>5, NetShape DEF Offline, GivenUp, Fault

\* A close keeps its tuple, unless another one takes its place.
LEMMA CloseStays ==
  ASSUME TypeInv, BatchInv, CloseInv, OneLifecycle, [Next]_vars, closeRequest # NoTuple
  PROVE  closeRequest' # NoTuple
  <1>1. ASSUME NEW c \in Closes, SendClose(c) \/ CloseAnswered(c)
        PROVE  closeRequest' # NoTuple
    BY <1>1, BatchTypes DEF SendClose, CloseAnswered, NoTuple
  <1>2. ASSUME NEW c \in Restarts
        PROVE  FALSE
    BY <1>2, PlaceTypes DEF CloseInv, CloseReady, OneLifecycle
  <1> QED
    BY <1>1, <1>2, CloseTuple

LEMMA NextClosedName ==
  ASSUME SequenceInv, ClosedName, OneLifecycle, [Next]_vars
  PROVE  ClosedName'
  <1>0. TypeInv /\ BatchInv /\ EmittedAdmitted /\ CloseInv
    BY DEF SequenceInv, BatchInv
  <1>1. closeRequest # NoTuple => closeRequest' # NoTuple
    BY <1>0, CloseStays
  <1>2. phase[0] = "sent" => closeRequest # NoTuple
    BY <1>0 DEF CloseInv, CloseSlot
  <1>3. \A r \in strays' : r.slot = 0 => closeRequest # NoTuple
    <2>1. ASSUME NEW r \in strays', r \notin strays
          PROVE  phase[r.slot] = "sent"
      BY <1>0, <2>1, NetShape
         DEF Offline, ServeStray, ForeignClaim, GivenUp, Serve, Fault, Abandoned
    <2> QED
      BY <1>2, <2>1 DEF ClosedName
  <1>4. sClosed' # NoTuple => closeRequest # NoTuple
    <2>1. CASE UNCHANGED sClosed
      BY <2>1 DEF ClosedName
    <2>2. ASSUME NEW s \in Slots, Serve(s), sClosed' # sClosed
          PROVE  closeRequest # NoTuple
      BY <1>2, <2>2 DEF Serve, Accept, server
    <2>3. ASSUME ServeStray, sClosed' # sClosed
          PROVE  closeRequest # NoTuple
      BY <2>3 DEF ServeStray, Accept, server, ClosedName
    <2> QED
      BY <1>0, <2>1, <2>2, <2>3, NetShape DEF Offline, GivenUp, Fault, ForeignClaim, server
  <1> QED
    BY <1>1, <1>3, <1>4 DEF ClosedName

\* What the log holds stays where it is.
LEMMA LogKept ==
  ASSUME TypeInv, EmittedAdmitted, [Next]_vars
  PROVE  Len(log') >= Len(log) /\ \A i \in 1..Len(log) : log'[i] = log[i]
  <1>0. Len(log) \in Nat
    BY LogTypes
  <1>1. CASE UNCHANGED log
    BY <1>0, <1>1
  <1>2. ASSUME NEW s \in Slots \cup {Foreign}, log' = Append(log, s)
        PROVE  Len(log') >= Len(log) /\ \A i \in 1..Len(log) : log'[i] = log[i]
    BY <1>0, <1>2, LogGrows
  <1>3. ASSUME NEW s \in Slots, NEW t, Accept(s, t)
        PROVE  log' = Append(log, s)
    BY <1>3 DEF Accept
  <1>4. CASE ServeStray
    <2>1. PICK r \in strays : Accept(r.slot, r.req) \/ UNCHANGED server
      BY <1>4 DEF ServeStray
    <2>2. r.slot \in Slots
      BY <1>0, LogTypes
    <2> QED
      BY <1>1, <1>2, <1>3, <2>1, <2>2 DEF server
  <1>5. CASE ForeignClaim
    BY <1>2, <1>5 DEF ForeignClaim
  <1>6. ASSUME NEW s \in Slots, Serve(s)
        PROVE  UNCHANGED log \/ log' = Append(log, s)
    BY <1>6 DEF Serve, Accept, server
  <1> QED
    BY <1>0, <1>1, <1>2, <1>4, <1>5, <1>6, NetShape DEF Offline, GivenUp, Fault, server

LEMMA NextAckedReply ==
  ASSUME SequenceInv, OnceInv, LogInv, OwnEpochs, [Next]_vars
  PROVE  AckedReply'
  <1>0. TypeInv /\ BatchInv /\ EmittedAdmitted /\ CloseInv /\ AckedReply /\ Len(log) \in Nat
    BY LogTypes DEF SequenceInv, BatchInv, LogInv
  <1> DEFINE Right(b) == /\ reply'[b].kind # "dup"
                         /\ reply'[b].kind = "ok" => /\ reply'[b].offset \in 1..Len(log')
                                                     /\ log'[reply'[b].offset] = b
  <1>1. Len(log') >= Len(log) /\ \A i \in 1..Len(log) : log'[i] = log[i]
    BY <1>0, LogKept
  <1>2. ASSUME NEW b \in Ids, phase[b] = "replied", reply'[b] = reply[b]
        PROVE  Right(b)
    <2>1. /\ reply[b].kind # "dup"
          /\ reply[b].kind = "ok" => reply[b].offset \in 1..Len(log) /\ log[reply[b].offset] = b
      BY <1>0, <1>2 DEF AckedReply
    <2>2. 1..Len(log) \subseteq 1..Len(log')
      <3>1. Len(log') \in Int
        <4>1. TypeInv'
          BY <1>0, NextType
        <4>2. log' \in Seq(Slots \cup {Foreign})
          BY <4>1 DEF TypeInv, TypeOK, ServerType
        <4> QED
          BY <4>2
      <3> QED
        BY <1>0, <1>1, <3>1
    <2> QED
      BY <1>1, <1>2, <2>1, <2>2
  <1>3. ASSUME NEW s \in Slots, Serve(s), NEW b \in Ids, phase'[b] = "replied"
        PROVE  Right(b)
    <2>0. /\ phase[s] = "sent" /\ phase' = [phase EXCEPT ![s] = "replied"]
          /\ \E r : reply' = [reply EXCEPT ![s] = r]
      BY <1>3 DEF Serve
    <2>1. CASE b # s
      <3>1. phase[b] = "replied" /\ reply'[b] = reply[b]
        BY <1>0, <1>3, <2>0, <2>1, BatchTypes
      <3> QED
        BY <1>2, <3>1
    <2>2. CASE b = s /\ Accept(b, req[b]) /\
               reply' = [reply EXCEPT ![b] = [kind |-> "ok", num |-> 0,
                                              offset |-> Len(log) + 1, closed |-> b = 0]]
      <3>1. log' = Append(log, b) /\ b \in Slots
        BY <1>0, <2>2, BatchTypes DEF Accept
      <3>2. Len(log') = Len(log) + 1 /\ log'[Len(log) + 1] = b
        BY <1>0, <3>1, LogGrows
      <3>3. reply'[b].kind = "ok" /\ reply'[b].offset = Len(log) + 1
        BY <1>0, <2>2, <3>1, BatchTypes
      <3> QED
        BY <1>0, <3>2, <3>3
    <2>3. ASSUME b = s, NEW r \in Refusals(req[b]), reply' = [reply EXCEPT ![b] = r],
                 ~Accepts(req[b])
          PROVE  Right(b)
      <3>1. reply'[b] = r
        BY <1>0, <2>3, BatchTypes
      <3>2. sClosed = NoTuple
        BY <1>0, <2>0, <2>3 DEF LogInv, ClosedName, CloseInv, CloseReady, Active, Working
      <3>3. req[b] # NoTuple /\ ~InLog(b)
        BY <2>0, <2>3 DEF SequenceInv, EpochInv, TupleNow, InFlight, OnceInv, LoggedDone,
           Done, Lost, Outcomes, Failures
      <3>4. req[b].epoch = sEpoch => req[b].seq > sLast
        BY <3>2, <3>3, AheadOfServer
      <3>5. req[b].seq \in Int /\ sLast \in Int
        BY <1>0, ServerTypes, BatchTypes
      <3>6. CASE req[b].epoch < sEpoch
        <4>1. r.kind = "fenced"
          BY <2>3, <3>2, <3>6 DEF Refusals
        <4> QED
          BY <3>1, <4>1
      <3>7. CASE ~(req[b].epoch < sEpoch) /\ req[b].epoch > sEpoch
        <4>1. r.kind \in {"gap", "rejected"}
          BY <2>3, <3>2, <3>7 DEF Refusals
        <4> QED
          BY <3>1, <4>1
      <3>8. CASE ~(req[b].epoch < sEpoch) /\ ~(req[b].epoch > sEpoch)
        <4>1. req[b].epoch = sEpoch
          BY <1>0, <3>8, ServerTypes, BatchTypes
        <4>2. ~(req[b].seq <= sLast)
          BY <3>4, <3>5, <4>1
        <4>3. r.kind = "gap"
          BY <2>3, <3>2, <3>8, <4>2 DEF Refusals
        <4> QED
          BY <3>1, <4>3
      <3> QED
        BY <3>6, <3>7, <3>8
    <2> QED
      BY <1>3, <2>1, <2>2, <2>3 DEF Serve
  <1>4. ASSUME NEW s \in Slots, Fault(s), NEW b \in Ids, phase'[b] = "replied"
        PROVE  Right(b)
    <2>1. /\ phase' = [phase EXCEPT ![s] = "replied"]
          /\ reply' = [reply EXCEPT ![s] = [NoAnswer EXCEPT !.kind = "rejected"]]
      BY <1>4 DEF Fault
    <2>2. CASE b # s
      <3>1. phase[b] = "replied" /\ reply'[b] = reply[b]
        BY <1>0, <1>4, <2>1, <2>2, BatchTypes
      <3> QED
        BY <1>2, <3>1
    <2>3. CASE b = s
      <3>1. reply'[b].kind = "rejected"
        BY <1>0, <2>1, <2>3, BatchTypes DEF NoAnswer
      <3> QED
        BY <3>1
    <2> QED
      BY <2>2, <2>3
  <1>5. ASSUME Offline \/ ServeStray \/ ForeignClaim \/ \E s \in Slots : GivenUp(s),
               NEW b \in Ids, phase'[b] = "replied"
        PROVE  Right(b)
    <2>1. phase[b] = "replied" /\ reply'[b] = reply[b]
      BY <1>0, <1>5, BatchTypes DEF Offline, ServeStray, ForeignClaim, GivenUp, requests
    <2> QED
      BY <1>2, <2>1
  <1>6. \A b \in Ids : phase'[b] = "replied" => Right(b)
    BY <1>0, <1>3, <1>4, <1>5, NetShape
  <1> QED
    BY <1>6 DEF AckedReply

\* recordOffset never goes back.
LEMMA OffsetGrows ==
  ASSUME TypeInv, [Next]_vars
  PROVE  offset' >= offset
  <1>0. offset \in Nat /\ \A s \in Slots : reply[s].offset \in Nat
    BY LogTypes
  <1>1. \A s \in Slots : RecordedOffset(s) >= offset
    BY <1>0 DEF RecordedOffset
  <1>2. ASSUME NEW c \in Calls, Call(c)
        PROVE  UNCHANGED offset \/ offset' = RecordedOffset(0)
    BY <1>2 DEF Call, BeginAppend, Admit, Receive, EndSource, Flush, EndFlush, BeginDetach,
       BeginRestart, ShutAdmission, FinishRestart, BeginClose, SendClose, CloseAnswered,
       CloseStopped, Stopped, settled
  <1>3. ASSUME NEW b \in Ids, Worker(b)
        PROVE  UNCHANGED offset \/ offset' = RecordedOffset(b)
    BY <1>3, WorkerShape DEF Started, Reclaimed, Settled, Moved, settled
  <1>4. CASE Fiber \/ StopBegin \/ ServeStray \/ ForeignClaim \/ UNCHANGED vars
             \/ (\E c \in Calls : Interrupt(c)) \/ \E s \in Slots : Serve(s) \/ Fault(s)
    <2>1. UNCHANGED offset
      BY <1>4 DEF Fiber, Linger, Offered, LingerStopped, StopEnd, StopBegin, ServeStray,
         ForeignClaim, vars, settled, Interrupt, Serve, Fault
    <2> QED
      BY <1>0, <2>1
  <1> QED
    BY <1>0, <1>1, <1>2, <1>3, <1>4, BatchTypes DEF Next, Terminated

\* An append succeeds only when a worker hears of the success of its batch.
LEMMA AckedBy ==
  ASSUME TypeInv, EmittedAdmitted, [Next]_vars, NEW e \in Ids, receipt'[e] = "ok"
  PROVE  receipt[e] = "ok" \/ \E b \in Ids : Worker(b) /\ Settled(b, "ok") /\ e \in Entries(b)
  <1>1. ASSUME NEW b \in Ids, NEW out, NEW seqs, Complete(b, out, seqs)
        PROVE  receipt[e] = "ok" \/ (out = "ok" /\ e \in Entries(b))
    BY <1>1 DEF Complete
  <1>2. ASSUME NEW b \in Ids, Worker(b)
        PROVE  receipt[e] = "ok" \/ (Settled(b, "ok") /\ e \in Entries(b))
    <2>1. CASE UNCHANGED receipt
      BY <2>1
    <2>2. ASSUME NEW out \in Outcomes, Settled(b, out)
          PROVE  receipt[e] = "ok" \/ (Settled(b, "ok") /\ e \in Entries(b))
      <3>1. \E seqs : Complete(b, out, seqs)
        BY <2>2 DEF Settled, Finish
      <3> QED
        BY <1>1, <2>2, <3>1
    <2> QED
      BY <1>2, <2>1, <2>2, WorkerShape DEF Started, Reclaimed, Moved, settled
  <1>3. CASE Quiet \/ Pending \/ (\E last \in Ids : Emitted(last)) \/ \E b \in Ids : Answered(b)
    BY <1>3 DEF Quiet, Pending, Emitted, Answered, batchState
  <1>4. CASE StopEnd
    BY <1>4 DEF StopEnd
  <1>5. ASSUME NEW b \in Ids, OfferEnds(b)
        PROVE  receipt[e] = "ok"
    BY <1>1, <1>5 DEF OfferEnds
  <1> QED
    BY <1>2, <1>3, <1>4, <1>5, NextShape

LEMMA LoggedFrom ==
  ASSUME TypeInv, BatchInv, OnceInv, [Next]_vars, NEW b \in Ids, InLog(b)
  PROVE  from'[b] = from[b]
  <1>1. ASSUME NEW last \in Ids, Emitted(last)
        PROVE  from'[b] = from[b]
    <2>1. from' = [from EXCEPT ![last] = emitted + 1] /\ last > emitted
      BY <1>1 DEF Emitted, Emit
    <2>2. b # last
      BY <2>1 DEF BatchInv, PendingUntouched, OnceInv, LoggedDone, Done, Lost, Outcomes, Failures
    <2> QED
      BY <2>1, <2>2, BatchTypes
  <1>2. CASE \/ Quiet \/ Pending \/ StopEnd \/ \E c \in Ids : Worker(c) \/ Answered(c) \/ OfferEnds(c)
    <2>1. UNCHANGED from
      BY <1>2, WorkerShape DEF WorkerKeeps, Quiet, Pending, StopEnd, Answered, OfferEnds, batchState
    <2> QED
      BY <2>1
  <1> QED
    BY <1>1, <1>2, NextShape DEF BatchInv

LEMMA NextAckedIsLogged ==
  ASSUME TypeInv, BatchInv, OnceInv, AckedReply, AckedIsLogged, [Next]_vars
  PROVE  AckedIsLogged'
  <1>0. /\ EmittedAdmitted /\ Len(log) \in Nat /\ Len(log') \in Int /\ offset \in Nat
        /\ offset' \in Nat /\ \A s \in Slots : reply[s].offset \in Nat
    <2>1. TypeInv'
      BY NextType
    <2>2. log' \in Seq(Slots \cup {Foreign}) /\ offset' \in Nat
      BY <2>1 DEF TypeInv, TypeOK, ServerType, SettledType
    <2> QED
      BY <2>2, LogTypes DEF BatchInv
  <1>1. Len(log') >= Len(log) /\ \A i \in 1..Len(log) : log'[i] = log[i]
    BY <1>0, LogKept
  <1> SUFFICES ASSUME NEW e \in Ids, receipt'[e] = "ok"
               PROVE  \E i \in 1..Len(log') : i <= offset' /\ log'[i] \in Ids /\ e \in from'[log'[i]]..log'[i]
    BY DEF AckedIsLogged, Entries
  <1>2. ASSUME NEW i \in 1..Len(log), i <= offset', log[i] \in Ids, e \in Entries(log[i])
        PROVE  \E j \in 1..Len(log') : j <= offset' /\ log'[j] \in Ids /\ e \in from'[log'[j]]..log'[j]
    <2>1. i \in 1..Len(log') /\ log'[i] = log[i]
      BY <1>0, <1>1
    <2>2. from'[log[i]] = from[log[i]]
      BY <1>2, LoggedFrom DEF InLog
    <2>3. e \in from'[log'[i]]..log'[i]
      BY <1>2, <2>1, <2>2 DEF Entries
    <2> QED
      BY <1>2, <2>1, <2>3
  <1>3. CASE receipt[e] = "ok"
    <2>1. PICK i \in 1..Len(log) : i <= offset /\ log[i] \in Ids /\ e \in Entries(log[i])
      BY <1>3 DEF AckedIsLogged
    <2>2. i <= offset'
      BY <1>0, <2>1, OffsetGrows
    <2> QED
      BY <1>2, <2>1, <2>2
  <1>4. ASSUME NEW b \in Ids, Settled(b, "ok"), e \in Entries(b)
        PROVE  \E j \in 1..Len(log') : j <= offset' /\ log'[j] \in Ids /\ e \in from'[log'[j]]..log'[j]
    <2>1. phase[b] = "replied" /\ reply[b].kind \in Success /\ offset' = RecordedOffset(b)
      BY <1>4 DEF Settled, Replied, Failures
    <2>2. reply[b].offset \in 1..Len(log) /\ log[reply[b].offset] = b
      BY <2>1 DEF AckedReply, Success
    <2>3. reply[b].offset <= offset'
      BY <1>0, <2>1, BatchTypes DEF RecordedOffset
    <2> QED
      BY <1>2, <1>4, <2>2, <2>3
  <1> QED
    BY <1>0, <1>3, <1>4, AckedBy

LEMMA InitLog ==
  ASSUME OwnEpochs
  PROVE  Init => LogInv
  <1> SUFFICES ASSUME Init PROVE LogInv
    OBVIOUS
  <1>1. TypeInv /\ ServerEpoch \in Int
    BY InitType, OptionsAssumption
  <1>2. OurNames
    BY DEF Init, OurNames, OurEpoch, Name, Slots, Ids
  <1>3. ServerOurs
    BY OptionsAssumption DEF Init, ServerOurs, Covered, OwnEpochs
  <1>4. ClosedName /\ AckedReply /\ AckedIsLogged
    BY <1>1, BatchTypes DEF Init, ClosedName, AckedReply, AckedIsLogged
  <1> QED
    BY <1>2, <1>3, <1>4 DEF LogInv

\* Every value whose append succeeded is in the log within the confirmed
\* offset, and nothing is there twice, whatever is lost, sent again, answered
\* late or interrupted: for a fresh producer id without another writer, or for
\* a producer that is never restarted under an id whose epoch is not its own,
\* where autoClaim again meets no other writer (run refence) and restart and
\* close are not used together (run restart_reopens).
THEOREM DeliveredExactlyOnce ==
  ASSUME OneLifecycle, OneClaimant, OwnEpochs
  PROVE  Spec => []ExactlyOnce
  <1> DEFINE Inv == SequenceInv /\ OnceInv /\ LogInv
  <1>1. Init => Inv
    BY InitSequence, InitOnce, InitLog
  <1>2. Inv /\ [Next]_vars => Inv'
    <2> SUFFICES ASSUME Inv, [Next]_vars PROVE Inv'
      OBVIOUS
    <2>1. SequenceInv'
      BY NextSequence
    <2>2. OnceInv'
      BY NextOnce DEF SequenceInv
    <2>3. LogInv'
      BY NextOurNames, NextServerOurs, NextClosedName, NextAckedReply, NextAckedIsLogged
         DEF LogInv, SequenceInv
    <2> QED
      BY <2>1, <2>2, <2>3
  <1>3. Inv => ExactlyOnce
    BY DEF OnceInv, LogInv, ExactlyOnce
  <1> HIDE DEF Inv
  <1> QED
    BY <1>1, <1>2, <1>3, PTL DEF Spec

-----------------------------------------------------------------------------
(* A successful close is the end of the stream.                            *)

FailureKnown == scope # "closed" => FailureRemembered
\* The finalizer has interrupted the request of the close before it is done.
CloseStopsFirst == scope = "closed" => phase[0] = "none"
CloseDrained ==
  closeRequest # NoTuple /\ (scope # "closed" \/ closeResult) =>
     \A e \in 1..id : receipt[e] = "ok"
ClosedAnswer ==
  /\ phase[0] = "replied" /\ reply[0].kind \in Success /\ reply[0].closed => sClosed # NoTuple
  /\ closeResult => sClosed # NoTuple
LastInv == FailureKnown /\ CloseStopsFirst /\ CloseDrained /\ ClosedAnswer

LEMMA ScopeSteps ==
  ASSUME [Next]_vars
  PROVE  scope' = scope \/ (StopBegin /\ scope' = "closing") \/ (StopEnd /\ scope' = "closed")
  <1>1. ASSUME NEW c \in Calls, Call(c) \/ Interrupt(c)
        PROVE  UNCHANGED scope
    BY <1>1 DEF Call, BeginAppend, Admit, Receive, EndSource, Flush, EndFlush, BeginDetach,
       BeginRestart, ShutAdmission, FinishRestart, BeginClose, SendClose, CloseAnswered,
       CloseStopped, Stopped, Interrupt, environment
  <1>2. ASSUME NEW b \in Ids, Worker(b)
        PROVE  UNCHANGED scope
    BY <1>2 DEF Worker, Take, Claimed, Delivered, Rejected, Fenced, Gap, GapFilled,
       WorkerStopped, environment
  <1>3. CASE Linger \/ Offered \/ LingerStopped \/ ServeStray \/ UNCHANGED vars \/ ForeignClaim
             \/ \E s \in Slots : Serve(s) \/ Fault(s)
    BY <1>3 DEF Linger, Offered, LingerStopped, ServeStray, vars, ForeignClaim, Serve, Fault,
       environment
  <1>4. CASE StopBegin \/ StopEnd
    BY <1>4 DEF StopBegin, StopEnd
  <1> QED
    BY <1>1, <1>2, <1>3, <1>4 DEF Next, Terminated, Fiber

\* Settling a batch keeps what is settled, and remembers the first failure.
LEMMA SettleReceipts ==
  ASSUME TypeInv, BatchInv, NEW b \in Ids, NEW out \in Outcomes, NEW seqs,
         phase[b] \in Active, Complete(b, out, seqs)
  PROVE  /\ \A e \in Ids : receipt[e] = "ok" => receipt'[e] = "ok"
         /\ FailureRemembered => FailureRemembered'
  <1>0. from[b] \in Nat /\ from[b] # 0 /\ firstFailure \in Nat
    BY BatchTypes DEF BatchInv, UnsettledOpen, TypeInv, TypeOK, SettledType
  <1>1. \A e \in Ids : receipt'[e] = IF e \in Entries(b) /\ receipt[e] = "open" THEN out ELSE receipt[e]
    BY DEF Complete
  <1>2. firstFailure' = IF out \in Failures /\ (firstFailure = 0 \/ from[b] < firstFailure)
                        THEN from[b] ELSE firstFailure
    BY DEF Complete
  <1>3. ASSUME FailureRemembered, NEW e \in Ids, receipt'[e] \in Failures
        PROVE  firstFailure' # 0 /\ firstFailure' <= e
    <2>0. e \in Nat
      BY BatchTypes
    <2>1. CASE receipt[e] \in Failures
      <3>1. firstFailure # 0 /\ firstFailure <= e
        BY <1>3, <2>1 DEF FailureRemembered
      <3> QED
        BY <1>0, <1>2, <2>0, <3>1
    <2>2. CASE receipt[e] \notin Failures
      <3>1. e \in Entries(b) /\ out \in Failures
        BY <1>1, <1>3, <2>2
      <3>2. from[b] <= e
        BY <1>0, <2>0, <3>1 DEF Entries
      <3> QED
        BY <1>0, <1>2, <2>0, <3>1, <3>2
    <2> QED
      BY <2>1, <2>2
  <1> QED
    BY <1>1, <1>3 DEF FailureRemembered

LEMMA ReceiptSteps ==
  ASSUME TypeInv, BatchInv, [Next]_vars
  PROVE  /\ \A e \in Ids : receipt[e] = "ok" => receipt'[e] = "ok"
         /\ FailureRemembered /\ ~StopEnd => FailureRemembered'
  <1> DEFINE Kept == \A e \in Ids : receipt[e] = "ok" => receipt'[e] = "ok"
             Known == FailureRemembered => FailureRemembered'
  <1>1. ASSUME UNCHANGED <<receipt, firstFailure>>
        PROVE  Kept /\ Known
    BY <1>1 DEF FailureRemembered
  <1>2. ASSUME NEW b \in Ids, Worker(b)
        PROVE  Kept /\ Known
    <2>1. ASSUME NEW out \in Outcomes, Settled(b, out)
          PROVE  Kept /\ Known
      <3>1. phase[b] \in Active /\ \E seqs : Complete(b, out, seqs)
        BY <2>1 DEF Settled, Finish, Active
      <3> QED
        BY <3>1, SettleReceipts
    <2> QED
      BY <1>1, <1>2, <2>1, WorkerShape DEF Started, Reclaimed, Moved, settled
  <1>3. CASE Quiet \/ Pending \/ (\E last \in Ids : Emitted(last)) \/ \E b \in Ids : Answered(b)
    <2>1. UNCHANGED <<receipt, firstFailure>>
      BY <1>3 DEF Quiet, Pending, Emitted, Answered, batchState
    <2> QED
      BY <1>1, <2>1
  <1>4. ASSUME StopEnd
        PROVE  Kept
    BY <1>4 DEF StopEnd, Outstanding
  <1>5. ASSUME NEW b \in Ids, OfferEnds(b)
        PROVE  Kept /\ Known
    <2>1. CASE Complete(b, "int", sequences)
      <3>1. phase[b] \in Active /\ "int" \in Outcomes
        BY <1>5 DEF OfferEnds, Active, Outcomes, Failures
      <3> QED
        BY <2>1, <3>1, SettleReceipts
    <2> QED
      BY <1>1, <1>5, <2>1 DEF OfferEnds
  <1> QED
    BY <1>2, <1>3, <1>4, <1>5, NextShape DEF BatchInv

LEMMA NextCloseDrained ==
  ASSUME TypeInv, BatchInv, CloseInv, OneLifecycle, LastInv, [Next]_vars
  PROVE  CloseDrained'
  <1> SUFFICES ASSUME closeRequest' # NoTuple, scope' # "closed" \/ closeResult'
               PROVE  \A e \in 1..id' : receipt'[e] = "ok"
    BY DEF CloseDrained
  <1>0. /\ id \in Nat /\ id <= MaxEntries /\ \A e \in 1..id : e \in Ids
        /\ scope \in {"live", "closing", "closed"}
    BY BatchTypes, OptionsAssumption DEF Ids, TypeInv, TypeOK, EnvironmentType
  <1>1. CASE closeRequest # NoTuple
    <2>1. id' = id
      BY <1>1, ReadyStays DEF CloseInv
    <2>2. scope # "closed" \/ closeResult
      <3> SUFFICES ASSUME scope = "closed", ~closeResult PROVE FALSE
        OBVIOUS
      <3>1. scope' = "closed"
        BY ScopeSteps DEF StopBegin, StopEnd
      <3>0. closeResult'
        BY <3>1
      <3>2. closeResult' # closeResult
        BY <3>0, Zenon
      <3>3. PICK c \in Closes : SendClose(c) \/ CloseAnswered(c)
        BY <3>2, CloseTuple, PlaceTypes DEF FinishRestart
      <3>4. CloseAnswered(c)
        BY <3>2, <3>3 DEF SendClose
      <3> QED
        BY <3>4 DEF CloseAnswered, LastInv, CloseStopsFirst
    <2>3. \A e \in 1..id : receipt[e] = "ok"
      BY <1>1, <2>2 DEF LastInv, CloseDrained
    <2> QED
      BY <1>0, <2>1, <2>3, ReceiptSteps
  <1>2. CASE closeRequest = NoTuple
    <2>0. ~closeResult
      BY <1>2 DEF CloseInv, CloseSlot
    <2>1. PICK c \in Closes : SendClose(c) \/ CloseAnswered(c)
      BY <1>2, CloseTuple DEF FinishRestart
    <2>2. c \in Calls /\ CallPlace(c) /\ c \in Restarts \cup Closes
      BY PlaceTypes DEF CloseInv, PlaceInv, Places
    <2>3. pc[c] \notin {"request", "reply"}
      BY <1>2, <2>2 DEF CallPlace
    <2>4. SendClose(c) /\ Drained(c) /\ ~FlushFails(c)
      BY <2>1, <2>3 DEF SendClose, CloseAnswered
    <2>5. mark[c] = id /\ UNCHANGED <<id, receipt, scope, closeResult>>
      BY <2>2, <2>4 DEF Drained, CallPlace, SendClose, settled, environment
    <2>6. scope # "closed"
      BY <2>0, <2>5
    <2>7. ASSUME NEW e \in 1..id
          PROVE  receipt[e] = "ok"
      <3>1. receipt[e] # "open"
        BY <2>2, <2>4, DrainedIdle DEF CloseInv
      <3>2. receipt[e] \notin Failures
        BY <1>0, <2>4, <2>5, <2>6
           DEF LastInv, FailureKnown, FailureRemembered, FlushFails, TypeInv, TypeOK, SettledType
      <3> QED
        BY <1>0, <3>1, <3>2, BatchTypes DEF Outcomes
    <2> QED
      BY <2>5, <2>7
  <1> QED
    BY <1>1, <1>2

LEMMA NextClosedAnswer ==
  ASSUME TypeInv, BatchInv, ClosedAnswer, [Next]_vars
  PROVE  ClosedAnswer'
  <1>0. EmittedAdmitted /\ 0 \in Slots
    BY BatchTypes DEF BatchInv
  <1>1. sClosed # NoTuple => sClosed' # NoTuple
    BY <1>0, NetShape
       DEF Offline, GivenUp, Fault, ForeignClaim, Serve, ServeStray, Accept, Accepts, server
  <1>2. closeResult' => sClosed' # NoTuple
    <2>1. ASSUME closeResult', ~closeResult
          PROVE  sClosed' # NoTuple
      <3>1. closeResult' # closeResult
        BY <2>1, Zenon
      <3>2. PICK c \in Closes : SendClose(c) \/ CloseAnswered(c)
        BY <3>1, CloseTuple DEF FinishRestart
      <3>3. CloseAnswered(c)
        BY <3>1, <3>2 DEF SendClose
      <3>4. phase[0] = "replied" /\ reply[0].kind \in Success /\ reply[0].closed
        BY <3>1, <3>3 DEF CloseAnswered
      <3> QED
        BY <1>1, <3>4 DEF ClosedAnswer
    <2> QED
      BY <1>1, <2>1 DEF ClosedAnswer
  <1> DEFINE Good == phase'[0] = "replied" /\ reply'[0].kind \in Success /\ reply'[0].closed =>
                        sClosed' # NoTuple
  <1>3. ASSUME phase'[0] = "replied" => phase[0] = "replied" /\ reply'[0] = reply[0]
        PROVE  Good
    BY <1>1, <1>3 DEF ClosedAnswer
  <1>4. ASSUME Offline \/ ServeStray \/ ForeignClaim
        PROVE  Good
    BY <1>0, <1>3, <1>4 DEF Offline, ServeStray, ForeignClaim, requests
  <1>5. ASSUME NEW s \in Slots, GivenUp(s)
        PROVE  Good
    <2>1. phase'[0] \in {phase[0], "none", "dead"} /\ reply'[0] = reply[0]
      BY <1>0, <1>5, BatchTypes DEF GivenUp
    <2> QED
      BY <1>3, <2>1
  <1>6. ASSUME NEW s \in Slots, Fault(s)
        PROVE  Good
    <2>1. /\ phase' = [phase EXCEPT ![s] = "replied"]
          /\ reply' = [reply EXCEPT ![s] = [NoAnswer EXCEPT !.kind = "rejected"]]
      BY <1>6 DEF Fault
    <2>2. CASE s = 0
      <3>1. reply'[0].kind = "rejected"
        BY <2>1, <2>2, BatchTypes DEF NoAnswer
      <3> QED
        BY <3>1 DEF Success
    <2>3. CASE s # 0
      BY <1>0, <1>3, <2>1, <2>3, BatchTypes
    <2> QED
      BY <2>2, <2>3
  <1>7. ASSUME NEW s \in Slots, Serve(s)
        PROVE  Good
    <2>0. \E r : phase' = [phase EXCEPT ![s] = "replied"] /\ reply' = [reply EXCEPT ![s] = r]
      BY <1>7 DEF Serve
    <2>1. CASE s # 0
      BY <1>0, <1>3, <2>0, <2>1, BatchTypes
    <2>2. CASE s = 0 /\ Accept(0, req[0])
      <3>1. sEpoch \in Int /\ sLast \in Int /\ sEpoch >= -1 /\ sLast >= -1
        BY DEF TypeInv, TypeOK, ServerType
      <3>2. req[0] # NoTuple
        BY <2>2, <3>1 DEF Accept, Accepts, NoTuple
      <3> QED
        BY <2>2, <3>2 DEF Accept
    <2>3. ASSUME s = 0, NEW r \in Refusals(req[0]), reply' = [reply EXCEPT ![0] = r],
                 UNCHANGED server
          PROVE  Good
      <3>1. reply'[0] = r /\ sClosed' = sClosed
        BY <1>0, <2>3, BatchTypes DEF server
      <3>2. r.closed = (sClosed # NoTuple)
        BY <2>3 DEF Refusals
      <3> QED
        BY <3>1, <3>2, Zenon
    <2> QED
      BY <1>7, <2>1, <2>2, <2>3 DEF Serve
  <1>8. Good
    BY <1>0, <1>4, <1>5, <1>6, <1>7, NetShape
  <1> QED
    BY <1>2, <1>8 DEF ClosedAnswer

LEMMA NextLast ==
  ASSUME TypeInv, BatchInv, CloseInv, OneLifecycle, LastInv, [Next]_vars
  PROVE  LastInv'
  <1>1. FailureKnown'
    BY ReceiptSteps, ScopeSteps DEF LastInv, FailureKnown, StopBegin, StopEnd
  <1>2. CloseStopsFirst'
    <2>1. ASSUME StopEnd
          PROVE  phase'[0] = "none"
      BY <2>1, BatchTypes DEF StopEnd
    <2>2. ASSUME scope = "closed", scope' = scope
          PROVE  phase'[0] = "none"
      <3>1. phase[0] = "none"
        BY <2>2 DEF LastInv, CloseStopsFirst
      <3>2. \A c \in Closes : SendClose(c) \/ CloseAnswered(c) => phase'[0] = "none"
        BY <2>2, <3>1 DEF SendClose, CloseAnswered
      <3> QED
        BY <3>1, <3>2, SlotZero DEF BatchInv
    <2> QED
      BY <2>1, <2>2, ScopeSteps DEF CloseStopsFirst
  <1> QED
    BY <1>1, <1>2, NextCloseDrained, NextClosedAnswer DEF LastInv

LEMMA InitLast == Init => LastInv
  <1> SUFFICES ASSUME Init PROVE LastInv
    OBVIOUS
  <1>1. FailureKnown
    BY DEF Init, FailureKnown, FailureRemembered, Failures
  <1>2. CloseStopsFirst /\ CloseDrained /\ ClosedAnswer
    BY BatchTypes, InitType DEF Init, CloseStopsFirst, CloseDrained, ClosedAnswer, Slots
  <1> QED
    BY <1>1, <1>2 DEF LastInv

\* A close that succeeded is the last thing in the stream, after every value
\* that was admitted, and there is only one: however often its answer was lost
\* and it was sent again, on its own or as the claim of another epoch, unless
\* the same producer is also restarted (run restart_reopens).
THEOREM CloseEndsStream ==
  ASSUME OneLifecycle
  PROVE  Spec => []CloseIsLast
  <1> DEFINE Inv == TypeInv /\ BatchInv /\ CloseInv /\ OnceInv /\ LastInv
  <1>1. Init => Inv
    BY InitType, InitBatches, InitClose, InitOnce, InitLast
  <1>2. Inv /\ [Next]_vars => Inv'
    BY NextType, NextBatches, NextClose, NextOnce, NextLast
  <1>3. Inv => CloseIsLast
    <2> SUFFICES ASSUME Inv, closeResult
                 PROVE  /\ Len(log) > 0 /\ log[Len(log)] = 0
                        /\ \A e \in 1..id : receipt[e] = "ok"
      BY DEF CloseIsLast
    <2>1. sClosed # NoTuple /\ closeRequest # NoTuple
      BY DEF LastInv, ClosedAnswer, CloseInv, CloseSlot
    <2> QED
      BY <2>1 DEF OnceInv, ClosedLast, LastInv, CloseDrained
  <1> HIDE DEF Inv
  <1> QED
    BY <1>1, <1>2, <1>3, PTL DEF Spec

-----------------------------------------------------------------------------
(* The log holds the values in their order, without a hole.                *)

\* With autoClaim no call is interrupted and the producer's scope is not
\* closed: either may drop a batch that is held for the claim, and the ones
\* held behind it move up.
NoHoles == AutoClaim => Interruptible = {} /\ ~CanStop

\* The batch has been sent or still may be.
Sendable(b) == scope # "closed" \/ req[b] # NoTuple
\* Every batch before this one is stored.
Before(c) == \A b \in Ids : b < c /\ from[b] # 0 => InLog(b)

ClaimedLive == AutoClaim => scope = "live"
ClosedIdle == scope = "closed" => \A b \in Ids : phase[b] \notin Working
\* Only a batch held for the claim waits without a pair.
WaitingNamed ==
  \A b \in Ids : phase[b] \in {"offer", "queued", "claimwait"} /\ tuple[b] = NoTuple =>
     ~claimed /\ ~first[b]
NamedEmerged == \A b \in Ids : Name(b) # NoTuple => from[b] # 0
LoggedSent == \A b \in Ids : InLog(b) => req[b] # NoTuple
\* The batches follow each other without a gap.
Chained ==
  /\ \A b \in Ids : Sendable(b) /\ from[b] > 1 => from[from[b] - 1] # 0
  /\ scope # "closed" /\ emitted > 0 => from[emitted] # 0
PlaceRow ==
  /\ ClaimedLive /\ ClosedIdle /\ WaitingNamed /\ NamedEmerged /\ LoggedSent /\ Chained

\* Until the claim has succeeded its batch is the very first one, and as long
\* as the claim is open every other batch is held.
Unsent ==
  /\ ~claimed /\ ~claiming => emitted = 0 /\ (closeRequest = NoTuple => nextSeq = 0)
  /\ ~claiming => claim = "open"
FirstRow ==
  ~claimed /\ claiming /\ closeRequest = NoTuple =>
     /\ nextSeq = 1
     /\ \E f \in Ids : /\ first[f] /\ from[f] = 1 /\ receipt[f] # "ok"
                       /\ Name(f) = [epoch |-> epoch, seq |-> 0]
     /\ claim = "open" => \A b \in Ids : from[b] # 0 /\ ~first[b] => b \in Held
ClaimOpen == \A b \in Ids : first[b] /\ phase[b] \notin Outcomes => claim = "open"
ClaimRow == Unsent /\ FirstRow /\ ClaimOpen

\* Consecutive pairs name consecutive batches, and an epoch begins with a
\* batch that has everything before it stored.
InRow ==
  \A b, c \in Ids : /\ Sendable(c) /\ Name(b) # NoTuple /\ Name(c) # NoTuple
                    /\ Name(c).epoch = Name(b).epoch /\ Name(c).seq = Name(b).seq + 1
                    => from[c] = b + 1
StartsWhole ==
  \A c \in Ids : Sendable(c) /\ Name(c) # NoTuple /\ Name(c).seq = 0 => Before(c)
\* The next pair follows the one of the last batch.
LastNamed ==
  scope # "closed" /\ claimed /\ closeRequest = NoTuple =>
     IF nextSeq = 0 THEN \A b \in Ids : from[b] # 0 => InLog(b)
     ELSE emitted # 0 /\ Name(emitted) = [epoch |-> epoch, seq |-> nextSeq - 1]
NameRow == InRow /\ StartsWhole /\ LastNamed

DownClosed == \A c \in Ids : InLog(c) => Before(c)
Ascending == \A i, j \in 1..Len(log) : i < j /\ log[i] \in Ids /\ log[j] \in Ids => log[i] < log[j]
LogRow == DownClosed /\ Ascending
RowInv == PlaceRow /\ ClaimRow /\ NameRow /\ LogRow

\* What a step does to the batches, their pairs and the next pair.
RowKept ==
  /\ UNCHANGED <<from, first, tuple, claimed, claiming>>
  /\ \A b \in Ids : Name(b)' = Name(b)
  /\ emitted' = emitted \/ scope' = "closed"
Claims(b) == Settled(b, "ok") /\ first[b] /\ ~claimed

LEMMA WorkerRow ==
  ASSUME TypeInv, BatchInv, ClaimInv, WaitingNamed, NEW b \in Ids, Worker(b)
  PROVE  \/ RowKept /\ UNCHANGED <<epoch, nextSeq>>
         \/ Reclaimed(b) \/ Claims(b)
  <1>0. UNCHANGED <<from, first, claiming, emitted>>
    BY WorkerShape DEF WorkerKeeps, admission
  <1>1. CASE Started(b)
    <2>1. tuple[b] # NoTuple /\ req[b] = NoTuple
      BY <1>1 DEF Started, WaitingNamed, ClaimInv, ClaimSettled, BatchInv, UnsentUnnamed
    <2>2. /\ UNCHANGED <<tuple, nextSeq, epoch, claimed>>
          /\ req' = [req EXCEPT ![b] = tuple[b]]
      BY <1>1, <2>1 DEF Started
    <2>3. req'[b] = tuple[b] /\ \A c \in Ids : c # b => req'[c] = req[c]
      BY <2>2, BatchTypes
    <2>4. \A c \in Ids : Name(c)' = Name(c)
      BY <2>1, <2>2, <2>3 DEF Name
    <2> QED
      BY <1>0, <2>2, <2>4 DEF RowKept
  <1>2. ASSUME NEW out \in Outcomes, Settled(b, out), ~Claims(b)
        PROVE  RowKept /\ UNCHANGED <<epoch, nextSeq>>
    <2>0. UNCHANGED <<epoch, req>>
      BY <1>2 DEF Settled
    <2>1. UNCHANGED <<tuple, nextSeq, claimed>>
      <3>1. CASE ~first[b]
        BY <1>2, <3>1 DEF Settled, Finish
      <3>2. CASE first[b] /\ out # "ok"
        <4>1. UNCHANGED <<tuple, nextSeq>> /\ claimed' = (claimed \/ out = "ok")
          BY <1>2, <3>2 DEF Settled, Finish
        <4>2. claimed' = claimed
          BY <3>2, <4>1, ClaimTypes
        <4> QED
          BY <4>1, <4>2
      <3>3. CASE first[b] /\ out = "ok"
        <4>1. claimed
          BY <1>2, <3>3 DEF Claims
        <4>2. Held = {}
          BY <4>1 DEF Held, WaitingNamed
        <4>3. ReserveHeld /\ claimed' = (claimed \/ out = "ok")
          BY <1>2, <3>3 DEF Settled, Finish
        <4>4. claimed' = claimed
          BY <4>1, <4>3
        <4>5. Cardinality(Held) = 0
          BY <4>2, FS_EmptySet
        <4>6. nextSeq' = nextSeq
          BY <4>3, <4>5, BatchTypes DEF ReserveHeld
        <4>7. tuple' = tuple
          BY <4>2, <4>3, BatchTypes DEF ReserveHeld
        <4> QED
          BY <4>4, <4>6, <4>7
      <3> QED
        BY <3>1, <3>2, <3>3
    <2> QED
      BY <1>0, <2>0, <2>1 DEF RowKept, Name
  <1>3. ASSUME NEW l \in Phases, Moved(b, l)
        PROVE  RowKept /\ UNCHANGED <<epoch, nextSeq>>
    BY <1>0, <1>3 DEF Moved, RowKept, Name
  <1> QED
    BY <1>1, <1>2, <1>3, WorkerShape

LEMMA CounterSteps ==
  ASSUME TypeInv, EmittedAdmitted, [Next]_vars, emitted' = emitted \/ StopEnd
  PROVE  \/ UNCHANGED <<epoch, nextSeq>> \/ \E b \in Ids : Worker(b)
         \/ (\E c \in Restarts : Restarted(c)) \/ \E c \in Closes : CloseAnswered(c)
  <1>0. id \in Nat /\ emitted \in Nat
    BY BatchTypes
  <1>1. CASE StopEnd
    BY <1>1 DEF StopEnd
  <1>2. ASSUME emitted' = emitted, NEW c \in Calls, Call(c)
        PROVE  \/ UNCHANGED <<epoch, nextSeq>>
               \/ (c \in Restarts /\ Restarted(c)) \/ (c \in Closes /\ CloseAnswered(c))
    <2>1. CASE \/ BeginAppend(c) \/ Receive(c) \/ EndSource(c) \/ EndFlush(c)
               \/ BeginDetach(c) \/ BeginRestart(c) \/ ShutAdmission(c)
               \/ BeginClose(c) \/ SendClose(c) \/ CloseStopped(c) \/ Stopped(c)
      <3>1. UNCHANGED sequencing
        BY <2>1 DEF BeginAppend, Receive, EndSource, EndFlush, BeginDetach, BeginRestart,
           ShutAdmission, BeginClose, SendClose, CloseStopped, Stopped
      <3> QED
        BY <3>1 DEF sequencing
    <2>2. CASE Admit(c)
      <3>1. ~Emit(id + 1, c)
        BY <1>0, <1>2 DEF Emit, EmittedAdmitted
      <3>2. UNCHANGED <<epoch, nextSeq>>
        BY <2>2, <3>1 DEF Admit, NothingEmitted
      <3> QED
        BY <3>2
    <2>3. CASE Flush(c)
      <3>1. emitted < id => ~Emit(id, c)
        BY <1>0, <1>2 DEF Emit
      <3> QED
        BY <2>3, <3>1 DEF Flush, NothingEmitted
    <2>4. CASE FinishRestart(c)
      BY <2>4, NumbersAreNat, NextEpochIsExact DEF FinishRestart, Restarted
    <2>5. CASE CloseAnswered(c)
      BY <2>5 DEF CloseAnswered
    <2> QED
      BY <1>2, <2>1, <2>2, <2>3, <2>4, <2>5 DEF Call
  <1>3. emitted' = emitted => ~Linger
    BY <1>0 DEF Linger, Emit, EmittedAdmitted
  <1>4. CASE \/ Offered \/ LingerStopped \/ ServeStray \/ ForeignClaim \/ StopBegin
             \/ UNCHANGED vars \/ (\E s \in Slots : Serve(s) \/ Fault(s))
             \/ \E c \in Calls : Interrupt(c)
    BY <1>4 DEF Offered, LingerStopped, ServeStray, ForeignClaim, StopBegin, vars,
       Serve, Fault, Interrupt, sequencing
  <1> QED
    BY <1>1, <1>2, <1>3, <1>4 DEF Next, Terminated, Fiber

LEMMA RowSteps ==
  ASSUME TypeInv, BatchInv, ClaimInv, WaitingNamed, [Next]_vars
  PROVE  \/ /\ RowKept
            /\ \/ UNCHANGED <<epoch, nextSeq>>
               \/ (\E c \in Restarts : Restarted(c)) \/ \E c \in Closes : CloseAnswered(c)
         \/ \E last \in Ids : Emitted(last)
         \/ \E b \in Ids : Worker(b) /\ (Reclaimed(b) \/ Claims(b))
  <1>0. EmittedAdmitted
    BY DEF BatchInv
  <1>1. CASE \E b \in Ids : Worker(b)
    BY <1>1, WorkerRow
  <1>2. ASSUME ~(\E b \in Ids : Worker(b)), RowKept, emitted' = emitted \/ StopEnd
        PROVE  \/ UNCHANGED <<epoch, nextSeq>>
               \/ (\E c \in Restarts : Restarted(c)) \/ \E c \in Closes : CloseAnswered(c)
    BY <1>0, <1>2, CounterSteps
  <1>3. CASE Quiet \/ Pending \/ \E b \in Ids : Answered(b) \/ OfferEnds(b)
    <2>1. /\ UNCHANGED <<emitted, from, first, tuple, claimed, claiming>>
          /\ \A b \in Ids : req'[b] = req[b]
      BY <1>3 DEF Quiet, Pending, Answered, OfferEnds, batchState
    <2>2. RowKept
      BY <2>1 DEF RowKept, Name
    <2> QED
      BY <1>1, <1>2, <2>1, <2>2
  <1>4. CASE StopEnd
    <2>1. UNCHANGED <<from, first, tuple, claimed, claiming, req>> /\ scope' = "closed"
      BY <1>4 DEF StopEnd, claims
    <2>2. RowKept
      BY <2>1 DEF RowKept, Name
    <2> QED
      BY <1>1, <1>2, <1>4, <2>2
  <1> QED
    BY <1>0, <1>1, <1>3, <1>4, NextShape

\* What an emission does to them.
LEMMA EmittedRow ==
  ASSUME TypeInv, BatchInv, NEW last \in Ids, Emitted(last)
  PROVE  /\ last > emitted /\ emitted' = last /\ from'[last] = emitted + 1 /\ from[last] = 0
         /\ \A b \in Ids : b # last => /\ from'[b] = from[b] /\ Name(b)' = Name(b)
                                       /\ first'[b] = first[b] /\ tuple'[b] = tuple[b]
                                       /\ phase'[b] = phase[b]
         /\ tuple[last] = NoTuple /\ req'[last] = NoTuple /\ phase[last] = "none"
         /\ phase'[last] \in {"offer", "queued"}
         /\ UNCHANGED <<epoch, claimed, claim, receipt, req>>
         /\ first'[last] <=> (~claimed /\ ~claiming)
         /\ claiming' <=> (claiming \/ ~claimed)
         /\ IF claimed \/ ~claiming
            THEN /\ nextSeq' = nextSeq + 1 /\ Name(last)' = [epoch |-> epoch, seq |-> nextSeq]
                 /\ tuple'[last] = [epoch |-> epoch, seq |-> nextSeq]
            ELSE nextSeq' = nextSeq /\ Name(last)' = NoTuple /\ tuple'[last] = NoTuple
  <1> DEFINE isFirst == ~claimed /\ ~claiming
  <1>1. /\ last > emitted /\ emitted' = last /\ from' = [from EXCEPT ![last] = emitted + 1]
        /\ first' = [first EXCEPT ![last] = isFirst]
        /\ claiming' = (claiming \/ isFirst)
        /\ phase' = [phase EXCEPT ![last] = IF QueueFull THEN "offer" ELSE "queued"]
        /\ UNCHANGED <<epoch, claimed, claim, receipt, req>>
        /\ IF claimed \/ isFirst THEN Reserve(last) ELSE UNCHANGED <<tuple, nextSeq>>
    BY DEF Emitted, Emit
  <1>2. from[last] = 0 /\ tuple[last] = NoTuple /\ req[last] = NoTuple /\ phase[last] = "none"
    BY <1>1 DEF BatchInv, PendingUntouched
  <1>3. /\ from'[last] = emitted + 1 /\ phase'[last] \in {"offer", "queued"}
        /\ \A b \in Ids : b # last => /\ from'[b] = from[b] /\ first'[b] = first[b]
                                      /\ phase'[b] = phase[b]
    BY <1>1, BatchTypes
  <1>4. first'[last] <=> (~claimed /\ ~claiming)
    BY <1>1, BatchTypes
  <1>5. claiming' <=> (claiming \/ ~claimed)
    BY <1>1, ClaimTypes
  <1>6. CASE claimed \/ ~claiming
    <2>1. tuple' = [tuple EXCEPT ![last] = [epoch |-> epoch, seq |-> nextSeq]] /\ nextSeq' = nextSeq + 1
      BY <1>1, <1>6 DEF Reserve
    <2>2. /\ tuple'[last] = [epoch |-> epoch, seq |-> nextSeq]
          /\ \A b \in Ids : b # last => tuple'[b] = tuple[b]
      BY <2>1, BatchTypes
    <2>3. Name(last)' = [epoch |-> epoch, seq |-> nextSeq]
      BY <1>1, <1>2, <2>2 DEF Name
    <2>4. \A b \in Ids : b # last => Name(b)' = Name(b)
      BY <1>1, <2>2 DEF Name
    <2> QED
      BY <1>1, <1>2, <1>3, <1>4, <1>5, <1>6, <2>1, <2>2, <2>3, <2>4
  <1>7. CASE ~(claimed \/ ~claiming)
    <2>1. UNCHANGED <<tuple, nextSeq>>
      BY <1>1, <1>7
    <2>2. Name(last)' = NoTuple /\ \A b \in Ids : Name(b)' = Name(b)
      BY <1>1, <1>2, <2>1 DEF Name
    <2> QED
      BY <1>1, <1>2, <1>3, <1>4, <1>5, <1>7, <2>1, <2>2
  <1> QED
    BY <1>6, <1>7

\* What a step adds to the log: something else, or a batch that was not there.
LEMMA LogSteps ==
  ASSUME TypeInv, BatchInv, OnceInv, [Next]_vars
  PROVE  \/ UNCHANGED log
         \/ \E s \in {0, Foreign} : log' = Append(log, s)
         \/ \E b \in Ids : /\ Accept(b, req[b]) /\ ~InLog(b)
                           /\ req[b] # NoTuple /\ req'[b] = req[b]
  <1>0. EmittedAdmitted /\ sEpoch \in Int /\ sEpoch >= -1 /\ sLast \in Int /\ sLast >= -1
    BY DEF BatchInv, TypeInv, TypeOK, ServerType
  <1>1. ASSUME NEW s \in Slots, NEW t, Accept(s, t),
               s \in Ids => ~InLog(s) /\ t = req[s] /\ req'[s] = req[s]
        PROVE  \/ log' = Append(log, 0)
               \/ \E b \in Ids : /\ Accept(b, req[b]) /\ ~InLog(b)
                                 /\ req[b] # NoTuple /\ req'[b] = req[b]
    <2>1. CASE s = 0
      BY <1>1, <2>1 DEF Accept
    <2>2. CASE s \in Ids
      <3>1. req[s] # NoTuple
        BY <1>0, <1>1, <2>2 DEF Accept, Accepts, NoTuple
      <3> QED
        BY <1>1, <2>2, <3>1
    <2> QED
      BY <2>1, <2>2, BatchTypes
  <1>2. ASSUME NEW s \in Slots, Serve(s), ~UNCHANGED server
        PROVE  \/ log' = Append(log, 0)
               \/ \E b \in Ids : /\ Accept(b, req[b]) /\ ~InLog(b)
                                 /\ req[b] # NoTuple /\ req'[b] = req[b]
    <2>1. s \in Ids => ~InLog(s)
      BY <1>2 DEF Serve, OnceInv, LoggedDone, Done, Lost, Outcomes, Failures
    <2>2. UNCHANGED req /\ Accept(s, req[s])
      BY <1>2 DEF Serve
    <2> QED
      BY <1>1, <2>1, <2>2
  <1>3. ASSUME ServeStray, ~UNCHANGED server
        PROVE  \/ log' = Append(log, 0)
               \/ \E b \in Ids : /\ Accept(b, req[b]) /\ ~InLog(b)
                                 /\ req[b] # NoTuple /\ req'[b] = req[b]
    <2>1. PICK r \in strays : Accept(r.slot, r.req)
      BY <1>3 DEF ServeStray
    <2>2. r.slot \in Slots /\ UNCHANGED req
      BY <1>3, LogTypes DEF ServeStray, requests
    <2>3. r.slot \in Ids => ~InLog(r.slot) /\ r.req = req[r.slot]
      BY DEF OnceInv, StrayOnce
    <2> QED
      BY <1>1, <2>1, <2>2, <2>3
  <1>4. CASE UNCHANGED server \/ ForeignClaim
    BY <1>4 DEF server, ForeignClaim
  <1> QED
    BY <1>0, <1>2, <1>3, <1>4, NetShape DEF Offline, GivenUp, Fault

LEMMA InLogStays ==
  ASSUME TypeInv, BatchInv, [Next]_vars, NEW s, InLog(s)
  PROVE  InLog(s)'
  <1>1. PICK i \in 1..Len(log) : log[i] = s
    BY DEF InLog
  <1>2. Len(log) \in Nat /\ Len(log') \in Nat
    <2>1. TypeInv'
      BY NextType
    <2>2. log' \in Seq(Slots \cup {Foreign})
      BY <2>1 DEF TypeInv, TypeOK, ServerType
    <2> QED
      BY <2>2, LogTypes
  <1>3. Len(log') >= Len(log) /\ log'[i] = log[i]
    BY LogKept DEF BatchInv
  <1>4. i \in 1..Len(log')
    BY <1>2, <1>3
  <1> QED
    BY <1>1, <1>3, <1>4 DEF InLog

LEMMA InLogAdded ==
  ASSUME TypeInv, BatchInv, OnceInv, [Next]_vars, NEW b \in Ids, InLog(b)', ~InLog(b)
  PROVE  Accept(b, req[b]) /\ req[b] # NoTuple /\ req'[b] = req[b]
  <1>1. CASE UNCHANGED log
    BY <1>1 DEF InLog
  <1>2. ASSUME NEW s \in Slots \cup {Foreign}, log' = Append(log, s)
        PROVE  b = s
    BY <1>2, LogGrows
  <1>3. 0 \in Slots /\ Foreign \in Slots \cup {Foreign} /\ b \notin {0, Foreign}
    BY LogTypes, BatchTypes
  <1>4. ASSUME NEW c \in Ids, Accept(c, req[c])
        PROVE  c = b
    BY <1>2, <1>4, BatchTypes DEF Accept
  <1> QED
    BY <1>1, <1>2, <1>3, <1>4, LogSteps

\* A batch stays what it is.
LEMMA BatchStays ==
  ASSUME TypeInv, BatchInv, [Next]_vars
  PROVE  /\ \A b \in Ids : from[b] # 0 => from'[b] = from[b]
         /\ \A b \in Ids : from[b] = 0 /\ from'[b] # 0 => b > emitted
  <1>1. CASE \E last \in Ids : Emitted(last)
    BY <1>1, EmittedRow
  <1>2. CASE \/ Quiet \/ Pending \/ StopEnd \/ \E c \in Ids : Worker(c) \/ Answered(c) \/ OfferEnds(c)
    <2>1. UNCHANGED from
      BY <1>2, WorkerShape DEF WorkerKeeps, Quiet, Pending, StopEnd, Answered, OfferEnds, batchState
    <2> QED
      BY <2>1
  <1> QED
    BY <1>1, <1>2, NextShape DEF BatchInv

LEMMA BeforeStays ==
  ASSUME TypeInv, BatchInv, [Next]_vars, NEW c \in Ids, from[c] # 0, Before(c)
  PROVE  Before(c)'
  <1> SUFFICES ASSUME NEW b \in Ids, b < c, from'[b] # 0
               PROVE  InLog(b)'
    BY DEF Before
  <1>1. c <= emitted
    BY BatchTypes DEF BatchInv, PendingUntouched
  <1>2. from[b] # 0
    BY <1>1, BatchStays, BatchTypes
  <1> QED
    BY <1>2, InLogStays DEF Before

\* After the finalizer no worker is left.
LEMMA ClosedStill ==
  ASSUME ClosedIdle, scope = "closed", NEW b \in Ids
  PROVE  ~Worker(b)
  BY DEF ClosedIdle, Working, Worker, Take, Claimed, Delivered, Rejected, Fenced, Gap, GapFilled,
     WorkerStopped, Replied

LEMMA SendableStays ==
  ASSUME TypeInv, BatchInv, ClosedIdle, [Next]_vars, NEW b \in Ids, Sendable(b)'
  PROVE  Sendable(b)
  <1> SUFFICES ASSUME scope = "closed" PROVE req[b] # NoTuple
    BY DEF Sendable
  <1>1. scope' = "closed"
    BY ScopeSteps DEF StopBegin, StopEnd
  <1>2. req'[b] # NoTuple
    BY <1>1 DEF Sendable
  <1>3. req'[b] = req[b]
    <2>1. CASE \E c \in Ids : Worker(c)
      BY <2>1, ClosedStill
    <2>2. CASE \/ Quiet \/ Pending \/ StopEnd \/ (\E last \in Ids : Emitted(last))
               \/ \E c \in Ids : Answered(c) \/ OfferEnds(c)
      BY <2>2 DEF Quiet, Pending, StopEnd, Emitted, Answered, OfferEnds
    <2> QED
      BY <2>1, <2>2, NextShape DEF BatchInv
  <1> QED
    BY <1>2, <1>3

\* With autoClaim every blocked offer goes through.
LEMMA OfferKept ==
  ASSUME TypeInv, EmittedAdmitted, Interruptible = {}, scope = "live", [Next]_vars,
         NEW b \in Ids, phase[b] = "offer"
  PROVE  phase'[b] \in {"offer", "queued"}
  <1>0. \A s \in Slots : s # b => \A l : phase' = [phase EXCEPT ![s] = l] => phase'[b] = phase[b]
    BY BatchTypes
  <1>1. ASSUME NEW l \in {"offer", "queued"}, NEW s \in Slots, phase' = [phase EXCEPT ![s] = l]
        PROVE  phase'[b] \in {"offer", "queued"}
    BY <1>1, BatchTypes
  <1>2. ASSUME NEW last \in Ids, NEW by, Emit(last, by)
        PROVE  phase'[b] \in {"offer", "queued"}
    <2>1. \E l \in {"offer", "queued"} : phase' = [phase EXCEPT ![last] = l]
      BY <1>2 DEF Emit
    <2> QED
      BY <1>1, <2>1, BatchTypes
  <1>3. ASSUME NEW c \in Calls, Call(c)
        PROVE  phase'[b] \in {"offer", "queued"}
    <2>1. CASE \/ BeginAppend(c) \/ Receive(c) \/ EndSource(c) \/ EndFlush(c)
               \/ BeginDetach(c) \/ BeginRestart(c) \/ ShutAdmission(c) \/ FinishRestart(c)
               \/ BeginClose(c) \/ Stopped(c)
      BY <2>1 DEF BeginAppend, Receive, EndSource, EndFlush, BeginDetach, BeginRestart,
         ShutAdmission, FinishRestart, BeginClose, Stopped, requests
    <2>2. CASE SendClose(c) \/ CloseAnswered(c) \/ CloseStopped(c)
      <3>1. UNCHANGED phase \/ \E l : phase' = [phase EXCEPT ![0] = l]
        BY <2>2 DEF SendClose, CloseAnswered, CloseStopped
      <3> QED
        BY <1>0, <3>1, BatchTypes
    <2>3. CASE Admit(c) \/ Flush(c)
      <3>1. UNCHANGED phase \/ (id + 1 \in Ids /\ Emit(id + 1, c)) \/ (id \in Ids /\ Emit(id, c))
        BY <2>3, BatchTypes, OptionsAssumption DEF Admit, Flush, NothingEmitted, Ids
      <3> QED
        BY <1>2, <3>1
    <2> QED
      BY <1>3, <2>1, <2>2, <2>3 DEF Call
  <1>4. ASSUME NEW d \in Ids, Worker(d)
        PROVE  phase'[b] \in {"offer", "queued"}
    <2>1. \E l : phase' = [phase EXCEPT ![d] = l] /\ phase[d] # "offer"
      BY <1>4, WorkerShape
         DEF Started, Reclaimed, Settled, Finish, Complete, Moved, Replied, Working
    <2> QED
      BY <1>0, <2>1, BatchTypes
  <1>5. CASE Linger
    <2>1. id \in Ids /\ Emit(id, Timer)
      BY <1>5, BatchTypes DEF Linger, EmittedAdmitted, Ids
    <2> QED
      BY <1>2, <2>1
  <1>6. CASE Offered
    <2>1. \E c \in Ids : phase' = [phase EXCEPT ![c] = "queued"]
      BY <1>6 DEF Offered
    <2> QED
      BY <1>1, <2>1, BatchTypes
  <1>7. ASSUME NEW s \in Slots, Serve(s) \/ Fault(s)
        PROVE  phase'[b] \in {"offer", "queued"}
    <2>1. phase' = [phase EXCEPT ![s] = "replied"] /\ phase[s] # "offer"
      BY <1>7 DEF Serve, Fault
    <2> QED
      BY <1>0, <2>1
  <1>8. CASE ServeStray \/ ForeignClaim \/ StopBegin \/ UNCHANGED vars
    BY <1>8 DEF ServeStray, ForeignClaim, StopBegin, vars, requests
  <1>9. ~LingerStopped /\ ~StopEnd /\ \A c \in Calls : ~Interrupt(c)
    BY DEF LingerStopped, StopEnd, Interrupt
  <1> QED
    BY <1>3, <1>4, <1>5, <1>6, <1>7, <1>8, <1>9 DEF Next, Terminated, Fiber

\* When a restart has drained, everything admitted is stored.
LEMMA RestartLogged ==
  ASSUME TypeInv, BatchInv, CloseInv, LastInv, AckedIsLogged, NamedEmerged, LoggedSent,
         NEW c \in Restarts, FinishRestart(c), Restarted(c), scope # "closed"
  PROVE  \A b \in Ids : from[b] # 0 => receipt[b] = "ok" /\ InLog(b)
  <1>1. Drained(c) /\ ~FlushFails(c) /\ c \in Restarts \cup Closes
    BY DEF FinishRestart
  <1>2. mark[c] = id
    BY <1>1, PlaceTypes DEF Drained, CloseInv, PlaceInv, Places, CallPlace
  <1> SUFFICES ASSUME NEW b \in Ids, from[b] # 0
               PROVE  receipt[b] = "ok" /\ InLog(b)
    OBVIOUS
  <1>3. b \in 1..id
    BY BatchTypes DEF BatchInv, PendingUntouched, EmittedAdmitted
  <1>4. receipt[b] # "open"
    BY <1>1, <1>3, DrainedIdle DEF CloseInv
  <1>5. receipt[b] \notin Failures
    BY <1>1, <1>2, <1>3, BatchTypes
       DEF LastInv, FailureKnown, FailureRemembered, FlushFails, TypeInv, TypeOK, SettledType
  <1>6. receipt[b] = "ok"
    BY <1>4, <1>5, BatchTypes DEF Outcomes
  <1>7. PICK i \in 1..Len(log) : log[i] \in Ids /\ b \in Entries(log[i])
    BY <1>6 DEF AckedIsLogged
  <1>8. from[log[i]] # 0
    BY <1>7 DEF InLog, LoggedSent, NamedEmerged, Name
  <1>9. b = log[i]
    <2>1. b \in Nat /\ log[i] \in Nat /\ from[log[i]] \in Nat /\ b >= from[log[i]] /\ b <= log[i]
      BY <1>7, BatchTypes DEF Entries
    <2>2. b < log[i] => b < from[log[i]]
      BY <1>7, <1>8 DEF BatchInv, BatchesApart
    <2> QED
      BY <2>1, <2>2
  <1> QED
    BY <1>6, <1>7, <1>9 DEF InLog

LEMMA PhaseSteps ==
  ASSUME TypeInv, BatchInv, [Next]_vars, NEW b \in Ids
  PROVE  /\ phase'[b] \in {"offer", "queued", "claimwait"} /\ ~Emitted(b) =>
              phase[b] \in {"offer", "queued", "claimwait"}
         /\ phase[b] \in Outcomes => phase'[b] = phase[b]
         /\ phase'[b] \in Working => phase[b] \in Active
  <1> DEFINE Waits == {"offer", "queued", "claimwait"}
             Goal == /\ phase'[b] \in Waits => phase[b] \in Waits
                     /\ phase[b] \in Outcomes => phase'[b] = phase[b]
                     /\ phase'[b] \in Working => phase[b] \in Active
  <1>1. ASSUME phase'[b] = phase[b]
        PROVE  Goal
    BY <1>1 DEF Active, Working
  <1>2. ASSUME NEW d \in Ids, NEW l, phase' = [phase EXCEPT ![d] = l], phase[d] \in Active,
               l \in Waits => phase[d] \in Waits
        PROVE  Goal
    <2>1. CASE d = b
      <3>1. phase'[b] = l
        BY <1>2, <2>1, BatchTypes
      <3> QED
        BY <1>2, <2>1, <3>1 DEF Active, Working, Outcomes, Failures
    <2>2. CASE d # b
      BY <1>1, <1>2, <2>2, BatchTypes
    <2> QED
      BY <2>1, <2>2
  <1>3. ASSUME NEW d \in Ids, Worker(d)
        PROVE  Goal
    <2>1. CASE Started(d) \/ Reclaimed(d)
      BY <1>2, <2>1 DEF Started, Reclaimed, Replied, Active, Working
    <2>2. ASSUME NEW out \in Outcomes, Settled(d, out)
          PROVE  Goal
      <3>1. phase' = [phase EXCEPT ![d] = out]
        BY <2>2 DEF Settled, Finish, Complete
      <3> QED
        BY <1>2, <2>2, <3>1 DEF Settled, Active, Outcomes, Failures
    <2>3. ASSUME NEW l \in Phases, Moved(d, l)
          PROVE  Goal
      <3>1. phase' = [phase EXCEPT ![d] = l] /\ phase[d] \in Active
        BY <2>3 DEF Moved, Replied, Active, Working
      <3>2. l \in Waits => phase[d] \in Waits
        BY <2>3 DEF Moved
      <3> QED
        BY <1>2, <3>1, <3>2
    <2> QED
      BY <1>3, <2>1, <2>2, <2>3, WorkerShape
  <1>4. CASE Quiet \/ Pending
    BY <1>1, <1>4 DEF Quiet, Pending
  <1>5. CASE StopEnd
    <2>1. phase'[b] = (IF phase[b] \in {"offer", "queued"} THEN "dead" ELSE phase[b])
      BY <1>5, BatchTypes DEF StopEnd
    <2> QED
      BY <2>1 DEF Active, Working, Outcomes, Failures
  <1>6. ASSUME NEW last \in Ids, Emitted(last)
        PROVE  ~Emitted(b) => Goal
    BY <1>1, <1>6, EmittedRow
  <1>7. ASSUME NEW last \in Ids, Emitted(last)
        PROVE  /\ phase[b] \in Outcomes => phase'[b] = phase[b]
               /\ phase'[b] \in Working => phase[b] \in Active
    BY <1>7, EmittedRow DEF Active, Working, Outcomes, Failures
  <1>8. ASSUME NEW d \in Ids, Answered(d)
        PROVE  Goal
    <2>1. phase[d] \in Active /\ phase' = [phase EXCEPT ![d] = "replied"]
      BY <1>8 DEF Answered, Active, Working
    <2> QED
      BY <1>2, <2>1
  <1>9. ASSUME NEW d \in Ids, OfferEnds(d)
        PROVE  Goal
    <2>1. phase[d] = "offer" /\ \E l : phase' = [phase EXCEPT ![d] = l]
      BY <1>9 DEF OfferEnds, Complete
    <2> QED
      BY <1>2, <2>1 DEF Active
  <1> QED
    BY <1>3, <1>4, <1>5, <1>6, <1>7, <1>8, <1>9, NextShape DEF BatchInv

\* What the release of the held batches, or a request sent again, does.
LEMMA ClaimsRow ==
  ASSUME TypeInv, BatchInv, NEW d \in Ids, Worker(d), Claims(d)
  PROVE  /\ UNCHANGED <<from, first, claiming, emitted, epoch, req>> /\ claimed' = TRUE
         /\ nextSeq' = nextSeq + Cardinality(Held)
         /\ \A b \in Ids : b \in Held =>
               /\ tuple'[b] = [epoch |-> epoch, seq |-> SeqOfHeld(b)] /\ from[b] # 0
               /\ Name(b)' = [epoch |-> epoch, seq |-> SeqOfHeld(b)] /\ tuple'[b] # NoTuple
         /\ \A b \in Ids : b \notin Held => tuple'[b] = tuple[b] /\ Name(b)' = Name(b)
         /\ d \notin Held /\ from[d] # 0 /\ phase[d] = "replied"
  <1>1. UNCHANGED <<from, first, claiming, emitted>>
    BY WorkerShape DEF WorkerKeeps, admission
  <1>2. /\ UNCHANGED <<epoch, req>> /\ phase[d] = "replied" /\ ReserveHeld
        /\ claimed' = (claimed \/ "ok" = "ok")
    BY DEF Claims, Settled, Finish, Replied, Failures
  <1>3. claimed' = TRUE
    BY <1>2, ClaimTypes, Zenon
  <1>4. /\ nextSeq' = nextSeq + Cardinality(Held)
        /\ \A b \in Ids : tuple'[b] = IF b \in Held THEN [epoch |-> epoch, seq |-> SeqOfHeld(b)] ELSE tuple[b]
    BY <1>2 DEF ReserveHeld
  <1>5. ASSUME NEW b \in Ids, b \in Held
        PROVE  from[b] # 0 /\ req[b] = NoTuple /\ tuple'[b] # NoTuple
    <2>1. tuple'[b] = [epoch |-> epoch, seq |-> SeqOfHeld(b)]
      BY <1>4, <1>5
    <2>2. tuple'[b] # NoTuple
      BY <2>1, BatchTypes DEF NoTuple
    <2> QED
      BY <1>5, <2>2 DEF BatchInv, UnsettledOpen, UnsentUnnamed, Held, Active, Working
  <1>6. from[d] # 0 /\ d \notin Held
    BY <1>2 DEF BatchInv, UnsettledOpen, Held, Active, Working
  <1> QED
    BY <1>1, <1>2, <1>3, <1>4, <1>5, <1>6 DEF Name

LEMMA ReclaimedRow ==
  ASSUME TypeInv, BatchInv, ClaimInv, EpochInv, NEW d \in Ids, Worker(d), Reclaimed(d)
  PROVE  /\ UNCHANGED <<from, first, tuple, claimed, claiming, claim, receipt, emitted>>
         /\ epoch' > epoch /\ nextSeq' = 1 /\ first[d] /\ ~claimed /\ from[d] # 0
         /\ phase[d] = "replied"
         /\ Name(d)' = [epoch |-> epoch', seq |-> 0]
         /\ \A b \in Ids : b # d => Name(b)' = Name(b)
  <1>1. UNCHANGED <<from, first, claiming, emitted>>
    BY WorkerShape DEF WorkerKeeps, admission
  <1>2. /\ UNCHANGED <<tuple, claimed, claim, receipt>> /\ nextSeq' = 1 /\ phase[d] = "replied"
        /\ req' = [req EXCEPT ![d] = [epoch |-> epoch', seq |-> 0]]
    BY DEF Reclaimed, Replied, settled
  <1>3. epoch' > epoch /\ first[d] /\ ~claimed
    BY ReclaimFirst
  <1>4. from[d] # 0
    BY <1>2 DEF BatchInv, UnsettledOpen, Active, Working
  <1>5. req'[d] = [epoch |-> epoch', seq |-> 0] /\ \A b \in Ids : b # d => req'[b] = req[b]
    BY <1>2, BatchTypes
  <1>6. req'[d] # NoTuple
    BY <1>5 DEF NoTuple
  <1>7. Name(d)' = [epoch |-> epoch', seq |-> 0] /\ \A b \in Ids : b # d => Name(b)' = Name(b)
    BY <1>2, <1>5, <1>6 DEF Name
  <1> QED
    BY <1>1, <1>2, <1>3, <1>4, <1>7

LEMMA NextWaitingNamed ==
  ASSUME TypeInv, BatchInv, ClaimInv, EpochInv, WaitingNamed, [Next]_vars
  PROVE  WaitingNamed'
  <1>0. EmittedAdmitted
    BY DEF BatchInv
  <1> SUFFICES ASSUME NEW b \in Ids, phase'[b] \in {"offer", "queued", "claimwait"},
                      tuple'[b] = NoTuple
               PROVE  ~claimed' /\ ~first'[b]
    BY DEF WaitingNamed
  <1>1. ASSUME UNCHANGED <<tuple, claimed, first>>, ~Emitted(b)
        PROVE  ~claimed' /\ ~first'[b]
    <2>1. ~claimed /\ ~first[b]
      BY <1>0, <1>1, PhaseSteps DEF WaitingNamed
    <2>2. claimed' = claimed /\ first'[b] = first[b]
      BY <1>1
    <2> QED
      BY <2>1, <2>2, Zenon
  <1>2. ASSUME NEW last \in Ids, Emitted(last)
        PROVE  ~claimed' /\ ~first'[b]
    <2>1. CASE b = last
      <3>1. tuple'[b] = [epoch |-> epoch, seq |-> nextSeq] => tuple'[b] # NoTuple
        BY BatchTypes DEF NoTuple
      <3>2. ~(claimed \/ ~claiming)
        BY <1>2, <2>1, <3>1, EmittedRow
      <3>3. claimed' = claimed /\ (first'[b] <=> (~claimed /\ ~claiming))
        BY <1>2, <2>1, EmittedRow
      <3> QED
        BY <3>2, <3>3, Zenon
    <2>2. CASE b # last
      <3>1. phase'[b] = phase[b] /\ tuple'[b] = tuple[b] /\ first'[b] = first[b] /\ claimed' = claimed
        BY <1>2, <2>2, EmittedRow
      <3>2. ~claimed /\ ~first[b]
        BY <1>0, <3>1 DEF WaitingNamed
      <3> QED
        BY <3>1, <3>2, Zenon
    <2> QED
      BY <2>1, <2>2
  <1>3. ASSUME NEW d \in Ids, Worker(d), Reclaimed(d), ~Emitted(b)
        PROVE  ~claimed' /\ ~first'[b]
    BY <1>1, <1>3, ReclaimedRow
  <1>4. ASSUME NEW d \in Ids, Worker(d), Claims(d), ~Emitted(b)
        PROVE  FALSE
    <2>1. phase[b] \in {"offer", "queued", "claimwait"}
      BY <1>4, PhaseSteps
    <2> QED
      BY <1>4, <2>1, ClaimsRow DEF Held
  <1> QED
    BY <1>0, <1>1, <1>2, <1>3, <1>4, RowSteps DEF RowKept

LEMMA NextClosedIdle ==
  ASSUME TypeInv, BatchInv, ClosedIdle, [Next]_vars
  PROVE  ClosedIdle'
  <1>0. EmittedAdmitted
    BY DEF BatchInv
  <1> SUFFICES ASSUME scope' = "closed", NEW b \in Ids PROVE phase'[b] \notin Working
    BY DEF ClosedIdle
  <1>1. CASE StopEnd
    <2>1. phase'[b] = (IF phase[b] \in {"offer", "queued"} THEN "dead" ELSE phase[b])
      BY <1>1, BatchTypes DEF StopEnd
    <2> QED
      BY <1>1, <2>1 DEF StopEnd, InWork, Working
  <1>2. CASE scope = "closed"
    <2>1. \A d \in Ids : ~Worker(d) /\ ~Answered(d)
      BY <1>0, <1>2, ClosedStill DEF ClosedIdle, Answered, Working
    <2>2. phase[b] \notin Working
      BY <1>0, <1>2 DEF ClosedIdle
    <2>3. CASE Quiet \/ Pending
      BY <2>2, <2>3 DEF Quiet, Pending
    <2>4. ASSUME NEW last \in Ids, Emitted(last)
          PROVE  phase'[b] \notin Working
      BY <2>2, <2>4, EmittedRow DEF Working
    <2>5. ASSUME NEW d \in Ids, OfferEnds(d)
          PROVE  phase'[b] \notin Working
      <3>1. \E l \in {"queued", "int"} : phase' = [phase EXCEPT ![d] = l]
        BY <2>5 DEF OfferEnds, Complete
      <3>2. phase'[b] \in {phase[b], "queued", "int"}
        BY <3>1, BatchTypes
      <3> QED
        BY <2>2, <3>2 DEF Working
    <2> QED
      BY <1>0, <1>1, <2>1, <2>3, <2>4, <2>5, NextShape
  <1> QED
    BY <1>1, <1>2, ScopeSteps DEF StopBegin

LEMMA NextPlaceRow ==
  ASSUME TypeInv, BatchInv, ClaimInv, EpochInv, OnceInv, NoHoles, PlaceRow, [Next]_vars
  PROVE  PlaceRow'
  <1>0. /\ ClaimedLive /\ ClosedIdle /\ WaitingNamed /\ NamedEmerged /\ LoggedSent /\ Chained
        /\ EmittedAdmitted /\ PendingUntouched /\ BatchesApart
    BY DEF PlaceRow, BatchInv
  <1>1. ClaimedLive'
    BY <1>0, ScopeSteps DEF NoHoles, ClaimedLive, StopBegin, StopEnd
  <1>2. ClosedIdle'
    BY <1>0, NextClosedIdle
  <1>3. WaitingNamed'
    BY <1>0, NextWaitingNamed
  <1>4. NamedEmerged'
    <2> SUFFICES ASSUME NEW b \in Ids, Name(b)' # NoTuple PROVE from'[b] # 0
      BY DEF NamedEmerged
    <2>1. ASSUME NEW d \in Ids, Worker(d), Reclaimed(d) \/ Claims(d)
          PROVE  from'[b] # 0
      BY <1>0, <2>1, ReclaimedRow, ClaimsRow DEF NamedEmerged
    <2>2. ASSUME NEW last \in Ids, Emitted(last)
          PROVE  from'[b] # 0
      BY <1>0, <2>2, EmittedRow, BatchTypes DEF NamedEmerged
    <2> QED
      BY <1>0, <2>1, <2>2, RowSteps DEF RowKept, NamedEmerged
  <1>5. LoggedSent'
    <2> SUFFICES ASSUME NEW b \in Ids, InLog(b)' PROVE req'[b] # NoTuple
      BY DEF LoggedSent
    <2>1. CASE InLog(b)
      <3>1. req'[b] = req[b]
        BY <2>1, DoneStays DEF OnceInv, LoggedDone
      <3> QED
        BY <1>0, <2>1, <3>1 DEF LoggedSent
    <2> QED
      BY <2>1, InLogAdded
  <1>6. ASSUME NEW b \in Ids, Sendable(b)', from'[b] > 1
        PROVE  from'[from'[b] - 1] # 0
    <2>1. CASE from[b] # 0
      <3>1. from'[b] = from[b]
        BY <2>1, BatchStays
      <3>2. from[from[b] - 1] # 0
        BY <1>0, <1>6, <3>1, SendableStays DEF Chained
      <3>3. from[b] - 1 \in Ids
        BY <1>0, <1>6, <3>1, BatchTypes, OptionsAssumption DEF BatchesApart, Ids
      <3> QED
        BY <3>1, <3>2, <3>3, BatchStays
    <2>2. CASE from[b] = 0
      <3>1. Emitted(b)
        <4>1. from'[b] # from[b]
          BY <1>6, <2>2
        <4>2. ASSUME NEW last \in Ids, Emitted(last)
              PROVE  last = b
          BY <4>1, <4>2, EmittedRow
        <4> QED
          BY <1>0, <4>1, <4>2, RowSteps, ReclaimedRow, ClaimsRow DEF RowKept
      <3>2. from'[b] = emitted + 1 /\ req'[b] = NoTuple /\ b > emitted
        BY <3>1, EmittedRow
      <3>3. scope # "closed"
        BY <1>6, <3>2, ScopeSteps DEF Sendable, StopBegin, StopEnd
      <3>4. emitted > 0
        BY <1>6, <3>2, BatchTypes
      <3>5. from[emitted] # 0 /\ emitted \in Ids
        BY <1>0, <3>3, <3>4, BatchTypes, OptionsAssumption DEF Chained, Ids
      <3>6. from'[b] - 1 = emitted
        BY <3>2, BatchTypes
      <3> QED
        BY <3>5, <3>6, BatchStays
    <2> QED
      BY <2>1, <2>2
  <1>7. ASSUME scope' # "closed", emitted' > 0
        PROVE  from'[emitted'] # 0
    <2>1. scope # "closed"
      BY <1>7, ScopeSteps DEF StopBegin, StopEnd
    <2>2. ASSUME emitted' = emitted
          PROVE  from'[emitted'] # 0
      <3>1. from[emitted] # 0 /\ emitted \in Ids
        BY <1>0, <1>7, <2>1, <2>2, BatchTypes, OptionsAssumption DEF Chained, Ids
      <3> QED
        BY <2>2, <3>1, BatchStays
    <2>3. ASSUME NEW last \in Ids, Emitted(last)
          PROVE  from'[emitted'] # 0
      BY <2>3, EmittedRow, BatchTypes
    <2> QED
      BY <1>0, <1>7, <2>2, <2>3, RowSteps, ReclaimedRow, ClaimsRow DEF RowKept
  <1>8. Chained'
    BY <1>6, <1>7 DEF Chained
  <1> QED
    BY <1>1, <1>2, <1>3, <1>4, <1>5, <1>8 DEF PlaceRow

\* The claim is settled by its own batch.
LEMMA ClaimSettles ==
  ASSUME TypeInv, BatchInv, [Next]_vars
  PROVE  \/ claim' = claim
         \/ \E b \in Ids : /\ first[b] /\ claim' \in Outcomes /\ phase'[b] \in Outcomes
                           /\ claiming' = claiming /\ first' = first
  <1>1. ASSUME NEW b \in Ids, Worker(b), claim' # claim
        PROVE  first[b] /\ claim' \in Outcomes /\ phase'[b] \in Outcomes /\ UNCHANGED <<claiming, first>>
    <2>1. PICK out \in Outcomes : Settled(b, out)
      BY <1>1, WorkerShape DEF Started, Reclaimed, Moved
    <2>2. first[b] /\ claim' = out /\ phase' = [phase EXCEPT ![b] = out]
      BY <1>1, <2>1 DEF Settled, Finish, Complete
    <2> QED
      BY <1>1, <2>2, BatchTypes, WorkerShape DEF WorkerKeeps
  <1>2. CASE \/ Quiet \/ Pending \/ StopEnd \/ (\E last \in Ids : Emitted(last))
             \/ \E b \in Ids : Answered(b) \/ OfferEnds(b)
    BY <1>2 DEF Quiet, Pending, StopEnd, Emitted, Answered, OfferEnds, batchState, claims
  <1> QED
    BY <1>1, <1>2, NextShape DEF BatchInv

LEMMA HeldStays ==
  ASSUME TypeInv, BatchInv, ClaimInv, EpochInv, PlaceRow, AutoClaim, NoHoles, [Next]_vars,
         ~claimed', claim' = "open", NEW b \in Ids, b \in Held, ~first[b]
  PROVE  b \in Held'
  <1>0. /\ EmittedAdmitted /\ Interruptible = {} /\ scope = "live" /\ WaitingNamed
        /\ tuple[b] = NoTuple /\ phase[b] \in {"offer", "queued", "claimwait"} /\ ~claimed
    BY DEF PlaceRow, ClaimedLive, NoHoles, BatchInv, Held, WaitingNamed
  <1>1. claim = "open"
    BY ClaimSettles DEF Outcomes, Failures
  <1>2. tuple'[b] = NoTuple
    <2>1. ASSUME NEW last \in Ids, Emitted(last)
          PROVE  tuple'[b] = NoTuple
      BY <1>0, <2>1, EmittedRow
    <2>2. ASSUME NEW d \in Ids, Worker(d), Reclaimed(d) \/ Claims(d)
          PROVE  tuple'[b] = NoTuple
      BY <1>0, <2>2, ReclaimedRow, ClaimsRow
    <2> QED
      BY <1>0, <2>1, <2>2, RowSteps DEF RowKept
  <1> SUFFICES phase'[b] \in {"offer", "queued", "claimwait"}
    BY <1>2 DEF Held
  <1>3. CASE phase[b] = "offer"
    BY <1>0, <1>3, OfferKept
  <1>4. CASE phase[b] # "offer"
    <2>1. Worker(b) => phase'[b] \in {"offer", "queued", "claimwait"}
      <3>1. ~Claimed(b) /\ ~WorkerStopped(b)
        BY <1>0, <1>1 DEF Claimed, WorkerStopped
      <3>2. Take(b) => phase' = [phase EXCEPT ![b] = "claimwait"]
        BY <1>0 DEF Take
      <3>3. Take(b) => phase'[b] = "claimwait"
        BY <3>2, BatchTypes
      <3> QED
        BY <1>0, <3>1, <3>3 DEF Worker, Delivered, Rejected, Fenced, Gap, GapFilled, Replied
    <2>2. ASSUME NEW d \in Ids, d # b, NEW l, phase' = [phase EXCEPT ![d] = l]
          PROVE  phase'[b] = phase[b]
      BY <2>2, BatchTypes
    <2>3. ASSUME NEW d \in Ids, Worker(d), d # b
          PROVE  phase'[b] = phase[b]
      <3>1. \E l : phase' = [phase EXCEPT ![d] = l]
        BY <2>3, WorkerShape DEF Started, Reclaimed, Settled, Finish, Complete, Moved
      <3> QED
        BY <2>2, <2>3, <3>1
    <2>4. CASE Quiet \/ Pending
      BY <1>0, <2>4 DEF Quiet, Pending
    <2>5. ASSUME NEW last \in Ids, Emitted(last)
          PROVE  phase'[b] = phase[b]
      BY <1>0, <2>5, EmittedRow
    <2>6. ASSUME NEW d \in Ids, Answered(d) \/ OfferEnds(d)
          PROVE  phase'[b] = phase[b]
      <3>1. d # b /\ \E l : phase' = [phase EXCEPT ![d] = l]
        BY <1>0, <1>4, <2>6 DEF Answered, OfferEnds, Complete
      <3> QED
        BY <2>2, <3>1
    <2>7. ~StopEnd
      BY <1>0 DEF StopEnd
    <2> QED
      BY <1>0, <2>1, <2>3, <2>4, <2>5, <2>6, <2>7, NextShape
  <1> QED
    BY <1>3, <1>4

\* No answer to a close arrives before the close has its tuple.
LEMMA AnsweredClose ==
  ASSUME TypeInv, CloseInv, NEW c \in Closes, CloseAnswered(c)
  PROVE  closeRequest # NoTuple
  BY PlaceTypes DEF CloseInv, PlaceInv, Places, CallPlace, CloseAnswered

LEMMA NextClaimRow ==
  ASSUME SequenceInv, OnceInv, LastInv, AckedIsLogged, NoHoles, OneLifecycle,
         PlaceRow, ClaimRow, [Next]_vars
  PROVE  ClaimRow'
  <1>0. /\ TypeInv /\ BatchInv /\ ClaimInv /\ CloseInv /\ EpochInv /\ WaitingNamed /\ ClaimedLive
        /\ EmittedAdmitted /\ PendingUntouched /\ BatchesApart /\ Unsent /\ FirstRow /\ ClaimOpen
        /\ NamedEmerged /\ LoggedSent /\ TypeInv'
    BY NextType DEF SequenceInv, BatchInv, PlaceRow, ClaimRow
  <1>1. ~claimed => AutoClaim /\ scope = "live"
    BY <1>0 DEF ClaimInv, NoClaim, ClaimedLive
  <1>2. \A last \in Ids : Emitted(last) => closeRequest = NoTuple
    <2> SUFFICES ASSUME NEW last \in Ids, Emitted(last), closeRequest # NoTuple PROVE FALSE
      OBVIOUS
    <2>1. from'[last] # from[last]
      BY <1>0, EmittedRow, BatchTypes
    <2> QED
      BY <1>0, <2>1, ReadyStays DEF CloseInv
  <1>3. ASSUME ~claimed, closeRequest' = NoTuple, NEW b \in Ids, from[b] # 0, receipt[b] # "ok"
        PROVE  ~(\E c \in Restarts : Restarted(c)) /\ ~(\E c \in Closes : CloseAnswered(c))
    <2>1. scope # "closed"
      BY <1>1, <1>3
    <2>2. ASSUME NEW c \in Restarts, Restarted(c)
          PROVE  FALSE
      BY <1>0, <1>3, <2>1, <2>2, RestartLogged DEF Restarted
    <2>3. ASSUME NEW c \in Closes, CloseAnswered(c)
          PROVE  FALSE
      BY <1>0, <1>3, <2>3, AnsweredClose, CloseStays
    <2> QED
      BY <2>2, <2>3
  <1>4. Unsent'
    <2>1. ASSUME ~claimed', ~claiming'
          PROVE  emitted' = 0 /\ (closeRequest' = NoTuple => nextSeq' = 0)
      <3>1. ASSUME NEW last \in Ids, Emitted(last)
            PROVE  FALSE
        <4>1. claimed' = claimed /\ (claiming' <=> (claiming \/ ~claimed))
          BY <1>0, <3>1, EmittedRow
        <4> QED
          BY <2>1, <4>1, Zenon
      <3>2. ASSUME NEW d \in Ids, Worker(d), Reclaimed(d)
            PROVE  FALSE
        <4>1. first[d] /\ ~claimed /\ claiming' = claiming
          BY <1>0, <3>2, ReclaimedRow
        <4>2. ~claiming
          BY <2>1, <4>1, Zenon
        <4> QED
          BY <1>0, <1>1, <4>1, <4>2 DEF ClaimInv, Unclaimed
      <3>3. ASSUME NEW d \in Ids, Worker(d), Claims(d)
            PROVE  FALSE
        BY <1>0, <2>1, <3>3, ClaimsRow
      <3>4. /\ RowKept
            /\ \/ UNCHANGED <<epoch, nextSeq>>
               \/ (\E c \in Restarts : Restarted(c)) \/ \E c \in Closes : CloseAnswered(c)
        BY <1>0, <3>1, <3>2, <3>3, RowSteps
      <3>5. claimed' = claimed /\ claiming' = claiming
        BY <3>4 DEF RowKept
      <3>6. ~claimed /\ ~claiming
        BY <2>1, <3>5, Zenon
      <3>7. emitted' = 0
        BY <1>0, <1>1, <3>4, <3>6, ScopeSteps DEF RowKept, Unsent, NoHoles, StopBegin, StopEnd
      <3>8. closeRequest' = NoTuple => nextSeq' = 0
        BY <1>0, <3>4, <3>6, CloseStays, AnsweredClose DEF Unsent, Restarted, FinishRestart
      <3> QED
        BY <3>7, <3>8
    <2>2. ASSUME ~claiming'
          PROVE  claim' = "open"
      <3>1. ASSUME NEW b \in Ids, first[b], claiming' = claiming
            PROVE  FALSE
        <4>1. ~claiming
          BY <2>2, <3>1, Zenon
        <4> QED
          BY <1>0, <3>1, <4>1 DEF ClaimInv, NoClaim, Unclaimed
      <3>2. claim' = claim
        BY <1>0, <3>1, ClaimSettles
      <3>3. ~claiming
        <4>1. ASSUME claiming, NEW last \in Ids, Emitted(last)
              PROVE  FALSE
          <5>1. claiming' <=> (claiming \/ ~claimed)
            BY <1>0, <4>1, EmittedRow
          <5> QED
            BY <2>2, <4>1, <5>1, Zenon
        <4>2. ASSUME claiming' = claiming
              PROVE  ~claiming
          BY <2>2, <4>2, Zenon
        <4> QED
          BY <1>0, <4>1, <4>2, RowSteps, ReclaimedRow, ClaimsRow DEF RowKept
      <3> QED
        BY <1>0, <3>2, <3>3 DEF Unsent
    <2> QED
      BY <2>1, <2>2 DEF Unsent
  <1>5. FirstRow'
    <2> SUFFICES ASSUME ~claimed', claiming', closeRequest' = NoTuple
                 PROVE  /\ nextSeq' = 1
                        /\ \E f \in Ids : /\ first'[f] /\ from'[f] = 1 /\ receipt'[f] # "ok"
                                          /\ Name(f)' = [epoch |-> epoch', seq |-> 0]
                        /\ claim' = "open" => \A b \in Ids : from'[b] # 0 /\ ~first'[b] => b \in Held'
      BY DEF FirstRow
    <2>0. closeRequest = NoTuple
      BY <1>0, CloseStays
    <2> DEFINE Goal == /\ nextSeq' = 1
                       /\ \E f \in Ids : /\ first'[f] /\ from'[f] = 1 /\ receipt'[f] # "ok"
                                         /\ Name(f)' = [epoch |-> epoch', seq |-> 0]
                       /\ claim' = "open" => \A b \in Ids : from'[b] # 0 /\ ~first'[b] => b \in Held'
    <2>1. ASSUME ~claimed, NEW f \in Ids, first[f], from[f] = 1, receipt[f] # "ok"
          PROVE  receipt'[f] # "ok"
      <3> SUFFICES ASSUME NEW b \in Ids, Worker(b), Settled(b, "ok"), f \in Entries(b)
                   PROVE  FALSE
        BY <1>0, <2>1, AckedBy
      <3>1. from[b] # 0
        BY <1>0 DEF Settled, BatchInv, UnsettledOpen, Active, Working
      <3>2. b = f
        <4>1. f <= b /\ f >= from[b] /\ f \in Nat /\ b \in Nat /\ from[b] \in Nat
          BY <1>0, BatchTypes DEF Entries
        <4>2. f < b => f < from[b]
          BY <1>0, <2>1, <3>1 DEF BatchesApart
        <4> QED
          BY <4>1, <4>2
      <3>3. Claims(b)
        BY <2>1, <3>2 DEF Claims
      <3> QED
        BY <1>0, <3>3, ClaimsRow
    <2>2. ASSUME NEW last \in Ids, Emitted(last)
          PROVE  Goal
      <3>0. UNCHANGED <<epoch, claimed, claim, receipt>>
        BY <1>0, <2>2, EmittedRow
      <3>1. ~claimed
        BY <3>0, Zenon
      <3>2. CASE ~claiming
        <4>1. emitted = 0 /\ nextSeq = 0
          BY <1>0, <2>0, <3>1, <3>2 DEF Unsent
        <4>2. nextSeq' = nextSeq + 1 /\ Name(last)' = [epoch |-> epoch, seq |-> nextSeq]
              /\ from'[last] = emitted + 1 /\ (first'[last] <=> (~claimed /\ ~claiming))
          BY <1>0, <2>2, <3>2, EmittedRow
        <4>3. first'[last]
          BY <3>1, <3>2, <4>2, Zenon
        <4>4. receipt'[last] # "ok"
          BY <1>0, <2>2, <3>0, EmittedRow DEF PendingUntouched
        <4>5. \A b \in Ids : from'[b] # 0 => b = last
          BY <1>0, <2>2, <4>1, EmittedRow, BatchTypes DEF PendingUntouched
        <4>6. nextSeq' = 1 /\ from'[last] = 1 /\ Name(last)' = [epoch |-> epoch', seq |-> 0]
          BY <3>0, <4>1, <4>2
        <4> QED
          BY <4>3, <4>4, <4>5, <4>6
      <3>3. CASE claiming
        <4>1. nextSeq = 1 /\ (claim = "open" => \A b \in Ids : from[b] # 0 /\ ~first[b] => b \in Held)
          BY <1>0, <2>0, <3>1, <3>3 DEF FirstRow
        <4>2. PICK f \in Ids : /\ first[f] /\ from[f] = 1 /\ receipt[f] # "ok"
                               /\ Name(f) = [epoch |-> epoch, seq |-> 0]
          BY <1>0, <2>0, <3>1, <3>3 DEF FirstRow
        <4>3. nextSeq' = nextSeq /\ tuple'[last] = NoTuple /\ phase'[last] \in {"offer", "queued"}
              /\ from[last] = 0
          BY <1>0, <2>2, <3>1, <3>3, EmittedRow
        <4>4. first'[f] = first[f] /\ from'[f] = 1 /\ Name(f)' = Name(f)
          <5>1. f # last
            BY <4>2, <4>3
          <5> QED
            BY <1>0, <2>2, <4>2, <5>1, EmittedRow
        <4>5. ASSUME claim' = "open", NEW b \in Ids, from'[b] # 0, ~first'[b]
              PROVE  b \in Held'
          <5>1. CASE b = last
            BY <4>3, <5>1 DEF Held
          <5>2. CASE b # last
            <6>1. /\ from'[b] = from[b] /\ first'[b] = first[b] /\ tuple'[b] = tuple[b]
                  /\ phase'[b] = phase[b]
              BY <1>0, <2>2, <5>2, EmittedRow
            <6>2. ~first[b]
              BY <4>5, <6>1, Zenon
            <6>3. b \in Held
              BY <3>0, <4>1, <4>5, <6>1, <6>2
            <6> QED
              BY <6>1, <6>3 DEF Held
          <5> QED
            BY <5>1, <5>2
        <4>6. first'[f]
          BY <4>2, <4>4, Zenon
        <4>7. receipt'[f] # "ok" /\ Name(f)' = [epoch |-> epoch', seq |-> 0] /\ nextSeq' = 1
          BY <3>0, <4>1, <4>2, <4>3, <4>4
        <4> QED
          BY <4>4, <4>5, <4>6, <4>7
      <3> QED
        BY <3>2, <3>3
    <2>3. ASSUME ~claimed, claiming, first' = first, from' = from, claimed' = claimed
          PROVE  claim' = "open" => \A b \in Ids : from'[b] # 0 /\ ~first'[b] => b \in Held'
      <3> SUFFICES ASSUME claim' = "open", NEW b \in Ids, from[b] # 0, ~first[b]
                   PROVE  b \in Held'
        BY <2>3
      <3>1. claim = "open"
        BY <1>0, ClaimSettles DEF Outcomes, Failures
      <3>2. b \in Held
        BY <1>0, <2>0, <2>3, <3>1 DEF FirstRow
      <3> QED
        BY <1>0, <1>1, <2>3, <3>2, HeldStays
    <2>4. ASSUME RowKept,
                 \/ UNCHANGED <<epoch, nextSeq>>
                 \/ (\E c \in Restarts : Restarted(c)) \/ \E c \in Closes : CloseAnswered(c)
          PROVE  Goal
      <3>0. UNCHANGED <<first, from, claimed, claiming>> /\ \A b \in Ids : Name(b)' = Name(b)
        BY <2>4 DEF RowKept
      <3>1. ~claimed /\ claiming
        BY <3>0, Zenon
      <3>2. PICK f \in Ids : /\ first[f] /\ from[f] = 1 /\ receipt[f] # "ok"
                             /\ Name(f) = [epoch |-> epoch, seq |-> 0]
        BY <1>0, <2>0, <3>1 DEF FirstRow
      <3>3. UNCHANGED <<epoch, nextSeq>>
        BY <1>3, <2>4, <3>1, <3>2
      <3>4. nextSeq' = 1 /\ receipt'[f] # "ok"
        BY <1>0, <2>0, <2>1, <3>1, <3>2, <3>3 DEF FirstRow
      <3> QED
        BY <2>3, <3>0, <3>1, <3>2, <3>3, <3>4
    <2>5. ASSUME NEW d \in Ids, Worker(d), Reclaimed(d)
          PROVE  Goal
      <3>0. /\ UNCHANGED <<from, first, claimed, claiming, receipt>> /\ nextSeq' = 1 /\ first[d] /\ ~claimed
            /\ Name(d)' = [epoch |-> epoch', seq |-> 0]
        BY <1>0, <2>5, ReclaimedRow
      <3>1. claiming
        BY <3>0, Zenon
      <3>2. PICK f \in Ids : first[f] /\ from[f] = 1 /\ receipt[f] # "ok"
        BY <1>0, <2>0, <3>0, <3>1 DEF FirstRow
      <3>3. f = d
        BY <1>0, <3>0, <3>2 DEF ClaimInv, FirstOnce
      <3> QED
        BY <2>3, <3>0, <3>1, <3>2, <3>3
    <2>6. ASSUME NEW d \in Ids, Worker(d), Claims(d)
          PROVE  FALSE
      BY <1>0, <2>6, ClaimsRow
    <2> HIDE DEF Goal
    <2>7. Goal
      BY <1>0, <2>2, <2>4, <2>5, <2>6, RowSteps
    <2> QED
      BY <2>7 DEF Goal
  <1>6. ClaimOpen'
    <2> SUFFICES ASSUME NEW b \in Ids, first'[b], phase'[b] \notin Outcomes PROVE claim' = "open"
      BY DEF ClaimOpen
    <2>1. CASE first[b]
      <3>1. phase[b] \notin Outcomes
        BY <1>0, PhaseSteps
      <3>2. claim = "open"
        BY <1>0, <2>1, <3>1 DEF ClaimOpen
      <3>3. claim' = claim
        BY <1>0, <2>1, ClaimSettles DEF ClaimInv, FirstOnce
      <3> QED
        BY <3>2, <3>3
    <2>2. CASE ~first[b]
      <3>1. first' # first
        BY <2>2, Zenon
      <3>2. PICK last \in Ids : Emitted(last)
        BY <1>0, <3>1, RowSteps, ReclaimedRow, ClaimsRow DEF RowKept
      <3>3. b = last
        <4>1. ASSUME b # last
              PROVE  FALSE
          <5>1. first'[b] = first[b]
            BY <1>0, <3>2, <4>1, EmittedRow
          <5> QED
            BY <2>2, <5>1, Zenon
        <4> QED
          BY <4>1
      <3>4. (first'[last] <=> (~claimed /\ ~claiming)) /\ claim' = claim
        BY <1>0, <3>2, EmittedRow
      <3>5. ~claiming
        BY <3>3, <3>4, Zenon
      <3> QED
        BY <1>0, <3>4, <3>5 DEF Unsent
    <2> QED
      BY <2>1, <2>2
  <1> QED
    BY <1>4, <1>5, <1>6 DEF ClaimRow

LEMMA NameTypes ==
  ASSUME TypeInv, NEW b \in Ids
  PROVE  /\ Name(b) \in Tuple /\ Name(b).epoch \in Int /\ Name(b).seq \in Int
         /\ Name(b) = [epoch |-> Name(b).epoch, seq |-> Name(b).seq]
         /\ epoch \in Int /\ nextSeq \in Int
  <1>1. Name(b) \in Tuple
    BY BatchTypes DEF Name
  <1> QED
    BY <1>1, BatchTypes DEF Tuple

\* While the claim is under way, its batch alone has a pair and all the others
\* are held.
LEMMA ClaimPlace ==
  ASSUME SequenceInv, PlaceRow, ClaimRow, NEW d \in Ids, first[d], ~claimed, phase[d] = "replied"
  PROVE  /\ closeRequest = NoTuple /\ nextSeq = 1 /\ from[d] = 1 /\ scope = "live"
         /\ Name(d) = [epoch |-> epoch, seq |-> 0]
         /\ \A b \in Ids : b # d => Name(b) = NoTuple
         /\ \A b \in Ids : from[b] # 0 /\ b # d => b \in Held /\ d < b
         /\ \A b \in Ids : b \in Held => from[b] # 0 /\ b # d
  <1>0. TypeInv /\ BatchInv /\ ClaimInv /\ CloseInv /\ BatchesApart
    BY DEF SequenceInv, BatchInv
  <1>1. closeRequest = NoTuple
    BY <1>0 DEF CloseInv, CloseReady, Active, Working
  <1>2. AutoClaim
    BY <1>0 DEF ClaimInv, NoClaim
  <1>3. claiming
    BY <1>0, <1>2 DEF ClaimInv, Unclaimed
  <1>4. nextSeq = 1 /\ (claim = "open" => \A b \in Ids : from[b] # 0 /\ ~first[b] => b \in Held)
    BY <1>1, <1>3 DEF ClaimRow, FirstRow
  <1>5. PICK f \in Ids : first[f] /\ from[f] = 1 /\ Name(f) = [epoch |-> epoch, seq |-> 0]
    BY <1>1, <1>3 DEF ClaimRow, FirstRow
  <1>6. f = d
    BY <1>0, <1>5 DEF ClaimInv, FirstOnce
  <1>7. claim = "open"
    BY DEF ClaimRow, ClaimOpen, Outcomes, Failures
  <1>8. \A b \in Ids : b # d => ~first[b]
    BY <1>0 DEF ClaimInv, FirstOnce
  <1>9. \A b \in Ids : b # d => Name(b) = NoTuple
    BY <1>0, <1>8 DEF ClaimInv, BeforeClaim, Name
  <1>10. ASSUME NEW b \in Ids, from[b] # 0, b # d
         PROVE  b \in Held /\ d < b
    <2>1. b < d => b < from[d]
      BY <1>0, <1>5, <1>6, <1>10 DEF BatchesApart
    <2>2. b \in Nat /\ b # 0 /\ d \in Nat
      BY <1>0, BatchTypes
    <2> QED
      BY <1>4, <1>5, <1>6, <1>7, <1>8, <1>10, <2>1, <2>2
  <1>11. ASSUME NEW b \in Ids, b \in Held
         PROVE  from[b] # 0 /\ b # d
    BY <1>0, <1>11 DEF BatchInv, UnsettledOpen, Held, Active, Working
  <1> QED
    BY <1>1, <1>2, <1>4, <1>5, <1>6, <1>9, <1>10, <1>11 DEF PlaceRow, ClaimedLive

\* Consecutive places among the held batches are consecutive batches.
LEMMA HeldChained ==
  ASSUME SequenceInv, PlaceRow, ClaimRow, NEW d \in Ids, first[d], ~claimed, phase[d] = "replied",
         NEW c \in Ids, c \in Held
  PROVE  /\ \A b \in Ids : b \in Held /\ SeqOfHeld(c) = SeqOfHeld(b) + 1 => from[c] = b + 1
         /\ SeqOfHeld(c) = 1 => from[c] = d + 1
  <1>0. TypeInv /\ BatchInv /\ BatchesApart /\ Chained
    BY DEF SequenceInv, BatchInv, PlaceRow
  <1>1. /\ nextSeq = 1 /\ from[d] = 1 /\ scope = "live"
        /\ \A b \in Ids : from[b] # 0 /\ b # d => b \in Held /\ d < b
        /\ \A b \in Ids : b \in Held => from[b] # 0 /\ b # d
    BY ClaimPlace
  <1>2. /\ \A b \in Ids : from[b] \in Nat /\ b \in Nat /\ b # 0
        /\ from[c] <= c
    BY <1>0, BatchTypes DEF BatchesApart
  <1>3. d < from[c] /\ from[c] > 1
    BY <1>0, <1>1, <1>2 DEF BatchesApart
  <1> DEFINE p == from[c] - 1
  <1>4. p \in Ids
    BY <1>2, <1>3, OptionsAssumption DEF Ids
  <1>5. from[p] # 0
    BY <1>0, <1>1, <1>3 DEF Chained, Sendable
  <1>6. p < c /\ p >= d
    BY <1>2, <1>3
  <1>7. p # d => p \in Held
    BY <1>1, <1>4, <1>5
  <1>8. ASSUME NEW b \in Ids, b \in Held, NEW x \in Ids, x \in Held, b < x
        PROVE  SeqOfHeld(b) < SeqOfHeld(x) /\ SeqOfHeld(b) \in Nat /\ SeqOfHeld(x) \in Nat
    BY <1>0, <1>8, HeldInOrder
  <1>9. SeqOfHeld(c) \in Nat /\ \A b \in Held : SeqOfHeld(b) \in Nat /\ SeqOfHeld(b) >= 1
    BY <1>0, <1>1, HeldInOrder
  <1> HIDE DEF p
  <1>10. SeqOfHeld(c) = 1 => p = d
    BY <1>4, <1>6, <1>7, <1>8, <1>9
  <1>11. ASSUME NEW b \in Ids, b \in Held, SeqOfHeld(c) = SeqOfHeld(b) + 1
         PROVE  p = b
    <2>1. b < c
      <3>1. ~(c < b) /\ c # b
        BY <1>8, <1>9, <1>11
      <3> QED
        BY <1>2, <3>1
    <2>2. b < from[c]
      BY <1>0, <1>1, <1>11, <2>1 DEF BatchesApart
    <2>3. b <= p
      BY <1>2, <2>2 DEF p
    <2>4. b < p => FALSE
      <3> SUFFICES ASSUME b < p PROVE FALSE
        OBVIOUS
      <3>1. p # d
        BY <1>1, <1>2, <1>11
      <3>2. SeqOfHeld(b) < SeqOfHeld(p) /\ SeqOfHeld(p) < SeqOfHeld(c) /\ SeqOfHeld(p) \in Nat
        BY <1>4, <1>6, <1>7, <1>8, <1>11, <3>1
      <3> QED
        BY <1>9, <1>11, <3>2
    <2> QED
      BY <1>2, <1>4, <2>3, <2>4
  <1> QED
    BY <1>2, <1>10, <1>11 DEF p

LEMMA NextInRow ==
  ASSUME SequenceInv, OneLifecycle, OurNames, PlaceRow, ClaimRow, InRow, LastNamed, [Next]_vars
  PROVE  InRow'
  <1>0. /\ TypeInv /\ BatchInv /\ ClaimInv /\ CloseInv /\ EpochInv /\ NameInv
        /\ WaitingNamed /\ ClosedIdle /\ TypeInv' /\ EmittedAdmitted
    BY NextType DEF SequenceInv, PlaceRow, BatchInv
  <1> SUFFICES ASSUME NEW b \in Ids, NEW c \in Ids, Sendable(c)',
                      Name(b)' # NoTuple, Name(c)' # NoTuple,
                      (Name(c)').epoch = (Name(b)').epoch, (Name(c)').seq = (Name(b)').seq + 1
               PROVE  from'[c] = b + 1
    BY DEF InRow
  <1>1. Sendable(c)
    BY <1>0, SendableStays
  <1>2. ASSUME Name(b)' = Name(b), Name(c)' = Name(c), from'[c] = from[c]
        PROVE  from'[c] = b + 1
    BY <1>1, <1>2 DEF InRow
  <1>3. /\ Name(b).seq \in Int /\ Name(c).seq \in Int /\ (Name(b)').seq \in Int
        /\ Name(b) = [epoch |-> Name(b).epoch, seq |-> Name(b).seq]
        /\ epoch \in Int /\ nextSeq \in Int /\ epoch' \in Int
    <2>1. (Name(b)') \in Tuple
      BY <1>0, BatchTypes DEF Name, TypeInv, TypeOK, SequencingType, RequestType
    <2>2. (Name(b)').seq \in Int
      BY <2>1, <1>0, ServerTypes
    <2>3. epoch' \in Int
      BY <1>0 DEF TypeInv, TypeOK, SequencingType
    <2> QED
      BY <1>0, <2>2, <2>3, NameTypes
  <1>4. \A x \in Ids : Name(x) # NoTuple => /\ Name(x).seq >= 0 /\ Below(Name(x))
                                            /\ Name(x).epoch \in Int /\ Name(x).seq \in Int
    BY <1>0, NameTypes DEF OurNames, NameInv, NamesUsed
  <1>5. b # c
    BY <1>3
  <1>6. ASSUME NEW last \in Ids, Emitted(last)
        PROVE  from'[c] = b + 1
    <2>0. /\ from'[last] = emitted + 1 /\ from[last] = 0 /\ req'[last] = NoTuple /\ emitted < last
          /\ epoch' = epoch
          /\ \A x \in Ids : x # last => from'[x] = from[x] /\ Name(x)' = Name(x)
          /\ Name(last)' # NoTuple => /\ claimed \/ ~claiming
                                      /\ Name(last)' = [epoch |-> epoch, seq |-> nextSeq]
      BY <1>0, <1>6, EmittedRow
    <2>1. CASE c = last
      <3>1. Name(b) = Name(b)' /\ Name(b).epoch = epoch /\ Name(b).seq = nextSeq - 1
        BY <1>3, <1>5, <2>0, <2>1
      <3>2. nextSeq # 0
        BY <1>4, <3>1
      <3>3. closeRequest = NoTuple
        <4>1. from'[last] # from[last]
          BY <1>0, <2>0, BatchTypes
        <4> QED
          BY <1>0, <4>1, ReadyStays DEF CloseInv
      <3>4. claimed
        <4> SUFFICES ASSUME ~claimed PROVE FALSE
          OBVIOUS
        <4>1. ~claiming
          BY <2>0, <2>1
        <4> QED
          BY <3>2, <3>3, <4>1 DEF ClaimRow, Unsent
      <3>5. scope # "closed"
        BY <2>0, <2>1, ScopeSteps DEF Sendable, StopBegin, StopEnd
      <3>6. emitted # 0 /\ Name(emitted) = [epoch |-> epoch, seq |-> nextSeq - 1]
        BY <3>2, <3>3, <3>4, <3>5 DEF LastNamed
      <3>7. emitted \in Ids
        BY <1>0, <3>6, BatchTypes, OptionsAssumption DEF Ids
      <3>8. Name(b) = Name(emitted) /\ Name(b) # NoTuple
        BY <1>3, <3>1, <3>6
      <3>9. b = emitted
        BY <1>0, <3>7, <3>8 DEF NameInv, NamesDistinct
      <3> QED
        BY <2>0, <2>1, <3>9
    <2>2. CASE b = last
      <3>1. Name(c) = Name(c)' /\ Name(c).epoch = epoch /\ Name(c).seq = nextSeq + 1
        BY <1>3, <1>5, <2>0, <2>2
      <3>2. Name(c).seq < nextSeq
        BY <1>3, <1>4, <3>1 DEF Below
      <3> QED
        BY <1>3, <3>1, <3>2
    <2> QED
      BY <1>2, <2>0, <2>1, <2>2
  <1>7. ASSUME NEW d \in Ids, Worker(d), Reclaimed(d)
        PROVE  from'[c] = b + 1
    <2>0. /\ from' = from /\ epoch' > epoch /\ Name(d)' = [epoch |-> epoch', seq |-> 0]
          /\ \A x \in Ids : x # d => Name(x)' = Name(x)
      BY <1>0, <1>7, ReclaimedRow
    <2>1. CASE c = d
      <3>1. Name(b) = Name(b)' /\ Name(b).seq + 1 = 0
        BY <1>5, <2>0, <2>1
      <3> QED
        BY <1>4, <3>1
    <2>2. CASE b = d
      <3>1. Name(c) = Name(c)' /\ Name(c).epoch = epoch'
        BY <1>5, <2>0, <2>2
      <3>2. Name(c).epoch <= epoch
        BY <1>3, <1>4, <3>1 DEF Below
      <3> QED
        BY <1>3, <2>0, <3>1, <3>2
    <2> QED
      BY <1>2, <2>0, <2>1, <2>2
  <1>8. ASSUME NEW d \in Ids, Worker(d), Claims(d)
        PROVE  from'[c] = b + 1
    <2>0. /\ from' = from /\ epoch' = epoch /\ phase[d] = "replied"
          /\ \A x \in Ids : x \in Held => Name(x)' = [epoch |-> epoch, seq |-> SeqOfHeld(x)]
          /\ \A x \in Ids : x \notin Held => Name(x)' = Name(x)
      BY <1>0, <1>8, ClaimsRow
    <2>1. first[d] /\ ~claimed
      BY <1>8 DEF Claims
    <2>2. /\ nextSeq = 1 /\ Name(d) = [epoch |-> epoch, seq |-> 0]
          /\ \A x \in Ids : x # d => Name(x) = NoTuple
          /\ \A x \in Ids : x \in Held => from[x] # 0 /\ x # d
      BY <2>0, <2>1, ClaimPlace
    <2>3. \A x \in Held : SeqOfHeld(x) \in Nat /\ SeqOfHeld(x) >= 1
      BY <1>0, <2>2, HeldInOrder
    <2>4. (b = d \/ b \in Held) /\ (c = d \/ c \in Held)
      BY <2>0, <2>2
    <2>5. c # d
      <3> SUFFICES ASSUME c = d PROVE FALSE
        OBVIOUS
      <3>1. (Name(c)').seq = 0
        BY <2>0, <2>2
      <3>2. b \in Held /\ (Name(b)').seq = SeqOfHeld(b)
        BY <1>5, <2>0, <2>4
      <3> QED
        BY <2>3, <3>1, <3>2
    <2>6. c \in Held /\ (Name(c)').seq = SeqOfHeld(c)
      BY <2>0, <2>4, <2>5
    <2>7. CASE b = d
      <3>1. (Name(b)').seq = 0
        BY <2>0, <2>2, <2>7
      <3>2. SeqOfHeld(c) = 1
        BY <2>6, <3>1
      <3> QED
        BY <2>0, <2>1, <2>6, <2>7, <3>2, HeldChained
    <2>8. CASE b \in Held
      <3>1. (Name(b)').seq = SeqOfHeld(b)
        BY <2>0, <2>8
      <3>2. SeqOfHeld(c) = SeqOfHeld(b) + 1
        BY <2>6, <3>1
      <3> QED
        BY <2>0, <2>1, <2>6, <2>8, <3>2, HeldChained
    <2> QED
      BY <2>4, <2>7, <2>8
  <1> QED
    BY <1>0, <1>2, <1>6, <1>7, <1>8, RowSteps DEF RowKept

LEMMA NextStartsWhole ==
  ASSUME SequenceInv, OneLifecycle, PlaceRow, ClaimRow, StartsWhole, LastNamed, [Next]_vars
  PROVE  StartsWhole'
  <1>0. /\ TypeInv /\ BatchInv /\ ClaimInv /\ CloseInv /\ EpochInv /\ BatchesApart
        /\ WaitingNamed /\ ClosedIdle /\ NamedEmerged /\ EmittedAdmitted /\ PendingUntouched
    BY DEF SequenceInv, PlaceRow, BatchInv
  <1> SUFFICES ASSUME NEW c \in Ids, Sendable(c)', Name(c)' # NoTuple, (Name(c)').seq = 0
               PROVE  Before(c)'
    BY DEF StartsWhole
  <1>1. Sendable(c)
    BY <1>0, SendableStays
  <1>2. ASSUME Name(c)' = Name(c)
        PROVE  Before(c)'
    BY <1>0, <1>1, <1>2, BeforeStays DEF StartsWhole, NamedEmerged
  <1>3. ASSUME NEW last \in Ids, Emitted(last)
        PROVE  Before(c)'
    <2>0. /\ from'[last] = emitted + 1 /\ from[last] = 0 /\ req'[last] = NoTuple /\ emitted < last
          /\ \A x \in Ids : x # last => from'[x] = from[x] /\ Name(x)' = Name(x)
          /\ Name(last)' # NoTuple => /\ claimed \/ ~claiming
                                      /\ Name(last)' = [epoch |-> epoch, seq |-> nextSeq]
      BY <1>0, <1>3, EmittedRow
    <2>1. CASE c # last
      BY <1>2, <2>0, <2>1
    <2>2. CASE c = last
      <3>1. nextSeq = 0 /\ (claimed \/ ~claiming)
        BY <2>0, <2>2
      <3>2. closeRequest = NoTuple
        <4>1. from'[last] # from[last]
          BY <1>0, <2>0, BatchTypes
        <4> QED
          BY <1>0, <4>1, ReadyStays DEF CloseInv
      <3>3. scope # "closed"
        BY <2>0, <2>2, ScopeSteps DEF Sendable, StopBegin, StopEnd
      <3>4. ASSUME NEW b \in Ids, from[b] # 0
            PROVE  InLog(b)
        <4>1. CASE claimed
          BY <3>1, <3>2, <3>3, <3>4, <4>1 DEF LastNamed
        <4>2. CASE ~claimed
          <5>1. emitted = 0
            BY <3>1, <4>2 DEF ClaimRow, Unsent
          <5> QED
            BY <1>0, <3>4, <5>1, BatchTypes DEF PendingUntouched
        <4> QED
          BY <4>1, <4>2
      <3>5. ASSUME NEW b \in Ids, b < c, from'[b] # 0
            PROVE  InLog(b)'
        <4>1. from[b] # 0
          BY <1>0, <2>0, <2>2, <3>5, BatchTypes
        <4> QED
          BY <1>0, <3>4, <4>1, InLogStays
      <3> QED
        BY <3>5 DEF Before
    <2> QED
      BY <2>1, <2>2
  <1>4. ASSUME NEW d \in Ids, first[d], ~claimed, phase[d] = "replied", from' = from, c = d
        PROVE  Before(c)'
    <2>1. \A b \in Ids : from[b] # 0 /\ b # d => d < b
      BY <1>4, ClaimPlace
    <2> QED
      BY <1>4, <2>1, <1>0, BatchTypes DEF Before
  <1>5. ASSUME NEW d \in Ids, Worker(d), Reclaimed(d)
        PROVE  Before(c)'
    BY <1>0, <1>2, <1>4, <1>5, ReclaimedRow
  <1>6. ASSUME NEW d \in Ids, Worker(d), Claims(d)
        PROVE  Before(c)'
    <2>0. /\ from' = from /\ phase[d] = "replied"
          /\ \A x \in Ids : x \in Held => Name(x)' = [epoch |-> epoch, seq |-> SeqOfHeld(x)]
          /\ \A x \in Ids : x \notin Held => Name(x)' = Name(x)
      BY <1>0, <1>6, ClaimsRow
    <2>1. first[d] /\ ~claimed
      BY <1>6 DEF Claims
    <2>2. nextSeq = 1
      BY <2>0, <2>1, ClaimPlace
    <2>3. c \notin Held
      <3> SUFFICES ASSUME c \in Held PROVE FALSE
        OBVIOUS
      <3>1. SeqOfHeld(c) >= 1 /\ SeqOfHeld(c) \in Nat
        BY <1>0, <2>2, HeldInOrder
      <3> QED
        BY <2>0, <3>1
    <2> QED
      BY <1>2, <2>0, <2>3
  <1> QED
    BY <1>0, <1>2, <1>3, <1>5, <1>6, RowSteps DEF RowKept

\* The last of the held batches gets the last of their places.
LEMMA LastHeld ==
  ASSUME TypeInv, NEW e \in Held, \A h \in Held : h # e => h < e
  PROVE  SeqOfHeld(e) = nextSeq + Cardinality(Held) - 1 /\ Cardinality(Held) \in Nat
  <1>1. Held \subseteq Ids /\ IsFiniteSet(Held)
    <2>1. IsFiniteSet(Ids)
      BY OptionsAssumption, FS_Interval DEF Ids
    <2>2. Held \subseteq Ids
      BY DEF Held
    <2> QED
      BY <2>1, <2>2, FS_Subset
  <1>2. {h \in Held : h < e} = Held \ {e}
    BY <1>1, BatchTypes
  <1>3. Cardinality(Held \ {e}) = Cardinality(Held) - 1 /\ Cardinality(Held) \in Nat
    BY <1>1, FS_RemoveElement, FS_CardinalityType
  <1> QED
    BY <1>2, <1>3, BatchTypes DEF SeqOfHeld

LEMMA NextLastNamed ==
  ASSUME SequenceInv, LastInv, AckedIsLogged, OneLifecycle, PlaceRow, ClaimRow, LastNamed, [Next]_vars
  PROVE  LastNamed'
  <1>0. /\ TypeInv /\ BatchInv /\ ClaimInv /\ CloseInv /\ EpochInv /\ BatchesApart
        /\ WaitingNamed /\ NamedEmerged /\ LoggedSent /\ EmittedAdmitted /\ PendingUntouched
        /\ Chained
    BY DEF SequenceInv, PlaceRow, BatchInv
  <1> SUFFICES ASSUME scope' # "closed", claimed', closeRequest' = NoTuple
               PROVE  IF nextSeq' = 0 THEN \A b \in Ids : from'[b] # 0 => InLog(b)'
                      ELSE emitted' # 0 /\ Name(emitted)' = [epoch |-> epoch', seq |-> nextSeq' - 1]
    BY DEF LastNamed
  <1> DEFINE Goal == IF nextSeq' = 0 THEN \A b \in Ids : from'[b] # 0 => InLog(b)'
                     ELSE emitted' # 0 /\ Name(emitted)' = [epoch |-> epoch', seq |-> nextSeq' - 1]
  <1>1. closeRequest = NoTuple /\ scope # "closed"
    BY <1>0, CloseStays, ScopeSteps DEF StopBegin, StopEnd
  <1>2. ASSUME RowKept,
               \/ UNCHANGED <<epoch, nextSeq>>
               \/ (\E c \in Restarts : Restarted(c)) \/ \E c \in Closes : CloseAnswered(c)
        PROVE  Goal
    <2>0. /\ UNCHANGED <<from, emitted, claimed>> /\ \A b \in Ids : Name(b)' = Name(b)
      BY <1>2 DEF RowKept
    <2>1. claimed
      BY <2>0, Zenon
    <2>2. CASE UNCHANGED <<epoch, nextSeq>>
      <3>1. CASE nextSeq = 0
        BY <1>0, <1>1, <2>0, <2>1, <2>2, <3>1, InLogStays DEF LastNamed
      <3>2. CASE nextSeq # 0
        <4>1. emitted # 0 /\ Name(emitted) = [epoch |-> epoch, seq |-> nextSeq - 1]
          BY <1>1, <2>1, <3>2 DEF LastNamed
        <4>2. emitted \in Ids
          BY <1>0, <4>1, BatchTypes, OptionsAssumption DEF Ids
        <4>3. Name(emitted)' = Name(emitted)
          BY <2>0, <4>2 DEF Name
        <4> QED
          BY <2>0, <2>2, <3>2, <4>1, <4>3
      <3> QED
        BY <3>1, <3>2
    <2>3. ASSUME NEW c \in Restarts, Restarted(c)
          PROVE  Goal
      <3>1. nextSeq' = 0
        <4>1. epoch' # epoch
          BY <1>0, <2>3, BatchTypes DEF Restarted
        <4> QED
          BY <2>3, <4>1 DEF Restarted, FinishRestart
      <3>2. \A b \in Ids : from[b] # 0 => InLog(b)
        BY <1>0, <1>1, <2>3, RestartLogged DEF Restarted
      <3> QED
        BY <1>0, <2>0, <3>1, <3>2, InLogStays
    <2>4. \A c \in Closes : ~CloseAnswered(c)
      BY <1>0, <1>1, AnsweredClose
    <2> QED
      BY <1>2, <2>2, <2>3, <2>4
  <1>3. ASSUME NEW last \in Ids, Emitted(last)
        PROVE  Goal
    <2>0. UNCHANGED <<epoch, claimed>> /\ emitted' = last /\ last > emitted
      BY <1>0, <1>3, EmittedRow
    <2>1. claimed
      BY <2>0, Zenon
    <2>2. nextSeq' = nextSeq + 1 /\ Name(last)' = [epoch |-> epoch, seq |-> nextSeq]
      BY <1>0, <1>3, <2>1, EmittedRow
    <2>3. nextSeq \in Nat /\ last # 0 /\ nextSeq' # 0 /\ nextSeq' - 1 = nextSeq
      BY <1>0, <2>2, BatchTypes
    <2>4. req'[last] = req[last] /\ Name(emitted)' = Name(last)'
      BY <1>0, <1>3, <2>0, EmittedRow DEF Name
    <2> QED
      BY <2>0, <2>2, <2>3, <2>4
  <1>4. ASSUME NEW d \in Ids, Worker(d), Reclaimed(d)
        PROVE  FALSE
    <2>1. claimed' = claimed /\ ~claimed
      BY <1>0, <1>4, ReclaimedRow
    <2> QED
      BY <2>1, Zenon
  <1>5. ASSUME NEW d \in Ids, Worker(d), Claims(d)
        PROVE  Goal
    <2>0. /\ from' = from /\ epoch' = epoch /\ phase[d] = "replied" /\ emitted' = emitted
          /\ req' = req /\ nextSeq' = nextSeq + Cardinality(Held)
          /\ \A x \in Ids : x \in Held => Name(x)' = [epoch |-> epoch, seq |-> SeqOfHeld(x)]
          /\ \A x \in Ids : x \notin Held => Name(x)' = Name(x)
          /\ d \notin Held
      BY <1>0, <1>5, ClaimsRow
    <2>1. first[d] /\ ~claimed
      BY <1>5 DEF Claims
    <2>2. /\ nextSeq = 1 /\ from[d] = 1 /\ Name(d) = [epoch |-> epoch, seq |-> 0]
          /\ \A x \in Ids : from[x] # 0 /\ x # d => x \in Held /\ d < x
          /\ \A x \in Ids : x \in Held => from[x] # 0 /\ x # d
      BY <2>0, <2>1, ClaimPlace
    <2>3. \A x \in Ids : from[x] # 0 => x <= emitted
      BY <1>0, BatchTypes DEF PendingUntouched
    <2>4. emitted \in Ids /\ from[emitted] # 0
      <3>1. d <= emitted /\ d \in Nat /\ d # 0 /\ emitted \in Nat /\ emitted <= MaxEntries
        BY <1>0, <2>2, <2>3, BatchTypes
      <3> QED
        BY <1>0, <1>1, <3>1, OptionsAssumption DEF Chained, Ids
    <2>5. Held \subseteq Ids
      BY DEF Held
    <2>6. emitted # 0 /\ \A x \in Ids : x \in Nat
      BY <1>0, <2>4, BatchTypes
    <2>7. CASE emitted = d
      <3>1. Held = {}
        <4> SUFFICES ASSUME NEW h \in Held PROVE FALSE
          OBVIOUS
        <4>1. d < h /\ h <= d
          BY <2>2, <2>3, <2>5, <2>7
        <4> QED
          BY <2>5, <2>6, <4>1
      <3>2. nextSeq' = 1
        BY <2>0, <2>2, <3>1, FS_EmptySet
      <3>3. Name(d)' = Name(d) /\ Name(emitted)' = Name(d)'
        BY <2>0, <2>7 DEF Name
      <3> QED
        BY <2>0, <2>2, <2>6, <3>2, <3>3
    <2>8. CASE emitted # d
      <3> DEFINE e == emitted
      <3>1. e \in Held
        BY <2>2, <2>4, <2>8
      <3>2. \A h \in Held : h # e => h < e
        BY <2>2, <2>3, <2>4, <2>5, <2>6
      <3>3. SeqOfHeld(e) = nextSeq + Cardinality(Held) - 1 /\ Cardinality(Held) \in Nat
        BY <1>0, <3>1, <3>2, LastHeld
      <3>4. Name(emitted)' = [epoch |-> epoch, seq |-> SeqOfHeld(emitted)]
        <4>1. req'[emitted] = req[emitted] /\ req[emitted] = NoTuple
          BY <1>0, <2>0, <3>1 DEF Held, BatchInv, UnsentUnnamed
        <4>2. tuple'[emitted] = [epoch |-> epoch, seq |-> SeqOfHeld(emitted)]
          BY <1>0, <1>5, <2>4, <3>1, ClaimsRow
        <4> QED
          BY <2>0, <4>1, <4>2 DEF Name
      <3>5. nextSeq' - 1 = SeqOfHeld(e) /\ nextSeq' # 0
        BY <2>0, <2>2, <3>3
      <3> QED
        BY <2>0, <2>6, <3>4, <3>5
    <2> QED
      BY <2>7, <2>8
  <1> HIDE DEF Goal
  <1>6. Goal
    BY <1>0, <1>2, <1>3, <1>4, <1>5, RowSteps
  <1> QED
    BY <1>6 DEF Goal

\* What the server accepts has everything before it stored.
LEMMA AcceptWhole ==
  ASSUME SequenceInv, LogInv, OwnEpochs, RowInv,
         NEW b \in Ids, ~InLog(b), req[b] # NoTuple, Accept(b, req[b])
  PROVE  Before(b)
  <1>0. /\ TypeInv /\ BatchInv /\ BatchesApart /\ InRow /\ StartsWhole /\ DownClosed
        /\ Name(b) = req[b] /\ Sendable(b)
    BY DEF SequenceInv, BatchInv, RowInv, NameRow, LogRow, Name, Sendable
  <1>1. sClosed = NoTuple /\ (req[b].seq = 0 \/ (req[b].epoch = sEpoch /\ req[b].seq = sLast + 1))
    BY DEF Accept, Accepts
  <1>2. CASE req[b].seq = 0
    BY <1>0, <1>2 DEF StartsWhole
  <1>3. CASE req[b].seq # 0 /\ req[b].epoch = sEpoch /\ req[b].seq = sLast + 1
    <2>1. Covered
      BY <1>1, <1>3, AheadOfServer
    <2>2. sLast \in Nat /\ sEpoch \in Int
      BY <1>3, OptionsAssumption DEF SequenceInv, TypeInv, TypeOK, ServerType
    <2>3. PICK i \in 1..Len(log) : log[i] \in Ids /\ req[log[i]] = [epoch |-> sEpoch, seq |-> sLast]
      BY <2>1, <2>2 DEF Covered
    <2> DEFINE d == log[i]
    <2>4. req[d] # NoTuple /\ req[d].epoch = sEpoch /\ req[d].seq = sLast /\ d \in Ids
      BY <2>2, <2>3 DEF NoTuple
    <2>5. Name(d) = req[d]
      BY <2>4 DEF Name
    <2> HIDE DEF d
    <2>6. from[b] = d + 1
      BY <1>0, <1>3, <2>4, <2>5 DEF InRow
    <2>7. InLog(d)
      BY DEF d, InLog
    <2>8. \A x \in Ids : from[x] # 0 /\ x < b => x < from[b]
      BY <1>0, <2>4, <2>6, BatchTypes DEF BatchesApart
    <2>9. ASSUME NEW x \in Ids, x < b, from[x] # 0
          PROVE  InLog(x)
      <3>1. x \in Nat /\ d \in Nat /\ x < d + 1
        BY <1>0, <2>4, <2>6, <2>8, <2>9, BatchTypes
      <3>2. x = d \/ x < d
        BY <3>1
      <3> QED
        BY <1>0, <2>4, <2>7, <2>9, <3>2 DEF DownClosed, Before
    <2> QED
      BY <2>9 DEF Before
  <1> QED
    BY <1>1, <1>2, <1>3

LEMMA NextLogRow ==
  ASSUME SequenceInv, OnceInv, LogInv, OwnEpochs, RowInv, [Next]_vars
  PROVE  LogRow'
  <1>0. /\ TypeInv /\ BatchInv /\ DownClosed /\ Ascending /\ LoggedSent /\ NamedEmerged
        /\ Len(log) \in Nat
    BY LogTypes DEF SequenceInv, RowInv, LogRow, PlaceRow
  <1>1. \A b \in Ids : req[b] # NoTuple => from[b] # 0
    BY <1>0 DEF NamedEmerged, Name
  <1>2. DownClosed'
    <2> SUFFICES ASSUME NEW c \in Ids, InLog(c)' PROVE Before(c)'
      BY DEF DownClosed
    <2>1. CASE InLog(c)
      BY <1>0, <1>1, <2>1, BeforeStays DEF DownClosed, LoggedSent
    <2>2. CASE ~InLog(c)
      <3>1. Accept(c, req[c]) /\ req[c] # NoTuple
        BY <1>0, <2>2, InLogAdded
      <3>2. Before(c)
        BY <2>2, <3>1, AcceptWhole
      <3> QED
        BY <1>0, <1>1, <3>1, <3>2, BeforeStays
    <2> QED
      BY <2>1, <2>2
  <1>3. Ascending'
    <2>1. CASE UNCHANGED log
      BY <1>0, <2>1 DEF Ascending
    <2>2. ASSUME NEW s \in Slots \cup {Foreign}, log' = Append(log, s),
                 s \in Ids => ~InLog(s) /\ from[s] # 0
          PROVE  Ascending'
      <3>1. /\ Len(log') = Len(log) + 1 /\ log'[Len(log) + 1] = s
            /\ \A i \in 1..Len(log) : log'[i] = log[i]
        BY <1>0, <2>2, LogGrows
      <3> SUFFICES ASSUME NEW i \in 1..Len(log'), NEW j \in 1..Len(log'), i < j,
                          log'[i] \in Ids, log'[j] \in Ids
                   PROVE  log'[i] < log'[j]
        BY DEF Ascending
      <3>2. i \in 1..Len(log) /\ log'[i] = log[i]
        BY <1>0, <3>1
      <3>3. CASE j \in 1..Len(log)
        BY <1>0, <3>1, <3>2, <3>3 DEF Ascending
      <3>4. CASE j = Len(log) + 1
        <4>1. s \in Ids /\ log'[j] = s /\ InLog(log[i]) /\ log[i] \in Ids
          BY <3>1, <3>2, <3>4 DEF InLog
        <4>2. s # log[i] /\ ~(s < log[i])
          BY <1>0, <2>2, <4>1 DEF DownClosed, Before
        <4> QED
          BY <1>0, <3>2, <4>1, <4>2, BatchTypes
      <3> QED
        BY <1>0, <3>1, <3>3, <3>4
    <2>3. ASSUME NEW b \in Ids, Accept(b, req[b]), ~InLog(b), req[b] # NoTuple
          PROVE  Ascending'
      BY <1>0, <1>1, <2>2, <2>3, BatchTypes DEF Accept
    <2>4. 0 \in Slots /\ Foreign \notin Slots /\ \A b \in Ids : b # 0 /\ b \in Slots
      BY <1>0, LogTypes, BatchTypes
    <2> QED
      BY <1>0, <2>1, <2>2, <2>3, <2>4, LogSteps
  <1> QED
    BY <1>2, <1>3 DEF LogRow

LEMMA NextRow ==
  ASSUME OneLifecycle, OwnEpochs, NoHoles, SequenceInv, OnceInv, LogInv, LastInv, RowInv, [Next]_vars
  PROVE  RowInv'
  <1>1. PlaceRow'
    BY NextPlaceRow DEF SequenceInv, RowInv
  <1>2. ClaimRow'
    BY NextClaimRow DEF LogInv, RowInv
  <1>3. NameRow'
    BY NextInRow, NextStartsWhole, NextLastNamed DEF LogInv, RowInv, NameRow
  <1> QED
    BY <1>1, <1>2, <1>3, NextLogRow DEF RowInv

LEMMA InitRow == Init => RowInv
  <1> SUFFICES ASSUME Init PROVE RowInv
    OBVIOUS
  <1>0. Slots = Ids \cup {0} /\ ~(0 \in Ids)
    BY InitType, BatchTypes
  <1>1. \A b \in Ids : /\ Name(b) = NoTuple /\ from[b] = 0 /\ ~first[b] /\ phase[b] = "none"
                       /\ ~InLog(b)
    BY <1>0 DEF Init, Name, InLog
  <1>2. PlaceRow
    BY <1>1 DEF Init, PlaceRow, ClaimedLive, ClosedIdle, WaitingNamed, NamedEmerged, LoggedSent,
       Chained
  <1>3. ClaimRow
    BY <1>1 DEF Init, ClaimRow, Unsent, FirstRow, ClaimOpen
  <1>4. NameRow
    BY <1>1 DEF Init, NameRow, InRow, StartsWhole, LastNamed
  <1>5. LogRow
    BY <1>1 DEF Init, LogRow, DownClosed, Ascending
  <1> QED
    BY <1>2, <1>3, <1>4, <1>5 DEF RowInv

LEMMA RowIsPrefix ==
  ASSUME TypeInv, BatchInv, RowInv
  PROVE  LogIsPrefix
  <1>0. /\ BatchesApart /\ NamedEmerged /\ LoggedSent /\ Chained /\ DownClosed /\ Ascending
        /\ Len(log) \in Nat /\ \A b \in Ids : b \in Nat /\ b # 0 /\ from[b] \in Nat
    BY LogTypes, BatchTypes DEF BatchInv, RowInv, PlaceRow, LogRow
  <1>1. \A i \in Ours : /\ i \in 1..Len(log) /\ i \in Nat /\ log[i] \in Ids /\ InLog(log[i])
                        /\ from[log[i]] # 0 /\ Sendable(log[i])
    BY <1>0 DEF Ours, InLog, LoggedSent, NamedEmerged, Name, Sendable
  <1>2. \A i, j \in Ours : i < j => log[i] < log[j] /\ log[i] < from[log[j]]
    BY <1>0, <1>1 DEF Ascending, BatchesApart
  <1>3. ASSUME NEW j \in Ours, from[log[j]] > 1
        PROVE  \E i \in Ours : /\ i < j /\ from[log[j]] = log[i] + 1
                               /\ \A k \in Ours : k < j => k <= i
    <2> DEFINE p == from[log[j]] - 1
    <2>1. p \in Ids /\ p < log[j]
      BY <1>0, <1>1, <1>3, OptionsAssumption DEF BatchesApart, Ids
    <2>2. from[p] # 0
      BY <1>1, <1>0, <1>3 DEF Chained
    <2>3. InLog(p)
      BY <1>0, <1>1, <2>1, <2>2 DEF DownClosed, Before
    <2>4. PICK i \in 1..Len(log) : log[i] = p
      BY <2>3 DEF InLog
    <2>5. i \in Ours
      BY <2>1, <2>4 DEF Ours
    <2>6. i < j
      <3>1. ~(j < i) /\ i # j
        BY <1>0, <1>1, <1>2, <2>1, <2>4, <2>5
      <3> QED
        BY <1>1, <2>5, <3>1
    <2>7. ASSUME NEW k \in Ours, k < j
          PROVE  k <= i
      <3>1. log[k] < from[log[j]]
        BY <1>2, <2>7
      <3>2. i < k => log[i] < log[k]
        BY <1>2, <2>5
      <3> QED
        BY <1>0, <1>1, <2>4, <2>5, <3>1, <3>2
    <2>8. from[log[j]] = log[i] + 1
      BY <1>0, <1>1, <2>4
    <2> QED
      BY <2>5, <2>6, <2>7, <2>8
  <1>4. ASSUME NEW j \in Ours, NEW i \in Ours, i < j
        PROVE  from[log[j]] > 1
    BY <1>0, <1>1, <1>2, <1>4
  <1>5. ASSUME NEW j \in Ours, ~(\E i \in Ours : i < j)
        PROVE  from[log[j]] = 1
    BY <1>0, <1>1, <1>3, <1>5
  <1> QED
    BY <1>3, <1>4, <1>5 DEF LogIsPrefix

DeliveryInv == SequenceInv /\ OnceInv /\ LogInv /\ LastInv /\ RowInv

LEMMA NextDelivery ==
  ASSUME OneLifecycle, OneClaimant, OwnEpochs, NoHoles, DeliveryInv, [Next]_vars
  PROVE  DeliveryInv'
  <1>0. SequenceInv /\ OnceInv /\ LogInv /\ LastInv /\ RowInv /\ TypeInv /\ BatchInv /\ CloseInv
    BY DEF DeliveryInv, SequenceInv
  <1>1. SequenceInv'
    BY <1>0, NextSequence
  <1>2. OnceInv' /\ LastInv'
    BY <1>0, NextOnce, NextLast
  <1>3. LogInv'
    BY <1>0, NextOurNames, NextServerOurs, NextClosedName, NextAckedReply, NextAckedIsLogged
       DEF LogInv
  <1>4. RowInv'
    BY <1>0, NextRow
  <1> QED
    BY <1>1, <1>2, <1>3, <1>4 DEF DeliveryInv

LEMMA InitDelivery ==
  ASSUME OwnEpochs
  PROVE  Init => DeliveryInv
  BY InitSequence, InitOnce, InitLog, InitLast, InitRow DEF DeliveryInv

\* The log holds the admitted values in their order and without a hole,
\* whatever is lost, rejected, answered late or sent again, and whenever the
\* finalizer or an interruption comes, for the producer ids and the uses of
\* DeliveredExactlyOnce.  With autoClaim this asks that no call is interrupted
\* and the producer's scope stays open: a batch that waits for the initial
\* claim has no sequence number yet, so that one dropped by an interrupted
\* emitter or a stopped worker leaves no gap the server could refuse.
THEOREM LogHasNoHoles ==
  ASSUME OneLifecycle, OneClaimant, OwnEpochs, NoHoles
  PROVE  Spec => []LogIsPrefix
  <1>1. Init => DeliveryInv
    BY InitDelivery
  <1>2. DeliveryInv /\ [Next]_vars => DeliveryInv'
    BY NextDelivery
  <1>3. DeliveryInv => LogIsPrefix
    BY RowIsPrefix DEF DeliveryInv, SequenceInv
  <1> QED
    BY <1>1, <1>2, <1>3, PTL DEF Spec

-----------------------------------------------------------------------------
(* Requests overtaking each other fail nothing.                            *)

\* Nothing is lost or rejected, and no other writer claims the producer id.
Calm == faults = 0 /\ foreign = 0
\* The producer's epoch meets no epoch of the server it cannot pass, and no
\* sequence leaves the safe integers.
Passable == /\ MaxEntries <= MaxSafe
            /\ IF AutoClaim THEN ServerEpoch < MaxSafe ELSE ServerEpoch <= 0
Unfailed ==
  /\ \A e \in Ids : receipt[e] # "fail"
  /\ \A b \in Ids : phase[b] # "fail"
  /\ claim # "fail" /\ failure.out # "fail"
\* What a worker hears then: a success, a fence that it passes by claiming the
\* next epoch, or a gap before its own sequence.
Heard ==
  \A b \in Ids : phase[b] = "replied" =>
    /\ reply[b].kind \notin {"closed", "rejected"}
    /\ reply[b].kind = "fenced" => AutoClaim /\ reply[b].num < MaxSafe
    /\ reply[b].kind = "gap" => reply[b].num < req[b].seq
CalmInv == Calm => Unfailed /\ Heard
\* There are never more sequences than batches.
Room ==
  closeRequest = NoTuple =>
    IF claimed THEN nextSeq <= emitted ELSE IF claiming THEN nextSeq = 1 ELSE nextSeq = 0
FirstZero == \A b \in Ids : first[b] /\ Name(b) # NoTuple => Name(b).seq = 0
\* Whatever sequence a gap may ask for is that of a batch still remembered.
Known ==
  scope # "closed" /\ closeRequest = NoTuple =>
    \A q \in Seqs : through < q /\ q < nextSeq => sequences[q] # 0
\* The server never has an epoch that fences us ...
Level ==
  ~AutoClaim /\ foreign = 0 => sEpoch <= 0 /\ \A r \in strays : r.req.epoch <= 0
\* ... and has ours before a batch is sent that is not the first of its epoch.
Upto ==
  AutoClaim =>
    /\ \A b \in Ids : phase[b] = "replied" /\ reply[b].kind \in Success => sEpoch >= epoch
    /\ claimed /\ closeRequest = NoTuple => sEpoch >= epoch
HarmlessInv ==
  /\ OurNames /\ ClosedName /\ WaitingNamed /\ ClosedIdle
  /\ CalmInv /\ Room /\ FirstZero /\ Known /\ Level /\ Upto

\* The released batches take exactly the next sequences.
LEMMA HeldCovers ==
  ASSUME TypeInv, NEW q \in Int, nextSeq <= q, q < nextSeq + Cardinality(Held)
  PROVE  \E b \in Held : SeqOfHeld(b) = q
  <1> DEFINE n == Cardinality(Held)
             I == nextSeq..(nextSeq + n - 1)
             f == [b \in Held |-> SeqOfHeld(b)]
  <1>0. Held \subseteq Ids /\ IsFiniteSet(Held) /\ Ids \subseteq Nat /\ nextSeq \in Nat
    <2>1. IsFiniteSet(Ids)
      BY OptionsAssumption, FS_Interval DEF Ids
    <2>2. Held \subseteq Ids
      BY DEF Held
    <2> QED
      BY <2>1, <2>2, FS_Subset, BatchTypes
  <1>1. n \in Nat
    BY <1>0, FS_CardinalityType
  <1>2. IsFiniteSet(I) /\ Cardinality(I) = n
    <2> DEFINE m == nextSeq + n - 1
    <2>1. nextSeq \in Int /\ m \in Int /\ I = nextSeq..m
      BY <1>0, <1>1
    <2> HIDE DEF m, I
    <2>2. /\ IsFiniteSet(nextSeq..m)
          /\ Cardinality(nextSeq..m) = IF nextSeq > m THEN 0 ELSE m - nextSeq + 1
      BY <2>1, FS_Interval
    <2>3. m = nextSeq + n - 1
      BY DEF m
    <2> HIDE DEF n
    <2>4. (IF nextSeq > m THEN 0 ELSE m - nextSeq + 1) = n
      BY <1>0, <1>1, <2>3
    <2> QED
      BY <2>1, <2>2, <2>4
  <1>3. \A b \in Held : SeqOfHeld(b) \in I
    BY <1>0, <1>1, HeldInOrder
  <1>4. \A b, c \in Held : SeqOfHeld(b) = SeqOfHeld(c) => b = c
    <2> SUFFICES ASSUME NEW b \in Held, NEW c \in Held, b # c
                 PROVE  SeqOfHeld(b) # SeqOfHeld(c)
      OBVIOUS
    <2>1. b \in Nat /\ c \in Nat
      BY <1>0
    <2>2. b < c \/ c < b
      BY <2>1
    <2>3. SeqOfHeld(b) \in Nat /\ SeqOfHeld(c) \in Nat
      BY HeldInOrder
    <2>4. (b < c => SeqOfHeld(b) < SeqOfHeld(c)) /\ (c < b => SeqOfHeld(c) < SeqOfHeld(b))
      BY HeldInOrder
    <2> QED
      BY <2>2, <2>3, <2>4
  <1>5. f \in Injection(Held, I)
    <2> HIDE DEF I
    <2>1. f \in [Held -> I]
      BY <1>3
    <2> QED
      BY <2>1, <1>4 DEF Injection, IsInjective
  <1>6. f \in Surjection(Held, I)
    <2> HIDE DEF f, I, n
    <2>1. n = Cardinality(Held)
      BY DEF n
    <2> QED
      BY <1>2, <1>5, <2>1, FS_Injection
  <1>7. q \in I
    BY <1>0, <1>1
  <1>8. \E b \in Held : f[b] = q
    <2> HIDE DEF I
    <2> QED
      BY <1>6, <1>7 DEF Surjection
  <1> QED
    BY <1>8

\* What a worker's step does to the sequence map: nothing, one more entry, or
\* what the end of its batch does.
Reserves(b) ==
  /\ Reserve(b) /\ tuple[b] = NoTuple /\ phase[b] \in {"queued", "claimwait"}
  /\ claimed \/ first[b] \/ claim = "ok"
LEMMA WorkerSequences ==
  ASSUME NEW b \in Ids, Worker(b)
  PROVE  \/ UNCHANGED <<sequences, through, failure>>
         \/ Reserves(b) /\ UNCHANGED <<through, failure>>
         \/ \E out \in Outcomes \cup {claim, failure.out, phase[waitFor[b]]} : Finish(b, out)
  <1>1. ASSUME Start(b), phase[b] \in {"queued", "claimwait"}, claimed \/ first[b] \/ claim = "ok"
        PROVE  \/ UNCHANGED <<sequences, through, failure>>
               \/ Reserves(b) /\ UNCHANGED <<through, failure>>
               \/ Finish(b, "fail")
    BY <1>1 DEF Start, Reserves
  <1>2. ASSUME NEW p, AwaitFrom(b, p)
        PROVE  UNCHANGED <<sequences, through, failure>> \/ Finish(b, "fail")
    BY <1>2 DEF AwaitFrom, Missing, NotFinished
  <1>3. CASE Take(b) \/ Claimed(b)
    BY <1>1, <1>3 DEF Take, Claimed, NotFinished, Outcomes, Failures
  <1>4. CASE Delivered(b) \/ Rejected(b) \/ Fenced(b)
    BY <1>4 DEF Delivered, Rejected, Fenced, Outcomes, Failures
  <1>5. CASE Gap(b) \/ GapFilled(b)
    BY <1>2, <1>5 DEF Gap, GapFilled, Outcomes, Failures
  <1>6. CASE WorkerStopped(b)
    BY <1>6 DEF WorkerStopped, sequencing
  <1> QED
    BY <1>3, <1>4, <1>5, <1>6 DEF Worker

\* ... and what any other step does.
LEMMA OtherSequences ==
  ASSUME TypeInv, EmittedAdmitted, [Next]_vars, \A b \in Ids : ~Worker(b)
  PROVE  \/ UNCHANGED <<sequences, through, failure>>
         \/ StopEnd /\ UNCHANGED <<through, failure>>
         \/ /\ \E last \in Ids : Emitted(last) /\ (Reserve(last) \/ UNCHANGED sequences)
            /\ UNCHANGED <<through, failure>>
         \/ \E b \in Ids : phase[b] = "offer" /\ Complete(b, "int", sequences)
         \/ \E c \in Restarts : Restarted(c) /\ sequences' = [q \in Seqs |-> 0]
  <1>0. id \in Nat /\ emitted \in Nat /\ id <= MaxEntries /\ MaxEntries \in Nat
    BY BatchTypes, OptionsAssumption
  <1> DEFINE Extends == /\ \E last \in Ids : Emitted(last) /\ (Reserve(last) \/ UNCHANGED sequences)
                        /\ UNCHANGED <<through, failure>>
             Resets(c) == c \in Restarts /\ Restarted(c) /\ sequences' = [q \in Seqs |-> 0]
  <1>1. ASSUME NEW c \in Calls, Call(c)
        PROVE  UNCHANGED <<sequences, through, failure>> \/ Extends \/ Resets(c)
    <2>1. CASE \/ BeginAppend(c) \/ Receive(c) \/ EndSource(c) \/ EndFlush(c)
               \/ BeginDetach(c) \/ BeginRestart(c) \/ ShutAdmission(c)
               \/ BeginClose(c) \/ SendClose(c) \/ CloseStopped(c) \/ Stopped(c)
      <3>1. UNCHANGED sequencing
        BY <2>1 DEF BeginAppend, Receive, EndSource, EndFlush, BeginDetach, BeginRestart,
           ShutAdmission, BeginClose, SendClose, CloseStopped, Stopped
      <3> QED
        BY <3>1 DEF sequencing
    <2>2. CASE Admit(c)
      <3>1. CASE Emit(id + 1, c) /\ id < MaxEntries /\ id' = id + 1
        <4>1. id + 1 \in Ids /\ id + 1 > emitted
          BY <1>0, <3>1 DEF Ids, EmittedAdmitted
        <4>2. Emitted(id + 1)
          BY <2>2, <3>1, <4>1 DEF Emitted, Admit, settled
        <4>3. Reserve(id + 1) \/ UNCHANGED sequences
          BY <3>1 DEF Emit
        <4>4. UNCHANGED <<through, failure>>
          BY <2>2 DEF Admit
        <4> QED
          BY <4>1, <4>2, <4>3, <4>4
      <3>2. CASE ~(Emit(id + 1, c) /\ id < MaxEntries /\ id' = id + 1)
        BY <2>2, <3>2 DEF Admit, NothingEmitted
      <3> QED
        BY <3>1, <3>2
    <2>3. CASE Flush(c)
      <3>1. CASE emitted < id
        <4>1. Emit(id, c) /\ id' = id
          BY <2>3, <3>1 DEF Flush
        <4>2. id \in Ids /\ id > emitted
          BY <1>0, <3>1 DEF Ids
        <4>3. Emitted(id)
          BY <2>3, <4>1, <4>2 DEF Emitted, Flush, settled
        <4>4. Reserve(id) \/ UNCHANGED sequences
          BY <4>1 DEF Emit
        <4>5. UNCHANGED <<through, failure>>
          BY <2>3 DEF Flush
        <4> QED
          BY <4>2, <4>3, <4>4, <4>5
      <3>2. CASE ~(emitted < id)
        BY <2>3, <3>2 DEF Flush, NothingEmitted
      <3> QED
        BY <3>1, <3>2
    <2>4. CASE FinishRestart(c)
      BY <2>4, NumbersAreNat, NextEpochIsExact DEF FinishRestart, Restarted
    <2>5. CASE CloseAnswered(c)
      BY <2>5 DEF CloseAnswered
    <2> QED
      BY <1>1, <2>1, <2>2, <2>3, <2>4, <2>5 DEF Call
  <1>2. CASE Linger
    <2>1. Emit(id, Timer) /\ id' = id /\ emitted < id
      BY <1>0, <1>2 DEF Linger, EmittedAdmitted
    <2>2. id \in Ids
      BY <1>0, <2>1 DEF Ids
    <2>3. Emitted(id)
      BY <1>2, <2>1, <2>2 DEF Emitted, Linger, settled
    <2>4. Reserve(id) \/ UNCHANGED sequences
      BY <2>1 DEF Emit
    <2>5. UNCHANGED <<through, failure>>
      BY <1>2 DEF Linger
    <2> QED
      BY <2>2, <2>3, <2>4, <2>5
  <1>3. CASE StopEnd
    BY <1>3 DEF StopEnd
  <1>4. CASE LingerStopped \/ \E c \in Calls : Interrupt(c)
    BY <1>4 DEF LingerStopped, Interrupt
  <1>5. CASE \/ Offered \/ ServeStray \/ ForeignClaim \/ StopBegin
             \/ UNCHANGED vars \/ (\E s \in Slots : Serve(s) \/ Fault(s))
    <2>1. UNCHANGED sequencing
      BY <1>5 DEF Offered, ServeStray, ForeignClaim, StopBegin, vars, Serve, Fault
    <2> QED
      BY <2>1 DEF sequencing
  <1> HIDE DEF Extends
  <1>6. Extends => \/ UNCHANGED <<sequences, through, failure>>
                   \/ /\ \E last \in Ids : Emitted(last) /\ (Reserve(last) \/ UNCHANGED sequences)
                      /\ UNCHANGED <<through, failure>>
    BY DEF Extends
  <1> QED
    BY <1>1, <1>2, <1>3, <1>4, <1>5, <1>6 DEF Next, Terminated, Fiber

\* The sequence a batch is sent under, or has reserved, is within bounds.
LEMMA SequenceBound ==
  ASSUME SequenceInv, Room, NEW b \in Ids, phase[b] \in Active,
         Name(b) # NoTuple, Name(b).epoch = epoch, OurNames
  PROVE  /\ closeRequest = NoTuple
         /\ Name(b).seq \in Nat /\ Name(b).seq < nextSeq /\ nextSeq <= MaxEntries
  <1>0. TypeInv /\ CloseReady
    BY DEF SequenceInv, CloseInv
  <1>1. closeRequest = NoTuple
    BY <1>0 DEF CloseReady
  <1>2. Name(b).seq \in Int /\ Name(b).seq >= 0
    BY <1>0, NameTypes DEF OurNames
  <1>3. epoch \in Nat /\ nextSeq \in Nat /\ emitted <= MaxEntries /\ emitted \in Nat
    BY <1>0, BatchTypes
  <1>4. Name(b).seq < nextSeq
    BY <1>3 DEF SequenceInv, NameInv, NamesUsed, Below
  <1>5. nextSeq <= MaxEntries
    BY <1>1, <1>3, OptionsAssumption DEF Room
  <1> QED
    BY <1>1, <1>2, <1>4, <1>5

\* The loop over the missing sequences finds each of them.
LEMMA AwaitFinds ==
  ASSUME SequenceInv, HarmlessInv, NEW b \in Ids, phase[b] \in InFlight,
         NEW p \in Nat, AwaitFrom(b, p)
  PROVE  phase'[b] \in {"sent", "gapwait"}
  <1> DEFINE q == IF p <= through THEN through + 1 ELSE p
  <1>0. /\ TypeInv /\ phase \in [Slots -> Phases] /\ b \in Slots /\ through \in Int
        /\ MaxEntries \in Nat /\ nextSeq \in Nat
    BY BatchTypes, OptionsAssumption DEF SequenceInv, TypeInv, TypeOK, SequencingType
  <1>1. phase[b] \in Active /\ Name(b) = req[b] /\ req[b] # NoTuple /\ req[b].epoch = epoch
    BY DEF SequenceInv, EpochInv, TupleNow, InFlight, Active, Working, Name
  <1>2. /\ closeRequest = NoTuple
        /\ req[b].seq \in Nat /\ req[b].seq < nextSeq /\ nextSeq <= MaxEntries
    BY <1>1, SequenceBound DEF HarmlessInv
  <1>3. scope # "closed"
    BY DEF HarmlessInv, ClosedIdle, InFlight, Working
  <1>4. q \in Nat /\ through < q
    BY <1>0
  <1> HIDE DEF q
  <1>5. q < req[b].seq => Get(q) # 0
    <2> SUFFICES ASSUME q < req[b].seq PROVE Get(q) # 0
      OBVIOUS
    <2>1. q \in Seqs /\ q < nextSeq
      BY <1>0, <1>2, <1>4 DEF Seqs
    <2>2. sequences[q] # 0
      BY <1>2, <1>3, <1>4, <2>1 DEF HarmlessInv, Known
    <2> QED
      BY <2>1, <2>2 DEF Get
  <1>6. ~(q < req[b].seq) \/ Get(q) # 0
    BY <1>5
  <1>7. \/ phase' = [phase EXCEPT ![b] = "sent"]
        \/ phase' = [phase EXCEPT ![b] = "gapwait"]
    <2> USE DEF q
    <2> QED
      BY <1>6 DEF AwaitFrom, Missing
  <1> QED
    BY <1>0, <1>7

\* In a calm run no batch ends with a failure.
LEMMA WorkerSucceeds ==
  ASSUME SequenceInv, HarmlessInv, Passable, Calm, NEW b \in Ids, Worker(b)
  PROVE  phase'[b] # "fail"
  <1>0. /\ TypeInv /\ phase \in [Slots -> Phases] /\ b \in Slots /\ MaxSafe \in Nat
        /\ MaxEntries \in Nat /\ reply \in [Slots -> Answer] /\ tuple \in [Ids -> Tuple]
    BY BatchTypes, OptionsAssumption DEF SequenceInv
  <1>1. Unfailed /\ Heard
    BY DEF HarmlessInv, CalmInv
  <1>2. ASSUME phase[b] \in {"queued", "claimwait"}, Start(b)
        PROVE  phase'[b] # "fail"
    <2>1. tuple[b] # NoTuple => tuple[b].seq <= MaxSafe
      <3> SUFFICES ASSUME tuple[b] # NoTuple PROVE tuple[b].seq <= MaxSafe
        OBVIOUS
      <3>1. Name(b) = tuple[b]
        BY <1>2 DEF SequenceInv, BatchInv, UnsentUnnamed, Name
      <3>2. phase[b] \in Active /\ tuple[b].epoch = epoch
        BY <1>2 DEF Active, Working, SequenceInv, EpochInv, TupleNow
      <3>3. Name(b).seq \in Nat /\ Name(b).seq < nextSeq /\ nextSeq <= MaxEntries /\ nextSeq \in Nat
        BY <1>0, <3>1, <3>2, SequenceBound, BatchTypes DEF HarmlessInv
      <3> QED
        BY <1>0, <3>1, <3>3 DEF Passable
    <2>2. tuple[b] # NoTuple => ~(tuple[b].seq > MaxSafe)
      BY <1>0, <2>1, ServerTypes
    <2>3. phase' = [phase EXCEPT ![b] = "sent"]
      BY <1>2, <2>2 DEF Start
    <2> QED
      BY <1>0, <2>3
  <1>3. CASE Take(b)
    <2>1. phase[b] = "queued"
      BY <1>3 DEF Take
    <2>2. Start(b) \/ phase' = [phase EXCEPT ![b] = "claimwait"]
      BY <1>3 DEF Take
    <2> QED
      BY <1>0, <1>2, <2>1, <2>2
  <1>4. CASE Claimed(b)
    <2>1. Start(b) \/ Finish(b, claim)
      BY <1>4 DEF Claimed
    <2>2. ASSUME Finish(b, claim)
          PROVE  phase'[b] = claim
      BY <1>0, <2>2 DEF Finish, Complete
    <2> QED
      BY <1>1, <1>2, <1>4, <2>1, <2>2 DEF Claimed, Unfailed
  <1>5. CASE Delivered(b)
    <2>1. phase'[b] = "ok"
      BY <1>0, <1>5 DEF Delivered, Finish, Complete
    <2> QED
      BY <2>1
  <1>6. CASE Rejected(b)
    BY <1>1, <1>6 DEF Rejected, Replied, Heard
  <1>7. CASE Fenced(b)
    <2>1. AutoClaim /\ EpochLeft(reply[b].num)
      BY <1>1, <1>7 DEF EpochLeft, Fenced, Replied, Heard
    <2>2. phase' = [phase EXCEPT ![b] = "sent"]
      BY <1>7, <2>1 DEF Fenced
    <2> QED
      BY <1>0, <2>2
  <1>8. ASSUME NEW p \in Nat, phase[b] \in InFlight, AwaitFrom(b, p)
        PROVE  phase'[b] # "fail"
    <2>1. phase'[b] \in {"sent", "gapwait"}
      BY <1>8, AwaitFinds
    <2> QED
      BY <2>1
  <1>9. CASE Gap(b)
    <2>1. phase[b] = "replied" /\ reply[b].kind = "gap"
      BY <1>9 DEF Gap, Replied
    <2>2. LocalGap(b)
      BY <1>1, <2>1 DEF Heard, LocalGap, SequenceInv, EpochInv, TupleNow, InFlight
    <2>3. Finish(b, failure.out) \/ AwaitFrom(b, reply[b].num)
      BY <1>9, <2>2 DEF Gap
    <2>4. ASSUME Finish(b, failure.out)
          PROVE  phase'[b] = failure.out
      BY <1>0, <2>4 DEF Finish, Complete
    <2>5. reply[b].num \in Nat
      BY <1>0 DEF Answer
    <2> QED
      BY <1>1, <1>8, <2>1, <2>3, <2>4, <2>5 DEF Unfailed, InFlight
  <1>10. CASE GapFilled(b)
    <2> DEFINE w == waitFor[b]
    <2>1. phase[b] = "gapwait" /\ phase[w] \in Outcomes
      BY <1>10 DEF GapFilled
    <2>2. w \in Ids
      <3>1. w \in Slots
        BY <1>0 DEF TypeInv, TypeOK, RequestType, Slots
      <3>2. phase[0] \notin Outcomes
        BY DEF SequenceInv, CloseInv, CloseSlot, Outcomes, Failures
      <3> QED
        BY <1>0, <2>1, <3>1, <3>2, BatchTypes
    <2>3. phase[w] # "fail"
      BY <1>1, <2>2 DEF Unfailed
    <2>4. ASSUME phase[w] = "ok"
          PROVE  phase'[b] # "fail"
      <3>1. tuple[w].seq + 1 \in Nat
        BY <1>0, <2>2 DEF Tuple
      <3>2. AwaitFrom(b, tuple[w].seq + 1)
        BY <1>10, <2>4 DEF GapFilled
      <3> QED
        BY <1>8, <2>1, <3>1, <3>2 DEF InFlight
    <2>5. ASSUME phase[w] # "ok"
          PROVE  phase'[b] # "fail"
      <3>1. Finish(b, phase[w])
        BY <1>10, <2>5 DEF GapFilled
      <3>2. phase'[b] = phase[w]
        BY <1>0, <3>1 DEF Finish, Complete
      <3> QED
        BY <2>3, <3>2
    <2> QED
      BY <2>4, <2>5
  <1>11. CASE WorkerStopped(b)
    <2>1. phase'[b] = "dead"
      BY <1>0, <1>11 DEF WorkerStopped
    <2> QED
      BY <2>1
  <1> QED
    BY <1>3, <1>4, <1>5, <1>6, <1>7, <1>9, <1>10, <1>11 DEF Worker

\* What a batch's end leaves without a failure when it is not one itself.
LEMMA CompleteUnfailed ==
  ASSUME TypeInv, Unfailed, NEW b \in Ids, NEW out, out # "fail", NEW seqs, Complete(b, out, seqs)
  PROVE  /\ \A e \in Ids : receipt'[e] # "fail"
         /\ \A c \in Ids : phase'[c] # "fail"
         /\ failure'.out # "fail"
  <1>1. \A e \in Ids : receipt'[e] # "fail"
    BY DEF Complete, Unfailed
  <1>2. \A c \in Ids : phase'[c] # "fail"
    BY BatchTypes DEF Complete, Unfailed
  <1>3. failure'.out # "fail"
    BY DEF Complete, Unfailed
  <1> QED
    BY <1>1, <1>2, <1>3

LEMMA FaultSteps ==
  ASSUME TypeInv, [Next]_vars
  PROVE  /\ faults' = faults \/ \E s \in Slots : Fault(s)
         /\ foreign' = foreign \/ ForeignClaim
  <1>1. ASSUME NEW c \in Calls, Call(c) \/ Interrupt(c)
        PROVE  UNCHANGED <<faults, foreign>>
    BY <1>1 DEF Call, BeginAppend, Admit, Receive, EndSource, Flush, EndFlush, BeginDetach,
       BeginRestart, ShutAdmission, FinishRestart, BeginClose, SendClose, CloseAnswered,
       CloseStopped, Stopped, Interrupt, environment
  <1>2. ASSUME NEW b \in Ids, Worker(b)
        PROVE  UNCHANGED <<faults, foreign>>
    BY <1>2, WorkerShape DEF WorkerKeeps, environment
  <1>3. CASE Fiber \/ ServeStray \/ StopBegin \/ UNCHANGED vars \/ \E s \in Slots : Serve(s)
    BY <1>3 DEF Fiber, Linger, Offered, LingerStopped, StopEnd, ServeStray, StopBegin,
       Serve, vars, environment
  <1>4. CASE ForeignClaim \/ \E s \in Slots : Fault(s)
    BY <1>4 DEF ForeignClaim, Fault
  <1> QED
    BY <1>1, <1>2, <1>3, <1>4 DEF Next, Terminated

LEMMA CalmSteps ==
  ASSUME TypeInv, [Next]_vars, Calm'
  PROVE  Calm /\ ~ForeignClaim /\ \A s \in Slots : ~Fault(s)
  <1>1. faults \in Nat /\ foreign \in Nat
    BY DEF TypeInv, TypeOK, EnvironmentType
  <1>2. ~ForeignClaim /\ \A s \in Slots : ~Fault(s)
    BY <1>1 DEF Calm, ForeignClaim, Fault
  <1> QED
    BY <1>2, FaultSteps DEF Calm

LEMMA NextUnfailed ==
  ASSUME SequenceInv, HarmlessInv, Passable, Restarts = {}, [Next]_vars, Calm'
  PROVE  Unfailed'
  <1>0. TypeInv /\ BatchInv /\ EmittedAdmitted /\ Calm /\ Unfailed
    BY CalmSteps DEF SequenceInv, BatchInv, HarmlessInv, CalmInv
  <1>1. ASSUME NEW b \in Ids, Worker(b)
        PROVE  Unfailed'
    <2>0. phase'[b] # "fail" /\ phase \in [Slots -> Phases] /\ b \in Slots
      BY <1>0, <1>1, WorkerSucceeds, BatchTypes
    <2>1. ASSUME NEW out, Finish(b, out)
          PROVE  Unfailed'
      <3>1. \E seqs : Complete(b, out, seqs)
        BY <2>1 DEF Finish
      <3>2. out # "fail"
        BY <2>0, <3>1 DEF Complete
      <3>3. claim' # "fail"
        BY <1>0, <2>1, <3>2 DEF Finish, Unfailed
      <3> QED
        BY <1>0, <3>1, <3>2, <3>3, CompleteUnfailed DEF Unfailed
    <2>2. ASSUME failure' = failure, ~\E out : Finish(b, out)
          PROVE  Unfailed'
      <3>1. Started(b) \/ Reclaimed(b) \/ \E l \in Phases : Moved(b, l)
        BY <1>0, <1>1, <2>2, WorkerShape DEF Settled
      <3>2. UNCHANGED <<claim, settled>> /\ \E l : phase' = [phase EXCEPT ![b] = l]
        BY <3>1 DEF Started, Reclaimed, Moved
      <3>3. \A c \in Ids : c # b => phase'[c] = phase[c]
        BY <2>0, <3>2, BatchTypes
      <3> QED
        BY <1>0, <2>0, <2>2, <3>2, <3>3 DEF Unfailed, settled
    <2> QED
      BY <1>1, <2>1, <2>2, WorkerSequences
  <1>2. ASSUME \A b \in Ids : ~Worker(b)
        PROVE  Unfailed'
    <2>1. ASSUME NEW b \in Ids, phase[b] = "offer", Complete(b, "int", sequences)
          PROVE  Unfailed'
      <3>1. claim' = claim
        <4>1. phase'[b] = "int"
          BY <1>0, <2>1, BatchTypes DEF Complete
        <4>2. CASE Quiet \/ Pending
          BY <4>2 DEF Quiet, Pending, batchState
        <4>3. ASSUME NEW last \in Ids, Emitted(last)
              PROVE  claim' = claim
          BY <4>3 DEF Emitted
        <4>4. CASE StopEnd
          BY <4>4 DEF StopEnd, claims
        <4>5. ASSUME NEW d \in Ids, Answered(d) \/ OfferEnds(d)
              PROVE  claim' = claim
          BY <4>5 DEF Answered, OfferEnds, batchState
        <4> QED
          BY <1>0, <1>2, <4>2, <4>3, <4>4, <4>5, NextShape
      <3> QED
        BY <1>0, <2>1, <3>1, CompleteUnfailed DEF Unfailed
    <2>2. ASSUME failure' = failure
          PROVE  Unfailed'
      <3>1. CASE Quiet \/ Pending
        BY <1>0, <2>2, <3>1 DEF Quiet, Pending, batchState, Unfailed
      <3>2. ASSUME NEW last \in Ids, Emitted(last)
            PROVE  Unfailed'
        <4>1. phase'[last] # "fail" /\ \A c \in Ids : c # last => phase'[c] = phase[c]
          BY <1>0, <3>2, EmittedRow
        <4> QED
          BY <1>0, <2>2, <3>2, <4>1 DEF Emitted, Unfailed
      <3>3. CASE StopEnd
        <4>1. /\ \A c \in Ids : phase'[c] \in {"dead", phase[c]}
              /\ \A e \in Ids : receipt'[e] \in {"int", receipt[e]}
              /\ claim' = claim
          BY <1>0, <3>3, BatchTypes DEF StopEnd, claims
        <4> QED
          BY <1>0, <2>2, <4>1 DEF Unfailed
      <3>4. ASSUME NEW d \in Ids, Answered(d)
            PROVE  Unfailed'
        <4>1. \A c \in Ids : phase'[c] \in {phase[c], "replied"}
          BY <1>0, <3>4, BatchTypes DEF Answered
        <4> QED
          BY <1>0, <2>2, <3>4, <4>1 DEF Answered, batchState, Unfailed
      <3>5. ASSUME NEW d \in Ids, OfferEnds(d)
            PROVE  Unfailed'
        <4>1. CASE Complete(d, "int", sequences)
          BY <1>0, <3>5, <4>1, CompleteUnfailed DEF OfferEnds, Unfailed
        <4>2. CASE phase' = [phase EXCEPT ![d] = "queued"] /\ UNCHANGED <<receipt, firstFailure>>
          <5>1. \A c \in Ids : phase'[c] \in {phase[c], "queued"}
            BY <1>0, <4>2, BatchTypes
          <5> QED
            BY <1>0, <2>2, <3>5, <4>2, <5>1 DEF OfferEnds, Unfailed
        <4> QED
          BY <3>5, <4>1, <4>2 DEF OfferEnds
      <3> QED
        BY <1>0, <1>2, <3>1, <3>2, <3>3, <3>4, <3>5, NextShape
    <2> QED
      BY <1>0, <1>2, <2>1, <2>2, OtherSequences
  <1> QED
    BY <1>1, <1>2

LEMMA EmittedGrows ==
  ASSUME TypeInv, BatchInv, [Next]_vars
  PROVE  emitted' \in Nat /\ emitted' >= emitted
  <1>0. id \in Nat /\ emitted \in Nat /\ EmittedAdmitted /\ emitted <= id
    BY BatchTypes DEF BatchInv, EmittedAdmitted
  <1>1. ASSUME NEW b \in Ids, Worker(b)
        PROVE  emitted' = emitted
    BY <1>1, WorkerShape DEF WorkerKeeps, admission
  <1>2. ASSUME NEW last \in Ids, Emitted(last)
        PROVE  emitted' \in Nat /\ emitted' >= emitted
    <2>1. emitted' = last /\ last > emitted
      BY <1>2, EmittedRow
    <2> QED
      BY <1>0, <2>1, BatchTypes
  <1>3. CASE Quiet \/ Pending \/ StopEnd \/ \E b \in Ids : Answered(b) \/ OfferEnds(b)
    BY <1>0, <1>3 DEF Quiet, Pending, StopEnd, Answered, OfferEnds
  <1> QED
    BY <1>0, <1>1, <1>2, <1>3, NextShape

\* No emission once the close has its tuple.
LEMMA EmitsOpen ==
  ASSUME SequenceInv, [Next]_vars, NEW last \in Ids, Emitted(last)
  PROVE  closeRequest = NoTuple
  <1>1. closeRequest # NoTuple => emitted = id /\ id' = id
    BY ReadyStays DEF SequenceInv, CloseInv, CloseReady
  <1> QED
    BY <1>1, BatchTypes DEF SequenceInv, Emitted

\* The batches held for the claim and the one that makes it are all emitted.
LEMMA HeldFewer ==
  ASSUME TypeInv, BatchInv, NEW d \in Ids, d \notin Held, from[d] # 0
  PROVE  Cardinality(Held) \in Nat /\ Cardinality(Held) + 1 <= emitted
  <1>0. emitted \in Nat /\ PendingUntouched
    BY BatchTypes DEF BatchInv
  <1>1. IsFiniteSet(Ids) /\ Held \subseteq Ids
    BY OptionsAssumption, FS_Interval DEF Ids, Held
  <1>2. IsFiniteSet(Held)
    BY <1>1, FS_Subset
  <1>3. Cardinality(Held) \in Nat /\ Cardinality(Held \cup {d}) = Cardinality(Held) + 1
    BY <1>2, FS_CardinalityType, FS_AddElement
  <1>4. Held \cup {d} \subseteq 1..emitted
    <2> SUFFICES ASSUME NEW b \in Held \cup {d} PROVE b \in 1..emitted
      OBVIOUS
    <2>1. b \in Ids /\ b \in Nat /\ b # 0
      BY <1>1, BatchTypes
    <2>2. ~(b > emitted)
      BY <1>0, <2>1 DEF Held, PendingUntouched
    <2> QED
      BY <1>0, <2>1, <2>2
  <1>5. IsFiniteSet(1..emitted) /\ Cardinality(1..emitted) = emitted
    <2>1. 1 \in Int /\ emitted \in Int
      BY <1>0
    <2>2. /\ IsFiniteSet(1..emitted)
          /\ Cardinality(1..emitted) = IF 1 > emitted THEN 0 ELSE emitted - 1 + 1
      BY <2>1, FS_Interval
    <2> QED
      BY <1>0, <2>2
  <1>6. Cardinality(Held \cup {d}) <= Cardinality(1..emitted)
    BY <1>4, <1>5, FS_Subset
  <1> QED
    BY <1>3, <1>5, <1>6

LEMMA NextRoom ==
  ASSUME SequenceInv, HarmlessInv, Restarts = {}, [Next]_vars
  PROVE  Room'
  <1> SUFFICES ASSUME closeRequest' = NoTuple
               PROVE  (IF claimed THEN nextSeq <= emitted
                       ELSE IF claiming THEN nextSeq = 1 ELSE nextSeq = 0)'
    BY DEF Room
  <1>0. /\ TypeInv /\ BatchInv /\ ClaimInv /\ CloseInv /\ EpochInv /\ WaitingNamed /\ Room
        /\ OneLifecycle /\ emitted \in Nat /\ nextSeq \in Nat
    BY BatchTypes DEF SequenceInv, HarmlessInv, OneLifecycle
  <1>1. closeRequest = NoTuple
    BY <1>0, CloseStays
  <1>2. IF claimed THEN nextSeq <= emitted ELSE IF claiming THEN nextSeq = 1 ELSE nextSeq = 0
    BY <1>0, <1>1 DEF Room
  <1>3. CASE RowKept /\ UNCHANGED <<epoch, nextSeq>>
    <2>1. UNCHANGED <<claimed, claiming, nextSeq>>
      BY <1>3 DEF RowKept
    <2>2. emitted' \in Nat /\ emitted' >= emitted
      BY <1>0, EmittedGrows
    <2>3. CASE claimed
      <3>1. nextSeq' <= emitted'
        BY <1>0, <1>2, <2>1, <2>2, <2>3
      <3> QED
        BY <2>1, <2>3, <3>1
    <2>4. CASE ~claimed
      BY <1>2, <2>1, <2>4
    <2> QED
      BY <2>3, <2>4
  <1>4. ASSUME NEW c \in Closes, CloseAnswered(c)
        PROVE  FALSE
    BY <1>0, <1>1, <1>4, AnsweredClose
  <1>5. ASSUME NEW last \in Ids, Emitted(last)
        PROVE  (IF claimed THEN nextSeq <= emitted
                ELSE IF claiming THEN nextSeq = 1 ELSE nextSeq = 0)'
    <2>1. /\ last > emitted /\ emitted' = last /\ claimed' = claimed
          /\ claiming' <=> (claiming \/ ~claimed)
          /\ IF claimed \/ ~claiming THEN nextSeq' = nextSeq + 1 ELSE nextSeq' = nextSeq
      BY <1>0, <1>5, EmittedRow
    <2>2. CASE claimed
      <3>1. nextSeq' <= emitted'
        BY <1>0, <1>2, <2>1, <2>2, BatchTypes
      <3> QED
        BY <2>1, <2>2, <3>1
    <2>3. CASE ~claimed
      <3>1. nextSeq' = 1
        BY <1>2, <2>1, <2>3
      <3> QED
        BY <2>1, <2>3, <3>1
    <2> QED
      BY <2>2, <2>3
  <1>6. ASSUME NEW d \in Ids, Worker(d), Reclaimed(d)
        PROVE  (IF claimed THEN nextSeq <= emitted
                ELSE IF claiming THEN nextSeq = 1 ELSE nextSeq = 0)'
    <2>1. UNCHANGED <<claimed, claiming>> /\ nextSeq' = 1 /\ ~claimed /\ phase[d] = "replied"
      BY <1>0, <1>6, ReclaimedRow
    <2>2. AutoClaim /\ (AutoClaim /\ ~claiming => phase[d] = "none")
      BY <1>0, <1>6 DEF Reclaimed, ClaimInv, Unclaimed
    <2>3. claiming
      BY <2>1, <2>2
    <2> QED
      BY <2>1, <2>3
  <1>7. ASSUME NEW d \in Ids, Worker(d), Claims(d)
        PROVE  (IF claimed THEN nextSeq <= emitted
                ELSE IF claiming THEN nextSeq = 1 ELSE nextSeq = 0)'
    <2>1. /\ claimed' = TRUE /\ emitted' = emitted /\ nextSeq' = nextSeq + Cardinality(Held)
          /\ d \notin Held /\ from[d] # 0 /\ phase[d] = "replied"
      BY <1>0, <1>7, ClaimsRow
    <2>2. nextSeq <= 1
      BY <1>2, <1>7 DEF Claims
    <2>3. Cardinality(Held) \in Nat /\ Cardinality(Held) + 1 <= emitted
      BY <1>0, <2>1, HeldFewer
    <2>4. nextSeq' <= emitted'
      BY <1>0, <2>1, <2>2, <2>3
    <2> QED
      BY <2>1, <2>4
  <1> QED
    BY <1>0, <1>3, <1>4, <1>5, <1>6, <1>7, RowSteps

LEMMA NextFirstZero ==
  ASSUME SequenceInv, WaitingNamed, FirstZero, [Next]_vars,
         ~claimed /\ ~claiming /\ closeRequest = NoTuple => nextSeq = 0
  PROVE  FirstZero'
  <1> SUFFICES ASSUME NEW b \in Ids, first'[b], Name(b)' # NoTuple
               PROVE  (Name(b)').seq = 0
    BY DEF FirstZero
  <1>0. /\ TypeInv /\ BatchInv /\ ClaimInv /\ CloseInv /\ EpochInv /\ WaitingNamed
    BY DEF SequenceInv
  <1>1. CASE RowKept
    BY <1>0, <1>1 DEF RowKept, FirstZero
  <1>2. ASSUME NEW last \in Ids, Emitted(last)
        PROVE  (Name(b)').seq = 0
    <2>1. closeRequest = NoTuple
      BY <1>2, EmitsOpen
    <2>2. CASE b = last
      <3>1. ~claimed /\ ~claiming /\ Name(last)' = [epoch |-> epoch, seq |-> nextSeq]
        BY <1>0, <1>2, <2>2, EmittedRow
      <3>2. nextSeq = 0
        BY <2>1, <3>1
      <3> QED
        BY <2>2, <3>1, <3>2
    <2>3. CASE b # last
      <3>1. first'[b] = first[b] /\ Name(b)' = Name(b)
        BY <1>0, <1>2, <2>3, EmittedRow
      <3>2. first[b]
        BY <3>1
      <3> QED
        BY <1>0, <3>1, <3>2 DEF FirstZero
    <2> QED
      BY <2>2, <2>3
  <1>3. ASSUME NEW d \in Ids, Worker(d), Reclaimed(d)
        PROVE  (Name(b)').seq = 0
    BY <1>0, <1>3, ReclaimedRow DEF FirstZero
  <1>4. ASSUME NEW d \in Ids, Worker(d), Claims(d)
        PROVE  (Name(b)').seq = 0
    <2>1. first[b] /\ first[d]
      BY <1>0, <1>4, ClaimsRow DEF Claims
    <2>2. b = d
      BY <1>0, <2>1 DEF ClaimInv, FirstOnce
    <2> QED
      BY <1>0, <1>4, <2>1, <2>2, ClaimsRow DEF FirstZero
  <1> QED
    BY <1>0, <1>1, <1>2, <1>3, <1>4, RowSteps

LEMMA NextKnown ==
  ASSUME SequenceInv, HarmlessInv, Restarts = {}, [Next]_vars
  PROVE  Known'
  <1> SUFFICES ASSUME scope' # "closed", closeRequest' = NoTuple,
                      NEW q \in Seqs, through' < q, q < nextSeq'
               PROVE  sequences'[q] # 0
    BY DEF Known
  <1>0. /\ TypeInv /\ BatchInv /\ ClaimInv /\ CloseInv /\ EpochInv /\ WaitingNamed
        /\ EmittedAdmitted /\ OneLifecycle /\ q \in Nat /\ nextSeq \in Nat
        /\ through \in Int /\ sequences \in [Seqs -> 0..MaxEntries]
    BY BatchTypes DEF SequenceInv, HarmlessInv, OneLifecycle, BatchInv, Seqs, TypeInv, TypeOK,
       SequencingType
  <1>1. closeRequest = NoTuple /\ scope # "closed"
    <2>1. closeRequest = NoTuple
      BY <1>0, CloseStays
    <2>2. scope # "closed"
      BY ScopeSteps DEF StopBegin
    <2> QED
      BY <2>1, <2>2
  <1>2. \A p \in Seqs : through < p /\ p < nextSeq => sequences[p] # 0
    BY <1>1 DEF HarmlessInv, Known
  \* One more batch takes the next sequence.
  <1>3. ASSUME NEW b \in Ids, Reserve(b), through' = through
        PROVE  sequences'[q] # 0
    <2>1. nextSeq' = nextSeq + 1 /\ sequences' = [sequences EXCEPT ![nextSeq] = b] /\ b # 0
      BY <1>3, BatchTypes, <1>0 DEF Reserve
    <2>2. CASE q = nextSeq
      BY <1>0, <2>1, <2>2
    <2>3. CASE q # nextSeq
      <3>1. q < nextSeq
        BY <1>0, <2>1, <2>3
      <3> QED
        BY <1>0, <1>2, <1>3, <2>1, <2>3, <3>1
    <2> QED
      BY <2>2, <2>3
  \* The end of a batch forgets only what `through` has passed.
  <1>4. ASSUME NEW b, NEW out, NEW seqs, Complete(b, out, seqs)
        PROVE  through' >= through /\ through' \in Int /\ sequences'[q] = seqs[q]
    <2>1. through' >= through /\ through' \in Int
      BY <1>0, <1>4, OptionsAssumption DEF Complete, DoneThrough
    <2>2. sequences'[q] = IF through < q /\ q <= through' THEN 0 ELSE seqs[q]
      BY <1>4 DEF Complete
    <2> QED
      BY <1>0, <2>1, <2>2
  <1>5. ASSUME NEW b, NEW out, Complete(b, out, sequences), nextSeq' = nextSeq
        PROVE  sequences'[q] # 0
    <2>1. through' >= through /\ through' \in Int /\ sequences'[q] = sequences[q]
      BY <1>4, <1>5
    <2>2. through < q
      BY <1>0, <2>1
    <2> QED
      BY <1>2, <1>5, <2>1, <2>2
  <1>6. ASSUME NEW b, Complete(b, "ok", SequencesWithHeld),
               nextSeq' = nextSeq + Cardinality(Held)
        PROVE  sequences'[q] # 0
    <2>1. through' >= through /\ through' \in Int /\ sequences'[q] = SequencesWithHeld[q]
      BY <1>4, <1>6
    <2>2. through < q
      BY <1>0, <2>1
    <2>3. CASE \E h \in Held : SeqOfHeld(h) = q
      <3>1. SequencesWithHeld[q] = CHOOSE h \in Held : SeqOfHeld(h) = q
        BY <2>3 DEF SequencesWithHeld
      <3>2. SequencesWithHeld[q] \in Held
        BY <2>3, <3>1
      <3>3. \A h \in Held : h # 0
        BY <1>0, BatchTypes DEF Held
      <3> QED
        BY <2>1, <3>2, <3>3
    <2>4. CASE ~\E h \in Held : SeqOfHeld(h) = q
      <3>1. SequencesWithHeld[q] = sequences[q]
        BY <2>4 DEF SequencesWithHeld
      <3>2. Cardinality(Held) \in Nat
        BY CardinalityNat DEF Held
      <3>3. ~(nextSeq <= q /\ q < nextSeq + Cardinality(Held))
        BY <1>0, <2>4, HeldCovers
      <3>4. q < nextSeq
        BY <1>0, <1>6, <3>2, <3>3
      <3> QED
        BY <1>2, <2>1, <2>2, <3>1, <3>4
    <2> QED
      BY <2>3, <2>4
  <1>7. ASSUME NEW b \in Ids, Worker(b)
        PROVE  sequences'[q] # 0
    <2>1. ASSUME UNCHANGED <<sequences, through, failure>>
          PROVE  sequences'[q] # 0
      <3>1. CASE nextSeq' <= nextSeq /\ nextSeq' \in Nat
        BY <1>0, <1>2, <2>1, <3>1
      <3>2. CASE Started(b) \/ Settled(b, "ok") \/ Settled(b, "fail") \/ Settled(b, "int")
        <4>1. CASE Reserve(b)
          BY <1>3, <2>1, <4>1
        <4>2. CASE Started(b) /\ ~Reserve(b)
          BY <1>0, <3>1, <4>2 DEF Started
        <4>3. CASE \E out : Finish(b, out)
          BY <1>0, <1>5, <1>6, <3>1, <4>3 DEF Finish, ReserveHeld
        <4> QED
          BY <3>2, <4>1, <4>2, <4>3 DEF Settled
      <3>3. CASE Reclaimed(b)
        <4>1. nextSeq' = 1 /\ ~claimed /\ phase[b] = "replied" /\ AutoClaim
          BY <1>0, <1>7, <3>3, ReclaimedRow DEF Reclaimed
        <4>2. claiming
          BY <1>0, <4>1 DEF ClaimInv, Unclaimed
        <4>3. nextSeq = 1
          BY <1>1, <4>1, <4>2 DEF HarmlessInv, Room
        <4> QED
          BY <3>1, <4>1, <4>3
      <3>4. CASE \E l \in Phases : Moved(b, l)
        BY <1>0, <3>1, <3>4 DEF Moved
      <3> QED
        BY <1>0, <1>7, <3>2, <3>3, <3>4, WorkerShape DEF Outcomes, Failures
    <2>2. ASSUME NEW out, Finish(b, out)
          PROVE  sequences'[q] # 0
      BY <1>5, <1>6, <2>2 DEF Finish, ReserveHeld
    <2> QED
      BY <1>3, <1>7, <2>1, <2>2, WorkerSequences DEF Reserves
  <1>8. ASSUME \A b \in Ids : ~Worker(b)
        PROVE  sequences'[q] # 0
    <2>1. CASE nextSeq' = nextSeq
      <3>1. CASE UNCHANGED <<sequences, through>>
        BY <1>2, <2>1, <3>1
      <3>2. CASE \E last \in Ids : Reserve(last) \/ UNCHANGED <<sequences, through>>
        BY <1>0, <2>1, <3>1, <3>2 DEF Reserve
      <3>3. CASE \E b \in Ids : Complete(b, "int", sequences)
        BY <1>5, <2>1, <3>3
      <3>4. ~StopEnd
        BY DEF StopEnd
      <3> QED
        BY <1>0, <1>8, <3>1, <3>2, <3>3, <3>4, OtherSequences
    <2>2. ASSUME NEW last \in Ids, Emitted(last), nextSeq' # nextSeq
          PROVE  sequences'[q] # 0
      <3>1. Reserve(last)
        BY <2>2 DEF Emitted, Emit
      <3>2. phase[last] = "none"
        BY <1>0, <2>2, EmittedRow
      <3>3. through' = through
        <4>1. ~StopEnd
          BY DEF StopEnd
        <4>2. ASSUME NEW b \in Ids, phase[b] = "offer", Complete(b, "int", sequences)
              PROVE  FALSE
          <5>1. b # last /\ phase'[b] = "int"
            BY <1>0, <3>2, <4>2, BatchTypes DEF Complete
          <5>2. phase'[b] = phase[b]
            BY <1>0, <2>2, <5>1, EmittedRow
          <5> QED
            BY <4>2, <5>1, <5>2
        <4> QED
          BY <1>0, <1>8, <4>1, <4>2, OtherSequences
      <3> QED
        BY <1>3, <3>1, <3>3
    <2>3. ASSUME NEW c \in Closes, CloseAnswered(c)
          PROVE  FALSE
      BY <1>0, <1>1, <2>3, AnsweredClose
    <2> QED
      BY <1>0, <1>8, <2>1, <2>2, <2>3, RowSteps
  <1> QED
    BY <1>7, <1>8

LEMMA ServerEpochGrows ==
  ASSUME TypeInv, EmittedAdmitted, [Next]_vars
  PROVE  sEpoch' \in Int /\ sEpoch' >= sEpoch
  <1>0. /\ sEpoch \in Int /\ \A t \in Tuple : t.epoch \in Int
        /\ strays \subseteq [slot : Slots, req : Tuple] /\ \A s \in Slots : req[s] \in Tuple
    BY ServerTypes DEF TypeInv, TypeOK, RequestType
  <1>1. ASSUME NEW t \in Tuple, NEW s, Accept(s, t)
        PROVE  sEpoch' \in Int /\ sEpoch' >= sEpoch
    BY <1>0, <1>1 DEF Accept, Accepts
  <1>2. CASE ServeStray
    <2>1. PICK r \in strays : Accept(r.slot, r.req) \/ UNCHANGED server
      BY <1>2 DEF ServeStray
    <2>2. r.req \in Tuple
      BY <1>0
    <2> QED
      BY <1>0, <1>1, <2>1, <2>2 DEF server
  <1>3. ASSUME NEW s \in Slots, Serve(s)
        PROVE  sEpoch' \in Int /\ sEpoch' >= sEpoch
    BY <1>0, <1>1, <1>3 DEF Serve, server
  <1>4. CASE ForeignClaim
    BY <1>0, <1>4 DEF ForeignClaim
  <1>5. ASSUME UNCHANGED server
        PROVE  sEpoch' \in Int /\ sEpoch' >= sEpoch
    BY <1>0, <1>5 DEF server
  <1>6. ASSUME Offline \/ \E s \in Slots : GivenUp(s) \/ Fault(s)
        PROVE  UNCHANGED server
    BY <1>6 DEF Offline, GivenUp, Fault
  <1> QED
    BY <1>2, <1>3, <1>4, <1>5, <1>6, NetShape

LEMMA NextLevel ==
  ASSUME SequenceInv, HarmlessInv, Restarts = {}, [Next]_vars
  PROVE  Level'
  <1> SUFFICES ASSUME ~AutoClaim, foreign' = 0
               PROVE  sEpoch' <= 0 /\ \A r \in strays' : r.req.epoch <= 0
    BY DEF Level
  <1>0. /\ TypeInv /\ CloseInv /\ EpochInv /\ EmittedAdmitted /\ foreign \in Nat
    BY ServerTypes DEF SequenceInv, BatchInv
  <1>1. epoch = 0
    BY DEF HarmlessInv, OurNames, OurEpoch
  <1>2. ~ForeignClaim /\ foreign = 0
    BY <1>0, FaultSteps DEF ForeignClaim
  <1>3. sEpoch <= 0 /\ \A r \in strays : r.req.epoch <= 0
    BY <1>2 DEF HarmlessInv, Level
  <1>4. \A s \in Slots : phase[s] \in {"sent", "replied"} => req[s].epoch = 0
    BY <1>0, <1>1, SentEpoch
  <1>5. CASE Offline
    BY <1>3, <1>5 DEF Offline, server
  <1>6. CASE ServeStray
    BY <1>3, <1>6 DEF ServeStray, Accept, server
  <1>7. ASSUME NEW s \in Slots, GivenUp(s) \/ Fault(s)
        PROVE  sEpoch' <= 0 /\ \A r \in strays' : r.req.epoch <= 0
    <2>1. UNCHANGED server
      BY <1>7 DEF GivenUp, Fault
    <2>2. \/ strays' = strays
          \/ phase[s] = "sent" /\ strays' = strays \cup {[slot |-> s, req |-> req[s]]}
      BY <1>7 DEF GivenUp, Fault, Abandoned
    <2> QED
      BY <1>3, <1>4, <2>1, <2>2 DEF server
  <1>8. ASSUME NEW s \in Slots, Serve(s)
        PROVE  sEpoch' <= 0 /\ \A r \in strays' : r.req.epoch <= 0
    BY <1>3, <1>4, <1>8 DEF Serve, Accept, server
  <1> QED
    BY <1>0, <1>2, <1>5, <1>6, <1>7, <1>8, NetShape

LEMMA NextUpto ==
  ASSUME SequenceInv, HarmlessInv, Restarts = {}, [Next]_vars
  PROVE  Upto'
  <1> SUFFICES ASSUME AutoClaim
               PROVE  /\ \A b \in Ids : phase'[b] = "replied" /\ reply'[b].kind \in Success =>
                           sEpoch' >= epoch'
                      /\ claimed' /\ closeRequest' = NoTuple => sEpoch' >= epoch'
    BY DEF Upto
  <1>0. /\ TypeInv /\ BatchInv /\ ClaimInv /\ CloseInv /\ EpochInv /\ EmittedAdmitted
        /\ OneLifecycle /\ ClosedEpoch /\ epoch \in Int /\ sEpoch \in Int
    BY BatchTypes, ServerTypes DEF SequenceInv, BatchInv, OneLifecycle, EpochInv
  <1>1. sEpoch' \in Int /\ sEpoch' >= sEpoch
    BY <1>0, ServerEpochGrows
  <1>2. /\ \A b \in Ids : phase[b] = "replied" /\ reply[b].kind \in Success => sEpoch >= epoch
        /\ claimed /\ closeRequest = NoTuple => sEpoch >= epoch
    BY DEF HarmlessInv, Upto
  <1>3. ASSUME epoch' = epoch, NEW b \in Ids, phase'[b] = "replied", reply'[b].kind \in Success
        PROVE  sEpoch' >= epoch'
    <2>1. CASE phase[b] = "replied" /\ reply'[b] = reply[b]
      BY <1>0, <1>1, <1>2, <1>3, <2>1
    <2>2. CASE Offline
      BY <1>0, <1>3, <2>1, <2>2, BatchTypes DEF Offline
    <2>3. CASE ServeStray \/ ForeignClaim
      BY <1>3, <2>1, <2>3 DEF ServeStray, ForeignClaim, requests
    <2>4. ASSUME NEW s \in Slots, GivenUp(s)
          PROVE  sEpoch' >= epoch'
      <3>1. phase[b] = "replied" /\ reply'[b] = reply[b]
        BY <1>0, <1>3, <2>4, BatchTypes DEF GivenUp
      <3> QED
        BY <2>1, <3>1
    <2>5. ASSUME NEW s \in Slots, Fault(s)
          PROVE  sEpoch' >= epoch'
      <3>1. b = s => reply'[b].kind = "rejected"
        BY <1>0, <2>5, BatchTypes DEF Fault
      <3>2. b # s => phase[b] = "replied" /\ reply'[b] = reply[b]
        BY <1>0, <1>3, <2>5, BatchTypes DEF Fault
      <3> QED
        BY <1>3, <2>1, <3>1, <3>2 DEF Success
    <2>6. ASSUME NEW s \in Slots, Serve(s)
          PROVE  sEpoch' >= epoch'
      <3>1. CASE b # s
        <4>1. phase[b] = "replied" /\ reply'[b] = reply[b]
          BY <1>0, <1>3, <2>6, <3>1, BatchTypes DEF Serve
        <4> QED
          BY <2>1, <4>1
      <3>2. CASE b = s
        <4>1. phase[b] = "sent"
          BY <2>6, <3>2 DEF Serve
        <4>2. req[b].epoch = epoch /\ req[b] # NoTuple /\ req[b] \in Tuple /\ b \in Slots
          BY <1>0, <4>1, SentEpoch, BatchTypes
        <4>3. CASE Accept(s, req[s])
          <5>1. sEpoch' = req[b].epoch
            BY <3>2, <4>3 DEF Accept
          <5> QED
            BY <1>0, <1>3, <4>2, <5>1
        <4>4. ASSUME NEW r \in Refusals(req[s]), reply' = [reply EXCEPT ![s] = r]
              PROVE  sEpoch' >= epoch'
          <5>1. reply'[b] = r
            BY <1>0, <3>2, <4>4, BatchTypes
          <5>2. req[b].epoch = sEpoch
            BY <1>0, <1>3, <3>2, <4>2, <4>4, <5>1, RefusedEpoch
          <5> QED
            BY <1>0, <1>1, <1>3, <4>2, <5>2
        <4> QED
          BY <2>6, <4>3, <4>4 DEF Serve
      <3> QED
        BY <3>1, <3>2
    <2> QED
      BY <1>0, <2>2, <2>3, <2>4, <2>5, <2>6, NetShape
  <1>4. ASSUME epoch' = epoch, claimed', closeRequest' = NoTuple
        PROVE  sEpoch' >= epoch'
    <2>1. closeRequest = NoTuple
      BY <1>0, <1>4, CloseStays
    <2>2. CASE claimed
      BY <1>0, <1>1, <1>2, <1>4, <2>1, <2>2
    <2>3. CASE ~claimed
      <3>1. PICK b \in Ids : first[b] /\ Worker(b) /\ Settled(b, "ok")
        BY <1>0, <1>4, <2>3, ClaimSteps
      <3>2. phase[b] = "replied" /\ reply[b].kind \in Success
        BY <3>1 DEF Settled, Replied, Failures
      <3> QED
        BY <1>0, <1>1, <1>2, <1>4, <3>2
    <2> QED
      BY <2>2, <2>3
  \* The request that begins an epoch is the only one of the claim.
  <1>5. ASSUME NEW d \in Ids, Worker(d), Reclaimed(d), first[d], ~claimed
        PROVE  /\ ~claimed' /\ \A b \in Ids : phase'[b] # "replied"
    <2>1. claimed' = claimed
      BY <1>5 DEF Reclaimed
    <2>2. phase'[d] = "sent" /\ \A b \in Ids : b # d => phase'[b] = phase[b]
      BY <1>0, <1>5, BatchTypes DEF Reclaimed
    <2>3. \A b \in Ids : phase[b] = "replied" => first[b]
      BY <1>0, <1>5 DEF ClaimInv, BeforeClaim, InFlight
    <2>4. \A b \in Ids : first[b] => b = d
      BY <1>0, <1>5 DEF ClaimInv, FirstOnce
    <2> QED
      BY <1>5, <2>1, <2>2, <2>3, <2>4
  <1>6. ASSUME NEW c \in Closes, CloseReclaimed(c)
        PROVE  closeRequest' # NoTuple /\ \A b \in Ids : phase'[b] # "replied"
    <2>1. closeRequest # NoTuple
      BY <1>0, <1>6, AnsweredClose DEF CloseReclaimed
    <2>2. closeRequest' # NoTuple
      BY <1>0, <2>1, CloseStays
    <2>3. \A b \in Ids : phase'[b] \notin Active
      BY <1>0, <2>1, ReadyStays DEF CloseInv
    <2> QED
      BY <2>2, <2>3 DEF Active, Working
  <1> QED
    BY <1>0, <1>3, <1>4, <1>5, <1>6, EpochChange DEF EpochKept

LEMMA NextHeard ==
  ASSUME SequenceInv, HarmlessInv, Passable, Restarts = {}, [Next]_vars, Calm'
  PROVE  Heard'
  <1> SUFFICES ASSUME NEW b \in Ids, phase'[b] = "replied"
               PROVE  /\ reply'[b].kind \notin {"closed", "rejected"}
                      /\ reply'[b].kind = "fenced" => AutoClaim /\ reply'[b].num < MaxSafe
                      /\ reply'[b].kind = "gap" => reply'[b].num < req'[b].seq
    BY DEF Heard
  <1>0. /\ TypeInv /\ BatchInv /\ ClaimInv /\ CloseInv /\ EpochInv /\ EmittedAdmitted
        /\ Calm /\ Heard /\ ~ForeignClaim /\ (\A s \in Slots : ~Fault(s)) /\ b \in Slots
    BY CalmSteps, BatchTypes DEF SequenceInv, BatchInv, HarmlessInv, CalmInv
  <1>1. CASE phase[b] = "replied" /\ reply'[b] = reply[b] /\ req'[b] = req[b]
    BY <1>0, <1>1 DEF Heard
  <1>2. CASE Offline
    BY <1>0, <1>1, <1>2 DEF Offline
  <1>3. CASE ServeStray
    BY <1>1, <1>3 DEF ServeStray, requests
  <1>4. ASSUME NEW s \in Slots, GivenUp(s)
        PROVE  phase[b] = "replied" /\ reply'[b] = reply[b] /\ req'[b] = req[b]
    BY <1>0, <1>4, BatchTypes DEF GivenUp
  <1>5. ASSUME NEW s \in Slots, Serve(s), s # b
        PROVE  phase[b] = "replied" /\ reply'[b] = reply[b] /\ req'[b] = req[b]
    BY <1>0, <1>5, BatchTypes DEF Serve
  <1>6. ASSUME Serve(b)
        PROVE  /\ reply'[b].kind \notin {"closed", "rejected"}
               /\ reply'[b].kind = "fenced" => AutoClaim /\ reply'[b].num < MaxSafe
               /\ reply'[b].kind = "gap" => reply'[b].num < req'[b].seq
    <2> DEFINE t == req[b]
    <2>1. phase[b] = "sent" /\ req'[b] = t /\ phase[b] \in Active
      BY <1>6 DEF Serve, Active, Working
    <2>2. /\ t \in Tuple /\ t # NoTuple /\ t.epoch = epoch /\ t.epoch \in Int /\ t.seq \in Int
          /\ epoch \in Nat /\ sEpoch \in Int /\ sLast \in Int /\ ServerEpoch \in Int /\ sEpoch >= -1
      <3>1. t.epoch = epoch /\ t # NoTuple
        BY <1>0, <2>1, SentEpoch
      <3>2. sEpoch >= -1
        BY <1>0 DEF TypeInv, TypeOK, ServerType
      <3> QED
        BY <1>0, <3>1, <3>2, BatchTypes, ServerTypes
    <2>3. closeRequest = NoTuple /\ sClosed = NoTuple
      BY <1>0, <2>1 DEF CloseInv, CloseReady, HarmlessInv, ClosedName
    <2>4. Name(b) = t /\ t.seq >= 0 /\ OurEpoch(epoch)
      BY <2>2 DEF Name, HarmlessInv, OurNames
    <2>5. CASE reply' = [reply EXCEPT ![b] = [kind |-> "ok", num |-> 0,
                                          offset |-> Len(log) + 1, closed |-> b = 0]]
      <3>1. reply'[b].kind = "ok"
        BY <1>0, <2>5, BatchTypes
      <3> QED
        BY <3>1
    <2>6. ASSUME ~Accepts(t), NEW r \in Refusals(t), reply' = [reply EXCEPT ![b] = r]
          PROVE  /\ reply'[b].kind \notin {"closed", "rejected"}
                 /\ reply'[b].kind = "fenced" => AutoClaim /\ reply'[b].num < MaxSafe
                 /\ reply'[b].kind = "gap" => reply'[b].num < req'[b].seq
      <3>0. reply'[b] = r
        BY <1>0, <2>6, BatchTypes
      <3>1. ~(t.epoch > sEpoch /\ t.seq = 0) /\ ~(t.epoch = sEpoch /\ t.seq = sLast + 1)
        BY <2>3, <2>6 DEF Accepts
      <3>2. CASE t.epoch < sEpoch
        <4>1. r.kind = "fenced" /\ r.num = sEpoch
          BY <2>3, <2>6, <3>2 DEF Refusals
        <4>2. AutoClaim
          <5>1. ~AutoClaim => sEpoch <= 0
            BY <1>0 DEF HarmlessInv, Level, Calm
          <5> QED
            BY <2>2, <3>2, <5>1
        <4>3. sEpoch = ServerEpoch \/ sEpoch <= epoch
          BY <1>0, <4>2 DEF EpochInv, ServerBehind
        <4>4. sEpoch = ServerEpoch
          BY <2>2, <3>2, <4>3
        <4> QED
          BY <3>0, <4>1, <4>2, <4>4 DEF Passable
      <3>3. CASE t.epoch > sEpoch
        <4>1. t.seq > 0
          BY <2>2, <2>4, <3>1, <3>3
        <4>2. sEpoch = -1
          <5>1. CASE ~AutoClaim
            BY <2>2, <2>4, <3>3, <5>1 DEF OurEpoch
          <5>2. CASE AutoClaim
            <6>1. ~first[b]
              BY <2>2, <2>4, <4>1 DEF HarmlessInv, FirstZero
            <6>2. claimed
              BY <1>0, <2>1, <6>1 DEF ClaimInv, BeforeClaim, InFlight
            <6>3. sEpoch >= epoch
              BY <2>3, <5>2, <6>2 DEF HarmlessInv, Upto
            <6> QED
              BY <2>2, <3>3, <6>3
          <5> QED
            BY <5>1, <5>2
        <4>3. r.kind = "gap" /\ r.num = 0
          BY <2>2, <2>3, <2>6, <3>3, <4>2 DEF Refusals
        <4> QED
          BY <2>1, <3>0, <4>1, <4>3
      <3>4. CASE t.epoch = sEpoch
        <4>1. CASE t.seq <= sLast
          <5>1. r.kind = "dup"
            BY <2>2, <2>3, <2>6, <3>4, <4>1 DEF Refusals
          <5> QED
            BY <3>0, <5>1
        <4>2. CASE ~(t.seq <= sLast)
          <5>1. r.kind = "gap" /\ r.num = sLast + 1
            BY <2>2, <2>3, <2>6, <3>4, <4>2 DEF Refusals
          <5>2. sLast + 1 < t.seq
            BY <2>2, <3>1, <3>4, <4>2
          <5> QED
            BY <2>1, <3>0, <5>1, <5>2
        <4> QED
          BY <4>1, <4>2
      <3> QED
        BY <2>2, <3>2, <3>3, <3>4
    <2> QED
      BY <1>6, <2>5, <2>6 DEF Serve
  <1> QED
    BY <1>0, <1>1, <1>2, <1>3, <1>4, <1>5, <1>6, NetShape

LEMMA NextHarmless ==
  ASSUME SequenceInv, HarmlessInv, Passable, Restarts = {}, [Next]_vars
  PROVE  HarmlessInv'
  <1>0. /\ TypeInv /\ BatchInv /\ ClaimInv /\ EpochInv /\ OneLifecycle
        /\ OurNames /\ ClosedName /\ WaitingNamed /\ ClosedIdle
    BY DEF SequenceInv, HarmlessInv, OneLifecycle
  <1>1. OurNames' /\ ClosedName' /\ WaitingNamed' /\ ClosedIdle'
    BY <1>0, NextOurNames, NextClosedName, NextWaitingNamed, NextClosedIdle
  <1>2. CalmInv'
    BY NextUnfailed, NextHeard DEF CalmInv
  <1>3. FirstZero'
    <2>1. ~claimed /\ ~claiming /\ closeRequest = NoTuple => nextSeq = 0
      BY DEF HarmlessInv, Room
    <2> QED
      BY <1>0, <2>1, NextFirstZero DEF HarmlessInv
  <1> QED
    BY <1>1, <1>2, <1>3, NextRoom, NextKnown, NextLevel, NextUpto DEF HarmlessInv

LEMMA InitHarmless ==
  ASSUME Passable
  PROVE  Init => HarmlessInv
  <1> SUFFICES ASSUME Init PROVE HarmlessInv
    OBVIOUS
  <1>1. \A b \in Ids : /\ phase[b] = "none" /\ req[b] = NoTuple /\ tuple[b] = NoTuple
                       /\ first[b] = FALSE /\ receipt[b] = "open" /\ Name(b) = NoTuple
    BY BatchTypes, OptionsAssumption DEF Init, Name, Ids, Slots
  <1>2. OurNames /\ ClosedName /\ WaitingNamed /\ ClosedIdle
    BY <1>1 DEF Init, OurNames, OurEpoch, ClosedName, WaitingNamed, ClosedIdle
  <1>3. CalmInv
    BY <1>1 DEF Init, CalmInv, Unfailed, Heard, NoFailure
  <1>4. Room /\ FirstZero /\ Known
    BY <1>1, OptionsAssumption DEF Init, Room, FirstZero, Known, Seqs
  <1>5. Level /\ Upto
    BY <1>1, OptionsAssumption DEF Init, Level, Upto, Passable
  <1> QED
    BY <1>2, <1>3, <1>4, <1>5 DEF HarmlessInv

\* Requests that overtake each other on the wire fail no append: as long as no
\* request is lost or rejected and no other writer takes the producer id, every
\* gap the server reports is one of a batch that a worker still waits for, and
\* every fence one that autoClaim passes. The producer must be able to pass the
\* epoch the server holds, and must not be restarted: the second request of
\* the epoch a restart begins may arrive before the first, which the server
\* then rejects.
THEOREM OvertakingFailsNothing ==
  ASSUME Restarts = {}, OneClaimant, Passable
  PROVE  Spec => []ReorderingIsHarmless
  <1> DEFINE Inv == SequenceInv /\ HarmlessInv
  <1>0. OneLifecycle
    BY DEF OneLifecycle
  <1>1. Init => Inv
    BY InitSequence, InitHarmless
  <1>2. Inv /\ [Next]_vars => Inv'
    BY <1>0, NextSequence, NextHarmless
  <1>3. Inv => ReorderingIsHarmless
    BY DEF HarmlessInv, CalmInv, Calm, Unfailed, ReorderingIsHarmless
  <1> HIDE DEF Inv
  <1> QED
    BY <1>1, <1>2, <1>3, PTL DEF Spec

-----------------------------------------------------------------------------
(* The producer implements the abstract append log, for every workload,    *)
(* fault, interruption and close: each of its steps admits a value, stores *)
(* a batch, settles receipts, closes the stream, or is none of the         *)
(* abstract log's business.  On top of the invariants above this needs two *)
(* more: every value up to a batch in the log is in the log too, and a     *)
(* close that may still reach the server leaves nothing unacknowledged.    *)

\* Every value up to a batch in the log is in the log.
Filled ==
  \A c \in Ids : InLog(c) =>
     \A e \in 1..c : \E b \in Ids : InLog(b) /\ e \in Entries(b)
\* A close that may still reach the server has everything acknowledged.
CloseArrives == phase[0] # "none" \/ \E r \in strays : r.slot = 0
CloseAfterAll == CloseArrives => \A e \in 1..id : receipt[e] = "ok"

LEMMA LoggedPlace ==
  ASSUME TypeInv, PlaceRow, NEW b \in Ids, InLog(b)
  PROVE  from[b] # 0 /\ req[b] # NoTuple
  <1>1. req[b] # NoTuple
    BY DEF PlaceRow, LoggedSent
  <1>2. Name(b) # NoTuple
    BY <1>1 DEF Name
  <1> QED
    BY <1>1, <1>2 DEF PlaceRow, NamedEmerged

LEMMA NextFilled ==
  ASSUME DeliveryInv, Filled, OwnEpochs, [Next]_vars
  PROVE  Filled'
  <1> SUFFICES ASSUME NEW c \in Ids, InLog(c)', NEW e \in 1..c
               PROVE  \E b \in Ids : InLog(b)' /\ e \in Entries(b)'
    BY DEF Filled, Ids
  <1>0. /\ TypeInv /\ BatchInv /\ OnceInv /\ PlaceRow /\ SequenceInv /\ LogInv /\ RowInv
        /\ from \in [Ids -> Nat] /\ c \in Nat
    BY BatchTypes DEF DeliveryInv, SequenceInv, RowInv
  <1>1. ASSUME NEW b \in Ids, InLog(b), e \in Entries(b)
        PROVE  InLog(b)' /\ e \in Entries(b)'
    <2>1. from'[b] = from[b] /\ InLog(b)'
      BY <1>0, <1>1, LoggedFrom, InLogStays
    <2> QED
      BY <1>1, <2>1 DEF Entries
  <1>2. CASE InLog(c)
    BY <1>1, <1>2 DEF Filled
  <1>3. CASE ~InLog(c)
    <2>1. Accept(c, req[c]) /\ req[c] # NoTuple
      BY <1>0, <1>3, InLogAdded
    <2>2. Before(c)
      BY <1>0, <1>3, <2>1, AcceptWhole
    <2>3. Name(c) # NoTuple
      BY <2>1 DEF Name
    <2>4. from[c] # 0 /\ from'[c] = from[c]
      BY <1>0, <2>3, BatchStays DEF PlaceRow, NamedEmerged
    <2>5. CASE e >= from[c]
      BY <1>0, <2>4, <2>5 DEF Entries
    <2>6. CASE e < from[c]
      <3>1. from[c] <= c /\ from[c] > 1
        BY <1>0, <2>6 DEF BatchInv, BatchesApart
      <3>2. from[c] - 1 \in Ids /\ from[c] - 1 < c /\ e \in 1..(from[c] - 1)
        BY <1>0, <2>4, <2>6, <3>1, OptionsAssumption DEF Ids
      <3>3. from[from[c] - 1] # 0
        BY <1>0, <2>1, <3>1 DEF PlaceRow, Chained, Sendable
      <3>4. InLog(from[c] - 1)
        BY <2>2, <3>2, <3>3 DEF Before
      <3> QED
        BY <1>1, <3>2, <3>4 DEF Filled
    <2> QED
      BY <1>0, <2>5, <2>6
  <1> QED
    BY <1>2, <1>3

LEMMA CloseArrivesSteps ==
  ASSUME TypeInv, BatchInv, CloseInv, [Next]_vars, CloseArrives'
  PROVE  CloseArrives \/ \E c \in Closes : SendClose(c) /\ phase'[0] # "none"
  <1> SUFFICES ASSUME phase[0] = "none", \A r \in strays : r.slot # 0
               PROVE  \E c \in Closes : SendClose(c) /\ phase'[0] # "none"
    BY DEF CloseArrives
  <1>1. \A r \in strays' : r.slot # 0
    BY NetShape DEF Offline, GivenUp, Serve, Fault, Abandoned, ServeStray, ForeignClaim, BatchInv
  <1>2. phase'[0] # "none"
    BY <1>1 DEF CloseArrives
  <1>3. \A c \in Closes : ~CloseAnswered(c)
    BY DEF CloseAnswered
  <1> QED
    BY <1>2, <1>3, SlotZero DEF BatchInv

LEMMA NextCloseAfterAll ==
  ASSUME DeliveryInv, CloseAfterAll, OneLifecycle, [Next]_vars
  PROVE  CloseAfterAll'
  <1>0. /\ TypeInv /\ BatchInv /\ CloseInv /\ LastInv /\ PlaceInv
        /\ id \in Nat /\ id <= MaxEntries /\ 0 \in Slots
    BY BatchTypes DEF DeliveryInv, SequenceInv, CloseInv
  <1>1. CASE CloseArrives
    <2>1. closeRequest # NoTuple
      BY <1>0, <1>1 DEF CloseArrives, CloseInv, CloseSlot, DeliveryInv, LogInv, ClosedName
    <2>2. id' = id
      BY <1>0, <2>1, AdmitsOpen DEF CloseInv, CloseReady, PlaceInv, StaysShut
    <2>3. \A e \in 1..id : e \in Ids /\ receipt[e] = "ok"
      BY <1>0, <1>1, OptionsAssumption DEF CloseAfterAll, Ids
    <2> QED
      BY <1>0, <2>2, <2>3, ReceiptSteps DEF CloseAfterAll
  <1>2. CASE ~CloseArrives /\ CloseArrives'
    <2>1. PICK c \in Closes : SendClose(c) /\ phase'[0] # "none"
      BY <1>0, <1>2, CloseArrivesSteps
    <2>2. phase[0] = "none"
      BY <1>2 DEF CloseArrives
    <2>3. scope = "live" /\ scope' = scope /\ UNCHANGED <<id, receipt>>
      BY <2>1, <2>2 DEF SendClose, environment, settled
    <2>4. closeRequest' # NoTuple
      <3>1. epoch \in Nat
        BY <1>0, BatchTypes
      <3> QED
        BY <2>1, <3>1 DEF SendClose, NoTuple
    <2>5. CloseDrained'
      BY <1>0, NextLast DEF LastInv
    <2> QED
      BY <2>3, <2>4, <2>5 DEF CloseDrained, CloseAfterAll
  <1> QED
    BY <1>1, <1>2 DEF CloseAfterAll

-----------------------------------------------------------------------------
(* The abstract state, and what a step of the producer does to it.         *)

LEMMA StoredTypes ==
  ASSUME TypeInv
  PROVE  /\ Stored \in Seq(SUBSET Int) /\ Len(Stored) = Len(log)
         /\ \A i \in 1..Len(log) : Stored[i] = IF log[i] \in Ids THEN Entries(log[i]) ELSE {}
  <1>1. Len(log) \in Nat
    BY LogTypes
  <1>2. \A i \in 1..Len(log) : (IF log[i] \in Ids THEN Entries(log[i]) ELSE {}) \in SUBSET Int
    BY DEF Entries
  <1>3. Stored \in [1..Len(log) -> SUBSET Int]
    BY <1>2 DEF Stored
  <1>4. Stored \in Seq(SUBSET Int)
    BY <1>1, <1>3
  <1>5. Len(Stored) = Len(log)
    BY <1>1, <1>4, LenProperties, <1>3
  <1> QED
    BY <1>4, <1>5 DEF Stored

\* The values of the abstract log are those of the batches in the log.
LEMMA StoredIs ==
  ASSUME TypeInv
  PROVE  Abstract!StoredValues = {e \in Ids : \E b \in Ids : InLog(b) /\ e \in Entries(b)}
  BY StoredTypes DEF Abstract!StoredValues, Abstract!Values, Ids, InLog

LEMMA StoredKept ==
  ASSUME TypeInv, BatchInv, OnceInv, [Next]_vars, log' = log
  PROVE  Stored' = Stored
  <1>1. \A i \in 1..Len(log) : log[i] \in Ids => from'[log[i]] = from[log[i]]
    BY LoggedFrom DEF InLog
  <1> QED
    BY <1>1 DEF Stored, Entries

LEMMA StoredGrows ==
  ASSUME TypeInv, BatchInv, OnceInv, [Next]_vars, NEW s \in Slots \cup {Foreign},
         log' = Append(log, s), s \in Ids => from'[s] = from[s]
  PROVE  Stored' = Append(Stored, IF s \in Ids THEN Entries(s) ELSE {})
  <1> DEFINE new == IF s \in Ids THEN Entries(s) ELSE {}
  <1>0. TypeInv' /\ Len(log) \in Nat
    BY NextType, LogTypes
  <1>1. new \in SUBSET Int
    BY DEF Entries
  <1>2. /\ Append(Stored, new) \in Seq(SUBSET Int) /\ Len(Append(Stored, new)) = Len(Stored) + 1
        /\ \A i \in 1..Len(Stored) : Append(Stored, new)[i] = Stored[i]
        /\ Append(Stored, new)[Len(Stored) + 1] = new
    BY <1>1, StoredTypes, AppendProperties
  <1>3. /\ Stored' \in Seq(SUBSET Int) /\ Len(Stored') = Len(log')
        /\ \A i \in 1..Len(log') : Stored'[i] = IF log'[i] \in Ids THEN from'[log'[i]]..log'[i] ELSE {}
    <2>1. log' \in Seq(Slots \cup {Foreign}) /\ Len(log') \in Nat
      BY <1>0 DEF TypeInv, TypeOK, ServerType
    <2>2. Stored' = [i \in 1..Len(log') |-> IF log'[i] \in Ids THEN from'[log'[i]]..log'[i] ELSE {}]
      BY DEF Stored, Entries
    <2>3. \A i \in 1..Len(log') : (IF log'[i] \in Ids THEN from'[log'[i]]..log'[i] ELSE {}) \in SUBSET Int
      OBVIOUS
    <2>4. Stored' \in [1..Len(log') -> SUBSET Int]
      BY <2>2, <2>3
    <2>5. Stored' \in Seq(SUBSET Int)
      BY <2>1, <2>4
    <2> QED
      BY <2>1, <2>2, <2>4, <2>5, LenProperties
  <1>4. /\ Len(log') = Len(log) + 1 /\ log'[Len(log) + 1] = s
        /\ \A i \in 1..Len(log) : log'[i] = log[i]
    BY LogGrows
  <1>5. \A i \in 1..Len(log) : Stored'[i] = Append(Stored, new)[i]
    <2> SUFFICES ASSUME NEW i \in 1..Len(log)
                 PROVE  Stored'[i] = Append(Stored, new)[i]
      OBVIOUS
    <2>1. log[i] \in Ids => from'[log[i]] = from[log[i]]
      BY LoggedFrom DEF InLog
    <2>2. i \in 1..Len(log') /\ i \in 1..Len(Stored) /\ log'[i] = log[i]
      BY <1>0, <1>4, StoredTypes
    <2>3. Stored'[i] = IF log[i] \in Ids THEN from'[log[i]]..log[i] ELSE {}
      BY <1>3, <2>2 DEF Entries
    <2>4. Append(Stored, new)[i] = IF log[i] \in Ids THEN from[log[i]]..log[i] ELSE {}
      BY <1>2, <2>2, StoredTypes DEF Entries
    <2> QED
      BY <2>1, <2>3, <2>4
  <1>6. Stored'[Len(log) + 1] = Append(Stored, new)[Len(log) + 1]
    <2>1. Len(log) + 1 \in 1..Len(log')
      BY <1>0, <1>4
    <2>2. Stored'[Len(log) + 1] = IF s \in Ids THEN from'[s]..s ELSE {}
      BY <1>3, <1>4, <2>1 DEF Entries
    <2> QED
      BY <1>2, <2>2, StoredTypes DEF Entries
  <1>7. Len(Stored') = Len(Append(Stored, new)) /\ Len(Stored') = Len(log) + 1
    BY <1>2, <1>3, <1>4, StoredTypes
  <1>8. \A i \in 1..Len(Stored') : Stored'[i] = Append(Stored, new)[i]
    BY <1>0, <1>5, <1>6, <1>7
  <1> HIDE DEF new
  <1>9. Stored' = Append(Stored, new)
    BY <1>2, <1>3, <1>7, <1>8, SeqEqual
  <1> QED
    BY <1>9 DEF new

\* A step admits one value, settles receipts, or reaches the server.
Admits == id' = id + 1 /\ mode = "open" /\ id < MaxEntries
Settles ==
  StopEnd \/ \E b \in Ids : \E out \in Outcomes : \E seqs :
                phase[b] \in Active /\ Complete(b, out, seqs)
Reaches == ServeStray \/ ForeignClaim \/ \E s \in Slots : Serve(s)

LEMMA OneThing ==
  ASSUME TypeInv, BatchInv, [Next]_vars
  PROVE  \/ UNCHANGED <<id, receipt, server>>
         \/ Admits /\ UNCHANGED <<receipt, server>>
         \/ Settles /\ UNCHANGED <<id, server>>
         \/ Reaches /\ UNCHANGED <<id, receipt>>
  <1> USE DEF admission, settled
  <1>1. ASSUME NEW c \in Calls, Call(c)
        PROVE  UNCHANGED <<receipt, server>> /\ (id' = id \/ Admits)
    <2>1. CASE Admit(c)
      BY <2>1 DEF Admit, Admits
    <2> QED
      BY <1>1, <2>1 DEF Call, BeginAppend, Receive, EndSource, EndFlush, BeginDetach, BeginRestart,
         ShutAdmission, FinishRestart, BeginClose, Stopped, SendClose, CloseAnswered,
         CloseStopped, Flush
  <1>2. ASSUME NEW b \in Ids, Worker(b)
        PROVE  UNCHANGED <<id, server>> /\ (UNCHANGED receipt \/ Settles)
    <2>1. UNCHANGED <<id, server>>
      BY <1>2, WorkerShape DEF WorkerKeeps
    <2>2. ASSUME NEW out \in Outcomes, Settled(b, out)
          PROVE  Settles
      <3>1. phase[b] \in Active /\ \E seqs : Complete(b, out, seqs)
        BY <2>2 DEF Settled, Finish, Active
      <3> QED
        BY <3>1 DEF Settles
    <2> QED
      BY <1>2, <2>1, <2>2, WorkerShape DEF Started, Reclaimed, Moved
  <1>3. ASSUME NEW b \in Ids, phase[b] = "offer", Complete(b, "int", sequences)
        PROVE  Settles
    BY <1>3 DEF Settles, Active, Outcomes, Failures
  <1>4. CASE Fiber
    BY <1>3, <1>4 DEF Fiber, Linger, Offered, LingerStopped, StopEnd, Settles
  <1>5. ASSUME NEW c \in Calls, Interrupt(c)
        PROVE  UNCHANGED <<id, server>> /\ (UNCHANGED receipt \/ Settles)
    BY <1>3, <1>5 DEF Interrupt
  <1>6. ASSUME NEW s \in Slots, Serve(s) \/ Fault(s)
        PROVE  UNCHANGED <<id, receipt>> /\ (UNCHANGED server \/ Reaches)
    BY <1>6 DEF Serve, Fault, Reaches
  <1>7. CASE ServeStray \/ ForeignClaim
    BY <1>7 DEF ServeStray, ForeignClaim, Reaches
  <1>8. CASE StopBegin \/ UNCHANGED vars
    BY <1>8 DEF StopBegin, vars
  <1> QED
    BY <1>1, <1>2, <1>4, <1>5, <1>6, <1>7, <1>8 DEF Next, Terminated

-----------------------------------------------------------------------------
(* Each kind of step is one of the abstract log.                           *)

RefineInv == DeliveryInv /\ Filled /\ CloseAfterAll

LEMMA RefineTypes ==
  ASSUME RefineInv
  PROVE  /\ TypeInv /\ BatchInv /\ CloseInv /\ OnceInv /\ LogInv /\ PlaceRow /\ RowInv
         /\ SequenceInv /\ EmittedAdmitted
  BY DEF RefineInv, DeliveryInv, SequenceInv, RowInv, BatchInv

LEMMA AdmitsMaps ==
  ASSUME RefineInv, [Next]_vars, Admits, UNCHANGED <<receipt, server>>
  PROVE  Abstract!AdmitValue
  <1>1. sClosed = NoTuple
    BY RefineTypes DEF Admits, LogInv, ClosedName, CloseInv, CloseReady, PlaceInv, StaysShut
  <1>2. Stored' = Stored
    BY RefineTypes, StoredKept DEF server
  <1> QED
    BY <1>1, <1>2 DEF Admits, server, Abstract!AdmitValue

LEMMA SettlesMaps ==
  ASSUME RefineInv, [Next]_vars, Settles, UNCHANGED <<id, server>>, AckedIsLogged'
  PROVE  [Abstract!LogNext]_(Abstract!logVars)
  <1>0. /\ TypeInv /\ BatchInv /\ id \in Nat /\ id <= MaxEntries /\ emitted \in Nat
        /\ emitted <= id /\ receipt \in [Ids -> Outcomes \cup {"open"}]
        /\ \A b \in Ids : b \in Nat
    BY RefineTypes, BatchTypes DEF EmittedAdmitted
  <1>1. Stored' = Stored /\ UNCHANGED <<id, log, sClosed>>
    BY RefineTypes, StoredKept DEF server
  <1>2. ASSUME NEW e \in Ids, receipt'[e] = "ok"
        PROVE  e \in Abstract!StoredValues
    <2>1. PICK i \in 1..Len(log) : log[i] \in Ids /\ e \in from'[log[i]]..log[i]
      BY <1>1, <1>2 DEF AckedIsLogged, Entries
    <2>2. InLog(log[i]) /\ from'[log[i]] = from[log[i]]
      BY <2>1, RefineTypes, LoggedFrom DEF InLog
    <2> QED
      BY <1>0, <2>1, <2>2, StoredIs DEF Entries
  <1>3. ASSUME NEW S \in SUBSET (1..id), NEW out \in Outcomes, \A e \in S : receipt[e] = "open",
               receipt' = [e \in Ids |-> IF e \in S THEN out ELSE receipt[e]]
        PROVE  [Abstract!LogNext]_(Abstract!logVars)
    <2>1. CASE S = {}
      BY <1>0, <1>1, <1>3, <2>1 DEF Abstract!logVars
    <2>2. CASE S # {}
      <3>1. \A e \in S : e \in Ids
        BY <1>0, OptionsAssumption DEF Ids
      <3>2. out = "ok" => S \subseteq Abstract!StoredValues
        BY <1>2, <1>3, <3>1
      <3>3. Abstract!Settle(S, out)
        BY <1>1, <1>3, <2>2, <3>2 DEF Abstract!Settle, Abstract!Values, Ids
      <3> QED
        BY <3>3 DEF Abstract!LogNext, Outcomes, Failures
    <2> QED
      BY <2>1, <2>2
  <1>4. CASE StopEnd
    <2>1. /\ Outstanding \in SUBSET (1..id) /\ \A e \in Outstanding : receipt[e] = "open"
          /\ receipt' = [e \in Ids |-> IF e \in Outstanding THEN "int" ELSE receipt[e]]
      BY <1>4 DEF StopEnd, Outstanding
    <2>2. "int" \in Outcomes
      BY DEF Outcomes, Failures
    <2> QED
      BY <1>3, <2>1, <2>2
  <1>5. ASSUME NEW b \in Ids, NEW out \in Outcomes, NEW seqs, phase[b] \in Active,
               Complete(b, out, seqs)
        PROVE  [Abstract!LogNext]_(Abstract!logVars)
    <2> DEFINE S == {e \in Ids : e \in Entries(b) /\ receipt[e] = "open"}
    <2>1. b <= emitted
      BY <1>0, <1>5 DEF BatchInv, PendingUntouched, Active, Working
    <2>2. S \in SUBSET (1..id)
      BY <1>0, <2>1 DEF Entries, Ids
    <2>3. receipt' = [e \in Ids |-> IF e \in S THEN out ELSE receipt[e]]
      BY <1>5 DEF Complete
    <2> HIDE DEF S
    <2>4. \A e \in S : receipt[e] = "open"
      BY DEF S
    <2> QED
      BY <1>3, <2>2, <2>3, <2>4
  <1> QED
    BY <1>4, <1>5 DEF Settles

\* The request of a batch brings exactly the values that are missing up to it.
LEMMA BatchMaps ==
  ASSUME RefineInv, OwnEpochs, [Next]_vars, UNCHANGED <<id, receipt>>,
         NEW b \in Ids, Accept(b, req[b]), ~InLog(b), req[b] # NoTuple
  PROVE  Abstract!Store
  <1>0. /\ TypeInv /\ BatchInv /\ PlaceRow /\ id \in Nat /\ emitted <= id /\ id <= MaxEntries
        /\ emitted \in Nat /\ from \in [Ids -> Nat] /\ \A c \in Ids : c \in Nat
    BY RefineTypes, BatchTypes DEF EmittedAdmitted
  <1>1. Before(b)
    BY RefineTypes, AcceptWhole
  <1>2. from[b] # 0 /\ from'[b] = from[b] /\ from[b] <= b /\ b <= emitted /\ b \in 1..id
    <2>1. Name(b) # NoTuple
      BY DEF Name
    <2>2. from[b] # 0
      BY <1>0, <2>1 DEF PlaceRow, NamedEmerged
    <2>3. b <= emitted
      BY <1>0, <2>2 DEF BatchInv, PendingUntouched
    <2> QED
      BY <1>0, <2>2, <2>3, BatchStays DEF BatchInv, BatchesApart, Ids
  <1>3. \A e \in Ids : e \in Abstract!StoredValues <=> \E c \in Ids : InLog(c) /\ e \in Entries(c)
    BY <1>0, StoredIs
  <1>4. ASSUME NEW e \in 1..b, e < from[b]
        PROVE  e \in Abstract!StoredValues
    <2>1. from[b] > 1 /\ from[b] - 1 \in Ids /\ from[b] - 1 < b /\ e \in 1..(from[b] - 1)
          /\ e \in Ids
      BY <1>0, <1>2, <1>4, OptionsAssumption DEF Ids
    <2>2. from[from[b] - 1] # 0
      BY <1>0, <2>1 DEF PlaceRow, Chained, Sendable
    <2>3. InLog(from[b] - 1)
      BY <1>1, <2>1, <2>2 DEF Before
    <2> QED
      BY <1>3, <2>1, <2>3 DEF RefineInv, Filled
  <1>5. ASSUME NEW e \in Entries(b)
        PROVE  e \notin Abstract!StoredValues
    <2>1. e \in Ids
      BY <1>0, <1>2, <1>5, OptionsAssumption DEF Entries, Ids
    <2> SUFFICES ASSUME NEW c \in Ids, InLog(c), e \in Entries(c) PROVE FALSE
      BY <1>3, <2>1
    <2>2. from[c] # 0 /\ c # b
      BY <1>0, LoggedPlace
    <2>3. (b < c => b < from[c]) /\ (c < b => c < from[b])
      BY <1>0, <1>2, <2>2 DEF BatchInv, BatchesApart
    <2> QED
      BY <1>0, <1>5, <2>2, <2>3 DEF Entries
  <1>6. (1..b) \ Abstract!StoredValues = Entries(b)
    <2>1. \A e \in 1..b : e < from[b] \/ e \in Entries(b)
      BY <1>0, <1>2 DEF Entries
    <2>2. \A e \in Entries(b) : e \in 1..b
      BY <1>0, <1>2 DEF Entries
    <2> QED
      BY <1>4, <1>5, <2>1, <2>2
  <1>7. b \in Entries(b)
    BY <1>0, <1>2 DEF Entries
  <1>8. Stored' = Append(Stored, Entries(b))
    <2>1. b \in Slots \cup {Foreign} /\ log' = Append(log, b)
      BY BatchTypes, <1>0 DEF Accept
    <2> QED
      BY <1>2, <2>1, RefineTypes, StoredGrows
  <1>9. sClosed = NoTuple /\ sClosed' = sClosed
    BY <1>0 DEF Accept, Accepts, Ids
  <1> QED
    BY <1>2, <1>6, <1>7, <1>8, <1>9 DEF Abstract!Store

\* The close finds every admitted value stored.
LEMMA CloseMaps ==
  ASSUME RefineInv, [Next]_vars, UNCHANGED <<id, receipt>>, NEW t, Accept(0, t), CloseArrives
  PROVE  Abstract!CloseStream
  <1>0. /\ TypeInv /\ BatchInv /\ id \in Nat /\ id <= MaxEntries /\ 0 \in Slots /\ 0 \notin Ids
        /\ emitted \in Nat /\ emitted <= id /\ \A b \in Ids : b \in Nat
    BY RefineTypes, BatchTypes DEF EmittedAdmitted, Ids
  <1>1. \A e \in 1..id : e \in Abstract!StoredValues
    <2> SUFFICES ASSUME NEW e \in 1..id PROVE e \in Abstract!StoredValues
      OBVIOUS
    <2>1. e \in Ids /\ receipt[e] = "ok"
      BY <1>0, OptionsAssumption DEF Ids, RefineInv, CloseAfterAll
    <2>2. \E i \in 1..Len(log) : log[i] \in Ids /\ e \in Entries(log[i])
      BY <2>1, RefineTypes DEF LogInv, AckedIsLogged
    <2> QED
      BY <1>0, <2>1, <2>2, StoredIs DEF InLog
  <1>2. \A e \in Abstract!StoredValues : e \in 1..id
    <2> SUFFICES ASSUME NEW e \in Ids, NEW b \in Ids, InLog(b), e \in Entries(b)
                 PROVE  e <= id
      BY <1>0, StoredIs DEF Ids
    <2>1. b <= emitted
      BY <1>0, RefineTypes, LoggedPlace DEF BatchInv, PendingUntouched
    <2> QED
      BY <1>0, <2>1 DEF Entries
  <1>3. sClosed = NoTuple /\ sClosed' # NoTuple
    <2>1. sClosed = NoTuple /\ sClosed' = t /\ t.seq >= 0
      BY RefineTypes, ServerTypes DEF Accept, Accepts, TypeInv, TypeOK, ServerType
    <2> QED
      BY <2>1 DEF NoTuple
  <1>4. Stored' = Append(Stored, {})
    <2>1. log' = Append(log, 0)
      BY DEF Accept
    <2> QED
      BY <1>0, <2>1, RefineTypes, StoredGrows
  <1> QED
    BY <1>1, <1>2, <1>3, <1>4 DEF Abstract!CloseStream

LEMMA ReachesMaps ==
  ASSUME RefineInv, OwnEpochs, [Next]_vars, Reaches, UNCHANGED <<id, receipt>>
  PROVE  [Abstract!LogNext]_(Abstract!logVars)
  <1>0. OnceInv /\ Slots = Ids \cup {0} /\ 0 \notin Ids
    BY RefineTypes, BatchTypes DEF Ids
  <1>1. CASE UNCHANGED server
    BY <1>1, RefineTypes, StoredKept DEF server, Abstract!logVars
  <1>2. ASSUME NEW s \in Slots, NEW t, Accept(s, t), s = 0 => CloseArrives,
               s \in Ids => ~InLog(s) /\ t = req[s]
        PROVE  Abstract!LogNext
    <2>1. CASE s = 0
      BY <1>2, <2>1, CloseMaps DEF Abstract!LogNext
    <2>2. CASE s \in Ids
      <3>1. req[s] # NoTuple
        <4>1. t.seq >= 0
          BY <1>2, RefineTypes DEF Accept, Accepts, TypeInv, TypeOK, ServerType
        <4> QED
          BY <1>2, <2>2, <4>1 DEF NoTuple
      <3> QED
        BY <1>2, <2>2, <3>1, BatchMaps DEF Abstract!LogNext
    <2> QED
      BY <1>0, <2>1, <2>2
  <1>3. ASSUME NEW s \in Slots, Serve(s), ~UNCHANGED server
        PROVE  Abstract!LogNext
    <2>1. Accept(s, req[s]) /\ phase[s] = "sent"
      BY <1>3 DEF Serve
    <2>2. s \in Ids => ~InLog(s)
      BY <1>0, <2>1 DEF OnceInv, LoggedDone, Done, Lost, Outcomes, Failures
    <2> QED
      BY <1>2, <2>1, <2>2 DEF CloseArrives
  <1>4. ASSUME ServeStray, ~UNCHANGED server
        PROVE  Abstract!LogNext
    <2>1. PICK r \in strays : Accept(r.slot, r.req)
      BY <1>4 DEF ServeStray
    <2>2. r.slot \in Slots
      BY RefineTypes, LogTypes
    <2>3. r.slot \in Ids => ~InLog(r.slot) /\ r.req = req[r.slot]
      BY <1>0 DEF OnceInv, StrayOnce
    <2> QED
      BY <1>2, <2>1, <2>2, <2>3 DEF CloseArrives
  <1>5. ASSUME ForeignClaim
        PROVE  Abstract!LogNext
    <2>1. log' = Append(log, Foreign) /\ sClosed = NoTuple /\ sClosed' = sClosed
      BY <1>5 DEF ForeignClaim
    <2>2. Foreign \notin Ids
      BY RefineTypes, LogTypes, <1>0
    <2>3. Stored' = Append(Stored, {})
      BY <2>1, <2>2, RefineTypes, StoredGrows
    <2> QED
      BY <2>1, <2>3 DEF Abstract!LogNext, Abstract!OtherWrites
  <1> QED
    BY <1>1, <1>3, <1>4, <1>5 DEF Reaches

LEMMA StepRefines ==
  ASSUME RefineInv, OwnEpochs, [Next]_vars, AckedIsLogged'
  PROVE  [Abstract!LogNext]_(Abstract!logVars)
  <1>1. CASE UNCHANGED <<id, receipt, server>>
    BY <1>1, RefineTypes, StoredKept DEF server, Abstract!logVars
  <1>2. CASE Admits /\ UNCHANGED <<receipt, server>>
    BY <1>2, AdmitsMaps DEF Abstract!LogNext
  <1>3. CASE Settles /\ UNCHANGED <<id, server>>
    BY <1>3, SettlesMaps
  <1>4. CASE Reaches /\ UNCHANGED <<id, receipt>>
    BY <1>4, ReachesMaps
  <1> QED
    BY <1>1, <1>2, <1>3, <1>4, RefineTypes, OneThing

LEMMA InitRefines ==
  ASSUME Init
  PROVE  Abstract!LogInit
  <1>1. Len(log) = 0 /\ Stored = <<>>
    <2>1. log = <<>>
      BY DEF Init
    <2>2. Len(log) = 0
      BY <2>1
    <2>3. 1..Len(log) = {}
      BY <2>2
    <2> QED
      BY <2>2, <2>3 DEF Stored
  <1> QED
    BY <1>1 DEF Init, Abstract!LogInit, Abstract!Values, Ids

\* Whatever callers see, and whatever the server ends up with, an append log
\* that takes values one by one and stores them in order could have produced:
\* under the conditions of LogHasNoHoles, every step of the producer is one of
\* AppendLog or changes nothing there.
THEOREM ProducerImplementsLog ==
  ASSUME OneLifecycle, OneClaimant, OwnEpochs, NoHoles
  PROVE  Spec => ImplementsAppendLog
  <1>1. Init => RefineInv
    <2> SUFFICES ASSUME Init PROVE RefineInv
      OBVIOUS
    <2>1. DeliveryInv
      BY InitDelivery
    <2>2. log = <<>> /\ strays = {} /\ phase[0] = "none"
      BY OptionsAssumption DEF Init, Slots
    <2> QED
      BY <2>1, <2>2 DEF RefineInv, Filled, InLog, CloseAfterAll, CloseArrives
  <1>2. RefineInv /\ [Next]_vars => RefineInv'
    <2> SUFFICES ASSUME RefineInv, [Next]_vars PROVE RefineInv'
      OBVIOUS
    <2>1. Filled' /\ CloseAfterAll'
      BY NextFilled, NextCloseAfterAll DEF RefineInv
    <2>2. DeliveryInv'
      BY NextDelivery DEF RefineInv
    <2> QED
      BY <2>1, <2>2 DEF RefineInv
  <1>3. RefineInv => AckedIsLogged
    BY DEF RefineInv, DeliveryInv, LogInv
  <1>4. RefineInv /\ AckedIsLogged' /\ [Next]_vars => [Abstract!LogNext]_(Abstract!logVars)
    BY StepRefines
  <1>5. Init => Abstract!LogInit
    BY InitRefines
  <1> QED
    BY <1>1, <1>2, <1>3, <1>4, <1>5, PTL DEF Spec, ImplementsAppendLog, Abstract!LogSpec

-----------------------------------------------------------------------------
(* The workers never all wait.                                             *)

\* Before the claim begins there is no batch and no pair.
NothingYet ==
  ~claimed /\ ~claiming =>
     (\A b \in Ids : from[b] = 0) /\ (closeRequest = NoTuple => nextSeq = 0)
Emerged ==
  \A b \in Ids : /\ from[b] # 0 => phase[b] # "none"
                 /\ scope = "live" => phase[b] # "dead"
FirstLeads == \A f, b \in Ids : first[f] /\ from[b] # 0 => f <= b
\* Within an epoch the pairs are in the order of the batches ...
NamesInOrder ==
  \A b, c \in Ids : /\ b < c /\ Name(b) # NoTuple /\ Name(c) # NoTuple
                    /\ Name(b).epoch = Name(c).epoch
                    => Name(b).seq < Name(c).seq
\* ... the sequence map holds each batch under its own sequence ...
MapNames ==
  closeRequest = NoTuple =>
    \A q \in Seqs : sequences[q] # 0 =>
       Name(sequences[q]) = [epoch |-> epoch, seq |-> q]
\* ... so that a batch waits for one with a lower sequence ...
WaitsBack ==
  \A b \in Ids : phase[b] = "gapwait" =>
    /\ waitFor[b] \in Ids /\ Name(waitFor[b]).epoch = epoch
    /\ Name(waitFor[b]).seq < req[b].seq
\* ... and what a worker has taken is ahead of whatever is still queued.
OfferLast ==
  scope # "closed" => \A b \in Ids : phase[b] = "offer" => b = emitted /\ mutex # Free
QueueOrder ==
  scope # "closed" =>
    \A b, c \in Ids : b < c /\ phase[b] \in {"offer", "queued"} => phase[c] \notin Working
\* An open claim is under way in its own batch.
ClaimUnderWay ==
  /\ \A b \in Ids : phase[b] = "claimwait" => AutoClaim
  /\ AutoClaim /\ claiming /\ claim = "open" /\ scope = "live" =>
       \E f \in Ids : first[f] /\ phase[f] \in InFlight \cup {"queued"}
Heeded == \A b \in Ids : phase[b] = "replied" => reply[b].kind # "none"
StuckInv ==
  /\ WaitingNamed /\ NamedEmerged /\ FirstZero /\ NothingYet /\ Emerged /\ FirstLeads
  /\ NamesInOrder /\ MapNames /\ WaitsBack
  /\ OfferLast /\ QueueOrder /\ ClaimUnderWay /\ Heeded

\* What a step does to the phase of one batch, beyond PhaseSteps.
LEMMA QueueSteps ==
  ASSUME TypeInv, BatchInv, [Next]_vars, NEW b \in Ids
  PROVE  /\ phase'[b] \in {"offer", "queued"} /\ ~Emitted(b) => phase[b] \in {"offer", "queued"}
         /\ phase'[b] = "offer" /\ ~Emitted(b) => phase[b] = "offer"
         /\ phase'[b] \in Working /\ phase[b] \notin Working => Take(b)
         /\ phase'[b] = "dead" => phase[b] = "dead" \/ scope' # "live"
         /\ phase'[b] = "none" => phase[b] = "none"
         /\ phase'[b] = "claimwait" => phase[b] = "claimwait" \/ (~claimed /\ ~first[b])
  <1> DEFINE Goal ==
         /\ phase'[b] \in {"offer", "queued"} => phase[b] \in {"offer", "queued"}
         /\ phase'[b] = "offer" => phase[b] = "offer"
         /\ phase'[b] \in Working /\ phase[b] \notin Working => Take(b)
         /\ phase'[b] = "dead" => phase[b] = "dead" \/ scope' # "live"
         /\ phase'[b] = "none" => phase[b] = "none"
         /\ phase'[b] = "claimwait" => phase[b] = "claimwait" \/ (~claimed /\ ~first[b])
  <1>1. ASSUME phase'[b] = phase[b]
        PROVE  Goal
    BY <1>1
  <1>2. ASSUME NEW d \in Ids, Worker(d)
        PROVE  Goal
    <2>1. CASE d # b
      <3>1. \E l : phase' = [phase EXCEPT ![d] = l]
        BY <1>2, WorkerShape DEF Started, Reclaimed, Settled, Moved, Finish, Complete
      <3> QED
        BY <1>1, <2>1, <3>1, BatchTypes
    <2>2. CASE d = b
      <3>1. phase[b] \notin Working => Take(b)
        BY <1>2, <2>2 DEF Worker, Claimed, Delivered, Rejected, Fenced, Gap, GapFilled,
           WorkerStopped, Replied, Working
      <3>2. CASE Started(b) \/ Reclaimed(b)
        <4>1. phase'[b] = "sent"
          BY <3>2, BatchTypes DEF Started, Reclaimed
        <4> QED
          BY <3>1, <4>1
      <3>3. ASSUME NEW out \in Outcomes, Settled(b, out)
            PROVE  Goal
        <4>1. phase'[b] = out
          BY <3>3, BatchTypes DEF Settled, Finish, Complete
        <4> QED
          BY <3>3, <4>1 DEF Outcomes, Failures, Working
      <3>4. ASSUME NEW l \in Phases, Moved(b, l)
            PROVE  Goal
        <4>1. phase'[b] = l
          BY <3>4, BatchTypes DEF Moved
        <4>2. l = "claimwait" => ~claimed /\ ~first[b]
          BY <3>4 DEF Moved
        <4>3. l \in {"claimwait", "sent", "gapwait", "dead"} /\ (l = "dead" => scope = "closing")
          BY <3>4 DEF Moved
        <4>4. scope' = scope
          BY <1>2, WorkerShape DEF WorkerKeeps, environment
        <4> QED
          BY <3>1, <4>1, <4>2, <4>3, <4>4 DEF Working
      <3> QED
        BY <1>2, <2>2, <3>2, <3>3, <3>4, WorkerShape
    <2> QED
      BY <2>1, <2>2
  <1>3. CASE Quiet \/ Pending
    BY <1>1, <1>3 DEF Quiet, Pending
  <1>4. CASE StopEnd
    <2>1. phase'[b] = (IF phase[b] \in {"offer", "queued"} THEN "dead" ELSE phase[b])
      BY <1>4, BatchTypes DEF StopEnd
    <2>2. scope' = "closed"
      BY <1>4 DEF StopEnd
    <2> QED
      BY <1>1, <2>1, <2>2 DEF Working
  <1>5. ASSUME NEW d \in Ids, Answered(d)
        PROVE  Goal
    <2>1. phase[d] \in {"sent", "replied"} /\ phase' = [phase EXCEPT ![d] = "replied"]
      BY <1>5 DEF Answered
    <2>2. b # d => phase'[b] = phase[b]
      BY <2>1, BatchTypes
    <2>3. b = d => phase'[b] = "replied"
      BY <2>1, BatchTypes
    <2> QED
      BY <1>1, <2>1, <2>2, <2>3 DEF Working
  <1>6. ASSUME NEW d \in Ids, OfferEnds(d)
        PROVE  Goal
    <2>1. phase[d] = "offer" /\ \E l \in {"queued", "int"} : phase' = [phase EXCEPT ![d] = l]
      BY <1>6 DEF OfferEnds, Complete
    <2>2. b # d => phase'[b] = phase[b]
      BY <2>1, BatchTypes
    <2>3. b = d => phase'[b] \in {"queued", "int"}
      BY <2>1, BatchTypes
    <2> QED
      BY <1>1, <2>1, <2>2, <2>3 DEF Working
  <1>7. ASSUME NEW last \in Ids, Emitted(last)
        PROVE  (~Emitted(b) => Goal) /\ (b = last => phase'[b] \in {"offer", "queued"})
    BY <1>1, <1>7, EmittedRow
  <1>8. ASSUME NEW last \in Ids, Emitted(last)
        PROVE  /\ phase'[b] \in Working /\ phase[b] \notin Working => Take(b)
               /\ phase'[b] = "dead" => phase[b] = "dead" \/ scope' # "live"
               /\ phase'[b] = "none" => phase[b] = "none"
               /\ phase'[b] = "claimwait" => phase[b] = "claimwait" \/ (~claimed /\ ~first[b])
    <2>1. b # last => phase'[b] = phase[b]
      BY <1>8, EmittedRow
    <2> QED
      BY <1>7, <1>8, <2>1 DEF Working
  <1> QED
    BY <1>2, <1>3, <1>4, <1>5, <1>6, <1>7, <1>8, NextShape DEF BatchInv

\* What it does to the sequence map.
LEMMA MapSteps ==
  ASSUME SequenceInv, WaitingNamed, [Next]_vars, NEW q \in Seqs
  PROVE  \/ sequences'[q] = 0 \/ sequences'[q] = sequences[q]
         \/ \E last \in Ids : /\ Emitted(last) /\ sequences'[q] = last
                              /\ Name(last)' = [epoch |-> epoch, seq |-> q]
         \/ \E d, h \in Ids : /\ Worker(d) /\ Claims(d) /\ sequences'[q] = h
                              /\ Name(h)' = [epoch |-> epoch, seq |-> q]
  <1> DEFINE Goal ==
         \/ sequences'[q] = 0 \/ sequences'[q] = sequences[q]
         \/ \E last \in Ids : /\ Emitted(last) /\ sequences'[q] = last
                              /\ Name(last)' = [epoch |-> epoch, seq |-> q]
         \/ \E d, h \in Ids : /\ Worker(d) /\ Claims(d) /\ sequences'[q] = h
                              /\ Name(h)' = [epoch |-> epoch, seq |-> q]
  <1>0. /\ TypeInv /\ BatchInv /\ ClaimInv /\ EpochInv /\ EmittedAdmitted
        /\ sequences \in [Seqs -> 0..MaxEntries] /\ nextSeq \in Nat
    BY BatchTypes DEF SequenceInv, BatchInv, TypeInv, TypeOK, SequencingType
  <1>1. ASSUME NEW b, NEW out, NEW seqs, Complete(b, out, seqs)
        PROVE  sequences'[q] = 0 \/ sequences'[q] = seqs[q]
    BY <1>1 DEF Complete
  <1>2. ASSUME NEW d \in Ids, Worker(d)
        PROVE  Goal
    <2>1. ASSUME Reserves(d)
          PROVE  FALSE
      <3>1. ~claimed /\ ~first[d]
        BY <1>0, <2>1 DEF Reserves, WaitingNamed
      <3> QED
        BY <1>0, <2>1, <3>1 DEF Reserves, ClaimInv, ClaimSettled
    <2>2. ASSUME NEW out, Finish(d, out)
          PROVE  Goal
      <3>1. CASE sequences'[q] = 0 \/ sequences'[q] = sequences[q]
        BY <3>1
      <3>2. CASE ~(sequences'[q] = 0 \/ sequences'[q] = sequences[q])
        <4>1. ReserveHeld /\ sequences'[q] = SequencesWithHeld[q]
          BY <1>1, <2>2, <3>2 DEF Finish
        <4>2. \E h \in Held : SeqOfHeld(h) = q
          BY <3>2, <4>1 DEF SequencesWithHeld
        <4>3. SequencesWithHeld[q] = CHOOSE h \in Held : SeqOfHeld(h) = q
          BY <4>2 DEF SequencesWithHeld
        <4>4. PICK h \in Held : sequences'[q] = h /\ SeqOfHeld(h) = q
          BY <4>1, <4>2, <4>3
        <4>5. h \in Ids /\ tuple[h] = NoTuple
          BY DEF Held
        <4>6. tuple'[h] = [epoch |-> epoch, seq |-> q]
          BY <4>1, <4>4, <4>5 DEF ReserveHeld
        <4>7. tuple'[h] # tuple[h]
          BY <1>0, <4>5, <4>6, BatchTypes DEF NoTuple
        <4>8. Claims(d)
          BY <1>0, <1>2, <4>7, WorkerRow DEF RowKept, Reclaimed
        <4>9. Name(h)' = [epoch |-> epoch, seq |-> q]
          BY <1>0, <1>2, <4>4, <4>5, <4>8, ClaimsRow
        <4> QED
          BY <1>2, <4>4, <4>5, <4>8, <4>9
      <3> QED
        BY <3>1, <3>2
    <2> HIDE DEF Goal
    <2>3. UNCHANGED sequences => Goal
      BY DEF Goal
    <2> QED
      BY <1>2, <2>1, <2>2, <2>3, WorkerSequences
  <1>3. ASSUME \A b \in Ids : ~Worker(b)
        PROVE  Goal
    <2>1. CASE StopEnd
      BY <2>1 DEF StopEnd
    <2>2. ASSUME NEW last \in Ids, Emitted(last), Reserve(last)
          PROVE  Goal
      <3>1. /\ sequences' = [sequences EXCEPT ![nextSeq] = last] /\ nextSeq' = nextSeq + 1
        BY <2>2 DEF Reserve
      <3>2. claimed \/ ~claiming
        BY <1>0, <2>2, <3>1, EmittedRow
      <3>3. Name(last)' = [epoch |-> epoch, seq |-> nextSeq]
        BY <1>0, <2>2, <3>2, EmittedRow
      <3>4. q # nextSeq => sequences'[q] = sequences[q]
        BY <1>0, <3>1
      <3>5. q = nextSeq => sequences'[q] = last
        BY <1>0, <3>1
      <3> QED
        BY <2>2, <3>3, <3>4, <3>5
    <2>3. ASSUME NEW b \in Ids, Complete(b, "int", sequences)
          PROVE  Goal
      BY <1>1, <2>3
    <2>4. ASSUME NEW c \in Restarts, sequences' = [p \in Seqs |-> 0]
          PROVE  Goal
      BY <2>4
    <2> HIDE DEF Goal
    <2>5. UNCHANGED sequences => Goal
      BY DEF Goal
    <2> QED
      BY <1>0, <1>3, <2>1, <2>2, <2>3, <2>4, <2>5, OtherSequences
  <1> QED
    BY <1>2, <1>3
\* How a worker comes to wait for an earlier batch.
LEMMA WaitSteps ==
  ASSUME SequenceInv, [Next]_vars, NEW b \in Ids, phase'[b] = "gapwait"
  PROVE  \/ phase[b] = "gapwait" /\ waitFor'[b] = waitFor[b] /\ req'[b] = req[b]
         \/ /\ phase[b] \in InFlight /\ UNCHANGED <<epoch, tuple, req>>
            /\ \E q \in Seqs : /\ waitFor'[b] = sequences[q] /\ sequences[q] # 0
                               /\ q < req[b].seq
  <1> DEFINE Stays == phase[b] = "gapwait" /\ waitFor'[b] = waitFor[b] /\ req'[b] = req[b]
             Begins == /\ phase[b] \in InFlight /\ UNCHANGED <<epoch, tuple, req>>
                       /\ \E q \in Seqs : /\ waitFor'[b] = sequences[q] /\ sequences[q] # 0
                                          /\ q < req[b].seq
  <1>0. /\ TypeInv /\ EmittedAdmitted /\ waitFor \in [Ids -> 0..MaxEntries]
        /\ phase \in [Slots -> Phases] /\ b \in Slots /\ tuple \in [Ids -> Tuple]
        /\ reply \in [Slots -> Answer] /\ through \in Int /\ req \in [Slots -> Tuple]
    BY BatchTypes DEF SequenceInv, BatchInv, TypeInv, TypeOK, RequestType, SequencingType
  <1>1. ASSUME NEW p, AwaitFrom(b, p)
        PROVE  /\ tuple' = tuple
               /\ \E q \in Seqs : /\ waitFor'[b] = sequences[q] /\ sequences[q] # 0
                                  /\ q < req[b].seq
    <2> DEFINE q == IF p <= through THEN through + 1 ELSE p
    <2>1. ASSUME Finish(b, "fail")
          PROVE  FALSE
      <3>1. phase'[b] = "fail"
        BY <1>0, <2>1 DEF Finish, Complete
      <3> QED
        BY <3>1
    <2>2. q < req[b].seq
      BY <1>0, <1>1 DEF AwaitFrom, Missing
    <2>3. Get(q) # 0 /\ waitFor' = [waitFor EXCEPT ![b] = Get(q)] /\ tuple' = tuple
      BY <1>1, <2>1, <2>2 DEF AwaitFrom, Missing, NotFinished
    <2> HIDE DEF q
    <2>4. q \in Seqs /\ Get(q) = sequences[q]
      BY <2>3 DEF Get
    <2> QED
      BY <1>0, <2>2, <2>3, <2>4
  <1>2. CASE Worker(b)
    <2>1. ASSUME NEW out, Finish(b, out)
          PROVE  out = "gapwait"
      BY <1>0, <2>1 DEF Finish, Complete
    <2>2. ASSUME Start(b)
          PROVE  FALSE
      <3>1. ~Finish(b, "fail")
        BY <2>1
      <3>2. phase' = [phase EXCEPT ![b] = "sent"]
        BY <2>2, <3>1 DEF Start
      <3> QED
        BY <1>0, <3>2
    <2>3. CASE Take(b)
      BY <1>0, <2>2, <2>3 DEF Take
    <2>4. CASE Claimed(b)
      <3>1. Finish(b, claim) /\ claim \in Outcomes
        BY <1>0, <2>2, <2>4, ClaimTypes DEF Claimed
      <3> QED
        BY <2>1, <3>1 DEF Outcomes, Failures
    <2>5. CASE Delivered(b) \/ Rejected(b) \/ WorkerStopped(b)
      BY <1>0, <2>1, <2>5 DEF Delivered, Rejected, WorkerStopped
    <2>6. CASE Fenced(b)
      BY <1>0, <2>1, <2>6 DEF Fenced
    <2>7. CASE Gap(b)
      <3>1. ~Finish(b, "fail")
        BY <2>1
      <3>2. failure # NoFailure => ~Finish(b, failure.out)
        <4>1. failure # NoFailure => failure.out \in Failures
          BY <1>0 DEF TypeInv, TypeOK, SequencingType
        <4> QED
          BY <2>1, <4>1 DEF Failures
      <3>3. AwaitFrom(b, reply[b].num) /\ phase[b] = "replied" /\ UNCHANGED <<epoch, req>>
        BY <2>7, <3>1, <3>2 DEF Gap, Replied
      <3> QED
        BY <1>1, <3>3 DEF InFlight
    <2>8. CASE GapFilled(b)
      <3>1. phase[waitFor[b]] \in Outcomes => ~Finish(b, phase[waitFor[b]])
        BY <2>1 DEF Outcomes, Failures
      <3>2. /\ AwaitFrom(b, tuple[waitFor[b]].seq + 1) /\ phase[b] = "gapwait"
            /\ UNCHANGED <<epoch, req>>
        BY <2>8, <3>1 DEF GapFilled
      <3> QED
        BY <1>1, <3>2 DEF InFlight
    <2> QED
      BY <1>2, <2>3, <2>4, <2>5, <2>6, <2>7, <2>8 DEF Worker
  <1>3. ASSUME NEW d \in Ids, Worker(d), d # b
        PROVE  Stays
    <2>1. \E l : phase' = [phase EXCEPT ![d] = l]
      BY <1>0, <1>3, WorkerShape DEF Started, Reclaimed, Settled, Moved, Finish, Complete
    <2>2. phase'[b] = phase[b]
      BY <1>0, <1>3, <2>1
    <2>3. waitFor' = waitFor \/ \E w : waitFor' = [waitFor EXCEPT ![d] = w]
      BY <1>3 DEF Worker, Take, Claimed, Delivered, Rejected, Fenced, Gap, GapFilled,
         WorkerStopped, AwaitFrom, Missing, requests
    <2>4. waitFor'[b] = waitFor[b]
      BY <1>0, <1>3, <2>3
    <2>5. req' = req \/ \E t : req' = [req EXCEPT ![d] = t]
      BY <1>0, <1>3, WorkerShape DEF Started, Reclaimed, Settled, Moved
    <2>6. req'[b] = req[b]
      BY <1>0, <1>3, <2>5
    <2> QED
      BY <2>2, <2>4, <2>6
  <1>4. ASSUME \A d \in Ids : ~Worker(d)
        PROVE  Stays
    <2>1. waitFor' = waitFor
      <3>1. ASSUME NEW c \in Calls, Call(c)
            PROVE  waitFor' = waitFor
        BY <3>1 DEF Call, BeginAppend, Admit, Receive, EndSource, Flush, EndFlush, BeginDetach,
           BeginRestart, ShutAdmission, FinishRestart, BeginClose, SendClose, CloseAnswered,
           CloseStopped, Stopped, requests
      <3>2. CASE \/ Linger \/ Offered \/ LingerStopped \/ StopEnd \/ ServeStray \/ ForeignClaim
                 \/ StopBegin \/ UNCHANGED vars \/ (\E s \in Slots : Serve(s) \/ Fault(s))
                 \/ \E c \in Calls : Interrupt(c)
        BY <3>2 DEF Linger, Offered, LingerStopped, StopEnd, ServeStray, ForeignClaim, StopBegin,
           vars, Serve, Fault, Interrupt, requests
      <3> QED
        BY <1>4, <3>1, <3>2 DEF Next, Terminated, Fiber
    <2>2. phase[b] = "gapwait"
      <3>1. phase[b] \in Working
        <4>1. ~Take(b)
          BY <1>4 DEF Worker
        <4> QED
          BY <1>0, <4>1, QueueSteps DEF SequenceInv, Working
      <3>2. CASE Quiet \/ Pending
        BY <3>2 DEF Quiet, Pending
      <3>3. CASE StopEnd
        BY <1>0, <3>3 DEF StopEnd
      <3>4. ASSUME NEW last \in Ids, Emitted(last)
            PROVE  phase[b] = "gapwait"
        BY <3>4, EmittedRow DEF SequenceInv
      <3>5. ASSUME NEW d \in Ids, Answered(d) \/ OfferEnds(d)
            PROVE  phase[b] = "gapwait"
        BY <1>0, <3>5 DEF Answered, OfferEnds, Complete
      <3> QED
        BY <1>0, <1>4, <3>2, <3>3, <3>4, <3>5, NextShape
    <2>3. req'[b] = req[b]
      <3>1. CASE Quiet \/ Pending \/ StopEnd \/ \E d \in Ids : Answered(d) \/ OfferEnds(d)
        BY <3>1 DEF Quiet, Pending, StopEnd, Answered, OfferEnds
      <3>2. ASSUME NEW last \in Ids, Emitted(last)
            PROVE  req'[b] = req[b]
        BY <3>2, EmittedRow DEF SequenceInv
      <3> QED
        BY <1>0, <1>4, <3>1, <3>2, NextShape
    <2> QED
      BY <2>1, <2>2, <2>3
  <1> QED
    BY <1>2, <1>3, <1>4
\* A pair that is given out, and the batch it is given to, stay as they are.
LEMMA NameStays ==
  ASSUME SequenceInv, WaitingNamed, OneLifecycle, [Next]_vars, closeRequest = NoTuple,
         NEW w \in Ids, Name(w).epoch = epoch,
         NEW b \in Ids, phase[b] = "gapwait"
  PROVE  Name(w)' = Name(w) /\ epoch' = epoch
  <1>0. /\ TypeInv /\ BatchInv /\ ClaimInv /\ CloseInv /\ EpochInv
        /\ epoch \in Nat /\ Name(w) # NoTuple /\ phase[b] \in Active
    BY BatchTypes DEF SequenceInv, NoTuple, Active, Working
  <1>1. CASE RowKept
    <2>1. ASSUME NEW c \in Restarts, Restarted(c)
          PROVE  FALSE
      <3>1. phase[b] \notin Active
        BY <1>0, <2>1, DrainedIdle DEF Restarted, FinishRestart, CloseInv
      <3> QED
        BY <1>0, <3>1
    <2>2. ASSUME NEW c \in Closes, CloseAnswered(c)
          PROVE  FALSE
      BY <1>0, <2>2, AnsweredClose
    <2>3. ASSUME NEW last \in Ids, Emitted(last)
          PROVE  epoch' = epoch
      BY <1>0, <2>3, EmittedRow
    <2>4. ASSUME NEW d \in Ids, Worker(d), Reclaimed(d)
          PROVE  FALSE
      <3>1. first[d] /\ ~claimed /\ phase[d] = "replied"
        BY <1>0, <2>4, ReclaimedRow
      <3>2. first[b]
        BY <3>1 DEF SequenceInv, ClaimInv, BeforeClaim, InFlight
      <3> QED
        BY <1>0, <3>1, <3>2 DEF ClaimInv, FirstOnce
    <2>5. ASSUME NEW d \in Ids, Worker(d), Claims(d)
          PROVE  epoch' = epoch
      BY <1>0, <2>5, ClaimsRow
    <2> QED
      BY <1>0, <1>1, <2>1, <2>2, <2>3, <2>4, <2>5, RowSteps DEF RowKept
  <1>2. ASSUME NEW last \in Ids, Emitted(last)
        PROVE  Name(w)' = Name(w) /\ epoch' = epoch
    <2>1. w # last
      <3>1. tuple[last] = NoTuple /\ req[last] = NoTuple
        BY <1>0, <1>2, EmittedRow
      <3> QED
        BY <1>0, <3>1 DEF Name
    <2> QED
      BY <1>0, <1>2, <2>1, EmittedRow
  <1>3. ASSUME NEW d \in Ids, Worker(d), Reclaimed(d) \/ Claims(d)
        PROVE  FALSE
    <2>1. first[d] /\ ~claimed /\ phase[d] = "replied"
      BY <1>0, <1>3, ReclaimedRow, ClaimsRow DEF Claims
    <2>2. first[b]
      BY <1>0, <2>1 DEF ClaimInv, BeforeClaim, InFlight
    <2> QED
      BY <1>0, <2>1, <2>2 DEF ClaimInv, FirstOnce
  <1> QED
    BY <1>0, <1>1, <1>2, <1>3, RowSteps

LEMMA NextWaitsBack ==
  ASSUME SequenceInv, StuckInv, OneLifecycle, [Next]_vars
  PROVE  WaitsBack'
  <1> SUFFICES ASSUME NEW b \in Ids, phase'[b] = "gapwait"
               PROVE  /\ waitFor'[b] \in Ids /\ (Name(waitFor[b])').epoch = epoch'
                      /\ (Name(waitFor[b])').seq < req'[b].seq
    BY DEF WaitsBack
  <1>1. WaitingNamed /\ CloseReady /\ sequences \in [Seqs -> 0..MaxEntries]
    BY DEF StuckInv, SequenceInv, CloseInv, TypeInv, TypeOK, SequencingType
  <1>2. CASE phase[b] = "gapwait" /\ waitFor'[b] = waitFor[b] /\ req'[b] = req[b]
    <2>1. PICK w \in Ids : w = waitFor[b]
      BY <1>2 DEF StuckInv, WaitsBack
    <2>2. Name(w).epoch = epoch /\ Name(w).seq < req[b].seq
      BY <1>2, <2>1 DEF StuckInv, WaitsBack
    <2>3. closeRequest = NoTuple
      BY <1>1, <1>2 DEF CloseReady, Active, Working
    <2>4. Name(w)' = Name(w) /\ epoch' = epoch
      BY <1>1, <1>2, <2>2, <2>3, NameStays
    <2>5. Name(waitFor[b])' = Name(w)'
      BY <1>2, <2>1 DEF Name
    <2> QED
      BY <1>2, <2>1, <2>2, <2>4, <2>5
  <1>3. CASE /\ phase[b] \in InFlight /\ UNCHANGED <<epoch, tuple, req>>
             /\ \E q \in Seqs : /\ waitFor'[b] = sequences[q] /\ sequences[q] # 0
                                /\ q < req[b].seq
    <2>1. PICK q \in Seqs : /\ waitFor'[b] = sequences[q] /\ sequences[q] # 0
                            /\ q < req[b].seq
      BY <1>3
    <2>2. closeRequest = NoTuple
      BY <1>1, <1>3 DEF CloseReady, Active, Working, InFlight
    <2>3. Name(sequences[q]) = [epoch |-> epoch, seq |-> q]
      BY <2>1, <2>2 DEF StuckInv, MapNames
    <2>4. Name(waitFor[b])' = Name(sequences[q])
      BY <1>3, <2>1 DEF Name
    <2>5. sequences[q] \in Ids
      BY <1>1, <2>1, OptionsAssumption DEF Ids
    <2> QED
      BY <1>3, <2>1, <2>3, <2>4, <2>5
  <1> QED
    BY <1>2, <1>3, WaitSteps

LEMMA NextNothingYet ==
  ASSUME SequenceInv, StuckInv, OneLifecycle, [Next]_vars
  PROVE  NothingYet'
  <1> SUFFICES ASSUME ~claimed', ~claiming'
               PROVE  (\A b \in Ids : from'[b] = 0) /\ (closeRequest' = NoTuple => nextSeq' = 0)
    BY DEF NothingYet
  <1>0. TypeInv /\ BatchInv /\ ClaimInv /\ CloseInv /\ EpochInv /\ WaitingNamed /\ NothingYet
    BY DEF SequenceInv, StuckInv
  <1>1. ASSUME NEW last \in Ids, Emitted(last)
        PROVE  FALSE
    <2>1. claimed' = claimed /\ (claiming' <=> (claiming \/ ~claimed))
      BY <1>0, <1>1, EmittedRow
    <2> QED
      BY <2>1, Zenon
  <1>2. ASSUME NEW d \in Ids, Worker(d), Reclaimed(d)
        PROVE  FALSE
    <2>1. claiming' = claiming /\ phase[d] = "replied" /\ AutoClaim
      BY <1>0, <1>2, ReclaimedRow DEF Reclaimed
    <2>2. ~claiming
      BY <2>1, Zenon
    <2> QED
      BY <1>0, <2>1, <2>2 DEF ClaimInv, Unclaimed
  <1>3. ASSUME NEW d \in Ids, Worker(d), Claims(d)
        PROVE  FALSE
    BY <1>0, <1>3, ClaimsRow
  <1>4. ASSUME RowKept,
               \/ UNCHANGED <<epoch, nextSeq>>
               \/ (\E c \in Restarts : Restarted(c)) \/ \E c \in Closes : CloseAnswered(c)
        PROVE  /\ \A b \in Ids : from'[b] = 0
               /\ closeRequest' = NoTuple => nextSeq' = 0
    <2>1. ~claimed /\ ~claiming
      <3>1. claimed' = claimed /\ claiming' = claiming
        BY <1>4 DEF RowKept
      <3> QED
        BY <3>1, Zenon
    <2>2. (\A b \in Ids : from[b] = 0) /\ (closeRequest = NoTuple => nextSeq = 0)
      BY <1>0, <2>1 DEF NothingYet
    <2>3. \A b \in Ids : from'[b] = 0
      BY <1>4, <2>2 DEF RowKept
    <2>4. closeRequest # NoTuple => closeRequest' # NoTuple
      BY <1>0, CloseStays
    <2>5. CASE UNCHANGED <<epoch, nextSeq>>
      BY <2>2, <2>3, <2>4, <2>5
    <2>6. CASE \E c \in Restarts : Restarted(c)
      <3>1. nextSeq' = 0
        <4>1. PICK c \in Restarts : Restarted(c)
          BY <2>6
        <4>2. epoch' = epoch + 1 /\ epoch \in Nat
          BY <1>0, <4>1, BatchTypes DEF Restarted
        <4>3. epoch' # epoch
          BY <4>2
        <4> QED
          BY <4>1, <4>3 DEF Restarted, FinishRestart
      <3> QED
        BY <2>3, <3>1
    <2>7. CASE \E c \in Closes : CloseAnswered(c)
      <3>1. closeRequest # NoTuple
        BY <1>0, <2>7, AnsweredClose
      <3> QED
        BY <2>3, <2>4, <3>1
    <2> QED
      BY <1>4, <2>5, <2>6, <2>7
  <1> QED
    BY <1>0, <1>1, <1>2, <1>3, <1>4, RowSteps

LEMMA NextFirstLeads ==
  ASSUME SequenceInv, StuckInv, [Next]_vars
  PROVE  FirstLeads'
  <1> SUFFICES ASSUME NEW f \in Ids, NEW b \in Ids, first'[f], from'[b] # 0
               PROVE  f <= b
    BY DEF FirstLeads
  <1>0. /\ TypeInv /\ BatchInv /\ ClaimInv /\ EpochInv /\ WaitingNamed /\ NothingYet
        /\ f \in Nat /\ b \in Nat /\ emitted \in Nat
    BY BatchTypes DEF SequenceInv, StuckInv
  <1>1. CASE UNCHANGED <<from, first>>
    <2>1. first[f] /\ from[b] # 0
      BY <1>1
    <2> QED
      BY <2>1 DEF StuckInv, FirstLeads
  <1>2. ASSUME NEW last \in Ids, Emitted(last)
        PROVE  f <= b
    <2>1. last > emitted /\ last \in Nat
      BY <1>0, <1>2, EmittedRow, BatchTypes
    <2>2. CASE f = last
      <3>1. ~claimed /\ ~claiming
        <4>1. first'[last] <=> (~claimed /\ ~claiming)
          BY <1>0, <1>2, EmittedRow
        <4> QED
          BY <2>2, <4>1
      <3>2. b # last => from[b] # 0
        BY <1>0, <1>2, EmittedRow
      <3> QED
        BY <1>0, <2>2, <3>1, <3>2 DEF NothingYet
    <2>3. CASE f # last
      <3>1. first'[f] = first[f]
        BY <1>0, <1>2, <2>3, EmittedRow
      <3>2. first[f]
        BY <3>1
      <3>3. f <= emitted
        BY <1>0, <3>2 DEF BatchInv, PendingUntouched
      <3>4. b # last => from[b] # 0
        BY <1>0, <1>2, EmittedRow
      <3>5. b # last => f <= b
        BY <3>2, <3>4 DEF StuckInv, FirstLeads
      <3> QED
        BY <1>0, <2>1, <3>3, <3>5
    <2> QED
      BY <2>2, <2>3
  <1>3. ASSUME NEW d \in Ids, Worker(d), Reclaimed(d) \/ Claims(d)
        PROVE  UNCHANGED <<from, first>>
    BY <1>0, <1>3, ReclaimedRow, ClaimsRow
  <1> QED
    BY <1>0, <1>1, <1>2, <1>3, RowSteps DEF RowKept

LEMMA NextEmerged ==
  ASSUME SequenceInv, StuckInv, [Next]_vars
  PROVE  Emerged'
  <1> SUFFICES ASSUME NEW b \in Ids
               PROVE  /\ from'[b] # 0 => phase'[b] # "none"
                      /\ scope' = "live" => phase'[b] # "dead"
    BY DEF Emerged
  <1>0. /\ TypeInv /\ BatchInv /\ ClaimInv /\ EpochInv /\ WaitingNamed
    BY DEF SequenceInv, StuckInv
  <1>1. ASSUME from'[b] = from[b], from[b] # 0
        PROVE  phase'[b] # "none"
    <2>1. phase[b] # "none"
      BY <1>1 DEF StuckInv, Emerged
    <2> QED
      BY <1>0, <2>1, QueueSteps
  <1>2. ASSUME NEW last \in Ids, Emitted(last)
        PROVE  from'[b] = from[b] \/ phase'[b] \in {"offer", "queued"}
    BY <1>0, <1>2, EmittedRow
  <1>3. ASSUME NEW d \in Ids, Worker(d), Reclaimed(d) \/ Claims(d)
        PROVE  from' = from
    BY <1>0, <1>3, ReclaimedRow, ClaimsRow
  <1>4. from'[b] # 0 => phase'[b] # "none"
    BY <1>0, <1>1, <1>2, <1>3, RowSteps DEF RowKept
  <1>5. ASSUME scope' = "live"
        PROVE  phase'[b] # "dead"
    <2>1. phase[b] # "dead"
      BY <1>5, ScopeSteps DEF StuckInv, Emerged
    <2> QED
      BY <1>0, <1>5, <2>1, QueueSteps
  <1> QED
    BY <1>4, <1>5

LEMMA NextNamedEmerged ==
  ASSUME SequenceInv, StuckInv, [Next]_vars
  PROVE  NamedEmerged'
  <1>0. /\ TypeInv /\ BatchInv /\ ClaimInv /\ EpochInv /\ WaitingNamed /\ NamedEmerged
    BY DEF SequenceInv, StuckInv
  <1>1. CASE RowKept
    BY <1>0, <1>1 DEF RowKept, NamedEmerged
  <1>2. ASSUME NEW d \in Ids, Worker(d), Reclaimed(d) \/ Claims(d)
        PROVE  NamedEmerged'
    BY <1>0, <1>2, ReclaimedRow, ClaimsRow DEF NamedEmerged
  <1>3. ASSUME NEW last \in Ids, Emitted(last)
        PROVE  NamedEmerged'
    BY <1>0, <1>3, EmittedRow, BatchTypes DEF NamedEmerged
  <1> QED
    BY <1>0, <1>1, <1>2, <1>3, RowSteps

LEMMA NextNamesInOrder ==
  ASSUME SequenceInv, StuckInv, [Next]_vars
  PROVE  NamesInOrder'
  <1> SUFFICES ASSUME NEW b \in Ids, NEW c \in Ids, b < c,
                      Name(b)' # NoTuple, Name(c)' # NoTuple,
                      (Name(b)').epoch = (Name(c)').epoch
               PROVE  (Name(b)').seq < (Name(c)').seq
    BY DEF NamesInOrder
  <1>0. /\ TypeInv /\ BatchInv /\ ClaimInv /\ EpochInv /\ WaitingNamed
        /\ b \in Nat /\ c \in Nat /\ emitted \in Nat /\ epoch \in Nat /\ nextSeq \in Nat
    BY BatchTypes DEF SequenceInv, StuckInv
  <1>1. Name(b) # NoTuple /\ Name(c) # NoTuple /\ Name(b).epoch = Name(c).epoch =>
          Name(b).seq < Name(c).seq
    BY DEF StuckInv, NamesInOrder
  <1>2. \A a \in Ids : Name(a) # NoTuple => Below(Name(a))
    BY DEF SequenceInv, NameInv, NamesUsed
  <1>3. CASE Name(b)' = Name(b) /\ Name(c)' = Name(c)
    BY <1>1, <1>3
  <1>4. ASSUME NEW last \in Ids, Emitted(last)
        PROVE  (Name(b)').seq < (Name(c)').seq
    <2>1. last > emitted /\ last \in Nat
      BY <1>0, <1>4, EmittedRow, BatchTypes
    <2>2. CASE last = c
      <3>1. Name(b)' = Name(b) /\ Name(c)' \in {NoTuple, [epoch |-> epoch, seq |-> nextSeq]}
        BY <1>0, <1>4, <2>2, EmittedRow
      <3>2. (Name(c)').epoch = epoch /\ (Name(c)').seq = nextSeq
        BY <3>1
      <3>3. Name(b).epoch = epoch
        BY <3>1, <3>2
      <3>4. Below(Name(b))
        BY <1>2, <3>1
      <3> QED
        BY <1>0, <3>1, <3>2, <3>3, <3>4 DEF Below
    <2>3. CASE last = b
      <3>1. c > emitted /\ c # last
        BY <1>0, <2>1, <2>3
      <3>2. Name(c)' = Name(c) /\ tuple[c] = NoTuple /\ req[c] = NoTuple
        BY <1>0, <1>4, <3>1, EmittedRow DEF BatchInv, PendingUntouched
      <3> QED
        BY <3>2 DEF Name
    <2>4. CASE last # b /\ last # c
      BY <1>0, <1>3, <1>4, <2>4, EmittedRow
    <2> QED
      BY <2>2, <2>3, <2>4
  <1>5. ASSUME NEW d \in Ids, Worker(d), Reclaimed(d)
        PROVE  (Name(b)').seq < (Name(c)').seq
    <2>1. /\ epoch' > epoch /\ epoch' \in Int /\ Name(d)' = [epoch |-> epoch', seq |-> 0]
          /\ \A a \in Ids : a # d => Name(a)' = Name(a)
      <3>1. epoch' \in Int
        <4>1. reply[d].num \in Nat
          BY <1>0, BatchTypes DEF Answer
        <4> QED
          BY <1>5, <4>1 DEF Reclaimed
      <3> QED
        BY <1>0, <1>5, <3>1, ReclaimedRow
    <2>2. \A a \in Ids : Name(a) # NoTuple => Name(a).epoch # epoch'
      <3>1. \A a \in Ids : Name(a).epoch \in Int
        BY <1>0, NameTypes, ServerTypes
      <3> QED
        BY <1>0, <1>2, <2>1, <3>1 DEF Below
    <2>3. b # d /\ c # d
      BY <1>0, <2>1, <2>2
    <2> QED
      BY <1>3, <2>1, <2>3
  <1>6. ASSUME NEW d \in Ids, Worker(d), Claims(d)
        PROVE  (Name(b)').seq < (Name(c)').seq
    <2>1. /\ \A h \in Ids : h \in Held =>
               Name(h)' = [epoch |-> epoch, seq |-> SeqOfHeld(h)] /\ from[h] # 0
          /\ \A h \in Ids : h \notin Held => Name(h)' = Name(h)
      BY <1>0, <1>6, ClaimsRow
    <2>2. CASE b \in Held /\ c \in Held
      BY <1>0, <2>1, <2>2, HeldInOrder
    <2>3. CASE b \notin Held /\ c \in Held
      <3>1. Name(b)' = Name(b) /\ (Name(c)').epoch = epoch /\ (Name(c)').seq = SeqOfHeld(c)
        BY <2>1, <2>3
      <3>2. Below(Name(b)) /\ Name(b).epoch = epoch
        BY <1>2, <3>1
      <3>3. SeqOfHeld(c) \in Nat /\ SeqOfHeld(c) >= nextSeq
        BY <1>0, <2>3, HeldInOrder
      <3>4. Name(b).seq \in Int
        BY <1>0, NameTypes, ServerTypes
      <3> QED
        BY <1>0, <3>1, <3>2, <3>3, <3>4 DEF Below
    <2>4. CASE b \in Held /\ c \notin Held
      <3>1. Name(c) # NoTuple /\ ~claimed
        BY <1>6, <2>1, <2>4 DEF Claims
      <3>2. first[c]
        BY <1>0, <3>1 DEF ClaimInv, BeforeClaim, Name
      <3>3. c <= b
        BY <2>1, <2>4, <3>2 DEF StuckInv, FirstLeads
      <3> QED
        BY <1>0, <3>3
    <2>5. CASE b \notin Held /\ c \notin Held
      BY <1>3, <2>1, <2>5
    <2> QED
      BY <2>2, <2>3, <2>4, <2>5
  <1> QED
    BY <1>0, <1>3, <1>4, <1>5, <1>6, RowSteps DEF RowKept
LEMMA NextMapNames ==
  ASSUME SequenceInv, StuckInv, OneLifecycle, [Next]_vars
  PROVE  MapNames'
  <1> SUFFICES ASSUME closeRequest' = NoTuple, NEW q \in Seqs, sequences'[q] # 0
               PROVE  Name(sequences[q])' = [epoch |-> epoch', seq |-> q]
    BY DEF MapNames
  <1>0. /\ TypeInv /\ BatchInv /\ ClaimInv /\ CloseInv /\ EpochInv /\ WaitingNamed /\ FirstZero
        /\ EmittedAdmitted /\ sequences \in [Seqs -> 0..MaxEntries] /\ epoch \in Nat
    BY BatchTypes DEF SequenceInv, StuckInv, BatchInv, TypeInv, TypeOK, SequencingType
  <1>1. closeRequest = NoTuple
    BY <1>0, CloseStays
  <1>2. ASSUME NEW w \in Ids, sequences'[q] = w, Name(w)' = [epoch |-> epoch', seq |-> q]
        PROVE  Name(sequences[q])' = [epoch |-> epoch', seq |-> q]
    BY <1>2 DEF Name
  <1>3. ASSUME sequences'[q] = sequences[q]
        PROVE  Name(sequences[q])' = [epoch |-> epoch', seq |-> q]
    <2>1. PICK w \in Ids : w = sequences[q]
      BY <1>0, <1>3, OptionsAssumption DEF Ids
    <2>2. Name(w) = [epoch |-> epoch, seq |-> q]
      BY <1>1, <1>3, <2>1 DEF StuckInv, MapNames
    <2>3. Name(w) # NoTuple
      BY <1>0, <2>2 DEF NoTuple
    <2>4. ASSUME RowKept, UNCHANGED <<epoch, nextSeq>>
          PROVE  Name(w)' = [epoch |-> epoch', seq |-> q]
      BY <2>2, <2>4 DEF RowKept
    <2>5. ASSUME NEW c \in Restarts, Restarted(c)
          PROVE  FALSE
      <3>1. epoch' # epoch
        BY <1>0, <2>5 DEF Restarted
      <3>2. sequences'[q] = 0
        BY <2>5, <3>1 DEF Restarted, FinishRestart
      <3> QED
        BY <3>2
    <2>6. ASSUME NEW c \in Closes, CloseAnswered(c)
          PROVE  FALSE
      BY <1>0, <1>1, <2>6, AnsweredClose
    <2>7. ASSUME NEW last \in Ids, Emitted(last)
          PROVE  Name(w)' = [epoch |-> epoch', seq |-> q]
      <3>1. w # last
        <4>1. tuple[last] = NoTuple /\ req[last] = NoTuple
          BY <1>0, <2>7, EmittedRow
        <4> QED
          BY <2>3, <4>1 DEF Name
      <3> QED
        BY <1>0, <2>2, <2>7, <3>1, EmittedRow
    <2>8. ASSUME NEW d \in Ids, Worker(d), Reclaimed(d)
          PROVE  Name(w)' = [epoch |-> epoch', seq |-> q]
      <3>1. first[d] /\ ~claimed /\ Name(d)' = [epoch |-> epoch', seq |-> 0]
        BY <1>0, <2>8, ReclaimedRow
      <3>2. first[w]
        BY <1>0, <2>3, <3>1 DEF ClaimInv, BeforeClaim, Name
      <3>3. w = d
        BY <1>0, <3>1, <3>2 DEF ClaimInv, FirstOnce
      <3>4. q = 0
        BY <1>0, <2>2, <2>3, <3>2 DEF FirstZero
      <3> QED
        BY <3>1, <3>3, <3>4
    <2>9. ASSUME NEW d \in Ids, Worker(d), Claims(d)
          PROVE  Name(w)' = [epoch |-> epoch', seq |-> q]
      <3>1. w \notin Held
        BY <1>0, <2>3 DEF Held, BatchInv, UnsentUnnamed, Name
      <3> QED
        BY <1>0, <2>2, <2>9, <3>1, ClaimsRow
    <2>10. Name(w)' = [epoch |-> epoch', seq |-> q]
      BY <1>0, <2>4, <2>5, <2>6, <2>7, <2>8, <2>9, RowSteps
    <2> QED
      BY <1>2, <1>3, <2>1, <2>10
  <1>4. ASSUME NEW last \in Ids, Emitted(last), sequences'[q] = last,
               Name(last)' = [epoch |-> epoch, seq |-> q]
        PROVE  Name(sequences[q])' = [epoch |-> epoch', seq |-> q]
    <2>1. epoch' = epoch
      BY <1>0, <1>4, EmittedRow
    <2> QED
      BY <1>2, <1>4, <2>1
  <1>5. ASSUME NEW d \in Ids, NEW h \in Ids, Worker(d), Claims(d), sequences'[q] = h,
               Name(h)' = [epoch |-> epoch, seq |-> q]
        PROVE  Name(sequences[q])' = [epoch |-> epoch', seq |-> q]
    <2>1. epoch' = epoch
      BY <1>0, <1>5, ClaimsRow
    <2> QED
      BY <1>2, <1>5, <2>1
  <1> QED
    BY <1>0, <1>3, <1>4, <1>5, MapSteps

\* A batch stays in its offer as long as its emitter holds the mutex.
LEMMA OfferSteps ==
  ASSUME TypeInv, BatchInv, OfferLast, [Next]_vars, scope' # "closed", NEW b \in Ids,
         phase'[b] = "offer"
  PROVE  b = emitted' /\ mutex' # Free
  <1>0. /\ EmittedAdmitted /\ scope # "closed" /\ phase \in [Slots -> Phases] /\ b \in Slots
        /\ id \in Nat /\ emitted \in Nat /\ MaxEntries \in Nat
    <2>1. scope # "closed"
      BY ScopeSteps DEF StopBegin
    <2> QED
      BY <2>1, BatchTypes, OptionsAssumption DEF BatchInv
  \* An emission, which waits for the mutex.
  <1>1. ASSUME NEW last \in Ids, Emitted(last), NEW by, by # Free, Emit(last, by), mutex = Free
        PROVE  b = emitted' /\ mutex' # Free
    <2>1. b = last
      <3>1. b # last => phase[b] = "offer"
        BY <1>1, EmittedRow
      <3> QED
        BY <1>0, <1>1, <3>1 DEF OfferLast
    <2>2. phase' = [phase EXCEPT ![last] = IF QueueFull THEN "offer" ELSE "queued"]
      BY <1>1 DEF Emit
    <2>3. QueueFull
      BY <1>0, <2>1, <2>2
    <2> QED
      BY <1>1, <2>1, <2>3 DEF Emit
  <1>2. \A c \in Calls \cup {Timer} : c # Free
    BY CallsAssumption
  \* Otherwise the batch has been in its offer.
  <1>3. ASSUME phase[b] = "offer", mutex' = mutex, emitted' = emitted
        PROVE  b = emitted' /\ mutex' # Free
    BY <1>0, <1>3 DEF OfferLast
  <1>4. ASSUME NEW a \in Ids, phase[a] = "offer", NEW l, phase' = [phase EXCEPT ![a] = l],
               l # "offer"
        PROVE  FALSE
    <2>1. b # a
      BY <1>0, <1>4
    <2>2. phase[b] = "offer"
      BY <1>0, <1>4, <2>1
    <2> QED
      BY <1>0, <1>4, <2>1, <2>2 DEF OfferLast
  <1>5. ASSUME NEW c \in Calls, Call(c)
        PROVE  b = emitted' /\ mutex' # Free
    <2>1. CASE \/ BeginAppend(c) \/ Receive(c) \/ EndSource(c) \/ EndFlush(c)
               \/ BeginDetach(c) \/ BeginRestart(c) \/ ShutAdmission(c) \/ FinishRestart(c)
               \/ BeginClose(c) \/ SendClose(c) \/ CloseAnswered(c) \/ CloseStopped(c)
      <3>1. /\ mutex' = mutex /\ emitted' = emitted
            /\ phase' = phase \/ \E l : phase' = [phase EXCEPT ![0] = l]
        BY <2>1 DEF BeginAppend, Receive, EndSource, EndFlush, BeginDetach, BeginRestart,
           ShutAdmission, FinishRestart, BeginClose, SendClose, CloseAnswered, CloseStopped,
           requests
      <3>2. phase[b] = "offer"
        BY <1>0, <3>1, BatchTypes
      <3> QED
        BY <1>3, <3>1, <3>2
    <2>2. CASE Stopped(c)
      BY <1>0, <2>2 DEF Stopped
    <2>3. CASE Admit(c)
      <3>1. CASE Emit(id + 1, c) /\ id < MaxEntries /\ id' = id + 1
        <4>1. id + 1 \in Ids /\ id + 1 > emitted
          BY <1>0, <3>1 DEF Ids, EmittedAdmitted
        <4>2. Emitted(id + 1) /\ mutex = Free
          BY <2>3, <3>1, <4>1 DEF Emitted, Admit, settled
        <4> QED
          BY <1>1, <1>2, <3>1, <4>1, <4>2
      <3>2. CASE ~(Emit(id + 1, c) /\ id < MaxEntries /\ id' = id + 1)
        BY <1>3, <2>3, <3>2 DEF Admit, NothingEmitted
      <3> QED
        BY <3>1, <3>2
    <2>4. CASE Flush(c)
      <3>1. CASE emitted < id
        <4>1. Emit(id, c) /\ id' = id /\ mutex = Free
          BY <2>4, <3>1 DEF Flush
        <4>2. id \in Ids /\ id > emitted
          BY <1>0, <3>1, BatchTypes DEF Ids
        <4>3. Emitted(id)
          BY <2>4, <4>1, <4>2 DEF Emitted, Flush, settled
        <4> QED
          BY <1>1, <1>2, <4>1, <4>2, <4>3
      <3>2. CASE ~(emitted < id)
        BY <1>3, <2>4, <3>2 DEF Flush, NothingEmitted
      <3> QED
        BY <3>1, <3>2
    <2> QED
      BY <1>5, <2>1, <2>2, <2>3, <2>4 DEF Call
  <1>6. CASE Linger
    <2>1. Emit(id, Timer) /\ id' = id /\ emitted < id /\ mutex = Free
      BY <1>0, <1>6 DEF Linger, EmittedAdmitted
    <2>2. id \in Ids
      BY <1>0, <2>1, BatchTypes DEF Ids
    <2>3. Emitted(id)
      BY <1>6, <2>1, <2>2 DEF Emitted, Linger, settled
    <2> QED
      BY <1>1, <1>2, <2>1, <2>2, <2>3
  <1>7. CASE Offered \/ LingerStopped \/ \E c \in Calls : Interrupt(c)
    <2>1. CASE \E a \in Ids : phase[a] = "offer" /\ phase' = [phase EXCEPT ![a] = "queued"]
      BY <1>4, <2>1
    <2>2. CASE \E a \in Ids : phase[a] = "offer" /\ Complete(a, "int", sequences)
      BY <1>4, <2>2 DEF Complete
    <2>3. CASE /\ mutex' = mutex /\ emitted' = emitted
               /\ phase' = phase \/ phase' = [phase EXCEPT ![0] = "none"]
      <3>1. phase[b] = "offer"
        BY <1>0, <2>3, BatchTypes
      <3> QED
        BY <1>3, <2>3, <3>1
    <2>4. CASE Offered
      BY <1>0, <2>1, <2>4 DEF Offered
    <2> QED
      BY <1>7, <2>1, <2>2, <2>3, <2>4 DEF LingerStopped, Interrupt
  <1>8. ~StopEnd
    BY DEF StopEnd
  <1>9. CASE \/ ServeStray \/ ForeignClaim \/ StopBegin \/ UNCHANGED vars
             \/ (\E s \in Slots : Serve(s) \/ Fault(s)) \/ \E d \in Ids : Worker(d)
    <2>1. mutex' = mutex /\ emitted' = emitted
      <3>1. CASE \E d \in Ids : Worker(d)
        BY <1>0, <3>1, WorkerShape DEF WorkerKeeps, admission
      <3>2. CASE ~\E d \in Ids : Worker(d)
        BY <1>9, <3>2 DEF ServeStray, ForeignClaim, StopBegin, vars, Serve, Fault, admission
      <3> QED
        BY <3>1, <3>2
    <2>2. ~Emitted(b)
      BY <1>0, <2>1, BatchTypes DEF Emitted, Emit
    <2>3. phase[b] = "offer"
      BY <2>2, QueueSteps
    <2> QED
      BY <1>3, <2>1, <2>3
  <1> QED
    BY <1>5, <1>6, <1>7, <1>8, <1>9 DEF Next, Terminated, Fiber
LEMMA NextQueueOrder ==
  ASSUME SequenceInv, StuckInv, [Next]_vars
  PROVE  QueueOrder'
  <1> SUFFICES ASSUME scope' # "closed", NEW b \in Ids, NEW c \in Ids, b < c,
                      phase'[b] \in {"offer", "queued"}, phase'[c] \in Working
               PROVE  FALSE
    BY DEF QueueOrder
  <1>0. /\ TypeInv /\ BatchInv /\ scope # "closed" /\ OfferLast /\ QueueOrder
        /\ b \in Nat /\ c \in Nat /\ emitted \in Nat
    BY ScopeSteps, BatchTypes DEF SequenceInv, StuckInv, StopBegin
  <1>1. phase[c] \in Active
    BY <1>0, PhaseSteps
  <1>2. c <= emitted
    BY <1>0, <1>1 DEF BatchInv, PendingUntouched, Active, Working
  <1>3. phase[b] \in {"offer", "queued"}
    <2>1. ~Emitted(b)
      BY <1>0, <1>2, EmittedRow
    <2> QED
      BY <1>0, <2>1, QueueSteps
  <1>4. phase[c] \notin Working
    BY <1>0, <1>3 DEF QueueOrder
  <1>5. Take(c)
    BY <1>0, <1>4, QueueSteps
  <1>6. phase[b] = "queued"
    BY <1>0, <1>2, <1>3 DEF OfferLast
  <1>7. c <= b
    BY <1>5, <1>6 DEF Take, Queued
  <1> QED
    BY <1>0, <1>7

LEMMA NextHeeded ==
  ASSUME SequenceInv, StuckInv, [Next]_vars
  PROVE  Heeded'
  <1> SUFFICES ASSUME NEW b \in Ids, phase'[b] = "replied"
               PROVE  reply'[b].kind # "none"
    BY DEF Heeded
  <1>0. /\ TypeInv /\ EmittedAdmitted /\ b \in Slots /\ phase \in [Slots -> Phases]
        /\ reply \in [Slots -> Answer]
    BY BatchTypes DEF SequenceInv, BatchInv
  <1>1. phase[b] = "replied" => reply[b].kind # "none"
    BY DEF StuckInv, Heeded
  <1>2. CASE Offline
    BY <1>0, <1>1, <1>2 DEF Offline
  <1>3. CASE ServeStray \/ ForeignClaim
    BY <1>1, <1>3 DEF ServeStray, ForeignClaim, requests
  <1>4. ASSUME NEW s \in Slots, GivenUp(s)
        PROVE  reply'[b].kind # "none"
    BY <1>0, <1>1, <1>4 DEF GivenUp
  <1>5. ASSUME NEW s \in Slots, Serve(s)
        PROVE  reply'[b].kind # "none"
    <2>1. phase' = [phase EXCEPT ![s] = "replied"]
      BY <1>5 DEF Serve
    <2>2. \E r : reply' = [reply EXCEPT ![s] = r] /\ r.kind # "none"
      <3>1. CASE Accept(s, req[s])
        <4> DEFINE r == [kind |-> "ok", num |-> 0, offset |-> Len(log) + 1, closed |-> s = 0]
        <4>1. Accepts(req[s])
          BY <3>1 DEF Accept
        <4>2. reply' = [reply EXCEPT ![s] = r]
          BY <1>5, <4>1 DEF Serve
        <4>3. r.kind # "none"
          OBVIOUS
        <4> HIDE DEF r
        <4> QED
          BY <4>2, <4>3
      <3>2. ASSUME NEW r \in Refusals(req[s])
            PROVE  r.kind # "none"
        BY <3>2 DEF Refusals
      <3> QED
        BY <1>5, <3>1, <3>2 DEF Serve
    <2> QED
      BY <1>0, <1>1, <2>1, <2>2
  <1>6. ASSUME NEW s \in Slots, Fault(s)
        PROVE  reply'[b].kind # "none"
    <2>1. /\ phase' = [phase EXCEPT ![s] = "replied"]
          /\ reply' = [reply EXCEPT ![s] = [NoAnswer EXCEPT !.kind = "rejected"]]
      BY <1>6 DEF Fault
    <2>2. [NoAnswer EXCEPT !.kind = "rejected"].kind = "rejected"
      BY DEF NoAnswer
    <2> QED
      BY <1>0, <1>1, <2>1, <2>2
  <1> QED
    BY <1>0, <1>2, <1>3, <1>4, <1>5, <1>6, NetShape

LEMMA NextClaimUnderWay ==
  ASSUME SequenceInv, StuckInv, [Next]_vars
  PROVE  ClaimUnderWay'
  <1>0. /\ TypeInv /\ BatchInv /\ ClaimInv /\ EpochInv /\ WaitingNamed /\ EmittedAdmitted
    BY DEF SequenceInv, StuckInv, BatchInv
  <1>1. \A b \in Ids : phase'[b] = "claimwait" => AutoClaim
    BY <1>0, QueueSteps DEF StuckInv, ClaimUnderWay, ClaimInv, NoClaim
  <1>2. ASSUME AutoClaim, claiming', claim' = "open", scope' = "live"
        PROVE  \E f \in Ids : first'[f] /\ phase'[f] \in InFlight \cup {"queued"}
    <2>1. claim = "open" /\ scope = "live"
      BY <1>0, <1>2, ClaimSettles, ScopeSteps DEF Outcomes, Failures
    <2>2. CASE claiming
      <3>1. PICK f \in Ids : first[f] /\ phase[f] \in InFlight \cup {"queued"}
        BY <1>2, <2>1, <2>2 DEF StuckInv, ClaimUnderWay
      <3>2. first'[f]
        <4>1. ASSUME NEW last \in Ids, Emitted(last)
              PROVE  first'[f] = first[f]
          <5>1. phase[last] = "none"
            BY <1>0, <4>1, EmittedRow
          <5> QED
            BY <1>0, <3>1, <4>1, <5>1, EmittedRow DEF InFlight
        <4>2. ASSUME NEW d \in Ids, Worker(d), Reclaimed(d) \/ Claims(d)
              PROVE  first' = first
          BY <1>0, <4>2, ReclaimedRow, ClaimsRow
        <4> QED
          BY <1>0, <3>1, <4>1, <4>2, RowSteps DEF RowKept
      <3>3. ASSUME NEW d \in Ids, Worker(d)
            PROVE  phase'[f] \in InFlight \cup {"queued"}
        <4>1. CASE d # f
          <5>1. \E l : phase' = [phase EXCEPT ![d] = l]
            BY <1>0, <3>3, WorkerShape DEF Started, Reclaimed, Settled, Moved, Finish, Complete
          <5> QED
            BY <1>0, <3>1, <4>1, <5>1, BatchTypes
        <4>2. CASE d = f
          <5>1. CASE Started(f) \/ Reclaimed(f)
            BY <1>0, <5>1, BatchTypes DEF Started, Reclaimed, InFlight
          <5>2. ASSUME NEW out \in Outcomes, Settled(f, out)
                PROVE  FALSE
            <6>1. claim' = out
              BY <3>1, <5>2 DEF Settled, Finish
            <6> QED
              BY <1>2, <6>1 DEF Outcomes, Failures
          <5>3. ASSUME NEW l \in Phases, Moved(f, l)
                PROVE  phase'[f] \in InFlight \cup {"queued"}
            <6>1. phase'[f] = l
              BY <1>0, <5>3, BatchTypes DEF Moved
            <6>2. l \in {"sent", "gapwait"}
              BY <2>1, <3>1, <5>3 DEF Moved
            <6> QED
              BY <6>1, <6>2 DEF InFlight
          <5> QED
            BY <1>0, <3>3, <4>2, <5>1, <5>2, <5>3, WorkerShape
        <4> QED
          BY <4>1, <4>2
      <3>4. ASSUME Quiet \/ Pending
            PROVE  phase'[f] \in InFlight \cup {"queued"}
        <4>1. phase'[f] = phase[f]
          BY <3>4 DEF Quiet, Pending
        <4> QED
          BY <3>1, <4>1
      <3>5. ~StopEnd
        BY <1>2 DEF StopEnd
      <3>6. ASSUME NEW last \in Ids, Emitted(last)
            PROVE  phase'[f] \in InFlight \cup {"queued"}
        BY <1>0, <3>1, <3>6, EmittedRow DEF InFlight
      <3>7. ASSUME NEW d \in Ids, Answered(d) \/ OfferEnds(d)
            PROVE  phase'[f] \in InFlight \cup {"queued"}
        <4>1. CASE d = f
          BY <1>0, <3>1, <3>7, <4>1, BatchTypes DEF Answered, OfferEnds, InFlight
        <4>2. CASE d # f
          <5>1. \E l : phase' = [phase EXCEPT ![d] = l]
            BY <3>7 DEF Answered, OfferEnds, Complete
          <5> QED
            BY <1>0, <3>1, <4>2, <5>1, BatchTypes
        <4> QED
          BY <4>1, <4>2
      <3>8. phase'[f] \in InFlight \cup {"queued"}
        BY <1>0, <3>3, <3>4, <3>5, <3>6, <3>7, NextShape
      <3> QED
        BY <3>2, <3>8
    <2>3. CASE ~claiming
      <3>1. ASSUME claiming' = claiming
            PROVE  FALSE
        BY <1>2, <2>3, <3>1, Zenon
      <3>2. \E last \in Ids : Emitted(last)
        <4>1. ASSUME NEW d \in Ids, Worker(d), Reclaimed(d) \/ Claims(d)
              PROVE  claiming' = claiming
          BY <1>0, <4>1, ReclaimedRow, ClaimsRow
        <4> QED
          BY <1>0, <3>1, <4>1, RowSteps DEF RowKept
      <3>3. PICK last \in Ids : Emitted(last)
        BY <3>2
      <3>4. ~claimed
        BY <1>2, <2>3 DEF SequenceInv, ClaimInv, Unclaimed
      <3>5. first'[last] /\ phase'[last] \in {"offer", "queued"}
        <4>1. first'[last] <=> (~claimed /\ ~claiming)
          BY <1>0, <3>3, EmittedRow
        <4>2. phase'[last] \in {"offer", "queued"}
          BY <1>0, <3>3, EmittedRow
        <4> QED
          BY <2>3, <3>4, <4>1, <4>2
      <3>6. phase'[last] # "offer"
        <4>1. ClaimInv'
          BY <1>0, NextClaim
        <4> QED
          BY <3>5, <4>1 DEF ClaimInv, FirstNeverWaits
      <3> QED
        BY <3>5, <3>6
    <2> QED
      BY <2>2, <2>3
  <1> QED
    BY <1>1, <1>2 DEF ClaimUnderWay

LEMMA NextStuck ==
  ASSUME OneLifecycle, SequenceInv, StuckInv, [Next]_vars
  PROVE  StuckInv'
  <1>0. /\ TypeInv /\ BatchInv /\ ClaimInv /\ EpochInv /\ WaitingNamed /\ OfferLast /\ FirstZero
        /\ ~claimed /\ ~claiming /\ closeRequest = NoTuple => nextSeq = 0
    BY DEF SequenceInv, StuckInv, NothingYet
  <1>1. WaitingNamed' /\ FirstZero'
    BY <1>0, NextWaitingNamed, NextFirstZero
  <1>2. OfferLast'
    BY <1>0, OfferSteps DEF OfferLast
  <1> QED
    BY <1>1, <1>2, NextNothingYet, NextEmerged, NextNamedEmerged, NextFirstLeads,
       NextNamesInOrder, NextMapNames, NextWaitsBack, NextQueueOrder, NextClaimUnderWay, NextHeeded DEF StuckInv

LEMMA InitStuck == Init => StuckInv
  <1> SUFFICES ASSUME Init PROVE StuckInv
    OBVIOUS
  <1>1. \A b \in Ids : /\ b \in Slots /\ phase[b] = "none" /\ Name(b) = NoTuple
                       /\ from[b] = 0 /\ first[b] = FALSE
    BY DEF Init, Name, Ids, Slots
  <1>2. /\ claiming = FALSE /\ claim = "open" /\ nextSeq = 0 /\ scope = "live"
        /\ \A q \in Seqs : sequences[q] = 0
    BY DEF Init
  <1> QED
    BY <1>1, <1>2 DEF StuckInv, WaitingNamed, NamedEmerged, FirstZero, NothingYet, Emerged,
       FirstLeads,
       NamesInOrder, MapNames, WaitsBack, OfferLast, QueueOrder, ClaimUnderWay, Heeded, Working

\* The first of the batches that are with a worker waits for none of them.
LEMMA FirstRuns ==
  ASSUME SequenceInv, StuckInv, scope = "live",
         NEW b \in Ids, phase[b] \in Working, \A c \in InWork : b <= c
  PROVE  Runnable(b)
  <1>0. /\ TypeInv /\ ClaimInv /\ epoch \in Nat /\ b \in Nat /\ \A c \in Ids : c \in Nat
        /\ phase \in [Slots -> Phases] /\ \A c \in Ids : c \in Slots
    BY BatchTypes DEF SequenceInv
  <1>1. CASE phase[b] \in {"sent", "replied"}
    BY <1>1 DEF Runnable, StuckInv, Heeded
  <1>2. CASE phase[b] = "gapwait"
    <2> DEFINE w == waitFor[b]
    <2>1. w \in Ids /\ Name(w).epoch = epoch /\ Name(w).seq < req[b].seq
      BY <1>2 DEF StuckInv, WaitsBack
    <2> HIDE DEF w
    <2>2. Name(b) = req[b] /\ req[b] # NoTuple /\ req[b].epoch = epoch
      BY <1>2 DEF SequenceInv, EpochInv, TupleNow, InFlight, Name
    <2>3. Name(w) # NoTuple
      BY <1>0, <2>1 DEF NoTuple
    <2>4. w < b
      <3>1. Name(w).seq \in Int /\ Name(b).seq \in Int
        BY <1>0, <2>1, NameTypes
      <3>2. w # b
        BY <2>1, <2>2, <3>1
      <3>3. ~(b < w)
        BY <2>1, <2>2, <2>3, <3>1 DEF StuckInv, NamesInOrder
      <3> QED
        BY <1>0, <2>1, <3>2, <3>3
    <2>5. phase[w] \notin Working
      BY <1>0, <2>1, <2>4 DEF InWork
    <2>6. phase[w] \notin {"offer", "queued"}
      BY <2>1, <2>4 DEF StuckInv, QueueOrder
    <2>7. phase[w] \notin {"none", "dead"}
      <3>1. from[w] # 0
        BY <2>1, <2>3 DEF StuckInv, NamedEmerged
      <3> QED
        BY <2>1, <3>1 DEF StuckInv, Emerged
    <2>8. phase[w] \in Outcomes
      BY <1>0, <2>1, <2>5, <2>6, <2>7 DEF Phases
    <2> QED
      BY <1>2, <2>8 DEF Runnable, w
  <1>3. CASE phase[b] = "claimwait"
    <2>1. CASE claim # "open"
      BY <1>3, <2>1 DEF Runnable
    <2>2. CASE claim = "open"
      <3>1. AutoClaim /\ claiming
        <4>1. AutoClaim
          BY <1>3 DEF StuckInv, ClaimUnderWay
        <4>2. phase[b] # "none"
          BY <1>3
        <4> QED
          BY <1>0, <4>1, <4>2 DEF ClaimInv, Unclaimed
      <3>2. PICK f \in Ids : first[f] /\ phase[f] \in InFlight \cup {"queued"}
        BY <2>2, <3>1 DEF StuckInv, ClaimUnderWay
      <3>3. f <= b /\ f # b
        <4>1. from[b] # 0
          BY DEF SequenceInv, BatchInv, UnsettledOpen, Active
        <4> QED
          BY <1>3, <3>2, <4>1 DEF StuckInv, FirstLeads, InFlight
      <3>4. f \notin InWork
        BY <1>0, <3>2, <3>3
      <3>5. phase[f] = "queued"
        BY <3>2, <3>4 DEF InWork, InFlight, Working
      <3> QED
        BY <1>0, <3>2, <3>3, <3>5 DEF StuckInv, QueueOrder
    <2> QED
      BY <2>1, <2>2
  <1> QED
    BY <1>1, <1>2, <1>3 DEF Working

LEMMA LeastOf ==
  ASSUME NEW S \in SUBSET Ids, S # {}
  PROVE  \E b \in S : \A c \in S : b <= c
  <1> DEFINE less == OpToRel(<, Nat)
  <1>0. S \subseteq Nat
    BY DEF Ids
  <1>1. \E b \in S : \A c \in S : <<c, b>> \notin less
    <2>1. IsWellFoundedOn(less, Nat)
      BY NatLessThanWellFounded
    <2> HIDE DEF less
    <2> QED BY <1>0, <2>1, WFMin
  <1>2. \A b, c \in Nat : <<c, b>> \notin less => b <= c
    BY DEF OpToRel
  <1> HIDE DEF less
  <1> QED BY <1>0, <1>1, <1>2

LEMMA SomeRuns ==
  ASSUME SequenceInv, StuckInv
  PROVE  NeverStuck
  <1> SUFFICES ASSUME scope = "live", NEW a \in Ids, phase[a] \in Active
               PROVE  \E b \in Ids : Runnable(b)
    BY DEF NeverStuck
  <1>1. CASE InWork # {}
    <2>1. PICK b \in InWork : \A c \in InWork : b <= c
      BY <1>1, LeastOf DEF InWork
    <2>2. b \in Ids /\ phase[b] \in Working
      BY <2>1 DEF InWork
    <2> QED
      BY <2>1, <2>2, FirstRuns
  <1>2. CASE InWork = {} /\ Queued # {}
    <2>1. PICK b \in Queued : \A c \in Queued : b <= c
      BY <1>2, LeastOf DEF Queued
    <2>2. b \in Ids /\ phase[b] = "queued"
      BY <2>1 DEF Queued
    <2>3. InWork \cup Dead = {}
      BY <1>2 DEF StuckInv, Emerged, Dead
    <2>4. Cardinality(InWork \cup Dead) < MaxInFlight
      BY <2>3, FS_EmptySet, OptionsAssumption
    <2> QED
      BY <2>1, <2>2, <2>4 DEF Runnable
  <1>3. CASE InWork = {} /\ Queued = {}
    <2>1. phase[a] = "offer"
      BY <1>3 DEF InWork, Queued, Active
    <2>2. mutex # Free
      BY <2>1 DEF StuckInv, OfferLast
    <2>3. ~QueueFull
      BY <1>3, FS_EmptySet, OptionsAssumption DEF QueueFull
    <2> QED
      BY <2>1, <2>2, <2>3 DEF Runnable
  <1> QED
    BY <1>1, <1>2, <1>3

\* While the producer lives and some batch is on its way, a step of some batch
\* can be taken: the workers never all wait, each for the claim or for a batch
\* that is behind it in the queue.  It is what Producer's loops over `sequences`
\* rely on, and the safety core of CallsReturn.  One claimant per producer is
\* needed: where a second writer lets two batches of an epoch be fenced, the later
\* claim restarts the sequence and the map names a batch that no worker has taken.
THEOREM WorkersNeverStuck ==
  ASSUME OneLifecycle, OneClaimant
  PROVE  Spec => []NeverStuck
  <1> DEFINE Inv == SequenceInv /\ StuckInv
  <1>1. Init => Inv
    BY InitSequence, InitStuck
  <1>2. Inv /\ [Next]_vars => Inv'
    BY NextSequence, NextStuck
  <1>3. Inv => NeverStuck
    BY SomeRuns
  <1> QED
    BY <1>1, <1>2, <1>3, PTL DEF Spec

=============================================================================
